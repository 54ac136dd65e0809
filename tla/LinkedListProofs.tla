-------------------------- MODULE LinkedListProofs --------------------------
(***************************************************************************)
(* LinkedList, for any threads and any heap: the list stays well formed,   *)
(* no element leaks or has two owners, and every statement of list_add and *)
(* list_pop is a step of the queue FifoList or leaves it alone.            *)
(***************************************************************************)
EXTENDS LinkedList, TLAPS, FiniteSetTheorems, SequenceTheorems,
        WellFoundedInduction

\* Exactly the holder of list_mutex is inside a call.
Inside(t) == pc[t] \notin {"idle", "use"}
MutexInv ==
    /\ \A t \in Threads : Inside(t) <=> mutex = t
    /\ \A t \in Adders : pc[t] \in {"idle", "add_alloc", "add_link", "add_tail",
                                    "add_data", "add_unlock"}
    /\ \A t \in Poppers : pc[t] \in {"idle", "pop_head", "pop_unlink", "pop_unlock", "use"}

\* There is a chain at every statement, and it is made of allocated nodes.
ChainInv ==
    /\ Chain \in Walks
    /\ IsChain(Chain)
    /\ OnList \subseteq allocated

\* tail is the last node, except that it lags behind between AddLink and
\* AddTail.
Last == IF Chain = <<>> THEN Null ELSE Chain[Len(Chain)]
TailInv ==
    /\ (\A t \in Adders : pc[t] # "add_tail") => tail = Last
    /\ \A t \in Adders : pc[t] = "add_tail" => tail \in OnList \cup {Null} /\ Last = e[t]

\* The element of an adder is off the list until AddLink, and on it from then
\* on.
AddInv ==
    \A t \in Adders :
        /\ pc[t] # "idle" => arg[t] \in Items
        /\ pc[t] \in {"idle", "add_alloc"} => e[t] = Null
        /\ pc[t] = "add_link" => e[t] \in allocated \ OnList /\ next[e[t]] = Null
        /\ pc[t] \in {"add_tail", "add_data", "add_unlock"} => e[t] \in OnList
        /\ pc[t] = "add_unlock" => data[e[t]] = arg[t]

\* The element of a popper is the head of the list until PopUnlink, and its
\* own, with an item, until Free.
PopInv ==
    \A t \in Poppers :
        /\ pc[t] \in {"idle", "pop_head"} => e[t] = Null
        /\ pc[t] = "pop_unlink" => e[t] = head
        /\ pc[t] = "use" => e[t] # Null
        /\ InUse(t) => e[t] \in allocated \ OnList /\ data[e[t]] \in Items
        /\ \A u \in Threads \ {t} : InUse(t) => e[u] # e[t]

\* What is on the list has an item, or is about to get it.
DataInv ==
    \A n \in OnList : data[n] \in Items \/ \E t \in Adders : InAdd(t) /\ e[t] = n

ListInv == TypeOK /\ MutexInv /\ ChainInv /\ TailInv /\ AddInv /\ PopInv /\ DataInv /\ NoLeak
-----------------------------------------------------------------------------
(* The chain is the only one                                                *)

\* Every set of natural numbers has a least element.
LEMMA LeastNumber ==
    ASSUME NEW T \in SUBSET Nat, T # {}
    PROVE  \E x \in T : \A y \in T : x <= y
<1> DEFINE Less == {ss \in Nat \X Nat : ss[1] < ss[2]}
<1>1. IsWellFoundedOn(Less, Nat)
  BY NatLessThanWellFounded DEF OpToRel
<1>2. PICK x \in T : \A y \in T : ~(<<y, x>> \in Less)
  BY <1>1, WFMin
<1>3. ASSUME NEW y \in T PROVE x <= y
  <2>1. <<y, x>> \in Less <=> y < x
    OBVIOUS
  <2> QED
    BY <1>2, <2>1
<1> QED
  BY <1>3

\* A sequence without repetition is no longer than the heap is large.
LEMMA WalkIs ==
    ASSUME NEW q
    PROVE  q \in Walks <=> /\ q \in Seq(Nodes)
                           /\ \A i, j \in DOMAIN q : q[i] = q[j] => i = j
<1>1. ASSUME q \in Walks PROVE q \in Seq(Nodes)
  BY <1>1 DEF Walks
<1>2. ASSUME q \in Seq(Nodes), \A i, j \in DOMAIN q : q[i] = q[j] => i = j
      PROVE  q \in Walks
  <2>1. q \in [1..Len(q) -> Nodes] /\ Len(q) \in Nat /\ DOMAIN q = 1..Len(q)
    BY <1>2
  <2>2. q \in Injection(1..Len(q), Nodes)
    BY <1>2, <2>1 DEF Injection, IsInjective
  <2>3. Cardinality(1..Len(q)) <= Cardinality(Nodes)
    BY <2>2, FS_Injection, ListAssumption
  <2>4. Cardinality(1..Len(q)) = Len(q)
    <3>1. 1 \in Int /\ Len(q) \in Int
      BY <2>1
    <3>2. Cardinality(1..Len(q)) = IF 1 > Len(q) THEN 0 ELSE Len(q) - 1 + 1
      BY <3>1, FS_Interval
    <3> QED
      BY <2>1, <3>2
  <2>5. Cardinality(Nodes) \in Nat
    BY ListAssumption, FS_CardinalityType
  <2>6. Len(q) \in 0..Cardinality(Nodes)
    BY <2>1, <2>3, <2>4, <2>5
  <2> QED
    BY <1>2, <2>1, <2>6 DEF Walks
<1>3. ASSUME q \in Walks PROVE \A i, j \in DOMAIN q : q[i] = q[j] => i = j
  BY <1>3 DEF Walks
<1> QED
  BY <1>1, <1>2, <1>3

\* q starts at h, and f leads from each node to the next and then to NULL.
Follows(q, h, f) ==
    /\ h = IF q = <<>> THEN Null ELSE q[1]
    /\ \A i \in DOMAIN q : f[q[i]] = IF i = Len(q) THEN Null ELSE q[i + 1]

\* Two chains from one pointer do not part, as there is no first place where
\* they could.
LEMMA ChainsAgree ==
    ASSUME NEW p \in Seq(Nodes), NEW q \in Seq(Nodes), NEW h, NEW f,
           Follows(p, h, f), Follows(q, h, f)
    PROVE  \A i \in 1..Len(p) : i \in 1..Len(q) /\ p[i] = q[i]
<1> DEFINE Bad == {i \in 1..Len(p) : ~(i \in 1..Len(q) /\ p[i] = q[i])}
<1>0. /\ Len(p) \in Nat /\ DOMAIN p = 1..Len(p) /\ \A i \in 1..Len(p) : p[i] \in Nodes
      /\ Len(q) \in Nat /\ DOMAIN q = 1..Len(q) /\ \A i \in 1..Len(q) : q[i] \in Nodes
      /\ Null \notin Nodes
  BY ListAssumption
<1>1. SUFFICES ASSUME Bad # {} PROVE FALSE
  OBVIOUS
<1>2. Bad \in SUBSET Nat
  BY <1>0
<1>3. PICK i \in Bad : \A j \in Bad : i <= j
  BY <1>1, <1>2, LeastNumber
<1>4. CASE i = 1
  <2>1. p # <<>> /\ h = p[1] /\ p[1] \in Nodes
    BY <1>0, <1>3, <1>4 DEF Follows
  <2>2. q # <<>> /\ h = q[1]
    BY <1>0, <2>1 DEF Follows
  <2>3. 1 \in 1..Len(q)
    BY <1>0, <2>2
  <2> QED
    BY <1>3, <1>4, <2>1, <2>2, <2>3
<1>5. CASE i # 1
  <2>1. /\ i \in Nat /\ i \in 1..Len(p) /\ i - 1 \in 1..Len(p) /\ i - 1 # Len(p)
        /\ (i - 1) + 1 = i
    BY <1>0, <1>3, <1>5
  <2>2. i - 1 \notin Bad
    BY <1>3, <2>1
  <2>3. i - 1 \in 1..Len(q) /\ p[i - 1] = q[i - 1]
    BY <2>1, <2>2
  <2>4. f[p[i - 1]] = p[i] /\ p[i] \in Nodes
    BY <1>0, <2>1 DEF Follows
  <2>5. f[q[i - 1]] = IF i - 1 = Len(q) THEN Null ELSE q[i]
    BY <1>0, <2>1, <2>3 DEF Follows
  <2>6. i - 1 # Len(q) /\ p[i] = q[i]
    BY <1>0, <2>3, <2>4, <2>5
  <2>7. i \in 1..Len(q)
    BY <1>0, <2>1, <2>3, <2>6
  <2> QED
    BY <1>3, <2>6, <2>7
<1> QED
  BY <1>4, <1>5

LEMMA ChainUnique ==
    ASSUME NEW p \in Seq(Nodes), NEW q \in Seq(Nodes), NEW h, NEW f,
           Follows(p, h, f), Follows(q, h, f)
    PROVE  p = q
<1>1. /\ \A i \in 1..Len(p) : i \in 1..Len(q) /\ p[i] = q[i]
      /\ \A i \in 1..Len(q) : i \in 1..Len(p) /\ p[i] = q[i]
  BY ChainsAgree
<1>2. Len(p) \in Nat /\ Len(q) \in Nat
  OBVIOUS
<1>3. Len(p) = Len(q)
  BY <1>1, <1>2
<1> QED
  BY <1>1, <1>3

\* What the chain is, in a state and in the next one.
LEMMA ChainIs ==
    ASSUME NEW q \in Walks, Follows(q, head, next)
    PROVE  Chain = q /\ IsChain(Chain)
<1>1. IsChain(q) /\ \A p : IsChain(p) => Follows(p, head, next)
  BY DEF IsChain, Follows
<1>2. Chain \in Walks /\ IsChain(Chain)
  BY <1>1 DEF Chain
<1> QED
  BY <1>1, <1>2, ChainUnique, WalkIs

LEMMA ChainIsNext ==
    ASSUME NEW q \in Walks, Follows(q, head', next')
    PROVE  Chain' = q /\ IsChain(Chain)'
<1>1. IsChain(q)' /\ \A p : IsChain(p)' => Follows(p, head', next')
  BY DEF IsChain, Follows
<1>2. Chain' \in Walks /\ IsChain(Chain)'
  BY <1>1 DEF Chain, Walks
<1> QED
  BY <1>1, <1>2, ChainUnique, WalkIs

-----------------------------------------------------------------------------
(* How the chain changes                                                    *)

LEMMA ChainFacts ==
    ASSUME ChainInv
    PROVE  /\ Chain \in Seq(Nodes) /\ Len(Chain) \in Nat /\ DOMAIN Chain = 1..Len(Chain)
           /\ \A i \in 1..Len(Chain) : Chain[i] \in Nodes /\ Chain[i] \in OnList
           /\ \A i, j \in 1..Len(Chain) : Chain[i] = Chain[j] => i = j
           /\ \A n \in OnList : \E i \in 1..Len(Chain) : n = Chain[i]
           /\ OnList \subseteq Nodes
           /\ Chain = <<>> <=> Len(Chain) = 0
           /\ Chain # <<>> => 1 \in 1..Len(Chain) /\ Len(Chain) \in 1..Len(Chain)
           /\ Null \notin Nodes
<1>1. /\ Chain \in Seq(Nodes) /\ \A i, j \in DOMAIN Chain : Chain[i] = Chain[j] => i = j
  BY WalkIs DEF ChainInv
<1>2. /\ Len(Chain) \in Nat /\ DOMAIN Chain = 1..Len(Chain)
      /\ \A i \in 1..Len(Chain) : Chain[i] \in Nodes
      /\ Chain = <<>> <=> Len(Chain) = 0
  BY <1>1
<1>3. /\ \A i \in 1..Len(Chain) : Chain[i] \in OnList
      /\ \A n \in OnList : \E i \in 1..Len(Chain) : n = Chain[i]
  BY <1>2 DEF OnList
<1>4. Chain # <<>> => 1 \in 1..Len(Chain) /\ Len(Chain) \in 1..Len(Chain)
  BY <1>2
<1>5. OnList \subseteq Nodes
  BY <1>2, <1>3
<1> QED
  BY <1>1, <1>2, <1>3, <1>4, <1>5, ListAssumption

\* The last node and NULL.
LEMMA LastFacts ==
    ASSUME ChainInv
    PROVE  /\ Last = Null <=> Chain = <<>>
           /\ Chain # <<>> => Last \in OnList /\ Last \in Nodes /\ next[Last] = Null
           /\ head = Null <=> Chain = <<>>
           /\ Chain # <<>> => head = Chain[1] /\ head \in OnList
           /\ head = Last => Len(Chain) \in {0, 1}
<1>1. IsChain(Chain)
  BY DEF ChainInv
<1>2. head = IF Chain = <<>> THEN Null ELSE Chain[1]
  BY <1>1 DEF IsChain
<1>3. Chain # <<>> => next[Chain[Len(Chain)]] = Null
  BY <1>1, ChainFacts DEF IsChain
<1>4. CASE Chain = <<>>
  BY <1>2, <1>4, ChainFacts DEF Last
<1>5. CASE Chain # <<>>
  BY <1>2, <1>3, <1>5, ChainFacts DEF Last
<1> QED
  BY <1>4, <1>5

\* Where head and the next fields of the list are left alone, so is the list.
LEMMA ChainStays ==
    ASSUME ChainInv, head' = head, \A n \in OnList : next'[n] = next[n]
    PROVE  Chain' = Chain /\ IsChain(Chain)' /\ OnList' = OnList /\ Last' = Last
<1>1. IsChain(Chain) /\ Chain \in Walks
  BY DEF ChainInv
<1>2. Follows(Chain, head', next')
  BY <1>1, ChainFacts DEF IsChain, Follows
<1>3. Chain' = Chain /\ IsChain(Chain)'
  BY <1>1, <1>2, ChainIsNext
<1> QED
  BY <1>3 DEF OnList, Last

\* A node linked behind the last one, or as the first.
LEMMA ChainGrows ==
    ASSUME ChainInv, next \in [Nodes -> Pointers],
           NEW n \in Nodes \ OnList, next[n] = Null,
           head' = IF Chain = <<>> THEN n ELSE head,
           next' = IF Chain = <<>> THEN next ELSE [next EXCEPT ![Last] = n]
    PROVE  /\ Chain' = Append(Chain, n) /\ Chain' \in Walks /\ IsChain(Chain)'
           /\ OnList' = OnList \cup {n}
           /\ Last' = n
<1> DEFINE q == Append(Chain, n)
           L == Len(Chain)
<1>1. /\ q \in Seq(Nodes) /\ Len(q) = L + 1 /\ DOMAIN q = 1..(L + 1)
      /\ L \in Nat /\ q[L + 1] = n /\ q # <<>>
      /\ \A i \in 1..L : q[i] = Chain[i]
  BY ChainFacts
<1>2. n # Null /\ \A i \in 1..L : Chain[i] # n
  BY ChainFacts
<1>3. ASSUME NEW i \in 1..(L + 1), NEW j \in 1..(L + 1), q[i] = q[j]
      PROVE  i = j
  <2>1. i \in 1..L \/ i = L + 1
    BY <1>1
  <2>2. j \in 1..L \/ j = L + 1
    BY <1>1
  <2> QED
    BY <1>1, <1>2, <1>3, <2>1, <2>2, ChainFacts
<1>4. q \in Walks
  BY <1>1, <1>3, WalkIs
<1>5. head' = q[1]
  <2>1. CASE Chain = <<>>
    BY <1>1, <2>1, ChainFacts
  <2>2. CASE Chain # <<>>
    BY <1>1, <2>2, ChainFacts, LastFacts
  <2> QED
    BY <2>1, <2>2
<1>6. ASSUME NEW i \in 1..(L + 1)
      PROVE  next'[q[i]] = IF i = L + 1 THEN Null ELSE q[i + 1]
  <2>1. CASE i = L + 1
    <3>1. Chain # <<>> => Last # n
      BY LastFacts
    <3> QED
      BY <1>1, <2>1, <3>1
  <2>2. CASE i = L /\ i # L + 1
    <3>1. Chain # <<>> /\ i \in 1..L
      BY <1>1, <2>2, ChainFacts
    <3>2. q[i] = Last /\ Last \in Nodes
      BY <1>1, <2>2, <3>1, LastFacts DEF Last
    <3> QED
      BY <1>1, <2>2, <3>1, <3>2
  <2>3. CASE i # L /\ i # L + 1
    <3>0. i \in 1..L /\ i + 1 \in 1..L /\ L # 0
      BY <1>1, <2>3
    <3>1. i \in 1..L /\ i + 1 \in 1..L /\ Chain # <<>> /\ L \in 1..L
      BY <3>0, ChainFacts
    <3>2. next[Chain[i]] = Chain[i + 1]
      BY <2>3, <3>1, ChainFacts DEF ChainInv, IsChain
    <3>3. Chain[i] # Last /\ Chain[i] \in Nodes
      BY <2>3, <3>1, ChainFacts DEF Last
    <3> QED
      BY <1>1, <2>3, <3>1, <3>2, <3>3
  <2> QED
    BY <2>1, <2>2, <2>3
<1>7. Follows(q, head', next')
  BY <1>1, <1>5, <1>6 DEF Follows
<1>8. Chain' = q /\ IsChain(Chain)'
  BY <1>4, <1>7, ChainIsNext
<1>9. OnList' = OnList \cup {n}
  <2>1. OnList' = {q[i] : i \in 1..(L + 1)} /\ OnList = {Chain[i] : i \in 1..L}
    BY <1>1, <1>8, ChainFacts DEF OnList
  <2>2. 1..(L + 1) = (1..L) \cup {L + 1} /\ L + 1 \notin 1..L
    BY <1>1
  <2> QED
    BY <1>1, <2>1, <2>2
<1> QED
  BY <1>1, <1>4, <1>8, <1>9 DEF Last

\* The first node unlinked.
LEMMA ChainShrinks ==
    ASSUME ChainInv, Chain # <<>>, head' = next[head], next' = next
    PROVE  /\ Chain' = Tail(Chain) /\ Chain' \in Walks /\ IsChain(Chain)'
           /\ OnList' = OnList \ {head}
           /\ Last' = IF Len(Chain) = 1 THEN Null ELSE Last
<1> DEFINE q == Tail(Chain)
           L == Len(Chain)
<1>1. /\ q \in Seq(Nodes) /\ Len(q) = L - 1 /\ DOMAIN q = 1..(L - 1)
      /\ L \in Nat /\ L >= 1
      /\ \A i \in 1..(L - 1) : q[i] = Chain[i + 1] /\ i + 1 \in 1..L
      /\ q = <<>> <=> L = 1
  <2>1. Chain \in Seq(Nodes) /\ L \in Nat /\ L # 0
    BY ChainFacts
  <2>2. /\ q \in Seq(Nodes) /\ Len(q) = L - 1
        /\ \A i \in 1..Len(q) : q[i] = Chain[i + 1]
    BY <2>1, HeadTailProperties
  <2>3. L >= 1 /\ \A i \in 1..(L - 1) : i + 1 \in 1..L
    BY <2>1
  <2>4. \A i \in 1..(L - 1) : q[i] = Chain[i + 1]
    BY <2>2
  <2>5. DOMAIN q = 1..(L - 1)
    BY <2>2
  <2>6. q = <<>> <=> L = 1
    <3>1. q = <<>> => Len(q) = 0
      BY EmptySeq
    <3>2. q # <<>> => Len(q) # 0
      BY <2>2, EmptySeq
    <3> HIDE DEF q
    <3> QED
      BY <2>1, <2>2, <3>1, <3>2
  <2> QED
    BY <2>1, <2>2, <2>3, <2>4, <2>5, <2>6
<1>2. \A i \in 1..L : next[Chain[i]] = IF i = L THEN Null ELSE Chain[i + 1]
  BY ChainFacts DEF ChainInv, IsChain
<1>3. head = Chain[1] /\ head \in OnList
  BY LastFacts
<1>4. q \in Walks
  <2>1. ASSUME NEW i \in 1..(L - 1), NEW j \in 1..(L - 1), q[i] = q[j] PROVE i = j
    <3>1. i + 1 \in 1..L /\ j + 1 \in 1..L /\ Chain[i + 1] = Chain[j + 1]
      BY <1>1, <2>1
    <3>2. i + 1 = j + 1
      BY <3>1, ChainFacts
    <3> QED
      BY <3>2
  <2> QED
    BY <1>1, <2>1, WalkIs
<1>5. head' = IF q = <<>> THEN Null ELSE q[1]
  <2>0. 1 \in 1..L
    BY <1>1
  <2>1. head' = IF 1 = L THEN Null ELSE Chain[2]
    BY <1>2, <1>3, <2>0
  <2>2. L # 1 => 1 \in 1..(L - 1)
    BY <1>1
  <2> QED
    BY <1>1, <2>1, <2>2
<1>6. ASSUME NEW i \in 1..(L - 1)
      PROVE  next'[q[i]] = IF i = L - 1 THEN Null ELSE q[i + 1]
  <2>1. q[i] = Chain[i + 1] /\ i + 1 \in 1..L
    BY <1>1
  <2>2. next'[q[i]] = IF i + 1 = L THEN Null ELSE Chain[(i + 1) + 1]
    BY <1>2, <2>1
  <2>3. i + 1 = L <=> i = L - 1
    BY <1>1
  <2>4. ASSUME i # L - 1 PROVE i + 1 \in 1..(L - 1)
    <3>1. L \in Nat /\ i \in Nat /\ i >= 1 /\ i <= L - 1
      BY <1>1
    <3> HIDE DEF L
    <3> QED
      BY <2>4, <3>1
  <2> QED
    BY <1>1, <2>2, <2>3, <2>4
<1>7. Follows(q, head', next')
  BY <1>1, <1>5, <1>6 DEF Follows
<1>8. Chain' = q /\ IsChain(Chain)'
  BY <1>4, <1>7, ChainIsNext
<1>9. OnList' = OnList \ {head}
  <2>1. OnList' = {q[i] : i \in 1..(L - 1)}
    <3>1. OnList' = {q[i] : i \in DOMAIN q}
      BY <1>8 DEF OnList
    <3> QED
      BY <1>1, <3>1
  <2>2. ASSUME NEW n \in OnList' PROVE n \in OnList /\ n # head
    <3>1. PICK i \in 1..(L - 1) : n = q[i]
      BY <2>1, <2>2
    <3>2. n = Chain[i + 1] /\ i + 1 \in 1..L /\ i + 1 # 1 /\ 1 \in 1..L
      BY <1>1, <3>1
    <3> QED
      BY <1>3, <3>2, ChainFacts
  <2>3. ASSUME NEW n \in OnList, n # head PROVE n \in OnList'
    <3>1. PICK i \in 1..L : n = Chain[i]
      BY <2>3, ChainFacts
    <3>2. i - 1 \in 1..(L - 1) /\ (i - 1) + 1 = i
      BY <1>1, <1>3, <2>3, <3>1
    <3>3. n = q[i - 1]
      BY <1>1, <3>1, <3>2
    <3> QED
      BY <2>1, <3>2, <3>3
  <2> QED
    BY <2>2, <2>3
<1>10. Last' = IF L = 1 THEN Null ELSE Last
  <2>1. CASE L = 1
    BY <1>1, <1>8, <2>1 DEF Last
  <2>2. CASE L # 1
    <3>1. L - 1 \in 1..(L - 1) /\ (L - 1) + 1 = L
      BY <1>1, <2>2
    <3>2. q[L - 1] = Chain[L]
      BY <1>1, <3>1
    <3> QED
      BY <1>1, <1>8, <2>2, <3>2 DEF Last
  <2> QED
    BY <2>1, <2>2
<1> QED
  BY <1>4, <1>8, <1>9, <1>10

-----------------------------------------------------------------------------
(* Types and the mutex                                                      *)

LEMMA ListInit == Init => ListInv
<1> SUFFICES ASSUME Init PROVE ListInv
  OBVIOUS
<1>1. TypeOK
  BY ListAssumption DEF Init, TypeOK, Pointers, Lengths
<1>2. MutexInv
  BY ListAssumption DEF Init, MutexInv, Inside, Threads
<1>3. <<>> \in Walks
  <2>1. <<>> \in Seq(Nodes) /\ DOMAIN <<>> = {}
    OBVIOUS
  <2> QED
    BY <2>1, WalkIs
<1>4. Follows(<<>>, head, next)
  BY DEF Init, Follows
<1>5. Chain = <<>> /\ IsChain(Chain)
  BY <1>3, <1>4, ChainIs
<1>6. OnList = {} /\ Last = Null
  BY <1>5 DEF OnList, Last
<1>7. ChainInv /\ TailInv
  BY <1>3, <1>5, <1>6 DEF Init, ChainInv, TailInv, Threads
<1>8. AddInv /\ PopInv /\ DataInv /\ NoLeak
  BY <1>6 DEF Init, AddInv, PopInv, DataInv, NoLeak, InUse, Threads
<1> QED
  BY <1>1, <1>2, <1>7, <1>8 DEF ListInv

LEMMA TypeNext == ListInv /\ [Next]_vars => TypeOK'
<1> SUFFICES ASSUME ListInv, [Next]_vars PROVE TypeOK'
  OBVIOUS
<1> USE DEF ListInv, TypeOK, Goto, Pointers, Lengths, heap
<1>0. Threads = Adders \cup Poppers
  BY DEF Threads
<1>1. ASSUME NEW t \in Adders, NEW x \in Items, NEW len \in Lengths, AddLock(t, x, len) PROVE TypeOK'
  BY <1>0, <1>1 DEF AddLock, Lock
<1>2. ASSUME NEW t \in Adders, AddAlloc(t) PROVE TypeOK'
  BY <1>0, <1>2 DEF AddAlloc
<1>3. ASSUME NEW t \in Adders, AddLink(t) PROVE TypeOK'
  BY <1>0, <1>3 DEF AddLink
<1>4. ASSUME NEW t \in Adders, AddTail(t) PROVE TypeOK'
  BY <1>0, <1>4 DEF AddTail
<1>5. ASSUME NEW t \in Adders, AddData(t) PROVE TypeOK'
  BY <1>0, <1>5 DEF AddData
<1>6. ASSUME NEW t \in Adders, AddUnlock(t) PROVE TypeOK'
  BY <1>0, <1>6 DEF AddUnlock, Unlock
<1>7. ASSUME NEW t \in Poppers, PopLock(t) PROVE TypeOK'
  BY <1>0, <1>7 DEF PopLock, Lock
<1>8. ASSUME NEW t \in Poppers, PopHead(t) PROVE TypeOK'
  BY <1>0, <1>8 DEF PopHead
<1>9. ASSUME NEW t \in Poppers, PopUnlink(t) PROVE TypeOK'
  <2>1. head # tail => head # Null
    <3>1. MutexInv /\ ChainInv /\ TailInv
      OBVIOUS
    <3>2. mutex = t
      BY <1>0, <1>9 DEF PopUnlink, MutexInv, Inside
    <3>3. \A u \in Adders : pc[u] # "add_tail"
      BY <1>0, <1>9, <3>2, ListAssumption DEF PopUnlink, MutexInv, Inside
    <3>4. tail = Last
      BY <3>3 DEF TailInv
    <3> QED
      BY <3>1, <3>4, LastFacts
  <2>2. e[t] = head
    BY <1>9 DEF PopUnlink, PopInv
  <2> QED
    BY <1>0, <1>9, <2>1, <2>2 DEF PopUnlink
<1>10. ASSUME NEW t \in Poppers, PopUnlock(t) PROVE TypeOK'
  BY <1>0, <1>10 DEF PopUnlock, Unlock
<1>11. ASSUME NEW t \in Poppers, Free(t) PROVE TypeOK'
  BY <1>0, <1>11 DEF Free
<1>12. CASE UNCHANGED vars
  BY <1>12 DEF vars
<1> QED
  BY <1>1, <1>2, <1>3, <1>4, <1>5, <1>6, <1>7, <1>8, <1>9, <1>10, <1>11, <1>12
     DEF Next, AddStep, PopStep

LEMMA MutexNext ==
    ASSUME TypeOK, MutexInv, [Next]_vars
    PROVE  MutexInv'
<1>0. /\ Threads = Adders \cup Poppers /\ Adders \cap Poppers = {} /\ Null \notin Threads
      /\ pc \in [Threads -> {"idle", "add_alloc", "add_link", "add_tail", "add_data",
                             "add_unlock", "pop_head", "pop_unlink", "pop_unlock", "use"}]
  BY ListAssumption DEF Threads, TypeOK
<1> USE DEF MutexInv, Inside, Goto
<1>1. ASSUME NEW t \in Adders, NEW x \in Items, NEW len \in Lengths, AddLock(t, x, len)
      PROVE  MutexInv'
  BY <1>0, <1>1 DEF AddLock, Lock
<1>2. ASSUME NEW t \in Adders, AddAlloc(t) \/ AddLink(t) \/ AddTail(t) \/ AddData(t)
      PROVE  MutexInv'
  BY <1>0, <1>2 DEF AddAlloc, AddLink, AddTail, AddData
<1>3. ASSUME NEW t \in Adders, AddUnlock(t) PROVE MutexInv'
  BY <1>0, <1>3 DEF AddUnlock, Unlock
<1>4. ASSUME NEW t \in Poppers, PopLock(t) PROVE MutexInv'
  BY <1>0, <1>4 DEF PopLock, Lock
<1>5. ASSUME NEW t \in Poppers, PopHead(t) \/ PopUnlink(t) PROVE MutexInv'
  BY <1>0, <1>5 DEF PopHead, PopUnlink
<1>6. ASSUME NEW t \in Poppers, PopUnlock(t) PROVE MutexInv'
  BY <1>0, <1>6 DEF PopUnlock, Unlock
<1>7. ASSUME NEW t \in Poppers, Free(t) PROVE MutexInv'
  BY <1>0, <1>7 DEF Free
<1>8. CASE UNCHANGED vars
  BY <1>8 DEF vars
<1> QED
  BY <1>1, <1>2, <1>3, <1>4, <1>5, <1>6, <1>7, <1>8 DEF Next, AddStep, PopStep

\* While a thread is inside a call, no other is.
LEMMA Alone ==
    ASSUME ListInv, NEW t \in Threads, Inside(t)
    PROVE  /\ \A u \in Threads \ {t} : pc[u] \in {"idle", "use"}
           /\ \A u \in Adders \ {t} : pc[u] = "idle" /\ e[u] = Null /\ ~InAdd(u)
<1>1. mutex = t
  BY DEF ListInv, MutexInv
<1>2. \A u \in Threads \ {t} : pc[u] \in {"idle", "use"}
  BY <1>1 DEF ListInv, MutexInv, Inside
<1>3. ASSUME NEW u \in Adders \ {t} PROVE pc[u] = "idle"
  BY <1>2 DEF ListInv, MutexInv, Threads
<1> QED
  BY <1>2, <1>3 DEF ListInv, AddInv, InAdd

-----------------------------------------------------------------------------
(* The other conjuncts, one action at a time                                *)

ShapeInv == ChainInv /\ TailInv /\ AddInv /\ PopInv /\ DataInv /\ NoLeak

\* A step that leaves the list, the elements and their owners alone.
LEMMA OwnersStay ==
    ASSUME ListInv, UNCHANGED <<head, heap>>, UNCHANGED e
    PROVE  Chain' = Chain /\ ChainInv' /\ OnList' = OnList /\ Last' = Last /\ NoLeak'
<1>1. next' = next /\ head' = head /\ allocated' = allocated
  BY DEF heap
<1>2. Chain' = Chain /\ OnList' = OnList /\ Last' = Last /\ IsChain(Chain)'
  BY <1>1, ChainStays DEF ListInv
<1>3. ChainInv'
  BY <1>1, <1>2 DEF ListInv, ChainInv, Walks
<1> QED
  BY <1>1, <1>2, <1>3 DEF ListInv, NoLeak

LEMMA AddLockShape ==
    ASSUME ListInv, MutexInv', NEW t \in Adders, NEW x \in Items, NEW len \in Lengths,
           AddLock(t, x, len)
    PROVE  ShapeInv'
<1>0. UNCHANGED <<tail, head, heap, e>> /\ pc' = [pc EXCEPT ![t] = "add_alloc"] /\ pc[t] = "idle"
  BY DEF AddLock, Goto
<1>1. ChainInv' /\ OnList' = OnList /\ Last' = Last /\ NoLeak'
  BY <1>0, OwnersStay
<1>2. TailInv'
  BY <1>0, <1>1 DEF ListInv, TypeOK, TailInv, Threads
<1>3. AddInv'
  BY <1>0, <1>1 DEF ListInv, TypeOK, AddInv, AddLock, Threads, heap
<1>4. \A u \in Threads : InUse(u)' <=> InUse(u)
  BY <1>0, ListAssumption DEF ListInv, TypeOK, InUse, Threads
<1>5. PopInv'
  BY <1>0, <1>1, <1>4, ListAssumption DEF ListInv, TypeOK, PopInv, Threads, heap
<1>6. DataInv'
  BY <1>0, <1>1 DEF ListInv, TypeOK, DataInv, InAdd, Threads, heap
<1> QED
  BY <1>1, <1>2, <1>3, <1>5, <1>6 DEF ShapeInv

LEMMA AddAllocShape ==
    ASSUME ListInv, TypeOK', NEW t \in Adders, AddAlloc(t)
    PROVE  ShapeInv'
<1>0. /\ UNCHANGED <<tail, head, arg>> /\ pc' = [pc EXCEPT ![t] = "add_link"]
      /\ pc[t] = "add_alloc" /\ t \in Threads /\ e[t] = Null
  BY DEF AddAlloc, Goto, Threads, ListInv, AddInv
<1>1. PICK n \in Nodes \ allocated :
          /\ allocated' = allocated \cup {n}
          /\ next' = [next EXCEPT ![n] = Null]
          /\ data' = [data EXCEPT ![n] = NoItem]
          /\ e' = [e EXCEPT ![t] = n]
  BY DEF AddAlloc
<1>2. n \notin OnList /\ n # Null /\ n \in Nodes
  BY ListAssumption DEF ListInv, ChainInv
<1>3. Chain' = Chain /\ IsChain(Chain)' /\ OnList' = OnList /\ Last' = Last
  <2>1. \A m \in OnList : next'[m] = next[m]
    BY <1>1, <1>2, ChainFacts DEF ListInv, TypeOK
  <2> QED
    BY <1>0, <2>1, ChainStays DEF ListInv
<1>4. ChainInv'
  BY <1>1, <1>3 DEF ListInv, ChainInv, Walks
<1>5. Inside(t)
  BY <1>0 DEF Inside
<1>6. \A u \in Threads \ {t} : pc'[u] = pc[u] /\ e'[u] = e[u] /\ pc[u] \in {"idle", "use"}
  BY <1>0, <1>1, <1>5, Alone DEF ListInv, TypeOK
<1>7. /\ pc'[t] = "add_link" /\ e'[t] = n
      /\ \A u \in Adders \ {t} : pc[u] = "idle" /\ e[u] = Null /\ u \in Threads
  BY <1>0, <1>1, <1>5, Alone DEF ListInv, TypeOK, Threads
<1>8. TailInv'
  BY <1>0, <1>3, <1>6, <1>7 DEF ListInv, TailInv
<1>9. AddInv'
  BY <1>0, <1>1, <1>2, <1>3, <1>6, <1>7 DEF ListInv, TypeOK, AddInv
<1>10. PopInv'
  <2>1. ASSUME NEW u \in Poppers
        PROVE  /\ u \in Threads \ {t} /\ pc'[u] = pc[u] /\ e'[u] = e[u]
               /\ InUse(u)' <=> InUse(u)
    BY <1>0, <1>6, <2>1, ListAssumption DEF Threads, InUse
  <2>2. ASSUME NEW u \in Poppers, InUse(u)
        PROVE  e[u] \in allocated' \ OnList' /\ e[u] # n /\ data'[e[u]] \in Items
    <3>1. e[u] \in allocated \ OnList /\ data[e[u]] \in Items
      BY <2>2 DEF ListInv, PopInv
    <3> QED
      BY <1>1, <1>3, <3>1 DEF ListInv, TypeOK
  <2> QED
    BY <1>0, <1>1, <1>6, <1>7, <2>1, <2>2 DEF ListInv, PopInv
<1>11. DataInv'
  <2>1. ASSUME NEW m \in OnList PROVE data[m] \in Items
    BY <1>0, <1>7 DEF ListInv, DataInv, InAdd
  <2> QED
    BY <1>1, <1>2, <1>3, <2>1, ChainFacts DEF ListInv, TypeOK, DataInv
<1>12. NoLeak'
  <2>1. ASSUME NEW m \in allocated' PROVE m \in OnList' \/ \E u \in Threads : e'[u] = m
    <3>1. CASE m = n
      BY <1>0, <1>7, <3>1
    <3>2. CASE m # n
      BY <1>0, <1>1, <1>2, <1>3, <1>6, <2>1, <3>2, ListAssumption DEF ListInv, NoLeak, TypeOK
    <3> QED
      BY <3>1, <3>2
  <2> QED
    BY <2>1 DEF NoLeak
<1> QED
  BY <1>4, <1>8, <1>9, <1>10, <1>11, <1>12 DEF ShapeInv

LEMMA AddLinkShape ==
    ASSUME ListInv, NEW t \in Adders, AddLink(t)
    PROVE  /\ ShapeInv'
           /\ Chain' = Append(Chain, e[t]) /\ OnList' = OnList \cup {e[t]}
<1>0. /\ UNCHANGED <<tail, arg, data, allocated, e>> /\ pc' = [pc EXCEPT ![t] = "add_tail"]
      /\ pc[t] = "add_link" /\ t \in Threads
  BY DEF AddLink, Goto, Threads
<1>1. e[t] \in Nodes \ OnList /\ e[t] \in allocated /\ next[e[t]] = Null
  BY <1>0 DEF ListInv, AddInv, TypeOK
<1>2. /\ Inside(t) /\ \A u \in Threads \ {t} : pc'[u] = pc[u] /\ pc[u] \in {"idle", "use"}
      /\ \A u \in Adders \ {t} : pc[u] = "idle" /\ e[u] = Null /\ u \in Threads
      /\ pc'[t] = "add_tail"
  BY <1>0, Alone DEF Inside, ListInv, TypeOK, Threads
<1>3. tail = Last
  BY <1>0, <1>2 DEF ListInv, TailInv
<1>4. tail = Null <=> Chain = <<>>
  BY <1>3, LastFacts DEF ListInv
<1>5. /\ head' = IF Chain = <<>> THEN e[t] ELSE head
      /\ next' = IF Chain = <<>> THEN next ELSE [next EXCEPT ![Last] = e[t]]
  BY <1>3, <1>4 DEF AddLink
<1>6. /\ Chain' = Append(Chain, e[t]) /\ Chain' \in Walks /\ IsChain(Chain)'
      /\ OnList' = OnList \cup {e[t]}
      /\ Last' = e[t]
  BY <1>1, <1>5, ChainGrows DEF ListInv, TypeOK
<1>7. ChainInv'
  BY <1>0, <1>1, <1>6 DEF ListInv, ChainInv, Walks
<1>8. TailInv'
  <2>1. tail \in OnList \cup {Null}
    BY <1>3, LastFacts DEF ListInv
  <2> QED
    BY <1>0, <1>2, <1>6, <2>1 DEF TailInv
<1>9. AddInv'
  BY <1>0, <1>2, <1>6 DEF ListInv, AddInv
<1>10. PopInv'
  <2>1. ASSUME NEW u \in Poppers
        PROVE  /\ u \in Threads \ {t} /\ pc'[u] = pc[u] /\ e'[u] = e[u] /\ pc[u] \in {"idle", "use"}
               /\ InUse(u)' <=> InUse(u)
    BY <1>0, <1>2, <2>1, ListAssumption DEF Threads, InUse
  <2>2. ASSUME NEW u \in Poppers, InUse(u)
        PROVE  e[u] \in allocated \ OnList' /\ e[u] # e[t]
    <3>1. e[u] \in allocated \ OnList /\ e[u] # e[t]
      BY <1>0, <2>1, <2>2 DEF ListInv, PopInv
    <3> QED
      BY <1>6, <3>1
  <2> QED
    BY <1>0, <2>1, <2>2 DEF ListInv, PopInv
<1>11. DataInv'
  <2>1. ASSUME NEW m \in OnList PROVE data[m] \in Items \/ m = e[t]
    BY <1>0, <1>2 DEF ListInv, DataInv, InAdd
  <2> QED
    BY <1>0, <1>2, <1>6, <2>1 DEF DataInv, InAdd
<1>12. NoLeak'
  BY <1>0, <1>6 DEF ListInv, NoLeak
<1> QED
  BY <1>6, <1>7, <1>8, <1>9, <1>10, <1>11, <1>12 DEF ShapeInv

LEMMA AddTailShape ==
    ASSUME ListInv, NEW t \in Adders, AddTail(t)
    PROVE  ShapeInv'
<1>0. /\ UNCHANGED <<head, heap, arg, data, allocated, e>> /\ pc' = [pc EXCEPT ![t] = "add_data"]
      /\ pc[t] = "add_tail" /\ t \in Threads /\ tail' = e[t]
  BY DEF AddTail, Goto, Threads, heap
<1>1. /\ Inside(t) /\ \A u \in Threads \ {t} : pc'[u] = pc[u] /\ pc[u] \in {"idle", "use"}
      /\ \A u \in Adders \ {t} : pc[u] = "idle" /\ e[u] = Null /\ u \in Threads
      /\ pc'[t] = "add_data"
  BY <1>0, Alone DEF Inside, ListInv, TypeOK, Threads
<1>2. ChainInv' /\ OnList' = OnList /\ Last' = Last /\ NoLeak'
  BY <1>0, OwnersStay
<1>3. TailInv'
  BY <1>0, <1>1, <1>2 DEF ListInv, TailInv
<1>4. AddInv'
  BY <1>0, <1>1, <1>2 DEF ListInv, AddInv
<1>5. PopInv'
  <2>1. ASSUME NEW u \in Poppers
        PROVE  u \in Threads \ {t} /\ pc'[u] = pc[u] /\ (InUse(u)' <=> InUse(u))
    BY <1>0, <1>1, <2>1, ListAssumption DEF Threads, InUse
  <2> QED
    BY <1>0, <1>2, <2>1 DEF ListInv, PopInv
<1>6. DataInv'
  BY <1>0, <1>1, <1>2 DEF ListInv, DataInv, InAdd
<1> QED
  BY <1>2, <1>3, <1>4, <1>5, <1>6 DEF ShapeInv

LEMMA AddDataShape ==
    ASSUME ListInv, NEW t \in Adders, AddData(t)
    PROVE  ShapeInv' /\ Chain' = Chain
<1>0. /\ UNCHANGED <<head, tail, next, arg, allocated, e>> /\ pc' = [pc EXCEPT ![t] = "add_unlock"]
      /\ pc[t] = "add_data" /\ t \in Threads /\ data' = [data EXCEPT ![e[t]] = arg[t]]
  BY DEF AddData, Goto, Threads
<1>1. /\ Inside(t) /\ \A u \in Threads \ {t} : pc'[u] = pc[u] /\ pc[u] \in {"idle", "use"}
      /\ \A u \in Adders \ {t} : pc[u] = "idle" /\ e[u] = Null /\ u \in Threads
      /\ pc'[t] = "add_unlock"
  BY <1>0, Alone DEF Inside, ListInv, TypeOK, Threads
<1>2. Chain' = Chain /\ IsChain(Chain)' /\ OnList' = OnList /\ Last' = Last
  BY <1>0, ChainStays DEF ListInv
<1>3. e[t] \in OnList /\ e[t] \in Nodes /\ arg[t] \in Items
  BY <1>0, ChainFacts DEF ListInv, AddInv
<1>4. ChainInv' /\ NoLeak'
  BY <1>0, <1>2 DEF ListInv, ChainInv, Walks, NoLeak
<1>5. TailInv'
  BY <1>0, <1>1, <1>2 DEF ListInv, TailInv
<1>6. AddInv'
  BY <1>0, <1>1, <1>2, <1>3 DEF ListInv, TypeOK, AddInv
<1>7. PopInv'
  <2>1. ASSUME NEW u \in Poppers
        PROVE  u \in Threads \ {t} /\ pc'[u] = pc[u] /\ (InUse(u)' <=> InUse(u))
    BY <1>0, <1>1, <2>1, ListAssumption DEF Threads, InUse
  <2>2. ASSUME NEW u \in Poppers, InUse(u) PROVE data'[e[u]] = data[e[u]]
    BY <1>0, <1>3, <2>2 DEF ListInv, TypeOK, PopInv
  <2> QED
    BY <1>0, <1>2, <2>1, <2>2 DEF ListInv, PopInv
<1>8. DataInv'
  BY <1>0, <1>1, <1>2, <1>3, ChainFacts DEF ListInv, TypeOK, DataInv, InAdd
<1> QED
  BY <1>2, <1>4, <1>5, <1>6, <1>7, <1>8 DEF ShapeInv

LEMMA AddUnlockShape ==
    ASSUME ListInv, NEW t \in Adders, AddUnlock(t)
    PROVE  ShapeInv' /\ Chain' = Chain
<1>0. /\ UNCHANGED <<head, tail, next, data, allocated>> /\ pc' = [pc EXCEPT ![t] = "idle"]
      /\ pc[t] = "add_unlock" /\ t \in Threads /\ e' = [e EXCEPT ![t] = Null]
      /\ arg' = [arg EXCEPT ![t] = NoItem]
  BY DEF AddUnlock, Goto, Threads, heap
<1>1. /\ Inside(t) /\ \A u \in Threads \ {t} : pc'[u] = pc[u] /\ pc[u] \in {"idle", "use"} /\ e'[u] = e[u]
      /\ \A u \in Adders \ {t} : pc[u] = "idle" /\ e[u] = Null /\ u \in Threads
      /\ pc'[t] = "idle" /\ e'[t] = Null
  BY <1>0, Alone DEF Inside, ListInv, TypeOK, Threads
<1>2. Chain' = Chain /\ IsChain(Chain)' /\ OnList' = OnList /\ Last' = Last
  BY <1>0, ChainStays DEF ListInv
<1>3. e[t] \in OnList /\ data[e[t]] \in Items
  BY <1>0 DEF ListInv, AddInv
<1>4. ChainInv'
  BY <1>0, <1>2 DEF ListInv, ChainInv, Walks
<1>5. NoLeak'
  BY <1>0, <1>1, <1>2, <1>3 DEF ListInv, NoLeak
<1>6. TailInv'
  BY <1>0, <1>1, <1>2 DEF ListInv, TailInv
<1>7. AddInv'
  BY <1>0, <1>1, <1>2 DEF ListInv, AddInv
<1>8. PopInv'
  <2>1. ASSUME NEW u \in Poppers
        PROVE  /\ u \in Threads \ {t} /\ pc'[u] = pc[u] /\ e'[u] = e[u]
               /\ InUse(u)' <=> InUse(u)
    BY <1>0, <1>1, <2>1, ListAssumption DEF Threads, InUse
  <2>2. ASSUME NEW u \in Poppers, InUse(u) PROVE e[u] # Null
    BY <2>2 DEF InUse
  <2> QED
    BY <1>0, <1>1, <1>2, <2>1, <2>2 DEF ListInv, PopInv
<1>9. DataInv'
  <2>1. ASSUME NEW m \in OnList PROVE data[m] \in Items
    BY <1>0, <1>1, <1>3 DEF ListInv, DataInv, InAdd
  <2> QED
    BY <1>0, <1>2, <2>1 DEF DataInv
<1> QED
  BY <1>2, <1>4, <1>5, <1>6, <1>7, <1>8, <1>9 DEF ShapeInv

\* While a popper is inside a call, no adder is, and every element of the
\* list has its item.
LEMMA PopperAlone ==
    ASSUME ListInv, NEW t \in Poppers, Inside(t)
    PROVE  /\ t \in Threads /\ t \notin Adders
           /\ \A u \in Adders : u \in Threads /\ pc[u] = "idle" /\ e[u] = Null /\ ~InAdd(u)
           /\ \A u \in Threads \ {t} : pc[u] \in {"idle", "use"}
           /\ \A m \in OnList : data[m] \in Items
           /\ tail = Last
<1>1. t \in Threads /\ t \notin Adders
  BY ListAssumption DEF Threads
<1>2. /\ \A u \in Adders : pc[u] = "idle" /\ e[u] = Null /\ ~InAdd(u)
      /\ \A u \in Threads \ {t} : pc[u] \in {"idle", "use"}
  BY <1>1, Alone
<1>3. \A m \in OnList : data[m] \in Items
  BY <1>2 DEF ListInv, DataInv
<1>4. tail = Last
  BY <1>2 DEF ListInv, TailInv
<1> QED
  BY <1>1, <1>2, <1>3, <1>4 DEF Threads

LEMMA PopLockShape ==
    ASSUME ListInv, NEW t \in Poppers, PopLock(t)
    PROVE  ShapeInv'
<1>0. /\ UNCHANGED <<head, tail, heap, data, allocated, e, arg, next>>
      /\ pc' = [pc EXCEPT ![t] = "pop_head"] /\ pc[t] = "idle" /\ t \in Threads /\ t \notin Adders
  BY ListAssumption DEF PopLock, Goto, Threads, heap
<1>1. ChainInv' /\ OnList' = OnList /\ Last' = Last /\ NoLeak'
  BY <1>0, OwnersStay
<1>2. \A u \in Threads : u # t => pc'[u] = pc[u]
  BY <1>0 DEF ListInv, TypeOK
<1>3. \A u \in Adders : pc'[u] = pc[u]
  BY <1>0, <1>2 DEF Threads
<1>4. TailInv' /\ AddInv' /\ DataInv'
  BY <1>0, <1>1, <1>3 DEF ListInv, TailInv, AddInv, DataInv, InAdd
<1>5. PopInv'
  BY <1>0, <1>1, <1>2 DEF ListInv, TypeOK, PopInv, InUse, Threads
<1> QED
  BY <1>1, <1>4, <1>5 DEF ShapeInv

LEMMA PopHeadShape ==
    ASSUME ListInv, NEW t \in Poppers, PopHead(t)
    PROVE  ShapeInv' /\ Chain' = Chain
<1>0. /\ UNCHANGED <<head, tail, data, allocated, arg, next>> /\ e' = [e EXCEPT ![t] = head]
      /\ pc' = [pc EXCEPT ![t] = "pop_unlink"] /\ pc[t] = "pop_head" /\ e[t] = Null
  BY DEF PopHead, Goto, heap, ListInv, PopInv
<1>1. /\ t \in Threads /\ t \notin Adders
      /\ \A u \in Threads \ {t} : pc[u] \in {"idle", "use"} /\ pc'[u] = pc[u] /\ e'[u] = e[u]
      /\ \A u \in Adders : u \in Threads /\ pc[u] = "idle" /\ e[u] = Null /\ pc'[u] = "idle" /\ e'[u] = Null
      /\ \A m \in OnList : data[m] \in Items
      /\ tail = Last /\ pc'[t] = "pop_unlink" /\ e'[t] = head
  BY <1>0, PopperAlone DEF Inside, ListInv, TypeOK
<1>2. Chain' = Chain /\ IsChain(Chain)' /\ OnList' = OnList /\ Last' = Last
  BY <1>0, ChainStays DEF ListInv
<1>3. ChainInv'
  BY <1>0, <1>2 DEF ListInv, ChainInv, Walks
<1>4. TailInv' /\ AddInv' /\ DataInv'
  BY <1>0, <1>1, <1>2 DEF ListInv, TailInv, AddInv, DataInv
<1>5. NoLeak'
  <2>1. ASSUME NEW m \in allocated, m \notin OnList PROVE \E u \in Threads : e'[u] = m
    <3>1. PICK u \in Threads : e[u] = m
      BY <2>1 DEF ListInv, NoLeak
    <3>2. m # Null
      BY <2>1, ListAssumption DEF ListInv, TypeOK
    <3> QED
      BY <1>0, <1>1, <3>1, <3>2
  <2> QED
    BY <1>0, <1>2, <2>1 DEF NoLeak
<1>6. PopInv'
  <2>1. ~InUse(t)'
    BY <1>1 DEF InUse
  <2>2. ASSUME NEW u \in Poppers \ {t}
        PROVE  u \in Threads \ {t} /\ pc'[u] = pc[u] /\ e'[u] = e[u] /\ (InUse(u)' <=> InUse(u))
    BY <1>1 DEF InUse, Threads
  <2>3. ASSUME NEW u \in Poppers \ {t}, InUse(u) PROVE e'[t] # e[u]
    <3>1. e[u] \notin OnList /\ e[u] # Null
      BY <2>3 DEF ListInv, PopInv, InUse
    <3> QED
      BY <1>1, <3>1, LastFacts DEF ListInv
  <2> QED
    BY <1>0, <1>1, <1>2, <2>1, <2>2, <2>3 DEF ListInv, PopInv
<1> QED
  BY <1>2, <1>3, <1>4, <1>5, <1>6 DEF ShapeInv

LEMMA PopUnlinkShape ==
    ASSUME ListInv, NEW t \in Poppers, PopUnlink(t)
    PROVE  /\ ShapeInv'
           /\ Chain = <<>> => e[t] = Null /\ Chain' = <<>>
           /\ Chain # <<>> => e[t] = Chain[1] /\ e[t] # Null /\ Chain' = Tail(Chain)
<1>0. /\ UNCHANGED <<data, allocated, arg, next, e>>
      /\ pc' = [pc EXCEPT ![t] = "pop_unlock"] /\ pc[t] = "pop_unlink" /\ e[t] = head
  BY DEF PopUnlink, Goto, heap, ListInv, PopInv
<1>1. /\ t \in Threads /\ t \notin Adders
      /\ \A u \in Threads \ {t} : pc[u] \in {"idle", "use"} /\ pc'[u] = pc[u]
      /\ \A u \in Adders : u \in Threads /\ pc[u] = "idle" /\ e[u] = Null /\ pc'[u] = "idle"
      /\ \A m \in OnList : data[m] \in Items
      /\ tail = Last /\ pc'[t] = "pop_unlock"
  BY <1>0, PopperAlone DEF Inside, ListInv, TypeOK
<1>2. \A u \in Poppers \ {t} : u \in Threads \ {t} /\ pc'[u] = pc[u] /\ (InUse(u)' <=> InUse(u))
  BY <1>0, <1>1 DEF InUse, Threads
<1>3. InUse(t)' <=> head # Null
  BY <1>0, <1>1 DEF InUse
<1>4. CASE Chain = <<>>
  <2>1. head = Null /\ tail = Null
    BY <1>1, <1>4, LastFacts DEF ListInv
  <2>2. head' = Null /\ tail' = Null
    BY <2>1 DEF PopUnlink
  <2>3. Chain' = Chain /\ IsChain(Chain)' /\ OnList' = OnList /\ Last' = Last
    BY <1>0, <2>1, <2>2, ChainStays DEF ListInv
  <2>4. ChainInv' /\ NoLeak'
    BY <1>0, <2>3 DEF ListInv, ChainInv, Walks, NoLeak
  <2>5. TailInv' /\ AddInv' /\ DataInv'
    BY <1>0, <1>1, <2>1, <2>2, <2>3 DEF ListInv, TailInv, AddInv, DataInv
  <2>6. PopInv'
    BY <1>0, <1>1, <1>2, <1>3, <2>1, <2>3 DEF ListInv, PopInv
  <2> QED
    BY <1>0, <1>4, <2>1, <2>3, <2>4, <2>5, <2>6 DEF ShapeInv
<1>5. CASE Chain # <<>>
  <2>1. /\ head = Chain[1] /\ head \in OnList /\ head # Null /\ Last \in OnList
        /\ next[Last] = Null
        /\ head = Last => Len(Chain) = 1
        /\ Len(Chain) = 1 => Last = head
    BY <1>5, LastFacts, ChainFacts DEF ListInv, Last
  <2>2. /\ head' = next[head]
        /\ tail' = IF Len(Chain) = 1 THEN Null ELSE Last
    BY <1>0, <1>1, <2>1 DEF PopUnlink
  <2>3. /\ Chain' = Tail(Chain) /\ Chain' \in Walks /\ IsChain(Chain)'
        /\ OnList' = OnList \ {head}
        /\ Last' = IF Len(Chain) = 1 THEN Null ELSE Last
    BY <1>0, <1>5, <2>2, ChainShrinks DEF ListInv
  <2>4. ChainInv'
    BY <1>0, <2>3 DEF ListInv, ChainInv, Walks
  <2>5. TailInv' /\ AddInv' /\ DataInv'
    BY <1>0, <1>1, <2>2, <2>3 DEF ListInv, TailInv, AddInv, DataInv
  <2>6. NoLeak'
    BY <1>0, <1>1, <2>3 DEF ListInv, NoLeak
  <2>7. PopInv'
    <3>1. e[t] \in allocated' \ OnList' /\ data'[e[t]] \in Items
      BY <1>0, <1>1, <2>1, <2>3 DEF ListInv, ChainInv
    <3>2. ASSUME NEW u \in Poppers \ {t}, InUse(u)
          PROVE  e[u] \in allocated' \ OnList' /\ e[t] # e[u]
      BY <1>0, <2>1, <2>3, <3>2 DEF ListInv, PopInv
    <3>3. ASSUME NEW u \in Threads \ {t} PROVE e[u] # e[t]
      <4>1. CASE u \in Adders
        BY <1>0, <1>1, <2>1, <4>1
      <4>2. CASE u \in Poppers
        <5>1. pc[u] \in {"idle", "use"}
          BY <1>1
        <5>2. pc[u] = "idle" => e[u] = Null
          BY <4>2 DEF ListInv, PopInv
        <5>3. pc[u] = "use" => InUse(u)
          BY <4>2 DEF ListInv, PopInv, InUse
        <5> QED
          BY <1>0, <2>1, <3>2, <3>3, <4>2, <5>1, <5>2, <5>3
      <4> QED
        BY <4>1, <4>2 DEF Threads
    <3> QED
      BY <1>0, <1>1, <1>2, <1>3, <3>1, <3>2, <3>3 DEF ListInv, PopInv
  <2> QED
    BY <1>0, <1>5, <2>1, <2>3, <2>4, <2>5, <2>6, <2>7 DEF ShapeInv
<1> QED
  BY <1>4, <1>5

LEMMA PopUnlockShape ==
    ASSUME ListInv, NEW t \in Poppers, PopUnlock(t)
    PROVE  ShapeInv' /\ Chain' = Chain /\ \A u \in Poppers : InUse(u)' <=> InUse(u)
<1>0. /\ UNCHANGED <<head, tail, heap, data, allocated, e, arg, next>>
      /\ pc' = [pc EXCEPT ![t] = IF e[t] = Null THEN "idle" ELSE "use"]
      /\ pc[t] = "pop_unlock" /\ t \in Threads /\ t \notin Adders
  BY ListAssumption DEF PopUnlock, Goto, Threads, heap
<1>1. Chain' = Chain /\ ChainInv' /\ OnList' = OnList /\ Last' = Last /\ NoLeak'
  BY <1>0, OwnersStay
<1>2. \A u \in Threads : u # t => pc'[u] = pc[u]
  BY <1>0 DEF ListInv, TypeOK
<1>3. \A u \in Adders : pc'[u] = pc[u]
  BY <1>0, <1>2 DEF Threads
<1>4. TailInv' /\ AddInv' /\ DataInv'
  BY <1>0, <1>1, <1>3 DEF ListInv, TailInv, AddInv, DataInv, InAdd
<1>5. pc'[t] = IF e[t] = Null THEN "idle" ELSE "use"
  BY <1>0 DEF ListInv, TypeOK
<1>6. \A u \in Poppers : (u # t => pc'[u] = pc[u]) /\ (InUse(u)' <=> InUse(u))
  BY <1>0, <1>2, <1>5 DEF InUse, Threads
<1>7. PopInv'
  BY <1>0, <1>1, <1>5, <1>6 DEF ListInv, PopInv
<1> QED
  BY <1>1, <1>4, <1>6, <1>7 DEF ShapeInv

LEMMA FreeShape ==
    ASSUME ListInv, NEW t \in Poppers, Free(t)
    PROVE  ShapeInv' /\ Chain' = Chain
<1>0. /\ UNCHANGED <<head, tail, next, data, arg>> /\ allocated' = allocated \ {e[t]}
      /\ e' = [e EXCEPT ![t] = Null]
      /\ pc' = [pc EXCEPT ![t] = "idle"] /\ pc[t] = "use" /\ t \in Threads /\ t \notin Adders
  BY ListAssumption DEF Free, Goto, Threads
<1>1. InUse(t) /\ e[t] \notin OnList /\ \A u \in Threads \ {t} : e[u] # e[t]
  BY <1>0 DEF ListInv, PopInv, InUse
<1>2. /\ \A u \in Threads : u # t => pc'[u] = pc[u] /\ e'[u] = e[u]
      /\ pc'[t] = "idle" /\ e'[t] = Null
      /\ \A u \in Adders : u \in Threads /\ u # t
  BY <1>0 DEF ListInv, TypeOK, Threads
<1>3. Chain' = Chain /\ IsChain(Chain)' /\ OnList' = OnList /\ Last' = Last
  BY <1>0, ChainStays DEF ListInv
<1>4. ChainInv'
  BY <1>0, <1>1, <1>3 DEF ListInv, ChainInv, Walks
<1>5. TailInv'
  BY <1>0, <1>2, <1>3 DEF ListInv, TailInv
<1>6. AddInv'
  BY <1>0, <1>1, <1>2, <1>3 DEF ListInv, AddInv
<1>7. DataInv'
  BY <1>0, <1>2, <1>3 DEF ListInv, DataInv, InAdd
<1>8. NoLeak'
  BY <1>0, <1>2, <1>3 DEF ListInv, NoLeak
<1>9. PopInv'
  <2>1. ~InUse(t)'
    BY <1>2 DEF InUse
  <2>2. ASSUME NEW u \in Poppers \ {t}
        PROVE  /\ u \in Threads /\ pc'[u] = pc[u] /\ e'[u] = e[u]
               /\ (InUse(u)' <=> InUse(u)) /\ e[u] # e[t]
    BY <1>1, <1>2 DEF InUse, Threads
  <2>3. ASSUME NEW u \in Poppers, InUse(u) PROVE e[u] # Null
    BY <2>3 DEF InUse
  <2> QED
    BY <1>0, <1>2, <1>3, <2>1, <2>2, <2>3 DEF ListInv, PopInv
<1> QED
  BY <1>3, <1>4, <1>5, <1>6, <1>7, <1>8, <1>9 DEF ShapeInv

LEMMA StutterShape ==
    ASSUME ListInv, UNCHANGED vars
    PROVE  ShapeInv' /\ Chain' = Chain
<1>1. UNCHANGED <<head, tail, heap, data, allocated, e, arg, next, pc>>
  BY DEF vars, heap
<1>2. Chain' = Chain /\ ChainInv' /\ OnList' = OnList /\ Last' = Last /\ NoLeak'
  BY <1>1, OwnersStay
<1>3. TailInv' /\ AddInv' /\ DataInv' /\ PopInv'
  BY <1>1, <1>2 DEF ListInv, TailInv, AddInv, DataInv, PopInv, InAdd, InUse
<1> QED
  BY <1>2, <1>3 DEF ShapeInv

LEMMA ListNext == ListInv /\ [Next]_vars => ListInv'
<1> SUFFICES ASSUME ListInv, [Next]_vars PROVE ListInv'
  OBVIOUS
<1>1. TypeOK' /\ MutexInv'
  BY TypeNext, MutexNext DEF ListInv
<1>2. ASSUME NEW t \in Adders PROVE (\/ \E x \in Items, len \in Lengths : AddLock(t, x, len)
                                     \/ AddStep(t)) => ShapeInv'
  BY <1>1, AddLockShape, AddAllocShape, AddLinkShape, AddTailShape, AddDataShape, AddUnlockShape
     DEF AddStep
<1>3. ASSUME NEW t \in Poppers PROVE PopLock(t) \/ PopStep(t) => ShapeInv'
  BY PopLockShape, PopHeadShape, PopUnlinkShape, PopUnlockShape, FreeShape DEF PopStep
<1>4. ShapeInv'
  BY <1>2, <1>3, StutterShape DEF Next
<1> QED
  BY <1>1, <1>4 DEF ListInv, ShapeInv

LEMMA ListAlways == Spec => []ListInv
BY ListInit, ListNext, PTL DEF Spec

-----------------------------------------------------------------------------
(* What the runs check                                                      *)

\* Every variable of the list and of its threads keeps its type, for any
\* threads and any heap.
THEOREM TypeCorrect == Spec => []TypeOK
<1>1. ListInv => TypeOK
  BY DEF ListInv
<1> QED
  BY <1>1, ListAlways, PTL

\* Whenever no thread is inside list_add or list_pop, the list from head to
\* tail is whole, ends, and is made of allocated elements.
THEOREM WellFormedAlways == Spec => []WellFormed
<1>1. ListInv => WellFormed
  <2> SUFFICES ASSUME ListInv, mutex = Null
               PROVE  /\ \E q \in Walks : IsChain(q)
                      /\ (head = Null) <=> (tail = Null)
                      /\ tail # Null => Chain[Len(Chain)] = tail
                      /\ OnList \subseteq allocated
    BY DEF WellFormed
  <2>1. \A t \in Adders : pc[t] # "add_tail"
    BY ListAssumption DEF ListInv, MutexInv, Inside, Threads
  <2>2. tail = Last
    BY <2>1 DEF ListInv, TailInv
  <2> QED
    BY <2>2, LastFacts DEF ListInv, ChainInv, Last
<1> QED
  BY <1>1, ListAlways, PTL

\* An element that list_pop handed out is off the list, allocated and held by
\* one session only, until that session frees it.
THEOREM PoppedIsPrivateAlways == Spec => []PoppedIsPrivate
<1>1. ListInv => PoppedIsPrivate
  <2> SUFFICES ASSUME ListInv, NEW t \in Poppers, InUse(t)
               PROVE  /\ e[t] \in allocated
                      /\ e[t] \notin OnList \cup {tail}
                      /\ \A u \in Poppers \ {t} : InUse(u) => e[u] # e[t]
    BY DEF PoppedIsPrivate
  <2>1. e[t] \in allocated \ OnList /\ e[t] # Null
    BY DEF ListInv, PopInv, InUse
  <2>2. \A u \in Poppers \ {t} : e[u] # e[t]
    BY DEF ListInv, PopInv, Threads
  <2>3. tail \in OnList \cup {Null}
    <3>1. CASE \E u \in Adders : pc[u] = "add_tail"
      BY <3>1 DEF ListInv, TailInv
    <3>2. CASE \A u \in Adders : pc[u] # "add_tail"
      BY <3>2, LastFacts DEF ListInv, TailInv
    <3> QED
      BY <3>1, <3>2
  <2> QED
    BY <2>1, <2>2, <2>3
<1> QED
  BY <1>1, ListAlways, PTL

\* Every allocated element is on the list or in the hands of a thread that
\* will link it or free it.
THEOREM NoLeakAlways == Spec => []NoLeak
<1>1. ListInv => NoLeak
  BY DEF ListInv
<1> QED
  BY <1>1, ListAlways, PTL

-----------------------------------------------------------------------------
(* The list is the queue of FifoList                                        *)

\* What Fifo puts for the variables of FifoList.
Queue == [i \in DOMAIN Chain |-> ItemAt(Chain[i])]
Out == [t \in Poppers |-> IF InUse(t) THEN data[e[t]] ELSE NoItem]

LEMMA FifoStutters == Queue' = Queue /\ Out' = Out => UNCHANGED Fifo!fifoVars
BY DEF Queue, Out, Fifo!fifoVars

LEMMA FifoAdds ==
    ASSUME NEW x \in Items, Queue' = Append(Queue, x), Out' = Out
    PROVE  Fifo!FifoNext
<1>1. Fifo!FifoAdd(x)
  BY DEF Queue, Out, Fifo!FifoAdd
<1> QED
  BY <1>1 DEF Fifo!FifoNext

LEMMA FifoPops ==
    ASSUME NEW t \in Poppers, Out[t] = NoItem, Queue # <<>>,
           Out' = [Out EXCEPT ![t] = Head(Queue)], Queue' = Tail(Queue)
    PROVE  Fifo!FifoNext
<1>1. Fifo!FifoPop(t)
  BY DEF Queue, Out, Fifo!FifoPop
<1> QED
  BY <1>1 DEF Fifo!FifoNext

LEMMA FifoReleases ==
    ASSUME NEW t \in Poppers, Out[t] # NoItem,
           Out' = [Out EXCEPT ![t] = NoItem], Queue' = Queue
    PROVE  Fifo!FifoNext
<1>1. Fifo!FifoRelease(t)
  BY DEF Queue, Out, Fifo!FifoRelease
<1> QED
  BY <1>1 DEF Fifo!FifoNext

\* The item of a node, while a thread adds one and while nobody does.
LEMMA ItemIs ==
    /\ \A n : (\A u \in Adders : ~(InAdd(u) /\ e[u] = n)) => ItemAt(n) = data[n]
    /\ \A t \in Adders : InAdd(t) /\ (\A u \in Adders \ {t} : ~InAdd(u))
                            => ItemAt(e[t]) = arg[t]
<1>1. ASSUME NEW n, \A u \in Adders : ~(InAdd(u) /\ e[u] = n)
      PROVE  ItemAt(n) = data[n]
  BY <1>1 DEF ItemAt
<1>2. ASSUME NEW t \in Adders, InAdd(t), \A u \in Adders \ {t} : ~InAdd(u)
      PROVE  ItemAt(e[t]) = arg[t]
  <2>1. t = CHOOSE u \in Adders : InAdd(u) /\ e[u] = e[t]
    BY <1>2
  <2> QED
    BY <1>2, <2>1 DEF ItemAt
<1> QED
  BY <1>1, <1>2

LEMMA ItemIsNext ==
    /\ \A n : (\A u \in Adders : ~(InAdd(u)' /\ e'[u] = n)) => ItemAt(n)' = data'[n]
    /\ \A t \in Adders : InAdd(t)' /\ (\A u \in Adders \ {t} : ~InAdd(u)')
                            => \A n : n = e'[t] => ItemAt(n)' = arg'[t]
<1>1. ASSUME NEW n, \A u \in Adders : ~(InAdd(u)' /\ e'[u] = n)
      PROVE  ItemAt(n)' = data'[n]
  BY <1>1 DEF ItemAt
<1>2. ASSUME NEW t \in Adders, InAdd(t)', \A u \in Adders \ {t} : ~InAdd(u)',
             NEW n, n = e'[t]
      PROVE  ItemAt(n)' = arg'[t]
  <2>1. t = CHOOSE u \in Adders : InAdd(u)' /\ e'[u] = n
    BY <1>2
  <2> QED
    BY <1>2, <2>1 DEF ItemAt
<1> QED
  BY <1>1, <1>2

\* Where chain and items stay, so does the queue.
LEMMA QueueStays ==
    ASSUME ListInv, Chain' = Chain, \A n \in OnList : ItemAt(n)' = ItemAt(n)
    PROVE  Queue' = Queue
<1>1. \A i \in DOMAIN Chain : Chain[i] \in OnList
  BY ChainFacts DEF ListInv
<1>2. \A i \in DOMAIN Chain : ItemAt(Chain[i])' = ItemAt(Chain[i])
  <2> SUFFICES ASSUME NEW i \in DOMAIN Chain PROVE ItemAt(Chain[i])' = ItemAt(Chain[i])
    OBVIOUS
  <2>1. PICK n \in OnList : n = Chain[i] /\ n = Chain'[i]
    BY <1>1
  <2>2. ItemAt(n)' = ItemAt(n)
    BY <2>1
  <2>3. ItemAt(Chain[i])' = ItemAt(n)'
    BY <2>1 DEF ItemAt
  <2> QED
    BY <2>1, <2>2, <2>3
<1> QED
  BY <1>2 DEF Queue

\* Where the owners and their items stay, so do the elements handed out.
LEMMA OutStays ==
    ASSUME \A t \in Poppers : /\ InUse(t)' <=> InUse(t)
                              /\ InUse(t) => data'[e'[t]] = data[e[t]]
    PROVE  Out' = Out
BY DEF Out

\* A step of a thread outside of the list's critical part: nothing that the
\* queue is made of changes.
LEMMA ItemsStay ==
    ASSUME ListInv, UNCHANGED <<data, arg>>, Chain' = Chain,
           \A t \in Adders : (InAdd(t)' <=> InAdd(t)) /\ (InAdd(t) => e'[t] = e[t])
    PROVE  Queue' = Queue
<1> SUFFICES ASSUME NEW n \in OnList PROVE ItemAt(n)' = ItemAt(n)
  BY QueueStays
<1>1. CASE \E t \in Adders : InAdd(t) /\ e[t] = n
  <2>1. PICK t \in Adders : InAdd(t) /\ e[t] = n
    BY <1>1
  <2>2. \A u \in Adders \ {t} : ~InAdd(u)
    BY <2>1, Alone DEF Inside, InAdd, Threads
  <2>3. ItemAt(n) = arg[t]
    BY <2>1, <2>2, ItemIs
  <2>4. ItemAt(n)' = arg'[t]
    BY <2>1, <2>2, ItemIsNext
  <2> QED
    BY <2>3, <2>4
<1>2. CASE \A t \in Adders : ~(InAdd(t) /\ e[t] = n)
  BY <1>2, ItemIs, ItemIsNext
<1> QED
  BY <1>1, <1>2

\* What the queue holds.
LEMMA QueueFacts ==
    ASSUME ListInv
    PROVE  /\ Queue \in Seq(Items) /\ Len(Queue) = Len(Chain) /\ Len(Chain) \in Nat
           /\ \A i \in 1..Len(Chain) : Queue[i] = ItemAt(Chain[i])
           /\ \A n \in OnList : ItemAt(n) \in Items
<1>1. ASSUME NEW n \in OnList PROVE ItemAt(n) \in Items
  <2>1. CASE \E t \in Adders : InAdd(t) /\ e[t] = n
    <3>1. PICK t \in Adders : InAdd(t) /\ e[t] = n
      BY <2>1
    <3>2. \A u \in Adders \ {t} : ~InAdd(u)
      BY <3>1, Alone DEF Inside, InAdd, Threads
    <3>3. ItemAt(n) = arg[t]
      BY <3>1, <3>2, ItemIs
    <3> QED
      BY <3>1, <3>3 DEF ListInv, AddInv, InAdd
  <2>2. CASE \A t \in Adders : ~(InAdd(t) /\ e[t] = n)
    <3>1. ItemAt(n) = data[n]
      BY <2>2, ItemIs
    <3> QED
      BY <2>2, <3>1 DEF ListInv, DataInv
  <2> QED
    BY <2>1, <2>2
<1>2. DOMAIN Chain = 1..Len(Chain) /\ Len(Chain) \in Nat
  BY ChainFacts DEF ListInv
<1>3. Queue \in [1..Len(Chain) -> Items]
  BY <1>1, <1>2, ChainFacts DEF Queue, ListInv
<1>4. Queue \in Seq(Items) /\ Len(Queue) = Len(Chain)
  BY <1>2, <1>3
<1> QED
  BY <1>1, <1>2, <1>4 DEF Queue

LEMMA AddLinkRefines ==
    ASSUME ListInv, ListInv', NEW t \in Adders, AddLink(t)
    PROVE  Fifo!FifoNext
<1>0. /\ UNCHANGED <<arg, data, e>> /\ pc' = [pc EXCEPT ![t] = "add_tail"]
      /\ pc[t] = "add_link" /\ t \in Threads
  BY DEF AddLink, Goto, Threads
<1>1. e[t] \notin OnList /\ e[t] \in Nodes /\ arg[t] \in Items
  BY <1>0 DEF ListInv, AddInv, TypeOK
<1>2. /\ \A u \in Threads \ {t} : pc'[u] = pc[u] /\ pc[u] \in {"idle", "use"}
      /\ \A u \in Adders \ {t} : ~InAdd(u) /\ ~InAdd(u)'
      /\ InAdd(t) /\ InAdd(t)'
  BY <1>0, Alone DEF Inside, InAdd, ListInv, TypeOK, Threads
<1>3. Chain' = Append(Chain, e[t])
  BY AddLinkShape
<1>4. \A n \in OnList : ItemAt(n) = data[n] /\ ItemAt(n)' = data[n]
  BY <1>0, <1>1, <1>2, ItemIs, ItemIsNext
<1>5. \A n : n = e[t] => ItemAt(n)' = arg[t]
  BY <1>0, <1>2, ItemIsNext
<1>6. Queue' = Append(Queue, arg[t])
  <2>1. /\ Queue \in Seq(Items) /\ Len(Queue) = Len(Chain) /\ Len(Chain) \in Nat
        /\ \A i \in 1..Len(Chain) : Queue[i] = ItemAt(Chain[i]) /\ Chain[i] \in OnList
    BY QueueFacts, ChainFacts DEF ListInv
  <2>2. DOMAIN Chain' = 1..(Len(Chain) + 1)
    BY <1>3, ChainFacts DEF ListInv
  <2>3. Queue' = [i \in 1..(Len(Chain) + 1) |-> ItemAt(Chain[i])']
    BY <2>2 DEF Queue
  <2>4. /\ Append(Queue, arg[t]) \in Seq(Items)
        /\ Append(Queue, arg[t]) = [i \in 1..(Len(Chain) + 1) |->
                                        IF i <= Len(Chain) THEN Queue[i] ELSE arg[t]]
    BY <1>1, <2>1
  <2>5. ASSUME NEW i \in 1..(Len(Chain) + 1)
        PROVE  ItemAt(Chain[i])' = IF i <= Len(Chain) THEN Queue[i] ELSE arg[t]
    <3>1. CASE i <= Len(Chain)
      <4>1. i \in 1..Len(Chain)
        BY <2>1, <3>1
      <4>2. PICK n \in OnList : n = Chain[i] /\ n = Chain'[i]
        BY <1>3, <2>1, <4>1, ChainFacts DEF ListInv
      <4>3. ItemAt(n)' = ItemAt(n)
        BY <1>4, <4>2
      <4>4. ItemAt(Chain[i])' = ItemAt(n)' /\ ItemAt(Chain[i]) = ItemAt(n)
        BY <4>2 DEF ItemAt
      <4> QED
        BY <2>1, <3>1, <4>1, <4>3, <4>4
    <3>2. CASE ~(i <= Len(Chain))
      <4>1. i = Len(Chain) + 1
        BY <2>1, <3>2
      <4>2. Chain'[i] = e[t]
        BY <1>3, <4>1, ChainFacts DEF ListInv
      <4>3. PICK n : n = e[t] /\ n = Chain'[i]
        BY <4>2
      <4>4. ItemAt(n)' = arg[t]
        BY <1>5, <4>3
      <4>5. ItemAt(Chain[i])' = ItemAt(n)'
        BY <4>3 DEF ItemAt
      <4> QED
        BY <3>2, <4>4, <4>5
    <3> QED
      BY <3>1, <3>2
  <2> QED
    BY <2>3, <2>4, <2>5
<1>7. Out' = Out
  <2> SUFFICES ASSUME NEW u \in Poppers
               PROVE  (InUse(u)' <=> InUse(u)) /\ (InUse(u) => data'[e'[u]] = data[e[u]])
    BY OutStays
  <2>1. u \in Threads \ {t}
    BY ListAssumption DEF Threads
  <2> QED
    BY <1>0, <1>2, <2>1 DEF InUse
<1> QED
  BY <1>1, <1>6, <1>7, FifoAdds

LEMMA AddDataRefines ==
    ASSUME ListInv, NEW t \in Adders, AddData(t)
    PROVE  UNCHANGED Fifo!fifoVars
<1>0. /\ UNCHANGED <<arg, e>> /\ pc' = [pc EXCEPT ![t] = "add_unlock"]
      /\ pc[t] = "add_data" /\ t \in Threads /\ data' = [data EXCEPT ![e[t]] = arg[t]]
  BY DEF AddData, Goto, Threads
<1>1. e[t] \in OnList
  BY <1>0 DEF ListInv, AddInv
<1>2. /\ \A u \in Threads \ {t} : pc'[u] = pc[u] /\ pc[u] \in {"idle", "use"}
      /\ \A u \in Adders \ {t} : ~InAdd(u) /\ ~InAdd(u)'
      /\ InAdd(t) /\ InAdd(t)'
  BY <1>0, Alone DEF Inside, InAdd, ListInv, TypeOK, Threads
<1>3. Queue' = Queue
  <2> SUFFICES ASSUME NEW n \in OnList PROVE ItemAt(n)' = ItemAt(n)
    BY QueueStays, AddDataShape
  <2>1. CASE n = e[t]
    BY <1>0, <1>2, <2>1, ItemIs, ItemIsNext
  <2>2. CASE n # e[t]
    <3>1. ItemAt(n) = data[n] /\ ItemAt(n)' = data'[n]
      BY <1>0, <1>2, <2>2, ItemIs, ItemIsNext
    <3> QED
      BY <1>0, <2>2, <3>1 DEF ListInv, TypeOK
  <2> QED
    BY <2>1, <2>2
<1>4. Out' = Out
  <2> SUFFICES ASSUME NEW u \in Poppers
               PROVE  (InUse(u)' <=> InUse(u)) /\ (InUse(u) => data'[e'[u]] = data[e[u]])
    BY OutStays
  <2>1. u \in Threads \ {t}
    BY ListAssumption DEF Threads
  <2>2. InUse(u) => e[u] # e[t]
    BY <1>1 DEF ListInv, PopInv
  <2> QED
    BY <1>0, <1>2, <2>1, <2>2 DEF InUse, ListInv, TypeOK
<1> QED
  BY <1>3, <1>4, FifoStutters

LEMMA AddUnlockRefines ==
    ASSUME ListInv, NEW t \in Adders, AddUnlock(t)
    PROVE  UNCHANGED Fifo!fifoVars
<1>0. /\ UNCHANGED data /\ pc' = [pc EXCEPT ![t] = "idle"]
      /\ pc[t] = "add_unlock" /\ t \in Threads /\ e' = [e EXCEPT ![t] = Null]
  BY DEF AddUnlock, Goto, Threads, heap
<1>1. data[e[t]] = arg[t]
  BY <1>0 DEF ListInv, AddInv
<1>2. /\ \A u \in Threads \ {t} : pc'[u] = pc[u] /\ e'[u] = e[u] /\ pc[u] \in {"idle", "use"}
      /\ \A u \in Adders \ {t} : ~InAdd(u) /\ ~InAdd(u)'
      /\ InAdd(t) /\ ~InAdd(t)'
  BY <1>0, Alone DEF Inside, InAdd, ListInv, TypeOK, Threads
<1>3. Queue' = Queue
  <2> SUFFICES ASSUME NEW n \in OnList PROVE ItemAt(n)' = ItemAt(n)
    BY QueueStays, AddUnlockShape
  <2>1. ItemAt(n)' = data[n]
    BY <1>0, <1>2, ItemIsNext
  <2>2. CASE n = e[t]
    BY <1>1, <1>2, <2>1, <2>2, ItemIs
  <2>3. CASE n # e[t]
    BY <1>2, <2>1, <2>3, ItemIs
  <2> QED
    BY <2>2, <2>3
<1>4. Out' = Out
  <2> SUFFICES ASSUME NEW u \in Poppers
               PROVE  (InUse(u)' <=> InUse(u)) /\ (InUse(u) => data'[e'[u]] = data[e[u]])
    BY OutStays
  <2>1. u \in Threads \ {t}
    BY ListAssumption DEF Threads
  <2> QED
    BY <1>0, <1>2, <2>1 DEF InUse
<1> QED
  BY <1>3, <1>4, FifoStutters

LEMMA PopUnlinkRefines ==
    ASSUME ListInv, ListInv', NEW t \in Poppers, PopUnlink(t)
    PROVE  [Fifo!FifoNext]_(Fifo!fifoVars)
<1>0. /\ UNCHANGED <<data, arg, e>>
      /\ pc' = [pc EXCEPT ![t] = "pop_unlock"] /\ pc[t] = "pop_unlink" /\ t \in Threads
  BY DEF PopUnlink, Goto, heap, Threads
<1>1. /\ \A u \in Threads \ {t} : pc'[u] = pc[u]
      /\ \A u \in Adders : ~InAdd(u) /\ ~InAdd(u)'
      /\ pc'[t] = "pop_unlock"
  BY <1>0, PopperAlone DEF Inside, InAdd, ListInv, TypeOK, Threads
<1>2. \A n : ItemAt(n) = data[n] /\ ItemAt(n)' = data[n]
  BY <1>0, <1>1, ItemIs, ItemIsNext
<1>3. \A u \in Poppers \ {t} : InUse(u)' <=> InUse(u)
  BY <1>0, <1>1 DEF InUse, Threads
<1>4. ~InUse(t) /\ (InUse(t)' <=> e[t] # Null)
  BY <1>0, <1>1 DEF InUse
<1>5. CASE Chain = <<>>
  <2>1. e[t] = Null /\ Chain' = Chain
    BY <1>5, PopUnlinkShape
  <2>2. Queue' = Queue
    BY <1>2, <2>1, QueueStays
  <2>3. Out' = Out
    BY <1>0, <1>3, <1>4, <2>1, OutStays
  <2> QED
    BY <2>2, <2>3, FifoStutters
<1>6. CASE Chain # <<>>
  <2>1. e[t] = Chain[1] /\ e[t] # Null /\ Chain' = Tail(Chain)
    BY <1>6, PopUnlinkShape
  <2>2. /\ Queue \in Seq(Items) /\ Len(Queue) = Len(Chain) /\ Len(Chain) \in Nat
        /\ \A i \in 1..Len(Chain) : Queue[i] = ItemAt(Chain[i])
        /\ 1 \in 1..Len(Chain)
    BY <1>6, QueueFacts, ChainFacts DEF ListInv
  <2>3. Queue # <<>> /\ Head(Queue) = data[e[t]]
    <3>1. Queue # <<>> /\ Head(Queue) = Queue[1]
      BY <2>2
    <3> QED
      BY <1>2, <2>1, <2>2, <3>1
  <2>4. Queue' = Tail(Queue)
    <3>1. /\ Tail(Queue) \in Seq(Items) /\ Len(Tail(Queue)) = Len(Chain) - 1
          /\ \A i \in 1..(Len(Chain) - 1) : Tail(Queue)[i] = Queue[i + 1]
      BY <2>2, <2>3, HeadTailProperties
    <3>2. /\ Tail(Chain) \in Seq(Nodes) /\ Len(Tail(Chain)) = Len(Chain) - 1
          /\ \A i \in 1..(Len(Chain) - 1) : Tail(Chain)[i] = Chain[i + 1]
      BY <1>6, ChainFacts, HeadTailProperties DEF ListInv
    <3>3. /\ Queue' \in Seq(Items) /\ Len(Queue') = Len(Chain') /\ Len(Chain') \in Nat
          /\ \A i \in 1..Len(Chain') : Queue'[i] = ItemAt(Chain[i])'
      <4>1. Queue' = [i \in 1..(Len(Chain) - 1) |-> ItemAt(Chain[i])']
        BY <2>1, <3>2 DEF Queue
      <4>2. ASSUME NEW i \in 1..(Len(Chain) - 1) PROVE ItemAt(Chain[i])' \in Items
        <5>1. PICK n : n = Chain'[i] /\ n = Chain[i + 1]
          BY <2>1, <3>2
        <5>2. ItemAt(Chain[i])' = ItemAt(n)' /\ ItemAt(Chain[i + 1]) = ItemAt(n)
          BY <5>1 DEF ItemAt
        <5>3. i + 1 \in 1..Len(Chain)
          BY <2>2
        <5>4. ItemAt(Chain[i + 1]) \in Items
          BY <2>2, <5>3
        <5> QED
          BY <1>2, <5>2, <5>4
      <4>3. Queue' \in [1..(Len(Chain) - 1) -> Items]
        BY <4>1, <4>2
      <4>4. Len(Chain') = Len(Chain) - 1 /\ Len(Chain) - 1 \in Nat
        BY <2>1, <2>2, <3>2
      <4> QED
        BY <4>1, <4>3, <4>4
    <3>4. ASSUME NEW i \in 1..(Len(Chain) - 1)
          PROVE  Queue'[i] = Tail(Queue)[i]
      <4>1. PICK n : n = Chain'[i] /\ n = Chain[i + 1]
        BY <2>1, <3>2
      <4>2. ItemAt(Chain[i])' = ItemAt(n)' /\ ItemAt(Chain[i + 1]) = ItemAt(n)
        BY <4>1 DEF ItemAt
      <4>3. i + 1 \in 1..Len(Chain) /\ i \in 1..Len(Chain')
        BY <2>1, <2>2, <3>2
      <4> QED
        BY <1>2, <2>2, <3>1, <3>3, <4>2, <4>3
    <3>5. Len(Queue') = Len(Tail(Queue))
      BY <2>1, <3>1, <3>2, <3>3
    <3> QED
      BY <2>2, <3>1, <3>3, <3>4, <3>5, SeqEqual
  <2>5. Out[t] = NoItem
    BY <1>4 DEF Out
  <2>6. Out' = [Out EXCEPT ![t] = data[e[t]]]
    BY <1>0, <1>3, <1>4, <2>1 DEF Out
  <2> QED
    BY <2>3, <2>4, <2>5, <2>6, FifoPops
<1> QED
  BY <1>5, <1>6

LEMMA FreeRefines ==
    ASSUME ListInv, NEW t \in Poppers, Free(t)
    PROVE  Fifo!FifoNext
<1>0. /\ UNCHANGED <<data, arg>> /\ e' = [e EXCEPT ![t] = Null]
      /\ pc' = [pc EXCEPT ![t] = "idle"] /\ pc[t] = "use" /\ t \in Threads /\ t \notin Adders
  BY ListAssumption DEF Free, Goto, Threads
<1>1. /\ \A u \in Threads \ {t} : pc'[u] = pc[u] /\ e'[u] = e[u]
      /\ pc'[t] = "idle" /\ e'[t] = Null
  BY <1>0 DEF ListInv, TypeOK
<1>2. InUse(t) /\ ~InUse(t)' /\ data[e[t]] \in Items
  BY <1>0, <1>1 DEF InUse, ListInv, PopInv
<1>3. \A u \in Poppers \ {t} : (InUse(u)' <=> InUse(u)) /\ e'[u] = e[u]
  BY <1>1 DEF InUse, Threads
<1>4. \A u \in Adders : (InAdd(u)' <=> InAdd(u)) /\ e'[u] = e[u]
  BY <1>0, <1>1 DEF InAdd, Threads
<1>5. Queue' = Queue
  BY <1>0, <1>4, FreeShape, ItemsStay
<1>6. Out[t] # NoItem
  BY <1>2, ListAssumption DEF Out
<1>7. Out' = [Out EXCEPT ![t] = NoItem]
  <2>1. \A u \in Poppers : Out[u] = IF InUse(u) THEN data[e[u]] ELSE NoItem
    BY DEF Out
  <2>2. \A u \in Poppers : (IF InUse(u)' THEN data'[e'[u]] ELSE NoItem)
                              = IF u = t THEN NoItem ELSE Out[u]
    BY <1>0, <1>2, <1>3, <2>1
  <2>3. Out' = [u \in Poppers |-> IF u = t THEN NoItem ELSE Out[u]]
    BY <2>2 DEF Out
  <2>4. DOMAIN Out = Poppers
    BY DEF Out
  <2> QED
    BY <2>3, <2>4
<1> QED
  BY <1>5, <1>6, <1>7, FifoReleases

LEMMA NobodyInside == ListInv /\ mutex = Null => \A u \in Adders : ~InAdd(u)
BY ListAssumption DEF ListInv, MutexInv, Inside, InAdd, Threads

LEMMA AddAllocRefines ==
    ASSUME ListInv, ListInv', NEW t \in Adders, AddAlloc(t)
    PROVE  UNCHANGED Fifo!fifoVars
<1>0. /\ UNCHANGED <<head, arg>> /\ pc' = [pc EXCEPT ![t] = "add_link"]
      /\ pc[t] = "add_alloc" /\ t \in Threads
  BY DEF AddAlloc, Goto, Threads
<1>1. PICK n \in Nodes \ allocated :
          /\ next' = [next EXCEPT ![n] = Null]
          /\ data' = [data EXCEPT ![n] = NoItem]
          /\ e' = [e EXCEPT ![t] = n]
  BY DEF AddAlloc
<1>2. n \notin OnList
  BY DEF ListInv, ChainInv
<1>3. /\ \A u \in Threads \ {t} : pc'[u] = pc[u] /\ e'[u] = e[u]
      /\ \A u \in Adders \ {t} : ~InAdd(u) /\ ~InAdd(u)'
      /\ ~InAdd(t) /\ e'[t] = n
  BY <1>0, <1>1, Alone DEF Inside, InAdd, ListInv, TypeOK, Threads
<1>4. Queue' = Queue
  <2>1. \A m \in OnList : next'[m] = next[m]
    BY <1>1, <1>2, ChainFacts DEF ListInv, TypeOK
  <2>2. Chain' = Chain
    BY <1>0, <2>1, ChainStays DEF ListInv
  <2> SUFFICES ASSUME NEW m \in OnList PROVE ItemAt(m)' = ItemAt(m)
    BY <2>2, QueueStays
  <2>3. m # n /\ m \in Nodes
    BY <1>2, ChainFacts DEF ListInv
  <2>4. ItemAt(m) = data[m]
    BY <1>3, ItemIs
  <2>5. ItemAt(m)' = data'[m]
    BY <1>3, <2>3, ItemIsNext
  <2> QED
    BY <1>1, <2>3, <2>4, <2>5 DEF ListInv, TypeOK
<1>5. Out' = Out
  <2> SUFFICES ASSUME NEW u \in Poppers
               PROVE  (InUse(u)' <=> InUse(u)) /\ (InUse(u) => data'[e'[u]] = data[e[u]])
    BY OutStays
  <2>1. u \in Threads \ {t}
    BY ListAssumption DEF Threads
  <2>2. InUse(u) => e[u] \in allocated
    BY DEF ListInv, PopInv
  <2> QED
    BY <1>1, <1>3, <2>1, <2>2 DEF InUse, ListInv, TypeOK
<1> QED
  BY <1>4, <1>5, FifoStutters

LEMMA FifoStep == ListInv /\ ListInv' /\ [Next]_vars => [Fifo!FifoNext]_(Fifo!fifoVars)
<1> SUFFICES ASSUME ListInv, ListInv', [Next]_vars
             PROVE  Fifo!FifoNext \/ UNCHANGED Fifo!fifoVars
  OBVIOUS
<1>0. Threads = Adders \cup Poppers /\ Adders \cap Poppers = {}
  BY ListAssumption DEF Threads
<1>1. ASSUME UNCHANGED <<head, heap, e, data, arg>>,
             \A t \in Adders : InAdd(t)' <=> InAdd(t),
             \A t \in Poppers : InUse(t)' <=> InUse(t)
      PROVE  UNCHANGED Fifo!fifoVars
  <2>1. Queue' = Queue
    BY <1>1, OwnersStay, ItemsStay
  <2>2. Out' = Out
    BY <1>1, OutStays
  <2> QED
    BY <2>1, <2>2, FifoStutters
<1>2. ASSUME NEW t \in Adders, NEW x \in Items, NEW len \in Lengths, AddLock(t, x, len)
      PROVE  UNCHANGED Fifo!fifoVars
  <2>1. /\ pc' = [pc EXCEPT ![t] = "add_alloc"] /\ pc[t] = "idle"
        /\ UNCHANGED <<head, heap, e, data>>
        /\ arg' = [arg EXCEPT ![t] = x]
    BY <1>2 DEF AddLock, Goto, heap
  <2>2. \A u \in Adders : (InAdd(u)' <=> InAdd(u)) /\ (InAdd(u) => u # t)
    BY <1>0, <2>1 DEF InAdd, ListInv, TypeOK
  <2>3. \A u \in Poppers : InUse(u)' <=> InUse(u)
    BY <1>0, <2>1 DEF InUse, ListInv, TypeOK
  <2>4. Out' = Out
    BY <2>1, <2>3, OutStays
  <2>5. Queue' = Queue
    <3>1. Chain' = Chain
      BY <2>1, OwnersStay
    <3> SUFFICES ASSUME NEW n \in OnList PROVE ItemAt(n)' = ItemAt(n)
      BY <3>1, QueueStays
    <3>2. \A u \in Adders : ~InAdd(u)
      BY <1>2, NobodyInside DEF AddLock, Lock
    <3> QED
      BY <2>1, <2>2, <3>2, ItemIs, ItemIsNext
  <2> QED
    BY <2>4, <2>5, FifoStutters
<1>3. ASSUME NEW t \in Adders, AddAlloc(t) PROVE UNCHANGED Fifo!fifoVars
  BY <1>3, AddAllocRefines
<1>4. ASSUME NEW t \in Adders, AddLink(t) PROVE Fifo!FifoNext
  BY <1>4, AddLinkRefines
<1>5. ASSUME NEW t \in Adders, AddTail(t) PROVE UNCHANGED Fifo!fifoVars
  <2>1. /\ pc' = [pc EXCEPT ![t] = "add_data"] /\ pc[t] = "add_tail"
        /\ UNCHANGED <<head, heap, e, data, arg>>
    BY <1>5 DEF AddTail, Goto, heap
  <2>2. \A u \in Adders : InAdd(u)' <=> InAdd(u)
    BY <1>0, <2>1 DEF InAdd, ListInv, TypeOK
  <2>3. \A u \in Poppers : InUse(u)' <=> InUse(u)
    BY <1>0, <2>1 DEF InUse, ListInv, TypeOK
  <2> QED
    BY <1>1, <2>1, <2>2, <2>3
<1>6. ASSUME NEW t \in Adders, AddData(t) PROVE UNCHANGED Fifo!fifoVars
  BY <1>6, AddDataRefines
<1>7. ASSUME NEW t \in Adders, AddUnlock(t) PROVE UNCHANGED Fifo!fifoVars
  BY <1>7, AddUnlockRefines
<1>8. ASSUME NEW t \in Poppers, PopLock(t) PROVE UNCHANGED Fifo!fifoVars
  <2>1. /\ pc' = [pc EXCEPT ![t] = "pop_head"] /\ pc[t] = "idle"
        /\ UNCHANGED <<head, heap, e, data, arg>>
    BY <1>8 DEF PopLock, Goto, heap
  <2>2. \A u \in Adders : InAdd(u)' <=> InAdd(u)
    BY <1>0, <2>1 DEF InAdd, ListInv, TypeOK
  <2>3. \A u \in Poppers : InUse(u)' <=> InUse(u)
    BY <1>0, <2>1 DEF InUse, ListInv, TypeOK
  <2> QED
    BY <1>1, <2>1, <2>2, <2>3
<1>9. ASSUME NEW t \in Poppers, PopHead(t) PROVE UNCHANGED Fifo!fifoVars
  <2>1. /\ pc' = [pc EXCEPT ![t] = "pop_unlink"] /\ pc[t] = "pop_head"
        /\ UNCHANGED <<data, arg>> /\ e' = [e EXCEPT ![t] = head]
    BY <1>9 DEF PopHead, Goto, heap
  <2>2. \A u \in Adders : (InAdd(u)' <=> InAdd(u)) /\ e'[u] = e[u]
    BY <1>0, <2>1 DEF InAdd, ListInv, TypeOK
  <2>3. \A u \in Poppers : (InUse(u)' <=> InUse(u)) /\ (InUse(u) => e'[u] = e[u])
    BY <1>0, <2>1 DEF InUse, ListInv, TypeOK
  <2>4. Queue' = Queue
    BY <1>9, <2>1, <2>2, PopHeadShape, ItemsStay
  <2>5. Out' = Out
    BY <2>1, <2>3, OutStays
  <2> QED
    BY <2>4, <2>5, FifoStutters
<1>10. ASSUME NEW t \in Poppers, PopUnlink(t)
       PROVE  Fifo!FifoNext \/ UNCHANGED Fifo!fifoVars
  BY <1>10, PopUnlinkRefines
<1>11. ASSUME NEW t \in Poppers, PopUnlock(t) PROVE UNCHANGED Fifo!fifoVars
  <2>1. /\ \E to : pc' = [pc EXCEPT ![t] = to]
        /\ UNCHANGED <<head, heap, e, data, arg>>
    BY <1>11 DEF PopUnlock, Goto, heap
  <2>2. \A u \in Adders : InAdd(u)' <=> InAdd(u)
    BY <1>0, <2>1 DEF InAdd, ListInv, TypeOK
  <2>3. \A u \in Poppers : InUse(u)' <=> InUse(u)
    BY <1>11, PopUnlockShape
  <2> QED
    BY <1>1, <2>1, <2>2, <2>3
<1>12. ASSUME NEW t \in Poppers, Free(t) PROVE Fifo!FifoNext
  BY <1>12, FreeRefines
<1>13. CASE UNCHANGED vars
  <2>1. UNCHANGED <<head, heap, e, data, arg, pc>>
    BY <1>13 DEF vars, heap
  <2> QED
    BY <1>1, <2>1 DEF InAdd, InUse
<1> QED
  BY <1>2, <1>3, <1>4, <1>5, <1>6, <1>7, <1>8, <1>9, <1>10, <1>11, <1>12, <1>13
     DEF Next, AddStep, PopStep

\* Every interleaving of the statements of list_add and list_pop is a run of
\* the queue whose calls are atomic: first in, first out, each item to one
\* caller.
THEOREM ListImplementsFifo == Spec => ImplementsFifo
<1>1. Init => Fifo!FifoInit
  <2> SUFFICES ASSUME Init PROVE Fifo!FifoInit
    OBVIOUS
  <2>1. ListInv
    BY ListInit
  <2>2. head = Null /\ \A t \in Poppers : ~InUse(t)
    BY DEF Init, InUse, Threads
  <2>3. Chain = <<>>
    BY <2>1, <2>2, LastFacts DEF ListInv
  <2>4. Queue = <<>> /\ Out = [t \in Poppers |-> NoItem]
    BY <2>2, <2>3 DEF Queue, Out
  <2> QED
    BY <2>4 DEF Queue, Out, Fifo!FifoInit
<1> QED
  BY <1>1, FifoStep, ListAlways, PTL DEF Spec, ImplementsFifo, Fifo!FifoSpec
=============================================================================
