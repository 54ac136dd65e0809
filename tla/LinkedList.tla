----------------------------- MODULE LinkedList -----------------------------
(***************************************************************************)
(* data_structures/linked_list.c, one statement at a time: the list of     *)
(* configurations that the control thread fills (list_add) and the         *)
(* controlcomm sessions empty (list_pop, then free).  The heap is a set of *)
(* Nodes that calloc hands out and free takes back, so that an address can *)
(* be reused while an old pointer to it is still around.                   *)
(***************************************************************************)
EXTENDS Naturals, FiniteSets, Sequences

CONSTANTS
    Adders,     \* threads that call list_add
    Poppers,    \* threads that call list_pop and free what they get
    Nodes,      \* addresses calloc can return for a struct list_elem
    Null,       \* the NULL pointer
    Items,      \* the data pointers passed to list_add
    NoItem      \* a NULL data pointer

Threads == Adders \cup Poppers

ASSUME ListAssumption ==
    /\ Null \notin Nodes \cup Threads
    /\ NoItem \notin Items
    /\ Adders \cap Poppers = {}
    /\ IsFiniteSet(Nodes)

VARIABLES
    head, tail,     \* struct linked_list
    next, data, length,  \* the fields of struct list_elem, by address
    allocated,      \* addresses calloc returned and nobody freed
    mutex,          \* holder of list_mutex, or Null
    pc,             \* the statement each thread is about to execute
    e,              \* the local variable e of each thread
    arg,            \* the item an adder passes
    argLen          \* the length an adder passes

heap == <<next, data, length, allocated>>
vars == <<head, tail, next, data, length, allocated, mutex, pc, e, arg, argLen>>

Pointers == Nodes \cup {Null}

\* The lengths callers pass: an empty file, or one with something in it.
Lengths == {0, 1}

TypeOK ==
    /\ head \in Pointers
    /\ tail \in Pointers
    /\ next \in [Nodes -> Pointers]
    /\ data \in [Nodes -> Items \cup {NoItem}]
    /\ length \in [Nodes -> Lengths]
    /\ allocated \subseteq Nodes
    /\ mutex \in Threads \cup {Null}
    /\ pc \in [Threads -> {"idle", "add_alloc", "add_link", "add_tail", "add_data",
                           "add_unlock", "pop_head", "pop_unlink", "pop_unlock",
                           "use"}]
    /\ e \in [Threads -> Pointers]
    /\ arg \in [Adders -> Items \cup {NoItem}]
    /\ argLen \in [Adders -> Lengths]

Init ==
    /\ head = Null
    /\ tail = Null
    /\ next = [n \in Nodes |-> Null]
    /\ data = [n \in Nodes |-> NoItem]
    /\ length = [n \in Nodes |-> 0]
    /\ allocated = {}
    /\ mutex = Null
    /\ pc = [t \in Threads |-> "idle"]
    /\ e = [t \in Threads |-> Null]
    /\ arg = [t \in Adders |-> NoItem]
    /\ argLen = [t \in Adders |-> 0]

Goto(t, from, to) ==
    /\ pc[t] = from
    /\ pc' = [pc EXCEPT ![t] = to]

Lock(t)   == mutex = Null /\ mutex' = t
Unlock(t) == mutex = t /\ mutex' = Null

-----------------------------------------------------------------------------
\* list_add(l, x, len)

\* Slip: the length counts a terminator that is not there.
AddLockLengthPlusOne(t, x, len) ==
    /\ allocated # Nodes
    /\ Goto(t, "idle", "add_alloc")
    /\ Lock(t)
    /\ arg' = [arg EXCEPT ![t] = x]
    /\ argLen' = [argLen EXCEPT ![t] = len + 1]
    /\ UNCHANGED <<head, tail, heap, e>>

\* A call starts when it gets list_mutex.  Bound: calls are made only while
\* the model's heap, Nodes, has an address left.
AddLock(t, x, len) ==
    /\ allocated # Nodes
    /\ Goto(t, "idle", "add_alloc")
    /\ Lock(t)
    /\ arg' = [arg EXCEPT ![t] = x]
    /\ argLen' = [argLen EXCEPT ![t] = len]
    /\ UNCHANGED <<head, tail, heap, e>>

\* calloc zeroes the element.
AddAlloc(t) ==
    /\ Goto(t, "add_alloc", "add_link")
    /\ \E n \in Nodes \ allocated :
          /\ allocated' = allocated \cup {n}
          /\ next' = [next EXCEPT ![n] = Null]
          /\ data' = [data EXCEPT ![n] = NoItem]
          /\ length' = [length EXCEPT ![n] = 0]
          /\ e' = [e EXCEPT ![t] = n]
    /\ UNCHANGED <<head, tail, mutex, arg, argLen>>

\* Slip: the new element goes in front of the others.
AddLinkInFront(t) ==
    /\ Goto(t, "add_link", "add_tail")
    /\ next' = [next EXCEPT ![e[t]] = head]
    /\ head' = e[t]
    /\ UNCHANGED <<tail, data, length, allocated, mutex, e, arg, argLen>>

AddLink(t) ==
    /\ Goto(t, "add_link", "add_tail")
    /\ \/ /\ tail # Null
          /\ next' = [next EXCEPT ![tail] = e[t]]
          /\ UNCHANGED head
       \/ /\ tail = Null
          /\ head' = e[t]
          /\ UNCHANGED next
    /\ UNCHANGED <<tail, data, length, allocated, mutex, e, arg, argLen>>

AddTail(t) ==
    /\ Goto(t, "add_tail", "add_data")
    /\ tail' = e[t]
    /\ UNCHANGED <<head, heap, mutex, e, arg, argLen>>

\* Only data is stored: no statement of list_add uses its argument length.
AddData(t) ==
    /\ Goto(t, "add_data", "add_unlock")
    /\ data' = [data EXCEPT ![e[t]] = arg[t]]
    /\ UNCHANGED <<head, tail, next, length, allocated, mutex, e, arg, argLen>>

AddUnlock(t) ==
    /\ Goto(t, "add_unlock", "idle")
    /\ Unlock(t)
    /\ e' = [e EXCEPT ![t] = Null]
    /\ arg' = [arg EXCEPT ![t] = NoItem]
    /\ argLen' = [argLen EXCEPT ![t] = 0]
    /\ UNCHANGED <<head, tail, heap>>

-----------------------------------------------------------------------------
\* list_pop(l), and the caller's use of what it returned

PopLock(t) ==
    /\ Goto(t, "idle", "pop_head")
    /\ Lock(t)
    /\ UNCHANGED <<head, tail, heap, e, arg, argLen>>

PopHead(t) ==
    /\ Goto(t, "pop_head", "pop_unlink")
    /\ e' = [e EXCEPT ![t] = head]
    /\ UNCHANGED <<head, tail, heap, mutex, arg, argLen>>

\* Slip: popping the last element leaves tail as it was.
PopUnlinkKeepsTail(t) ==
    /\ Goto(t, "pop_unlink", "pop_unlock")
    /\ head' = IF head = tail THEN Null ELSE next[e[t]]
    /\ UNCHANGED <<tail, heap, mutex, e, arg, argLen>>

PopUnlink(t) ==
    /\ Goto(t, "pop_unlink", "pop_unlock")
    /\ \/ /\ head = tail
          /\ head' = Null
          /\ tail' = Null
       \/ /\ head # tail
          /\ head' = next[e[t]]
          /\ UNCHANGED tail
    /\ UNCHANGED <<heap, mutex, e, arg, argLen>>

\* Slip: an early return for the empty list, without unlocking.
PopReturnsLocked(t) ==
    /\ Goto(t, "pop_unlock", IF e[t] = Null THEN "idle" ELSE "use")
    /\ mutex = t
    /\ mutex' = IF e[t] = Null THEN mutex ELSE Null
    /\ UNCHANGED <<head, tail, heap, e, arg, argLen>>

\* A caller that got NULL has nothing to use.  (The sessions never do: see
\* ConfigRelay.)
PopUnlock(t) ==
    /\ Goto(t, "pop_unlock", IF e[t] = Null THEN "idle" ELSE "use")
    /\ Unlock(t)
    /\ UNCHANGED <<head, tail, heap, e, arg, argLen>>

\* Slip: the session frees the data and forgets the element.
FreeDataOnly(t) ==
    /\ Goto(t, "use", "idle")
    /\ e' = [e EXCEPT ![t] = Null]
    /\ UNCHANGED <<head, tail, heap, mutex, arg, argLen>>

\* The session reads e->data and e->length, writes, and frees e, all without
\* list_mutex.  The contents of freed memory are not specified: calloc
\* overwrites them before anyone may look.
Free(t) ==
    /\ Goto(t, "use", "idle")
    /\ allocated' = allocated \ {e[t]}
    /\ e' = [e EXCEPT ![t] = Null]
    /\ UNCHANGED <<head, tail, next, data, length, mutex, arg, argLen>>

-----------------------------------------------------------------------------
AddStep(t) == AddAlloc(t) \/ AddLink(t) \/ AddTail(t) \/ AddData(t) \/ AddUnlock(t)
PopStep(t) == PopHead(t) \/ PopUnlink(t) \/ PopUnlock(t) \/ Free(t)

Next ==
    \/ \E t \in Adders : \/ \E x \in Items, len \in Lengths : AddLock(t, x, len)
                         \/ AddStep(t)
    \/ \E t \in Poppers : PopLock(t) \/ PopStep(t)

\* A thread that got list_mutex keeps running, and a session that popped an
\* element goes on to free it.  Nothing is assumed of who gets the mutex.
Fairness ==
    /\ \A t \in Adders : WF_vars(AddStep(t))
    /\ \A t \in Poppers : WF_vars(PopStep(t))

Spec == Init /\ [][Next]_vars /\ Fairness

-----------------------------------------------------------------------------
(* What the list holds *)

InAdd(t) == pc[t] \in {"add_link", "add_tail", "add_data", "add_unlock"}
InUse(t) == t \in Poppers /\ (pc[t] = "use" \/ pc[t] = "pop_unlock") /\ e[t] # Null

\* Sequences of nodes without repetition: no longer than the heap is large.
Walks == {q \in UNION {[1..n -> Nodes] : n \in 0..Cardinality(Nodes)} :
             \A i, j \in DOMAIN q : q[i] = q[j] => i = j}

\* q visits what is reached from head by following next, up to NULL.
IsChain(q) ==
    /\ head = IF q = <<>> THEN Null ELSE q[1]
    /\ \A i \in DOMAIN q : next[q[i]] = IF i = Len(q) THEN Null ELSE q[i + 1]

Chain == CHOOSE q \in Walks : IsChain(q)
OnList == {Chain[i] : i \in DOMAIN Chain}

\* The item a node stands for: its data field, or, from the moment the node
\* is linked until the field is assigned, the argument of the list_add that
\* is adding it.
ItemAt(n) ==
    IF \E t \in Adders : InAdd(t) /\ e[t] = n
    THEN arg[CHOOSE t \in Adders : InAdd(t) /\ e[t] = n]
    ELSE data[n]

\* The list is well formed whenever no thread is inside a critical section:
\* following next from head ends, no node occurs twice, head is NULL exactly
\* when tail is, tail is the last node reached, and every node on the list is
\* allocated.  list_add writes through tail and list_pop reads through head
\* on this basis.
WellFormed ==
    mutex = Null =>
        /\ \E q \in Walks : IsChain(q)
        /\ (head = Null) <=> (tail = Null)
        /\ tail # Null => Chain[Len(Chain)] = tail
        /\ OnList \subseteq allocated

\* An element that list_pop handed out belongs to its popper alone: it is
\* allocated, off the list (so no list_add can write its next field through
\* tail after it is freed), and no other popper holds it.  The session uses
\* and frees it without the mutex on this basis.
PoppedIsPrivate ==
    \A t \in Poppers : InUse(t) =>
        /\ e[t] \in allocated
        /\ e[t] \notin OnList \cup {tail}
        /\ \A u \in Poppers \ {t} : InUse(u) => e[u] # e[t]

\* No element leaks: what is allocated is on the list, being added, or held
\* by a popper that will free it.
NoLeak ==
    allocated \subseteq OnList \cup {e[t] : t \in Threads}

\* No path through list_add or list_pop, the empty list included, leaves
\* list_mutex locked.
MutexReleased ==
    \A t \in Threads : mutex = t ~> mutex # t

\* The abstract queue: a linked node counts as queued from AddLink on, a
\* popped one as handed over from PopUnlink until it is freed.
Fifo == INSTANCE FifoList WITH
            Threads <- Poppers,
            queue <- [i \in DOMAIN Chain |-> ItemAt(Chain[i])],
            out <- [t \in Poppers |-> IF InUse(t) THEN data[e[t]] ELSE NoItem]

\* Every interleaving of the statements of list_add and list_pop behaves as
\* the atomic FIFO queue of FifoList.
ImplementsFifo == Fifo!FifoSpec

\* The same with the length that goes with each item.
SizedAt(n) ==
    IF \E t \in Adders : InAdd(t) /\ e[t] = n
    THEN LET t == CHOOSE t \in Adders : InAdd(t) /\ e[t] = n IN <<arg[t], argLen[t]>>
    ELSE <<data[n], length[n]>>

SizedFifo == INSTANCE FifoList WITH
            Threads <- Poppers,
            Items <- Items \X Lengths,
            queue <- [i \in DOMAIN Chain |-> SizedAt(Chain[i])],
            out <- [t \in Poppers |->
                        IF InUse(t) THEN <<data[e[t]], length[e[t]]>> ELSE NoItem]

\* linked_list.h declares list_add(l, data, length) and gives struct
\* list_elem a length beside its data: the queue should hand over each item
\* with the length it was added with.
ImplementsSizedFifo == SizedFifo!FifoSpec
=============================================================================
