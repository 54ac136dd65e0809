------------------------------ MODULE FifoList ------------------------------
(***************************************************************************)
(* What data_structures/linked_list.h promises: a queue shared by threads, *)
(* each call atomic.  list_add appends; list_pop removes the oldest        *)
(* element and hands it to its caller, or hands over NULL when there is    *)
(* none; the caller gives the element up when it frees it.                 *)
(***************************************************************************)
EXTENDS Naturals, Sequences

CONSTANTS
    Threads,    \* the threads that call the list
    Items,      \* what is stored
    NoItem      \* not an item: list_pop's NULL, "this thread holds nothing"

VARIABLES
    queue,      \* the stored items, oldest first
    out         \* out[t]: the item thread t popped and has not freed yet

fifoVars == <<queue, out>>

FifoInit ==
    /\ queue = <<>>
    /\ out = [t \in Threads |-> NoItem]

FifoAdd(x) ==
    /\ queue' = Append(queue, x)
    /\ UNCHANGED out

FifoPop(t) ==
    /\ out[t] = NoItem
    /\ queue # <<>>
    /\ out' = [out EXCEPT ![t] = Head(queue)]
    /\ queue' = Tail(queue)

FifoRelease(t) ==
    /\ out[t] # NoItem
    /\ out' = [out EXCEPT ![t] = NoItem]
    /\ UNCHANGED queue

FifoNext ==
    \/ \E x \in Items : FifoAdd(x)
    \/ \E t \in Threads : FifoPop(t) \/ FifoRelease(t)

FifoSpec == FifoInit /\ [][FifoNext]_fifoVars
=============================================================================
