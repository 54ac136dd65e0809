---------------------------- MODULE ConfigRelay -----------------------------
(***************************************************************************)
(* The path of a configuration from the control port to the controlcomm    *)
(* port.  The control thread answers AT*CTRL=n,4 by queueing the contents  *)
(* of the file "configuration" on data_list and posting data_semaphore     *)
(* (control_handlers.c).  The controlcomm thread initialises the semaphore *)
(* and starts one session thread per client; each session waits on the     *)
(* semaphore, pops an element, writes it to its client and frees it, for   *)
(* ever (controlcomm_server.c).  The list is used through the atomic       *)
(* operations of FifoList, which LinkedList is shown to implement.         *)
(*                                                                         *)
(* list_add does not store the length of what it queues (LinkedList), so   *)
(* that e->length is 0 and no write carries a byte.  The model follows     *)
(* which configuration each write is made for, not its bytes.              *)
(***************************************************************************)
EXTENDS Naturals, FiniteSets, Sequences

CONSTANTS
    Sessions,       \* the clients that connect, each with its session thread
    MaxCtrl,        \* bound: AT*CTRL requests handled in one behaviour
    None            \* no element

ASSUME RelayAssumption ==
    /\ MaxCtrl \in Nat
    /\ IsFiniteSet(Sessions)
    /\ None \notin Nat

\* The k-th request queues configuration k.
Configs == 1..MaxCtrl

VARIABLES
    status,     \* the process: "running", "exit" (error()), "fault" (a signal)
    list,       \* data_list
    sem,        \* the value of data_semaphore
    ctl,        \* the control thread: "listen", "add" (file read), "post"
    comm,       \* the controlcomm thread: "sem_init", "bind", "accept"
    session,    \* what each session thread does next
    elem,       \* elem[s]: the element session s popped and has not freed
    client,     \* the other end: "none", "connected", "gone"
    requests,   \* how many requests were handled
    written,    \* written[s]: the configurations the writes to client s were for
    lost,       \* configurations written to a client that had gone
    erased      \* posts that sem_init wiped out

vars == <<status, list, sem, ctl, comm, session, elem, client, requests,
          written, lost, erased>>

DataList == INSTANCE FifoList WITH
                Threads <- Sessions, Items <- Configs, NoItem <- None,
                queue <- list, out <- elem

TypeOK ==
    /\ status \in {"running", "exit", "fault"}
    /\ list \in Seq(Configs)
    /\ sem \in Nat
    /\ ctl \in {"listen", "add", "post"}
    /\ comm \in {"sem_init", "bind", "accept"}
    /\ session \in [Sessions -> {"none", "wait", "pop", "write", "free"}]
    /\ elem \in [Sessions -> Configs \cup {None}]
    /\ client \in [Sessions -> {"none", "connected", "gone"}]
    /\ requests \in 0..MaxCtrl
    /\ written \in [Sessions -> Seq(Configs)]
    /\ lost \subseteq Configs
    /\ erased \in Nat

\* data_semaphore is a zero-filled global until sem_init runs: on Linux that
\* is a semaphore of value 0, and sem_post works on it.
Init ==
    /\ status = "running"
    /\ sem = 0
    /\ ctl = "listen"
    /\ comm = "sem_init"
    /\ session = [s \in Sessions |-> "none"]
    /\ client = [s \in Sessions |-> "none"]
    /\ requests = 0
    /\ written = [s \in Sessions |-> <<>>]
    /\ lost = {}
    /\ erased = 0
    /\ DataList!FifoInit

-----------------------------------------------------------------------------
(* control_ctrl_handler, on the control thread.  main starts this thread    *)
(* after the controlcomm thread, and nothing orders their first steps.      *)

ControlGoes(from, to) ==
    /\ status = "running" /\ ctl = from
    /\ ctl' = to
    /\ UNCHANGED <<comm, session, client, written, lost, erased>>

CtrlRequest ==
    /\ ControlGoes("listen", "add")
    /\ requests < MaxCtrl
    /\ requests' = requests + 1
    /\ UNCHANGED <<status, list, sem, elem>>

\* fopen found no file "configuration" in the working directory: its result
\* is not tested and fseek gets NULL.
CtrlNoFile ==
    /\ ControlGoes("listen", "listen")
    /\ requests < MaxCtrl
    /\ status' = "fault"
    /\ UNCHANGED <<list, sem, elem, requests>>

CtrlAdd ==
    /\ ControlGoes("add", "post")
    /\ DataList!FifoAdd(requests)
    /\ UNCHANGED <<status, sem, requests>>

\* Slip: the semaphore used like a condition variable, signalled only when
\* somebody waits.
CtrlPostIfWaiting ==
    /\ ControlGoes("post", "listen")
    /\ sem' = IF \E s \in Sessions : session[s] = "wait" THEN sem + 1 ELSE sem
    /\ UNCHANGED <<status, list, elem, requests>>

CtrlPost ==
    /\ ControlGoes("post", "listen")
    /\ sem' = sem + 1
    /\ UNCHANGED <<status, list, elem, requests>>

-----------------------------------------------------------------------------
(* controlcomm_listen                                                       *)

ListenerGoes(from, to) ==
    /\ status = "running" /\ comm = from
    /\ comm' = to
    /\ UNCHANGED <<list, elem, ctl, client, requests, written, lost>>

CommSemInit ==
    /\ ListenerGoes("sem_init", "bind")
    /\ sem' = 0
    /\ erased' = erased + sem
    /\ UNCHANGED <<status, session>>

CommBind ==
    /\ ListenerGoes("bind", "accept")
    /\ UNCHANGED <<status, sem, session, erased>>

\* The port is taken: error() ends the process.
CommBindFails ==
    /\ ListenerGoes("bind", "bind")
    /\ status' = "exit"
    /\ UNCHANGED <<sem, session, erased>>

\* accept returns the connection of a client (which may have gone since) and
\* a session thread starts.
Starts(s) ==
    /\ ListenerGoes("accept", "accept")
    /\ client[s] # "none" /\ session[s] = "none"
    /\ session' = [session EXCEPT ![s] = "wait"]
    /\ UNCHANGED <<status, erased>>

\* A connection is there, but accept cannot return it (the process is out of
\* descriptors, the connection was aborted).
CommAcceptFails ==
    /\ ListenerGoes("accept", "accept")
    /\ \E s \in Sessions : client[s] # "none" /\ session[s] = "none"
    /\ status' = "exit"
    /\ UNCHANGED <<sem, session, erased>>

\* Slip: sem_init moved into the accept loop.
CommAcceptReinit(s) == Starts(s) /\ sem' = 0

CommAccept(s) == Starts(s) /\ UNCHANGED sem

-----------------------------------------------------------------------------
(* controlcomm_session                                                      *)

SessionGoes(s, from, to) ==
    /\ status = "running" /\ session[s] = from
    /\ session' = [session EXCEPT ![s] = to]
    /\ UNCHANGED <<ctl, comm, client, requests, erased>>

\* Slip: sem_trywait with its result ignored.
SessionTryWait(s) ==
    /\ SessionGoes(s, "wait", "pop")
    /\ sem' = sem - 1
    /\ UNCHANGED <<status, list, elem, written, lost>>

SessionSemWait(s) ==
    /\ SessionGoes(s, "wait", "pop")
    /\ sem > 0
    /\ sem' = sem - 1
    /\ UNCHANGED <<status, list, elem, written, lost>>

\* Slip: the session looks at the head of the list and leaves it there.
SessionPeek(s) ==
    /\ SessionGoes(s, "pop", "write")
    /\ list # <<>>
    /\ elem' = [elem EXCEPT ![s] = Head(list)]
    /\ UNCHANGED <<status, list, sem, written, lost>>

\* If list_pop returned NULL the session would read e->data through it.
SessionPop(s) ==
    /\ SessionGoes(s, "pop", "write")
    /\ status' = IF list = <<>> THEN "fault" ELSE status
    /\ IF list = <<>> THEN UNCHANGED <<list, elem>> ELSE DataList!FifoPop(s)
    /\ UNCHANGED <<sem, written, lost>>

\* Slip: a loop around write that does not end when all is written.
SessionWriteAgain(s) ==
    /\ \E next \in {"write", "free"} : SessionGoes(s, "write", next)
    /\ client[s] = "connected"
    /\ written' = [written EXCEPT ![s] = Append(@, elem[s])]
    /\ UNCHANGED <<status, list, sem, elem, lost>>

\* Slip: a write that a signal interrupted is taken for done.
SessionWriteInterrupted(s) ==
    /\ SessionGoes(s, "write", "free")
    /\ \/ client[s] = "connected" /\ written' = [written EXCEPT ![s] = Append(@, elem[s])]
       \/ UNCHANGED written
    /\ UNCHANGED <<status, list, sem, elem, lost>>

SessionWrite(s) ==
    /\ SessionGoes(s, "write", "free")
    /\ \/ /\ client[s] = "connected"
          /\ written' = [written EXCEPT ![s] = Append(@, elem[s])]
          /\ UNCHANGED lost
       \/ /\ client[s] = "gone"
          /\ lost' = lost \cup {elem[s]}
          /\ UNCHANGED written
    /\ UNCHANGED <<status, list, sem, elem>>

\* The client has gone and the kernel knows: error(), or SIGPIPE first.
SessionWriteFails(s) ==
    /\ SessionGoes(s, "write", "write")
    /\ client[s] = "gone"
    /\ status' \in {"exit", "fault"}
    /\ UNCHANGED <<list, sem, elem, written, lost>>

SessionFree(s) ==
    /\ SessionGoes(s, "free", "wait")
    /\ DataList!FifoRelease(s)
    /\ UNCHANGED <<status, sem, written, lost>>

-----------------------------------------------------------------------------
(* The clients                                                              *)

ClientGoes(s, from, to) ==
    /\ status = "running" /\ client[s] = from
    /\ client' = [client EXCEPT ![s] = to]
    /\ UNCHANGED <<status, list, sem, ctl, comm, session, elem, requests, written, lost,
                   erased>>

\* A connection succeeds once the socket listens, before accept returns it.
ClientConnect(s) == comm = "accept" /\ ClientGoes(s, "none", "connected")

\* Nothing in the session notices: it keeps waiting for the semaphore.
ClientLeave(s) == ClientGoes(s, "connected", "gone")

-----------------------------------------------------------------------------
CtrlStep == CtrlAdd \/ CtrlPost
CommStep == CommSemInit \/ CommBind \/ CommBindFails \/ \E s \in Sessions : CommAccept(s)
SessionStep(s) == \/ SessionSemWait(s) \/ SessionPop(s) \/ SessionWrite(s)
                  \/ SessionWriteFails(s) \/ SessionFree(s)

Next ==
    \/ CtrlRequest \/ CtrlNoFile \/ CtrlStep
    \/ CommStep \/ CommAcceptFails
    \/ \E s \in Sessions : SessionStep(s) \/ ClientConnect(s) \/ ClientLeave(s)

\* Threads that can run do run.  Requests, connections and departures are up
\* to the clients.  sem_wait wakes some waiting session, not a given one.
Fairness ==
    /\ WF_vars(CtrlStep)
    /\ WF_vars(CommStep)
    /\ WF_vars(\E s \in Sessions : SessionSemWait(s))
    /\ \A s \in Sessions : WF_vars(SessionPop(s) \/ SessionWrite(s) \/ SessionFree(s))

Spec == Init /\ [][Next]_vars /\ Fairness

-----------------------------------------------------------------------------
(* Properties                                                               *)

Popping == {s \in Sessions : session[s] = "pop"}
Holding == {s \in Sessions : session[s] \in {"write", "free"}}

\* Every queued element is accounted for by a token: one still in the
\* semaphore, one a session took and has not used yet, the one the control
\* thread is about to post, or one that sem_init wiped out because the
\* control thread was faster than the controlcomm thread.
TokenConservation ==
    Len(list) = sem + Cardinality(Popping) + erased + (IF ctl = "post" THEN 1 ELSE 0)

\* The sessions never dereference the NULL of an empty list: the list is long
\* enough for all that are past sem_wait, whatever the order they pop in.
NoNullPop ==
    Cardinality(Popping) <= Len(list)

Increasing(q) == \A i, j \in DOMAIN q : i < j => q[i] < q[j]

\* What was written for the client of s, what its session is about to write
\* and what is queued: the writes to a client are for configurations in the
\* order they were asked for, however many sessions share the list, and never
\* for one twice.
History(s) ==
    written[s] \o (IF session[s] = "write" THEN <<elem[s]>> ELSE <<>>) \o list

InRequestOrder == \A s \in Sessions : Increasing(History(s))

WrittenFor(s) == {written[s][i] : i \in DOMAIN written[s]}
HeldBy(s) == IF session[s] = "write" THEN {elem[s]} ELSE {}
Queued == {list[i] : i \in DOMAIN list}

\* Every request that was queued is in exactly one place: on the list, in the
\* hands of one session, written to one client, or lost to a client that had
\* gone.  None is dropped and none is written to two clients.
ExactlyOnce ==
    /\ 1..requests = Queued \cup lost
                            \cup (UNION {WrittenFor(s) \cup HeldBy(s) : s \in Sessions})
                            \cup (IF ctl = "add" THEN {requests} ELSE {})
    /\ requests = Len(list) + Cardinality(lost) + (IF ctl = "add" THEN 1 ELSE 0)
                  + Cardinality(UNION {WrittenFor(s) \cup HeldBy(s) : s \in Sessions})
    /\ \A s, t \in Sessions : s # t =>
          (WrittenFor(s) \cup HeldBy(s)) \cap (WrittenFor(t) \cup HeldBy(t)) = {}
=============================================================================
