--------------------------- MODULE FtpServerProofs ---------------------------
(***************************************************************************)
(* FtpServer, for any number of clients that send any lines and leave at   *)
(* any time: the data thread never looks for a file name before there is   *)
(* one, and one PASV at most is answered.                                  *)
(***************************************************************************)
EXTENDS FtpServer, TLAPS, SequenceTheorems, WellFoundedInduction

SessionSteps == {"none", "start", "recv", "pasv_thread", "pasv_reply", "retr_unlock",
                 "retr_join", "retr_reply", "free", "ended"}
DataSteps == {"none", "start", "accept", "lock", "open", "send", "close", "unlock", "done", "joined"}

\* The types that the proofs need.
TypeInv ==
    /\ session \in [Sessions -> SessionSteps]
    /\ mutex \in [Sessions -> {"free", "session", "data"}]
    /\ DOMAIN filename = Sessions
    /\ replies \in [Sessions -> Seq(Nat)]
    /\ data \in DataSteps
    /\ data # "none" => owner \in Sessions

\* Between its start and the end of its first RETR a session holds retr_mutex,
\* but for the time in which it joins the data thread.
HoldsInv ==
    \A s \in Sessions :
        session[s] \in {"recv", "pasv_thread", "pasv_reply", "free", "ended"}
            /\ filename[s] # "freed" => mutex[s] = "session"

\* The data thread inside the mutex finds its session there, too.
InsideInv ==
    \A s \in Sessions :
        owner = s /\ data \in {"open", "send", "close", "unlock"} /\ filename[s] # "freed"
            => session[s] \in {"retr_unlock", "retr_join"}

\* A session past its join has no data thread left.
JoinedInv ==
    \A s \in Sessions :
        owner = s /\ session[s] = "retr_reply" => data = "joined"

\* A session that has not begun has no data thread yet.
NotBegunInv ==
    \A s \in Sessions : session[s] \in {"none", "start"} => owner # s

MutexInv == TypeInv /\ HoldsInv /\ InsideInv /\ JoinedInv /\ NotBegunInv

-----------------------------------------------------------------------------
LEMMA MutexInit == Init => MutexInv
BY FtpAssumption DEF Init, MutexInv, TypeInv, HoldsInv, InsideInv, JoinedInv, NotBegunInv,
                     SessionSteps, DataSteps

\* A reply keeps the type of replies.
LEMMA WriteTypes ==
    ASSUME TypeInv, NEW s \in Sessions, NEW code \in Nat, NEW failures, Write(s, code, failures)
    PROVE  replies' \in [Sessions -> Seq(Nat)]
<1>1. CASE replies' = replies
  BY <1>1 DEF TypeInv
<1>2. CASE replies' = [replies EXCEPT ![s] = Append(@, code)]
  <2>1. Append(replies[s], code) \in Seq(Nat)
    BY DEF TypeInv
  <2> QED
    BY <1>2, <2>1 DEF TypeInv
<1> QED
  BY <1>1, <1>2 DEF Write

\* A step of session s from recv to recv, free, pasv_thread or retr_unlock.
LEMMA FromRecv ==
    ASSUME MutexInv, NEW s \in Sessions, session[s] = "recv",
           NEW to \in {"recv", "free", "pasv_thread"},
           session' = [session EXCEPT ![s] = to],
           UNCHANGED <<mutex, filename, data, owner>>,
           replies' \in [Sessions -> Seq(Nat)]
    PROVE  MutexInv'
<1> USE DEF MutexInv
<1>1. TypeInv'
  BY DEF TypeInv, SessionSteps
<1>2. \A u \in Sessions : session'[u] = IF u = s THEN to ELSE session[u]
  BY DEF TypeInv
<1>3. HoldsInv'
  BY <1>2 DEF HoldsInv
<1>4. InsideInv'
  BY <1>2 DEF InsideInv
<1>5. JoinedInv'
  BY <1>2 DEF JoinedInv
<1>6. NotBegunInv'
  BY <1>2 DEF NotBegunInv
<1> QED
  BY <1>1, <1>3, <1>4, <1>5, <1>6

\* Where error() ends the process, nothing but status changes.
LEMMA StopChanges ==
    ASSUME Refused \/ \E s \in Sessions : RecvFails(s)
    PROVE  /\ status = "running" /\ status' = "exit"
           /\ UNCHANGED <<dataBound, session, client, inbox, sent, replies, mutex, filename,
                          data, owner, peer, served>>
BY DEF Refused, BindFails, AcceptFails, DataAcceptFails, RecvFails, Stop, Stop, control, transfer

LEMMA SessionKeepsMutex ==
    ASSUME MutexInv, NEW s \in Sessions, Accept(s) \/ SessionStep(s)
    PROVE  MutexInv'
<1> USE DEF MutexInv, Goto, Silent, Handle, Handles, control, transfer
<1>t. TypeInv
  OBVIOUS
<1>1. CASE Accept(s)
  <2>1. replies' \in [Sessions -> Seq(Nat)]
    BY <1>1, WriteTypes DEF Accept
  <2>2. session[s] = "none" /\ session' = [session EXCEPT ![s] = "start"]
        /\ UNCHANGED <<mutex, filename, data, owner>>
    BY <1>1 DEF Accept
  <2>3. \A u \in Sessions : session'[u] = IF u = s THEN "start" ELSE session[u]
    BY <2>2 DEF TypeInv
  <2>4. TypeInv'
    BY <2>1, <2>2 DEF TypeInv, SessionSteps
  <2> QED
    BY <2>2, <2>3, <2>4 DEF HoldsInv, InsideInv, JoinedInv, NotBegunInv
<1>2. CASE Start(s)
  <2>1. /\ session[s] = "start" /\ session' = [session EXCEPT ![s] = "recv"]
        /\ mutex' = [mutex EXCEPT ![s] = "session"]
        /\ UNCHANGED <<filename, data, owner, replies>>
    BY <1>2 DEF Start
  <2>2. \A u \in Sessions : /\ session'[u] = IF u = s THEN "recv" ELSE session[u]
                            /\ mutex'[u] = IF u = s THEN "session" ELSE mutex[u]
    BY <2>1 DEF TypeInv
  <2>3. TypeInv'
    BY <2>1 DEF TypeInv, SessionSteps
  <2>4. owner # s
    BY <2>1 DEF NotBegunInv
  <2> QED
    BY <2>1, <2>2, <2>3, <2>4 DEF HoldsInv, InsideInv, JoinedInv, NotBegunInv
<1>3. CASE Skip(s) \/ User(s) \/ Type(s) \/ Size(s) \/ Empty(s)
  <2>1. session[s] = "recv" /\ session' = [session EXCEPT ![s] = "recv"]
        /\ UNCHANGED <<mutex, filename, data, owner>>
    BY <1>3 DEF Skip, User, Type, Size, Empty
  <2>2. replies' \in [Sessions -> Seq(Nat)]
    <3>1. CASE UNCHANGED replies
      BY <3>1 DEF TypeInv
    <3>2. CASE User(s)
      BY <3>1, <3>2, WriteTypes DEF User
    <3>3. CASE Type(s)
      BY <3>1, <3>3, WriteTypes DEF Type
    <3>4. CASE Size(s)
      BY <3>4, WriteTypes DEF Size
    <3>5. CASE Empty(s)
      BY <3>5, WriteTypes DEF Empty
    <3> QED
      BY <1>3, <3>1, <3>2, <3>3, <3>4, <3>5 DEF Skip
  <2> QED
    BY <2>1, <2>2, FromRecv
<1>4. CASE Quit(s)
  <2>1. replies' \in [Sessions -> Seq(Nat)]
    BY <1>4, WriteTypes DEF Quit
  <2> QED
    BY <1>4, <2>1, FromRecv DEF Quit
<1>5. CASE PasvBind(s)
  <2>1. replies' \in [Sessions -> Seq(Nat)]
    BY <1>5 DEF PasvBind, TypeInv
  <2> QED
    BY <1>5, <2>1, FromRecv DEF PasvBind
<1>6. CASE Free(s) \/ PasvReply(s)
  <2>1. \/ session[s] = "free" /\ session' = [session EXCEPT ![s] = "ended"]
        \/ session[s] = "pasv_reply" /\ session' = [session EXCEPT ![s] = "recv"]
    BY <1>6 DEF Free, PasvReply
  <2>2. replies' \in [Sessions -> Seq(Nat)]
    BY <1>6, WriteTypes DEF Free, PasvReply, TypeInv
  <2>3. UNCHANGED <<mutex, filename, data, owner>>
    BY <1>6 DEF Free, PasvReply
  <2>4. TypeInv'
    BY <2>1, <2>2, <2>3 DEF TypeInv, SessionSteps
  <2>5. \A u \in Sessions : u # s => session'[u] = session[u]
    BY <2>1 DEF TypeInv
  <2>6. session[s] \in {"free", "pasv_reply"} /\ session'[s] \in {"ended", "recv"}
    BY <2>1 DEF TypeInv
  <2> QED
    BY <2>3, <2>4, <2>5, <2>6 DEF HoldsInv, InsideInv, JoinedInv, NotBegunInv
<1>7. CASE PasvThread(s)
  <2>1. /\ session[s] = "pasv_thread" /\ session' = [session EXCEPT ![s] = "pasv_reply"]
        /\ data' = "start" /\ owner' = s
        /\ UNCHANGED <<mutex, filename, replies>>
    BY <1>7 DEF PasvThread
  <2>2. \A u \in Sessions : session'[u] = IF u = s THEN "pasv_reply" ELSE session[u]
    BY <2>1 DEF TypeInv
  <2>3. TypeInv'
    BY <2>1 DEF TypeInv, SessionSteps, DataSteps
  <2> QED
    BY <2>1, <2>2, <2>3 DEF HoldsInv, InsideInv, JoinedInv, NotBegunInv
<1>8. CASE RetrName(s)
  <2>1. /\ session[s] = "recv" /\ session' = [session EXCEPT ![s] = "retr_unlock"]
        /\ filename' = [filename EXCEPT ![s] = FirstArg(inbox[s])]
        /\ UNCHANGED <<mutex, data, owner, replies>>
    BY <1>8 DEF RetrName
  <2>2. /\ \A u \in Sessions : session'[u] = IF u = s THEN "retr_unlock" ELSE session[u]
        /\ \A u \in Sessions \ {s} : filename'[u] = filename[u]
    BY <2>1 DEF TypeInv
  <2>3. TypeInv'
    BY <2>1 DEF TypeInv, SessionSteps
  <2> QED
    BY <2>1, <2>2, <2>3 DEF HoldsInv, InsideInv, JoinedInv, NotBegunInv
<1>9. CASE RetrUnlock(s)
  <2>1. /\ session[s] = "retr_unlock" /\ session' = [session EXCEPT ![s] = "retr_join"]
        /\ mutex' = [mutex EXCEPT ![s] = "free"]
        /\ UNCHANGED <<filename, data, owner, replies>>
    BY <1>9 DEF RetrUnlock
  <2>2. /\ \A u \in Sessions : session'[u] = IF u = s THEN "retr_join" ELSE session[u]
        /\ \A u \in Sessions \ {s} : mutex'[u] = mutex[u]
    BY <2>1 DEF TypeInv
  <2>3. TypeInv'
    BY <2>1 DEF TypeInv, SessionSteps
  <2> QED
    BY <2>1, <2>2, <2>3 DEF HoldsInv, InsideInv, JoinedInv, NotBegunInv
<1>10. CASE RetrJoin(s)
  <2>1. /\ session[s] = "retr_join" /\ session' = [session EXCEPT ![s] = "retr_reply"]
        /\ \/ owner = s /\ data = "done" /\ data' = "joined"
           \/ (owner # s \/ data = "joined") /\ data' = data
        /\ UNCHANGED <<filename, mutex, owner, replies>>
    BY <1>10 DEF RetrJoin
  <2>2. \A u \in Sessions : session'[u] = IF u = s THEN "retr_reply" ELSE session[u]
    BY <2>1 DEF TypeInv
  <2>3. TypeInv'
    BY <2>1 DEF TypeInv, SessionSteps, DataSteps
  <2> QED
    BY <2>1, <2>2, <2>3 DEF HoldsInv, InsideInv, JoinedInv, NotBegunInv
<1>11. CASE RetrReply(s)
  <2>1. replies' \in [Sessions -> Seq(Nat)]
    BY <1>11, WriteTypes DEF RetrReply
  <2>2. /\ session[s] = "retr_reply" /\ session' = [session EXCEPT ![s] = "recv"]
        /\ filename' = [filename EXCEPT ![s] = "freed"]
        /\ UNCHANGED <<mutex, data, owner>>
    BY <1>11 DEF RetrReply
  <2>3. \A u \in Sessions : /\ session'[u] = IF u = s THEN "recv" ELSE session[u]
                            /\ filename'[u] = IF u = s THEN "freed" ELSE filename[u]
    BY <2>2 DEF TypeInv
  <2>4. TypeInv'
    BY <2>1, <2>2 DEF TypeInv, SessionSteps
  <2> QED
    BY <2>2, <2>3, <2>4 DEF HoldsInv, InsideInv, JoinedInv, NotBegunInv
<1>12. CASE RecvFails(s)
  <2>1. UNCHANGED <<session, mutex, filename, data, owner, replies>>
    BY <1>12, StopChanges
  <2> QED
    BY <2>1 DEF TypeInv, HoldsInv, InsideInv, JoinedInv, NotBegunInv
<1> QED
  BY <1>1, <1>2, <1>3, <1>4, <1>5, <1>6, <1>7, <1>8, <1>9, <1>10, <1>11, <1>12 DEF SessionStep

LEMMA DataKeepsMutex ==
    ASSUME MutexInv, DataStep
    PROVE  MutexInv'
<1> USE DEF MutexInv, DataGoto, DataUndefined, OwnerFreed, control
<1>t. TypeInv
  OBVIOUS
<1>o. owner \in Sessions /\ UNCHANGED <<session, owner>>
  BY DEF DataStep, DataListen, DataAccept, DataTouchesFreed, DataLock, DataOpen, DataOpenFreed,
         DataSend,
         DataClose, DataUnlock, TypeInv
<1>1. CASE DataLock
  <2>1. /\ data = "lock" /\ data' = "open"
        /\ session[owner] # "ended" /\ mutex[owner] = "free"
        /\ mutex' = [mutex EXCEPT ![owner] = "data"]
        /\ UNCHANGED <<filename, replies>>
    BY <1>1, <1>o, FtpAssumption DEF DataLock, OwnerFreed
  <2>2. \A u \in Sessions : mutex'[u] = IF u = owner THEN "data" ELSE mutex[u]
    BY <2>1 DEF TypeInv
  <2>3. TypeInv'
    BY <1>o, <2>1 DEF TypeInv, DataSteps
  \* The mutex was free, so the session is past the first part of a RETR.
  <2>4. filename[owner] # "freed" => session[owner] \in {"retr_unlock", "retr_join"}
    BY <1>o, <2>1 DEF HoldsInv, JoinedInv, NotBegunInv, TypeInv, SessionSteps
  <2>5. HoldsInv'
    BY <1>o, <2>1, <2>2, <2>4 DEF HoldsInv
  <2>6. InsideInv'
    BY <1>o, <2>1, <2>4 DEF InsideInv
  <2>7. JoinedInv' /\ NotBegunInv'
    BY <1>o, <2>1 DEF JoinedInv, NotBegunInv
  <2> QED
    BY <2>3, <2>5, <2>6, <2>7
<1>2. CASE DataUnlock
  <2>1. /\ data = "unlock" /\ data' = "done"
        /\ mutex' = [mutex EXCEPT ![owner] = "free"]
        /\ UNCHANGED <<filename, replies>>
    BY <1>2 DEF DataUnlock
  <2>2. \A u \in Sessions : mutex'[u] = IF u = owner THEN "free" ELSE mutex[u]
    BY <2>1 DEF TypeInv
  <2>3. TypeInv'
    BY <1>o, <2>1 DEF TypeInv, DataSteps
  \* The thread leaves the mutex while its session waits for it.
  <2>4. filename[owner] # "freed" => session[owner] \in {"retr_unlock", "retr_join"}
    BY <1>o, <2>1 DEF InsideInv
  <2>5. HoldsInv'
    BY <1>o, <2>1, <2>2, <2>4 DEF HoldsInv
  <2> QED
    BY <1>o, <2>1, <2>3, <2>5 DEF InsideInv, JoinedInv, NotBegunInv
<1>3. CASE DataListen \/ DataAccept \/ DataTouchesFreed \/ DataOpen \/ DataOpenFreed \/ DataSend \/ DataClose
  <2>1. UNCHANGED <<mutex, filename>>
    BY <1>3 DEF DataListen, DataAccept, DataTouchesFreed, DataOpen, DataOpenFreed, DataSend,
                DataClose
  <2>2. /\ data' \in {"start", "accept", "lock", "open", "send", "close", "unlock"}
        /\ data \notin {"done", "joined", "none"}
        /\ data' \in {"open", "send", "close", "unlock"} => data \in {"open", "send", "close", "unlock"}
    BY <1>3 DEF DataListen, DataAccept, DataTouchesFreed, DataOpen, DataOpenFreed, DataSend,
                DataClose
  <2>3. replies' \in [Sessions -> Seq(Nat)]
    <3>1. CASE UNCHANGED replies
      BY <3>1 DEF TypeInv
    <3>2. CASE DataOpen
      BY <1>o, <3>2, WriteTypes DEF DataOpen
    <3> QED
      BY <1>3, <3>1, <3>2 DEF DataListen, DataAccept, DataTouchesFreed, DataOpenFreed, DataSend,
                              DataClose
  <2>4. TypeInv'
    BY <1>o, <2>1, <2>2, <2>3 DEF TypeInv, DataSteps
  <2> QED
    BY <1>o, <2>1, <2>2, <2>4 DEF HoldsInv, InsideInv, JoinedInv, NotBegunInv
<1> QED
  BY <1>1, <1>2, <1>3 DEF DataStep

LEMMA ClientKeepsServer ==
    ASSUME \/ \E s \in Sessions : ClientStep(s)
           \/ PeerConnect \/ PeerLeave \/ Refused \/ UNCHANGED vars
    PROVE  UNCHANGED <<dataBound, session, replies, mutex, filename, data, owner>>
BY StopChanges DEF ClientStep, ClientConnect, ClientSend, ClientLeave, PeerConnect, PeerLeave,
                   ServerUnchanged, vars

LEMMA MutexNext == MutexInv /\ [Next]_vars => MutexInv'
<1> SUFFICES ASSUME MutexInv, [Next]_vars PROVE MutexInv'
  OBVIOUS
<1>1. CASE \E s \in Sessions : Accept(s) \/ SessionStep(s)
  BY <1>1, SessionKeepsMutex
<1>2. CASE DataStep
  BY <1>2, DataKeepsMutex
<1>3. CASE \/ \E s \in Sessions : ClientStep(s)
           \/ PeerConnect \/ PeerLeave \/ Refused \/ UNCHANGED vars
  <2>1. UNCHANGED <<session, replies, mutex, filename, data, owner>>
    BY <1>3, ClientKeepsServer
  <2> QED
    BY <2>1 DEF MutexInv, TypeInv, HoldsInv, InsideInv, JoinedInv, NotBegunInv
<1> QED
  BY <1>1, <1>2, <1>3 DEF Next

\* The data thread looks at the file name only after RETR stored one, whenever
\* its peer connects and whatever the client sends.
THEOREM NoEarlyOpenAlways == Spec => []NoEarlyOpen
<1>1. MutexInv => NoEarlyOpen
  BY DEF MutexInv, TypeInv, InsideInv, NoEarlyOpen
<1> QED
  BY <1>1, MutexInit, MutexNext, PTL DEF Spec

-----------------------------------------------------------------------------
(* Which codes a step can write, and to whom                                *)

Answers(r, code) == \E i \in DOMAIN r : r[i] = code

\* In the end every step leaves the replies alone or writes one code to one
\* client that is connected.
Writes(s, code) ==
    /\ client[s] = "connected"
    /\ replies' = [replies EXCEPT ![s] = Append(@, code)]

LEMMA WriteIsWrites ==
    ASSUME NEW s, NEW code, NEW failures, Write(s, code, failures)
    PROVE  UNCHANGED replies \/ Writes(s, code)
BY DEF Write, Writes

LEMMA AppendAnswers ==
    ASSUME NEW r \in Seq(Nat), NEW code \in Nat
    PROVE  \A c : Answers(Append(r, code), c) <=> Answers(r, c) \/ c = code
<1> SUFFICES ASSUME NEW c
             PROVE  Answers(Append(r, code), c) <=> Answers(r, c) \/ c = code
  OBVIOUS
<1>1. /\ DOMAIN Append(r, code) = 1..(Len(r) + 1)
      /\ DOMAIN r = 1..Len(r) /\ Len(r) \in Nat
      /\ Append(r, code)[Len(r) + 1] = code
      /\ \A i \in DOMAIN r : Append(r, code)[i] = r[i]
  OBVIOUS
<1> QED
  BY <1>1 DEF Answers

\* The codes of the program other than those of PASV and QUIT.
OtherCodes == {220, 230, 213, 550, 202, 226, 150}

LEMMA WriteOther ==
    ASSUME NEW s, NEW code, code \in OtherCodes, NEW failures, Write(s, code, failures)
    PROVE  UNCHANGED replies \/ \E c \in OtherCodes : Writes(s, c)
BY WriteIsWrites, Zenon

LEMMA StepWrites ==
    ASSUME MutexInv, [Next]_vars
    PROVE  \/ UNCHANGED replies
           \/ \E s \in Sessions, code \in OtherCodes : Writes(s, code)
           \/ \E s \in Sessions : Writes(s, 227) /\ PasvReply(s)
           \/ \E s \in Sessions : Writes(s, 221) /\ Quit(s)
<1>1. ASSUME NEW s \in Sessions, Accept(s) \/ User(s) \/ Type(s) \/ Size(s) \/ Empty(s) \/ RetrReply(s)
      PROVE  UNCHANGED replies \/ \E code \in OtherCodes : Writes(s, code)
  <2>0. {220, 230, 213, 550, 202, 226} \subseteq OtherCodes
    BY DEF OtherCodes
  <2>1. CASE Accept(s)
    <3>1. Write(s, 220, Tested)
      BY <2>1 DEF Accept
    <3> QED
      BY <2>0, <3>1, WriteOther
  <2>2. CASE User(s)
    <3>1. UNCHANGED replies \/ Write(s, 230, Ignored)
      BY <2>2 DEF User
    <3> QED
      BY <2>0, <3>1, WriteOther
  <2>3. CASE Type(s)
    <3>1. UNCHANGED replies \/ Write(s, 220, Ignored)
      BY <2>3 DEF Type
    <3> QED
      BY <2>0, <3>1, WriteOther
  <2>4. CASE Size(s)
    <3>1. Write(s, 213, Ignored) \/ Write(s, 550, Ignored)
      BY <2>4 DEF Size
    <3> QED
      BY <2>0, <3>1, WriteOther
  <2>5. CASE Empty(s)
    <3>1. Write(s, 202, Ignored)
      BY <2>5 DEF Empty
    <3> QED
      BY <2>0, <3>1, WriteOther
  <2>6. CASE RetrReply(s)
    <3>1. Write(s, 226, Tested)
      BY <2>6 DEF RetrReply
    <3> QED
      BY <2>0, <3>1, WriteOther
  <2> QED
    BY <1>1, <2>1, <2>2, <2>3, <2>4, <2>5, <2>6
<1>2. ASSUME NEW s \in Sessions,
             \/ Start(s) \/ Skip(s) \/ RecvFails(s) \/ Free(s) \/ PasvBind(s) \/ PasvThread(s)
             \/ RetrName(s) \/ RetrUnlock(s) \/ RetrJoin(s)
      PROVE  UNCHANGED replies
  BY <1>2 DEF Start, Skip, RecvFails, Stop, Free, PasvBind, PasvThread, RetrName, RetrUnlock,
              RetrJoin, Silent
<1>3. ASSUME NEW s \in Sessions, PasvReply(s) PROVE UNCHANGED replies \/ Writes(s, 227)
  BY <1>3, WriteIsWrites DEF PasvReply
<1>4. ASSUME NEW s \in Sessions, Quit(s) PROVE UNCHANGED replies \/ Writes(s, 221)
  BY <1>4, WriteIsWrites DEF Quit
<1>5. CASE DataStep
  <2>1. owner \in Sessions
    BY <1>5 DEF MutexInv, TypeInv, DataStep, DataListen, DataAccept, DataTouchesFreed, DataLock,
                DataOpen,
                DataOpenFreed, DataSend, DataClose, DataUnlock, DataGoto, DataUndefined
  <2>2. CASE DataOpen
    BY <2>1, <2>2, WriteIsWrites DEF DataOpen, OtherCodes
  <2>3. CASE ~DataOpen
    BY <1>5, <2>3 DEF DataStep, DataListen, DataAccept, DataTouchesFreed, DataLock, DataOpenFreed,
                      DataSend,
                      DataClose, DataUnlock, DataUndefined
  <2> QED
    BY <2>2, <2>3
<1>6. CASE \/ \E s \in Sessions : ClientStep(s)
           \/ PeerConnect \/ PeerLeave \/ Refused \/ UNCHANGED vars
  BY <1>6, ClientKeepsServer
<1> QED
  BY <1>1, <1>2, <1>3, <1>4, <1>5, <1>6 DEF Next, SessionStep

-----------------------------------------------------------------------------
(* The control connections                                                  *)

\* A client that quit stays so, and quits by QUIT only.
LEMMA ClientSteps ==
    ASSUME [Next]_vars
    PROVE  \/ UNCHANGED client
           \/ \E s \in Sessions : Quit(s) /\ client' = [client EXCEPT ![s] = "quit"]
           \/ \E s \in Sessions :
                /\ client[s] # "quit"
                /\ \E c \in {"connected", "gone"} : client' = [client EXCEPT ![s] = c]
<1> USE DEF Handle, Handles, Silent, control, transfer, DataGoto, DataUndefined
<1>1. ASSUME NEW s \in Sessions, Accept(s) \/ SessionStep(s), ~Quit(s) PROVE UNCHANGED client
  BY <1>1 DEF Accept, SessionStep, Start, Skip, RecvFails, Stop, User, Type, Size, Empty, Free,
              PasvBind,
              PasvThread, PasvReply, RetrName, RetrUnlock, RetrJoin, RetrReply
<1>2. ASSUME NEW s \in Sessions, Quit(s) PROVE client' = [client EXCEPT ![s] = "quit"]
  BY <1>2 DEF Quit
<1>3. ASSUME NEW s \in Sessions, ClientStep(s)
      PROVE  \/ UNCHANGED client
             \/ /\ client[s] # "quit"
                /\ \E c \in {"connected", "gone"} : client' = [client EXCEPT ![s] = c]
  <2>1. CASE ClientConnect(s)
    <3>1. client[s] = "none" /\ client' = [client EXCEPT ![s] = "connected"]
      BY <2>1 DEF ClientConnect
    <3> QED
      BY <3>1
  <2>2. CASE ClientLeave(s)
    <3>1. client[s] = "connected" /\ client' = [client EXCEPT ![s] = "gone"]
      BY <2>2 DEF ClientLeave
    <3> QED
      BY <3>1
  <2>3. CASE \E line \in Lines[s] : ClientSend(s, line)
    <3>1. PICK line \in Lines[s] : ClientSend(s, line)
      BY <2>3
    <3>2. UNCHANGED client
      BY <3>1 DEF ClientSend
    <3> QED
      BY <3>2
  <2> QED
    BY <1>3, <2>1, <2>2, <2>3 DEF ClientStep
<1>4. CASE DataStep \/ PeerConnect \/ PeerLeave \/ Refused \/ UNCHANGED vars
  BY <1>4, StopChanges DEF DataStep, DataListen, DataAccept, DataTouchesFreed, DataLock, DataOpen,
                           DataOpenFreed, DataSend,
              DataClose, DataUnlock, PeerConnect, PeerLeave, vars
<1> QED
  BY <1>1, <1>2, <1>3, <1>4 DEF Next

-----------------------------------------------------------------------------
(* PASV                                                                     *)

Passing(s) == session[s] \in {"pasv_thread", "pasv_reply"}

\* While the server runs, one session at most is inside ftp_pasv_handler past
\* its bind, and only if no PASV was answered; none before the first bind.
PassInv ==
    /\ OnePassive
    /\ status = "running" =>
        /\ \A s, t \in Sessions : Passing(s) /\ Passing(t) => s = t
        /\ \A s, t \in Sessions : Passing(s) => ~Answers(replies[t], 227)
        /\ \A s \in Sessions : ~dataBound => ~Passing(s) /\ ~Answers(replies[s], 227)

LEMMA PassInit == Init => PassInv
BY DEF Init, PassInv, OnePassive, Passing, Answers

\* The steps into and out of ftp_pasv_handler
LEMMA PassSteps ==
    ASSUME MutexInv, [Next]_vars
    PROVE  /\ status' = "running" => status = "running"
           /\ \/ \E s \in Sessions : PasvBind(s)
              \/ /\ dataBound' = dataBound
                 /\ \A s \in Sessions : Passing(s)' => Passing(s)
<1> USE DEF Handle, Handles, Silent, Goto, control, transfer, DataGoto, DataUndefined, MutexInv,
            TypeInv
<1>1. ASSUME NEW s \in Sessions, Accept(s) \/ SessionStep(s)
      PROVE  status = "running"
  BY <1>1 DEF Accept, SessionStep, Start, Skip, RecvFails, Stop, User, Type, Size, Empty, Quit,
              Free,
              PasvBind, PasvThread, PasvReply, RetrName, RetrUnlock, RetrJoin, RetrReply
<1>2. ASSUME NEW s \in Sessions, Accept(s) \/ SessionStep(s), ~PasvBind(s)
      PROVE  /\ dataBound' = dataBound
             /\ \A u \in Sessions \ {s} : session'[u] = session[u]
             /\ session'[s] \in {"pasv_thread", "pasv_reply"} => Passing(s)
  <2>1. dataBound' = dataBound
    BY <1>2 DEF Accept, SessionStep, Start, Skip, RecvFails, Stop, User, Type, Size, Empty, Quit,
                Free,
                PasvThread, PasvReply, RetrName, RetrUnlock, RetrJoin, RetrReply
  <2>2. CASE \/ Skip(s) \/ User(s) \/ Type(s) \/ Size(s) \/ Empty(s)
             \/ Start(s) \/ PasvReply(s) \/ RetrReply(s)
    <3>1. session' = [session EXCEPT ![s] = "recv"]
      BY <2>2 DEF Skip, User, Type, Size, Empty, Start, PasvReply, RetrReply
    <3> QED
      BY <2>1, <3>1
  <2>3. CASE Accept(s)
    <3>1. session' = [session EXCEPT ![s] = "start"]
      BY <2>3 DEF Accept
    <3> QED
      BY <2>1, <3>1
  <2>4. CASE Quit(s)
    <3>1. session' = [session EXCEPT ![s] = "free"]
      BY <2>4 DEF Quit
    <3> QED
      BY <2>1, <3>1
  <2>5. CASE Free(s)
    <3>1. session' = [session EXCEPT ![s] = "ended"]
      BY <2>5 DEF Free
    <3> QED
      BY <2>1, <3>1
  <2>6. CASE PasvThread(s)
    <3>1. session' = [session EXCEPT ![s] = "pasv_reply"] /\ Passing(s)
      BY <2>6 DEF PasvThread, Passing
    <3> QED
      BY <2>1, <3>1
  <2>7. CASE RetrName(s)
    <3>1. session' = [session EXCEPT ![s] = "retr_unlock"]
      BY <2>7 DEF RetrName
    <3> QED
      BY <2>1, <3>1
  <2>8. CASE RetrUnlock(s)
    <3>1. session' = [session EXCEPT ![s] = "retr_join"]
      BY <2>8 DEF RetrUnlock
    <3> QED
      BY <2>1, <3>1
  <2>9. CASE RetrJoin(s)
    <3>1. session' = [session EXCEPT ![s] = "retr_reply"]
      BY <2>9 DEF RetrJoin
    <3> QED
      BY <2>1, <3>1
  <2>10. CASE RecvFails(s)
    BY <2>1, <2>10, StopChanges DEF Passing
  <2> QED
    BY <1>2, <2>2, <2>3, <2>4, <2>5, <2>6, <2>7, <2>8, <2>9, <2>10 DEF SessionStep
<1>3. ASSUME NEW s \in Sessions, Accept(s) \/ SessionStep(s), ~PasvBind(s)
      PROVE  \A u \in Sessions : Passing(u)' => Passing(u)
  BY <1>2, <1>3 DEF Passing
<1>4. CASE DataStep
  BY <1>4 DEF DataStep, DataListen, DataAccept, DataTouchesFreed, DataLock, DataOpen,
              DataOpenFreed, DataSend,
              DataClose, DataUnlock, Passing
<1>5. CASE \/ \E s \in Sessions : ClientStep(s)
           \/ PeerConnect \/ PeerLeave \/ Refused \/ UNCHANGED vars
  <2>1. UNCHANGED <<dataBound, session>>
    BY <1>5, ClientKeepsServer
  <2>2. status' = status \/ status = "running"
    BY <1>5, StopChanges DEF ClientStep, ClientConnect, ClientSend, ClientLeave, PeerConnect,
                             PeerLeave, vars
  <2> QED
    BY <2>1, <2>2 DEF Passing
<1> QED
  BY <1>1, <1>2, <1>3, <1>4, <1>5 DEF Next

\* A sequence of replies that gets 227 for the first time has it once; another
\* code adds none.
LEMMA AppendPassive ==
    ASSUME NEW r \in Seq(Nat), NEW code \in Nat
    PROVE  /\ \A i \in DOMAIN Append(r, code) :
                Append(r, code)[i] = 227 =>
                    \/ i \in DOMAIN r /\ r[i] = 227
                    \/ i = Len(r) + 1 /\ code = 227
OBVIOUS

LEMMA PassNext == MutexInv /\ PassInv /\ [Next]_vars => PassInv'
<1> SUFFICES ASSUME MutexInv, PassInv, [Next]_vars
             PROVE  PassInv'
  OBVIOUS
<1>t. replies \in [Sessions -> Seq(Nat)] /\ session \in [Sessions -> SessionSteps]
  BY DEF MutexInv, TypeInv
<1>r. status' = "running" => status = "running"
  BY PassSteps
\* Replies that gain no 227 keep OnePassive.
<1>n. ASSUME \A s \in Sessions : \A i \in DOMAIN replies'[s] :
                replies'[s][i] = 227 => i \in DOMAIN replies[s] /\ replies[s][i] = 227
      PROVE  OnePassive' /\ \A s \in Sessions : Answers(replies'[s], 227) => Answers(replies[s], 227)
  BY <1>n DEF PassInv, OnePassive, Answers
<1>1. CASE \E s \in Sessions : PasvBind(s)
  <2>1. PICK s \in Sessions : PasvBind(s)
    BY <1>1
  <2>2. /\ replies' = replies /\ dataBound' = TRUE
        /\ status' = IF dataBound THEN "exit" ELSE status
        /\ session' = [session EXCEPT ![s] = "pasv_thread"]
    BY <2>1 DEF PasvBind, Handle, Handles, Goto
  <2>3. OnePassive'
    BY <2>2 DEF PassInv, OnePassive
  <2>4. \A u \in Sessions : u # s => (Passing(u)' <=> Passing(u))
    BY <1>t, <2>2 DEF Passing
  <2>5. CASE status' = "running"
    <3>1. ~dataBound /\ status = "running"
      BY <1>r, <2>2, <2>5
    <3>2. \A u \in Sessions : ~Passing(u) /\ ~Answers(replies[u], 227)
      BY <3>1 DEF PassInv
    <3> QED
      BY <2>2, <2>3, <2>4, <3>2 DEF PassInv
  <2> QED
    BY <2>3, <2>5 DEF PassInv
<1>2. CASE ~\E s \in Sessions : PasvBind(s)
  <2>1. /\ dataBound' = dataBound
        /\ \A s \in Sessions : Passing(s)' => Passing(s)
    BY <1>2, PassSteps
  \* Any step but the reply of PASV
  <2>2. ASSUME \A s \in Sessions : \A i \in DOMAIN replies'[s] :
                replies'[s][i] = 227 => i \in DOMAIN replies[s] /\ replies[s][i] = 227
        PROVE  PassInv'
    BY <1>n, <1>r, <2>1, <2>2 DEF PassInv
  <2>3. CASE UNCHANGED replies
    BY <2>2, <2>3
  <2>4. ASSUME NEW s \in Sessions, NEW code \in OtherCodes \cup {221}, Writes(s, code)
        PROVE  PassInv'
    <3>1. /\ replies'[s] = Append(replies[s], code)
          /\ \A u \in Sessions \ {s} : replies'[u] = replies[u]
      BY <1>t, <2>4 DEF Writes
    <3>2. code \in Nat /\ code # 227
      BY DEF OtherCodes
    <3>3. \A i \in DOMAIN replies'[s] :
              replies'[s][i] = 227 => i \in DOMAIN replies[s] /\ replies[s][i] = 227
      BY <1>t, <3>1, <3>2, AppendPassive
    <3> QED
      BY <2>2, <3>1, <3>3
  <2>5. ASSUME NEW s \in Sessions, Writes(s, 227), PasvReply(s)
        PROVE  PassInv'
    <3>1. /\ replies'[s] = Append(replies[s], 227)
          /\ \A u \in Sessions \ {s} : replies'[u] = replies[u]
      BY <1>t, <2>5 DEF Writes
    <3>2. status = "running" /\ Passing(s) /\ session' = [session EXCEPT ![s] = "recv"]
      BY <2>5 DEF PasvReply, Goto, Passing
    <3>3. \A u \in Sessions : ~Answers(replies[u], 227)
      BY <3>2 DEF PassInv
    <3>4. \A i \in DOMAIN replies'[s] : replies'[s][i] = 227 => i = Len(replies[s]) + 1
      BY <1>t, <3>1, <3>3, AppendPassive DEF Answers
    <3>5. OnePassive'
      <4>1. ASSUME NEW u \in Sessions, NEW i \in DOMAIN replies'[u], replies'[u][i] = 227
            PROVE  u = s /\ i = Len(replies[s]) + 1
        <5>1. u = s
          BY <3>1, <3>3, <4>1 DEF Answers
        <5> QED
          BY <3>4, <4>1, <5>1
      <4> QED
        BY <4>1 DEF OnePassive
    <3>6. \A u \in Sessions : ~Passing(u)'
      BY <1>t, <2>1, <3>2 DEF PassInv, Passing
    <3>7. dataBound
      BY <3>2 DEF PassInv
    <3> QED
      BY <2>1, <3>5, <3>6, <3>7 DEF PassInv
  <2> QED
    BY <2>3, <2>4, <2>5, StepWrites
<1> QED
  BY <1>1, <1>2

\* One PASV at most is answered in the life of the process, in whatever
\* session.
THEOREM OnePassiveAlways == Spec => []OnePassive
<1>1. PassInv => OnePassive
  BY DEF PassInv
<1> QED
  BY <1>1, MutexInit, MutexNext, PassInit, PassNext, PTL DEF Spec

-----------------------------------------------------------------------------
(* Types, for any clients                                                   *)

\* Every set of natural numbers has a least element.
LEMMA LeastNumber ==
    ASSUME NEW T \in SUBSET Nat, T # {}
    PROVE  \E x \in T : \A y \in T : x <= y
<1> DEFINE Less == {ss \in Nat \X Nat : ss[1] < ss[2]}
<1>1. IsWellFoundedOn(Less, Nat)
  BY NatLessThanWellFounded DEF OpToRel
<1>2. PICK x \in T : \A y \in T : ~(<<y, x>> \in Less)
  BY <1>1, WFMin
<1>3. ASSUME NEW y \in T PROVE x <= y
  <2>1. <<y, x>> \in Less <=> y < x
    OBVIOUS
  <2> QED
    BY <1>2, <2>1
<1> QED
  BY <1>3

\* A line that waits has a first end.
Lined(q) == \E i \in DOMAIN q : q[i] = "EOL"

LEMMA EolIsThere ==
    ASSUME NEW q \in Seq(Tokens), Lined(q)
    PROVE  EolAt(q) \in 1..Len(q) /\ q[EolAt(q)] = "EOL"
<1> DEFINE T == {i \in 1..Len(q) : q[i] = "EOL"}
<1>1. Len(q) \in Nat /\ DOMAIN q = 1..Len(q)
  OBVIOUS
<1>2. T \in SUBSET Nat /\ T # {}
  BY <1>1 DEF Lined
<1>3. PICK m \in T : \A i \in T : m <= i
  <2> HIDE DEF T
  <2> QED
    BY <1>2, LeastNumber
<1>4. m \in DOMAIN q /\ q[m] = "EOL" /\ \A j \in 1..(m - 1) : q[j] # "EOL"
  BY <1>1, <1>3
<1> QED
  BY <1>1, <1>4 DEF EolAt

\* Receiving one token or reading the arguments leaves tokens.
LEMMA RestIsTokens ==
    ASSUME NEW q \in Seq(Tokens), q # <<>>
    PROVE  Tail(q) \in Seq(Tokens) /\ (Lined(q) => ReadArgs(q) \in Seq(Tokens))
<1>1. Len(q) \in Nat \ {0} /\ \A i \in 1..Len(q) : q[i] \in Tokens
  OBVIOUS
<1>2. Tail(q) \in Seq(Tokens)
  BY HeadTailProperties
<1>3. ASSUME Lined(q) PROVE ReadArgs(q) \in Seq(Tokens)
  <2> DEFINE m == EolAt(q)
  <2>1. m \in 1..Len(q)
    BY <1>3, EolIsThere
  <2> HIDE DEF m
  <2>2. m + 1 \in Int /\ Len(q) \in Int /\ \A i \in (m + 1)..Len(q) : q[i] \in Tokens
    BY <1>1, <2>1
  <2> QED
    BY <2>2, SubSeqProperties DEF ReadArgs, m
<1> QED
  BY <1>2, <1>3

\* What a step does to the tokens that wait
LEMMA InboxSteps ==
    ASSUME [Next]_vars
    PROVE  \/ UNCHANGED inbox
           \/ \E s \in Sessions :
                /\ inbox[s] # <<>> /\ session[s] = "recv"
                /\ \/ inbox' = [inbox EXCEPT ![s] = Tail(@)]
                   \/ Lined(inbox[s]) /\ inbox' = [inbox EXCEPT ![s] = ReadArgs(@)]
           \/ \E s \in Sessions : \E line \in Lines[s] : ClientSend(s, line)
           \/ \E s \in Sessions : ClientLeave(s)
<1> USE DEF Handle, Handles, HasLine, Goto, Silent, control, transfer, DataGoto, DataUndefined
<1>1. ASSUME NEW s \in Sessions, Skip(s) \/ Empty(s) \/ Quit(s) \/ PasvBind(s)
      PROVE  inbox[s] # <<>> /\ session[s] = "recv" /\ inbox' = [inbox EXCEPT ![s] = Tail(@)]
  BY <1>1 DEF Skip, Empty, Quit, PasvBind
<1>2. ASSUME NEW s \in Sessions, User(s) \/ Type(s) \/ Size(s) \/ RetrName(s)
      PROVE  /\ inbox[s] # <<>> /\ session[s] = "recv" /\ Lined(inbox[s])
             /\ inbox' = [inbox EXCEPT ![s] = ReadArgs(@)]
  BY <1>2 DEF User, Type, Size, RetrName, Lined
<1>3. ASSUME NEW s \in Sessions,
             \/ Accept(s) \/ Start(s) \/ Free(s) \/ PasvThread(s) \/ PasvReply(s)
             \/ RetrUnlock(s) \/ RetrJoin(s) \/ RetrReply(s) \/ ClientConnect(s)
      PROVE  UNCHANGED inbox
  BY <1>3 DEF Accept, Start, Free, PasvThread, PasvReply, RetrUnlock, RetrJoin,
              RetrReply, ClientConnect
<1>4. CASE DataStep \/ PeerConnect \/ PeerLeave \/ UNCHANGED vars
  BY <1>4 DEF DataStep, DataListen, DataAccept, DataTouchesFreed, DataLock, DataOpen,
              DataOpenFreed, DataSend, DataClose, DataUnlock, PeerConnect, PeerLeave, vars
<1>5. CASE Refused \/ \E s \in Sessions : RecvFails(s)
  BY <1>5, StopChanges
<1> QED
  BY <1>1, <1>2, <1>3, <1>4, <1>5 DEF Next, SessionStep, ClientStep

TypesInv == TypeOK /\ MutexInv

LEMMA TypesInit == Init => TypesInv
<1> SUFFICES ASSUME Init PROVE TypesInv
  OBVIOUS
<1>1. TypeOK
  <2>1. <<>> \in Seq(Tokens) /\ <<>> \in Seq(150..550)
    OBVIOUS
  <2> QED
    BY <2>1 DEF Init, TypeOK
<1> QED
  BY <1>1, MutexInit DEF TypesInv

LEMMA InboxNext ==
    ASSUME TypesInv, [Next]_vars
    PROVE  inbox' \in [Sessions -> Seq(Tokens)]
<1>t. inbox \in [Sessions -> Seq(Tokens)]
  BY DEF TypesInv, TypeOK
<1>1. ASSUME NEW s \in Sessions, NEW q \in Seq(Tokens), inbox' = [inbox EXCEPT ![s] = q]
      PROVE  inbox' \in [Sessions -> Seq(Tokens)]
  BY <1>t, <1>1
<1>2. ASSUME NEW s \in Sessions, inbox[s] # <<>>,
             \/ inbox' = [inbox EXCEPT ![s] = Tail(@)]
             \/ Lined(inbox[s]) /\ inbox' = [inbox EXCEPT ![s] = ReadArgs(@)]
      PROVE  inbox' \in [Sessions -> Seq(Tokens)]
  <2> DEFINE q == inbox[s]
  <2>1. Tail(q) \in Seq(Tokens) /\ (Lined(q) => ReadArgs(q) \in Seq(Tokens))
    BY <1>t, <1>2, RestIsTokens
  <2>2. \/ inbox' = [inbox EXCEPT ![s] = Tail(q)]
        \/ Lined(q) /\ inbox' = [inbox EXCEPT ![s] = ReadArgs(q)]
    BY <1>2
  <2> HIDE DEF q
  <2> QED
    BY <1>1, <2>1, <2>2
<1>3. ASSUME NEW s \in Sessions, NEW line \in Lines[s], ClientSend(s, line)
      PROVE  inbox' \in [Sessions -> Seq(Tokens)]
  <2>1. line \in Seq(Tokens)
    BY FtpAssumption DEF AllLines
  <2>2. inbox' = [inbox EXCEPT ![s] = <<>> \o line]
    BY <1>3 DEF ClientSend
  <2>3. <<>> \o line = line
    BY <2>1, ConcatEmptySeq
  <2> QED
    BY <1>1, <2>1, <2>2, <2>3
<1>4. ASSUME NEW s \in Sessions, ClientLeave(s)
      PROVE  inbox' \in [Sessions -> Seq(Tokens)]
  <2> DEFINE q == inbox[s]
  <2>1. PICK k \in {Len(q) - 1, Len(q)} : inbox' = [inbox EXCEPT ![s] = SubSeq(q, 1, k)]
    BY <1>4 DEF ClientLeave
  <2>2. q \in Seq(Tokens) /\ Len(q) \in Nat /\ \A i \in 1..Len(q) : q[i] \in Tokens
    BY <1>t
  <2> HIDE DEF q
  <2>3. 1 \in Int /\ k \in Int /\ \A i \in 1..k : q[i] \in Tokens
    BY <2>2
  <2>4. SubSeq(q, 1, k) \in Seq(Tokens)
    BY <2>3, SubSeqProperties
  <2> QED
    BY <1>1, <2>1, <2>4
<1>5. CASE UNCHANGED inbox
  BY <1>t, <1>5
<1> QED
  BY <1>2, <1>3, <1>4, <1>5, InboxSteps

\* The first token of a line of a client and the name it asks for
LEMMA FirstArgType ==
    ASSUME NEW q \in Seq(Tokens), Lined(q), q # <<>>, Head(q) \in Commands
    PROVE  FirstArg(q) \in Names \cup Commands \cup {None} /\ FirstArg(q) # "freed"
<1>1. Len(q) \in Nat \ {0} /\ \A i \in 1..Len(q) : q[i] \in Tokens
  OBVIOUS
<1>2. q[1] # "EOL"
  BY DEF Commands
<1>3. Len(q) # 1
  BY <1>1, <1>2 DEF Lined
<1>4. 2 \in 1..Len(q)
  <2> DEFINE n == Len(q)
  <2>1. n \in Nat /\ n # 0 /\ n # 1
    BY <1>1, <1>3
  <2> HIDE DEF n
  <2>2. 2 \in 1..n
    BY <2>1
  <2> QED
    BY <2>2 DEF n
<1>5. q[2] \in Tokens
  BY <1>1, <1>4
<1> QED
  BY <1>5, FtpAssumption DEF FirstArg, Names

LEMMA FilenameSteps ==
    ASSUME [Next]_vars
    PROVE  \/ UNCHANGED filename
           \/ \E s \in Sessions :
                /\ session[s] = "recv" /\ session' = [session EXCEPT ![s] = "retr_unlock"]
                /\ inbox[s] # <<>> /\ Head(inbox[s]) = "RETR" /\ Lined(inbox[s])
                /\ filename' = [filename EXCEPT ![s] = FirstArg(inbox[s])]
           \/ \E s \in Sessions :
                session[s] = "retr_reply" /\ filename' = [filename EXCEPT ![s] = "freed"]
<1> USE DEF Handle, Handles, Goto, Silent, control, transfer, DataGoto, DataUndefined
<1>1. ASSUME NEW s \in Sessions, RetrName(s)
      PROVE  /\ session[s] = "recv" /\ session' = [session EXCEPT ![s] = "retr_unlock"]
             /\ inbox[s] # <<>> /\ Head(inbox[s]) = "RETR" /\ Lined(inbox[s])
             /\ filename' = [filename EXCEPT ![s] = FirstArg(inbox[s])]
  BY <1>1 DEF RetrName, HasLine, Lined
<1>2. ASSUME NEW s \in Sessions, RetrReply(s)
      PROVE  session[s] = "retr_reply" /\ filename' = [filename EXCEPT ![s] = "freed"]
  BY <1>2 DEF RetrReply
<1>3. ASSUME NEW s \in Sessions,
             Accept(s) \/ SessionStep(s), ~RetrName(s), ~RetrReply(s)
      PROVE  UNCHANGED filename
  BY <1>3 DEF Accept, SessionStep, Start, Skip, RecvFails, Stop, User, Type, Size, Empty, Quit,
              Free,
              PasvBind, PasvThread, PasvReply, RetrUnlock, RetrJoin
<1>4. CASE DataStep
  BY <1>4 DEF DataStep, DataListen, DataAccept, DataTouchesFreed, DataLock, DataOpen,
              DataOpenFreed, DataSend,
              DataClose, DataUnlock
<1>5. CASE \/ \E s \in Sessions : ClientStep(s)
           \/ PeerConnect \/ PeerLeave \/ Refused \/ UNCHANGED vars
  BY <1>5, ClientKeepsServer
<1> QED
  BY <1>1, <1>2, <1>3, <1>4, <1>5 DEF Next

\* The steps of the data connection
LEMMA PeerSteps ==
    ASSUME [Next]_vars, TypesInv
    PROVE  /\ peer' \in {"none", "connected", "gone", "closed"}
           /\ served' \in Nat
           /\ sent' \in [Sessions -> Nat]
           /\ dataBound' \in BOOLEAN
<1> USE DEF Handle, Handles, Goto, Silent, control, transfer, DataGoto, DataUndefined
<1>t. /\ peer \in {"none", "connected", "gone", "closed"} /\ served \in Nat
      /\ sent \in [Sessions -> Nat] /\ dataBound \in BOOLEAN
  BY DEF TypesInv, TypeOK
<1>1. ASSUME NEW s \in Sessions, Accept(s) \/ SessionStep(s)
      PROVE  UNCHANGED <<peer, served, sent>> /\ dataBound' \in {TRUE, dataBound}
  BY <1>1 DEF Accept, SessionStep, Start, Skip, RecvFails, Stop, User, Type, Size, Empty, Quit,
              Free,
              PasvBind, PasvThread, PasvReply, RetrName, RetrUnlock, RetrJoin, RetrReply
<1>2. CASE DataStep
  <2>1. UNCHANGED <<sent, dataBound>> /\ peer' \in {peer, "closed"}
    BY <1>2 DEF DataStep, DataListen, DataAccept, DataTouchesFreed, DataLock, DataOpen,
                DataOpenFreed, DataSend,
                DataClose, DataUnlock
  <2>2. served' \in Nat
    <3>1. CASE served' = served + 1
      BY <1>t, <3>1
    <3>2. CASE UNCHANGED served
      BY <1>t, <3>2
    <3> QED
      BY <1>2, <3>1, <3>2 DEF DataStep, DataListen, DataAccept, DataTouchesFreed, DataLock,
                              DataOpen,
                              DataOpenFreed, DataSend, DataClose, DataUnlock
  <2> QED
    BY <1>t, <2>1, <2>2
<1>3. CASE PeerConnect \/ PeerLeave \/ Refused \/ UNCHANGED vars
  BY <1>t, <1>3, StopChanges DEF PeerConnect, PeerLeave, ServerUnchanged, vars
<1>4. ASSUME NEW s \in Sessions, ClientStep(s)
      PROVE  /\ UNCHANGED <<peer, served, dataBound>>
             /\ sent' \in {sent, [sent EXCEPT ![s] = @ + 1]}
  BY <1>4 DEF ClientStep, ClientConnect, ClientLeave, ClientSend, ServerUnchanged
<1>5. CASE \E s \in Sessions : Accept(s) \/ SessionStep(s)
  BY <1>t, <1>1, <1>5
<1>6. CASE \E s \in Sessions : ClientStep(s)
  BY <1>t, <1>4, <1>6
<1> QED
  BY <1>2, <1>3, <1>5, <1>6 DEF Next

LEMMA StatusSteps ==
    ASSUME [Next]_vars
    PROVE  status' \in {status, "exit", "fault", "undefined"}
<1> USE DEF Handle, Handles, Goto, Silent, control, transfer, DataGoto, DataUndefined, Write,
            Ignored, Tested
<1>1. ASSUME NEW s \in Sessions,
             Accept(s) \/ User(s) \/ Type(s) \/ Size(s) \/ Empty(s) \/ Quit(s)
      PROVE  status' \in {status, "exit", "fault", "undefined"}
  BY <1>1 DEF Accept, User, Type, Size, Empty, Quit
<1>2. ASSUME NEW s \in Sessions,
             \/ Start(s) \/ Skip(s) \/ RecvFails(s) \/ Free(s) \/ PasvBind(s) \/ PasvThread(s)
             \/ PasvReply(s) \/ RetrName(s) \/ RetrUnlock(s) \/ RetrJoin(s) \/ RetrReply(s)
      PROVE  status' \in {status, "exit", "fault", "undefined"}
  BY <1>2 DEF Start, Skip, RecvFails, Stop, Free, PasvBind, PasvThread, PasvReply, RetrName,
              RetrUnlock,
              RetrJoin, RetrReply
<1>3. CASE DataStep
  BY <1>3 DEF DataStep, DataListen, DataAccept, DataTouchesFreed, DataLock, DataOpen,
              DataOpenFreed, DataSend,
              DataClose, DataUnlock
<1>4. CASE \/ \E s \in Sessions : ClientStep(s)
           \/ PeerConnect \/ PeerLeave \/ Refused \/ UNCHANGED vars
  BY <1>4, StopChanges DEF ClientStep, ClientConnect, ClientSend, ClientLeave, PeerConnect,
                           PeerLeave, vars
<1> QED
  BY <1>1, <1>2, <1>3, <1>4 DEF Next, SessionStep

LEMMA TypesNext == TypesInv /\ [Next]_vars => TypesInv'
<1> SUFFICES ASSUME TypesInv, [Next]_vars PROVE TypesInv'
  OBVIOUS
<1>m. MutexInv /\ TypeOK
  BY DEF TypesInv
<1>1. MutexInv'
  BY <1>m, MutexNext
<1>2. inbox' \in [Sessions -> Seq(Tokens)]
  BY InboxNext
<1>4. status' \in {"running", "exit", "fault", "undefined"}
  BY <1>m, StatusSteps DEF TypeOK
<1>5. client' \in [Sessions -> {"none", "connected", "gone", "quit"}]
  <2>1. client \in [Sessions -> {"none", "connected", "gone", "quit"}]
    BY <1>m DEF TypeOK
  <2>2. CASE UNCHANGED client
    BY <2>1, <2>2
  <2>3. ASSUME NEW s \in Sessions, NEW c \in {"connected", "gone", "quit"},
               client' = [client EXCEPT ![s] = c]
        PROVE  client' \in [Sessions -> {"none", "connected", "gone", "quit"}]
    BY <2>1, <2>3
  <2> QED
    BY <2>2, <2>3, ClientSteps
<1>6. replies' \in [Sessions -> Seq(150..550)]
  <2>1. replies \in [Sessions -> Seq(150..550)]
    BY <1>m DEF TypeOK
  <2>2. CASE UNCHANGED replies
    BY <2>1, <2>2
  <2>3. ASSUME NEW s \in Sessions, NEW code \in 150..550, Writes(s, code)
        PROVE  replies' \in [Sessions -> Seq(150..550)]
    <3>1. Append(replies[s], code) \in Seq(150..550)
      BY <2>1
    <3> QED
      BY <2>1, <2>3, <3>1 DEF Writes
  <2>4. OtherCodes \subseteq 150..550 /\ 221 \in 150..550 /\ 227 \in 150..550
    BY DEF OtherCodes
  <2> DEFINE R == 150..550
             W(s, code) == Writes(s, code)
  <2>5. UNCHANGED replies \/ \E s \in Sessions, code \in R : W(s, code)
    <3>1. OtherCodes \subseteq R /\ 221 \in R /\ 227 \in R
      BY <2>4
    <3>2. \/ UNCHANGED replies
          \/ \E s \in Sessions, code \in OtherCodes : W(s, code)
          \/ \E s \in Sessions : W(s, 227)
          \/ \E s \in Sessions : W(s, 221)
      BY <1>m, StepWrites
    <3> HIDE DEF R, W
    <3> QED
      BY <3>1, <3>2
  <2> QED
    BY <2>2, <2>3, <2>5
<1>7. filename' \in [Sessions -> Names \cup Commands \cup {None, "unset", "freed"}]
  <2> DEFINE F == Names \cup Commands \cup {None, "unset", "freed"}
  <2>1. filename \in [Sessions -> F]
    BY <1>m DEF TypeOK
  <2>2. ASSUME NEW s \in Sessions, NEW x \in F, filename' = [filename EXCEPT ![s] = x]
        PROVE  filename' \in [Sessions -> F]
    BY <2>1, <2>2
  <2>3. ASSUME NEW s \in Sessions, inbox[s] # <<>>, Head(inbox[s]) = "RETR", Lined(inbox[s])
        PROVE  FirstArg(inbox[s]) \in F
    <3>1. inbox[s] \in Seq(Tokens) /\ Head(inbox[s]) \in Commands
      BY <1>m, <2>3 DEF TypeOK, Commands
    <3> QED
      BY <2>3, <3>1, FirstArgType
  <2>4. "freed" \in F
    OBVIOUS
  <2> HIDE DEF F
  <2>5. filename' \in [Sessions -> F]
    BY <2>1, <2>2, <2>3, <2>4, FilenameSteps
  <2> QED
    BY <2>5 DEF F
<1>8. /\ session' \in [Sessions -> {"none", "start", "recv", "pasv_thread", "pasv_reply",
                                    "retr_unlock", "retr_join", "retr_reply", "free", "ended"}]
      /\ mutex' \in [Sessions -> {"free", "session", "data"}]
      /\ data' \in {"none", "start", "accept", "lock", "open", "send", "close", "unlock", "done", "joined"}
  BY <1>1 DEF MutexInv, TypeInv, SessionSteps, DataSteps
<1>9. owner' \in Sessions \cup {None}
  <2>1. CASE UNCHANGED owner
    BY <1>m, <2>1 DEF TypeOK
  <2>2. ASSUME NEW s \in Sessions, Accept(s) \/ SessionStep(s)
        PROVE  owner' \in {s, owner}
    BY <2>2 DEF Accept, SessionStep, Start, Skip, RecvFails, Stop, User, Type, Size, Empty, Quit,
                Free,
                PasvBind, PasvThread, PasvReply, RetrName, RetrUnlock, RetrJoin, RetrReply,
                Handle, Handles, Goto, Silent, transfer
  <2>3. CASE DataStep
    BY <2>1, <2>3 DEF DataStep, DataListen, DataAccept, DataTouchesFreed, DataLock, DataOpen,
                      DataOpenFreed,
                      DataSend, DataClose, DataUnlock, DataGoto, DataUndefined
  <2> QED
    BY <1>m, <2>1, <2>2, <2>3, ClientKeepsServer DEF Next, TypeOK
<1>10. TypeOK'
  BY <1>2, <1>4, <1>5, <1>6, <1>7, <1>8, <1>9, PeerSteps DEF TypeOK
<1> QED
  BY <1>1, <1>10 DEF TypesInv

\* The variables keep their types whatever the clients send, for any number of
\* them: among others a name is read only where the end of a line follows.
THEOREM TypeCorrect == Spec => []TypeOK
<1>1. TypesInv => TypeOK
  BY DEF TypesInv
<1> QED
  BY <1>1, TypesInit, TypesNext, PTL DEF Spec

-----------------------------------------------------------------------------
(* Disciplined clients                                                      *)

\* A command waits to be received.
Fresh(s) == inbox[s] # <<>> /\ inbox[s][1] \in Commands
FreshIs(s, c) == Fresh(s) /\ inbox[s][1] = c

\* Nothing goes wrong, and a session that has not begun has nothing to do.
UpInv ==
    /\ status = "running"
    /\ \A s \in Sessions : client[s] \in {"none", "connected", "quit"}
    /\ peer \in {"none", "connected", "closed"}
    /\ \A s \in Sessions : session[s] = "none" => inbox[s] = <<>> /\ sent[s] = 0
    /\ \A s \in Sessions :
          /\ client[s] = "none" => session[s] = "none"
          /\ client[s] = "quit" => session[s] \in {"free", "ended"}

\* A command waits only for a session that is ready for it, it is the first
\* token of a line of that client, and what its client promised still holds.
LineInv ==
    /\ \A s \in Sessions : \A i \in DOMAIN inbox[s] : i # 1 => inbox[s][i] \notin Commands
    /\ \A s \in Sessions : Fresh(s) => session[s] = "recv" /\ inbox[s] \in Lines[s]
    /\ \A s, t \in Sessions : FreshIs(s, "PASV") /\ FreshIs(t, "PASV") => s = t
    /\ \A s \in Sessions :
          /\ FreshIs(s, "PASV") => ~dataBound
          /\ FreshIs(s, "RETR") => Said(s, 227) /\ ~Said(s, 226)
          /\ FreshIs(s, "QUIT") => ~Said(s, 227) \/ Said(s, 226)

\* The data thread belongs to the session whose PASV is answered.
OwnerInv ==
    /\ owner = None <=> data = "none"
    /\ data # "none" => dataBound
    /\ \A s \in Sessions : session[s] = "pasv_thread" => data = "none" /\ dataBound
    /\ \A s \in Sessions : owner = s <=> session[s] = "pasv_reply" \/ Said(s, 227)

\* The transfer of that session and the data thread keep step.
StepInv ==
    /\ \A s \in Sessions : session[s] \in {"retr_unlock", "retr_join"} =>
          owner = s /\ ~Said(s, 226) /\ data # "joined"
    /\ \A s \in Sessions : session[s] = "retr_reply" \/ Said(s, 226) =>
          owner = s /\ data = "joined"
    /\ \A s \in Sessions : owner = s /\ data = "joined" =>
          session[s] = "retr_reply" \/ Said(s, 226)
    /\ \A s \in Sessions : owner = s /\ session[s] \in {"free", "ended"} => data = "joined"
    /\ \A s \in Sessions : filename[s] = "freed" => Said(s, 226)

\* What was served is what 150 announced, and the connection is closed after.
ServedInv ==
    /\ data \in {"none", "start", "accept", "lock", "open"} =>
          served = 0 /\ \A s \in Sessions : ~Said(s, 150)
    /\ \A s \in Sessions : owner = s /\ data = "send" => served = 0 /\ Said(s, 150)
    /\ \A s \in Sessions : owner = s /\ data \in {"close", "unlock", "done", "joined"} =>
          served = IF Said(s, 150) THEN 1 ELSE 0
    /\ \A s \in Sessions : Said(s, 150) => owner = s
    /\ data \in {"unlock", "done", "joined"} => peer = "closed"

\* A session owes one reply at most: for the command that waits, or for the
\* one it is in the middle of.
Busy(s) == session[s] \in {"pasv_thread", "pasv_reply", "retr_unlock", "retr_join", "retr_reply"}
AnswerInv ==
    \A s \in Sessions : session[s] # "none" =>
        /\ Len(replies[s]) >= sent[s]
        /\ Len(replies[s]) > sent[s] \/ Fresh(s) \/ Busy(s)

\* All of it, with what holds for any clients
PoliteInv == UpInv /\ LineInv /\ OwnerInv /\ StepInv /\ ServedInv /\ AnswerInv
DisciplineInv == TypesInv /\ PassInv /\ PoliteInv

LEMMA DisciplineInit == Init => DisciplineInv
<1> SUFFICES ASSUME Init PROVE DisciplineInv
  OBVIOUS
<1>1. \A s \in Sessions : inbox[s] = <<>> /\ replies[s] = <<>>
  BY DEF Init
<1>2. \A s \in Sessions : ~Fresh(s) /\ \A c : ~Said(s, c)
  <2>1. \A s \in Sessions : ~Fresh(s)
    BY <1>1 DEF Fresh
  <2>2. \A s \in Sessions : \A c : ~Said(s, c)
    BY DEF Init, Said
  <2> QED
    BY <2>1, <2>2
<1>3. UpInv /\ LineInv /\ OwnerInv
  BY <1>1, <1>2, FtpAssumption DEF Init, UpInv, LineInv, OwnerInv, FreshIs
<1>4. StepInv /\ ServedInv /\ AnswerInv
  BY <1>2, FtpAssumption DEF Init, StepInv, ServedInv, AnswerInv
<1> QED
  BY <1>3, <1>4, TypesInit, PassInit DEF DisciplineInv, PoliteInv

\* Whole lines are sent.
LEMMA LinesEnd ==
    ASSUME NEW s \in Sessions, NEW line \in Lines[s]
    PROVE  line # <<>> /\ line[Len(line)] = "EOL"
BY FtpAssumption DEF AllLines

\* One code to client s, in terms of what the clients were told
Tells(s, code) ==
    \A u \in Sessions :
        /\ \A c : Said(u, c)' <=> Said(u, c) \/ (u = s /\ c = code)
        /\ Len(replies'[u]) = IF u = s THEN Len(replies[u]) + 1 ELSE Len(replies[u])
TellsNothing ==
    \A u \in Sessions : (\A c : Said(u, c)' <=> Said(u, c)) /\ replies'[u] = replies[u]

LEMMA NothingTold == UNCHANGED replies => TellsNothing
BY DEF TellsNothing, Said

\* No client leaves, so every write succeeds: but for one that quit.
LEMMA WriteUp ==
    ASSUME TypesInv, UpInv, NEW s \in Sessions, NEW code \in Nat, NEW failures,
           session[s] \notin {"none", "free", "ended"} \/ client[s] \notin {"none", "quit"},
           Write(s, code, failures)
    PROVE  status' = "running" /\ client[s] = "connected" /\ Tells(s, code)
<1>t. replies \in [Sessions -> Seq(Nat)]
  BY DEF TypesInv, MutexInv, TypeInv
<1>1. /\ client[s] = "connected" /\ status' = "running"
      /\ replies' = [replies EXCEPT ![s] = Append(@, code)]
  BY DEF Write, UpInv
<1>2. replies'[s] = Append(replies[s], code) /\ \A u \in Sessions \ {s} : replies'[u] = replies[u]
  BY <1>t, <1>1
<1>3. /\ \A c : Answers(replies'[s], c) <=> Answers(replies[s], c) \/ c = code
      /\ Len(replies'[s]) = Len(replies[s]) + 1
  BY <1>t, <1>2, AppendAnswers
<1>4. Tells(s, code)
  <2> SUFFICES ASSUME NEW u \in Sessions
               PROVE  /\ \A c : Said(u, c)' <=> Said(u, c) \/ (u = s /\ c = code)
                      /\ Len(replies'[u]) = IF u = s THEN Len(replies[u]) + 1 ELSE Len(replies[u])
    BY DEF Tells
  <2>1. CASE u = s
    BY <1>3, <2>1 DEF Said, Answers
  <2>2. CASE u # s
    <3>1. replies'[u] = replies[u] /\ Len(replies[u]) \in Nat
      BY <1>t, <1>2, <2>2
    <3> QED
      BY <2>2, <3>1 DEF Said
  <2> QED
    BY <2>1, <2>2
<1> QED
  BY <1>1, <1>4

-----------------------------------------------------------------------------
\* A step of session s after which no command waits for it
LEMMA LineKept ==
    ASSUME LineInv, NEW s \in Sessions, ~Fresh(s)',
           \A i \in DOMAIN inbox'[s] : i # 1 => inbox'[s][i] \notin Commands,
           \A u \in Sessions \ {s} : /\ inbox'[u] = inbox[u] /\ session'[u] = session[u]
                                     /\ Said(u, 226)' <=> Said(u, 226)
                                     /\ Said(u, 227)' <=> Said(u, 227),
           dataBound' = dataBound \/ FreshIs(s, "PASV")
    PROVE  LineInv'
<1>1. /\ \A u \in Sessions \ {s} : Fresh(u)' <=> Fresh(u)
      /\ \A c : \A u \in Sessions \ {s} : FreshIs(u, c)' <=> FreshIs(u, c)
      /\ \A c : ~FreshIs(s, c)'
  BY DEF Fresh, FreshIs
<1>2. \A u \in Sessions \ {s} : FreshIs(u, "PASV") => dataBound' = dataBound
  BY DEF LineInv
<1> QED
  BY <1>1, <1>2 DEF LineInv

\* The token or the arguments taken off leave no command.
LEMMA RestNotFresh ==
    ASSUME TypesInv, LineInv, NEW s \in Sessions, inbox[s] # <<>>,
           \/ inbox' = [inbox EXCEPT ![s] = Tail(@)]
           \/ Lined(inbox[s]) /\ inbox' = [inbox EXCEPT ![s] = ReadArgs(@)]
    PROVE  /\ ~Fresh(s)'
           /\ \A i \in DOMAIN inbox'[s] : i # 1 => inbox'[s][i] \notin Commands
           /\ \A u \in Sessions \ {s} : inbox'[u] = inbox[u]
<1> DEFINE q == inbox[s]
<1>t. q \in Seq(Tokens) /\ q # <<>> /\ inbox \in [Sessions -> Seq(Tokens)]
  BY DEF TypesInv, TypeOK
<1>q. Len(q) \in Nat \ {0} /\ DOMAIN q = 1..Len(q) /\ \A i \in 1..Len(q) : q[i] \in Tokens
  BY <1>t
<1>n. \A i \in 1..Len(q) : i # 1 => q[i] \notin Commands
  BY <1>q DEF LineInv
<1>1. ASSUME NEW r \in Seq(Tokens), NEW k \in Nat \ {0},
             \A i \in 1..Len(r) : i + k \in 1..Len(q) /\ r[i] = q[i + k],
             inbox' = [inbox EXCEPT ![s] = r]
      PROVE  /\ ~Fresh(s)'
             /\ \A i \in DOMAIN inbox'[s] : i # 1 => inbox'[s][i] \notin Commands
             /\ \A u \in Sessions \ {s} : inbox'[u] = inbox[u]
  <2>1. inbox'[s] = r /\ \A u \in Sessions \ {s} : inbox'[u] = inbox[u]
    BY <1>t, <1>1
  <2>2. \A i \in 1..Len(r) : r[i] \notin Commands
    <3> HIDE DEF q
    <3> QED
      BY <1>1, <1>q, <1>n
  <2>3. DOMAIN r = 1..Len(r) /\ Len(r) \in Nat
    BY <1>1
  <2>4. ~Fresh(s)'
    <3>1. r # <<>> => Len(r) # 0
      BY <1>1
    <3>2. r # <<>> => 1 \in 1..Len(r)
      BY <2>3, <3>1
    <3> QED
      BY <2>1, <2>2, <3>2 DEF Fresh
  <2> QED
    BY <2>1, <2>2, <2>3, <2>4
<1>2. CASE inbox' = [inbox EXCEPT ![s] = Tail(@)]
  <2> DEFINE r == Tail(q)
  <2>1. /\ r \in Seq(Tokens) /\ Len(r) = Len(q) - 1
        /\ \A i \in 1..Len(r) : r[i] = q[i + 1]
    BY <1>t, HeadTailProperties
  <2>2. \A i \in 1..Len(r) : i + 1 \in 1..Len(q)
    BY <1>q, <2>1
  <2>3. inbox' = [inbox EXCEPT ![s] = r]
    BY <1>2
  <2>4. 1 \in Nat \ {0}
    OBVIOUS
  <2> HIDE DEF r, q
  <2>5. \A i \in 1..Len(r) : i + 1 \in 1..Len(q) /\ r[i] = q[i + 1]
    BY <2>1, <2>2
  <2> QED
    BY <1>1, <2>1, <2>3, <2>4, <2>5
<1>3. CASE Lined(inbox[s]) /\ inbox' = [inbox EXCEPT ![s] = ReadArgs(@)]
  <2> DEFINE m == EolAt(q)
             r == SubSeq(q, m + 1, Len(q))
  <2>1. m \in 1..Len(q)
    BY <1>3, <1>t, EolIsThere
  <2> HIDE DEF m
  <2>2. /\ r \in Seq(Tokens) /\ Len(r) = IF m + 1 <= Len(q) THEN Len(q) - (m + 1) + 1 ELSE 0
        /\ \A i \in 1..(Len(q) - (m + 1) + 1) : r[i] = q[(m + 1) + i - 1]
    <3>1. m + 1 \in Int /\ Len(q) \in Int /\ \A i \in (m + 1)..Len(q) : q[i] \in Tokens
      BY <1>q, <2>1
    <3> QED
      BY <3>1, SubSeqProperties
  <2>3. inbox' = [inbox EXCEPT ![s] = r]
    BY <1>3 DEF ReadArgs, m
  <2> HIDE DEF r, q
  <2>4. /\ m \in Nat \ {0}
        /\ \A i \in 1..Len(r) : i + m \in 1..Len(q) /\ (m + 1) + i - 1 = i + m
                                /\ i \in 1..(Len(q) - (m + 1) + 1)
    <3> DEFINE k == Len(q)
               n == Len(r)
    <3>1. k \in Nat \ {0} /\ m \in 1..k /\ n = IF m + 1 <= k THEN k - (m + 1) + 1 ELSE 0
      BY <1>q, <2>1, <2>2
    <3> HIDE DEF k, n
    <3>2. /\ m \in Nat \ {0}
          /\ \A i \in 1..n : i + m \in 1..k /\ (m + 1) + i - 1 = i + m
                              /\ i \in 1..(k - (m + 1) + 1)
      BY <3>1
    <3> QED
      BY <3>2 DEF k, n
  <2>5. \A i \in 1..Len(r) : i + m \in 1..Len(q) /\ r[i] = q[i + m]
    BY <2>2, <2>4
  <2> QED
    BY <1>1, <2>2, <2>3, <2>4, <2>5
<1> QED
  BY <1>2, <1>3

\* A step of session s keeps the count of its answers if it keeps its own.
LEMMA AnswerKept ==
    ASSUME AnswerInv, NEW s \in Sessions,
           \A u \in Sessions \ {s} : /\ inbox'[u] = inbox[u] /\ session'[u] = session[u]
                                     /\ sent'[u] = sent[u] /\ Len(replies'[u]) = Len(replies[u]),
           session'[s] # "none" =>
              /\ Len(replies'[s]) >= sent'[s]
              /\ Len(replies'[s]) > sent'[s] \/ Fresh(s)' \/ Busy(s)'
    PROVE  AnswerInv'
<1> SUFFICES ASSUME NEW u \in Sessions, session'[u] # "none"
             PROVE  /\ Len(replies'[u]) >= sent'[u]
                    /\ Len(replies'[u]) > sent'[u] \/ Fresh(u)' \/ Busy(u)'
  BY DEF AnswerInv
<1>1. CASE u = s
  BY <1>1
<1>2. CASE u # s
  <2>1. (Fresh(u)' <=> Fresh(u)) /\ (Busy(u)' <=> Busy(u))
    BY <1>2 DEF Fresh, Busy
  <2>2. /\ Len(replies[u]) >= sent[u]
        /\ Len(replies[u]) > sent[u] \/ Fresh(u) \/ Busy(u)
    BY <1>2 DEF AnswerInv
  <2> QED
    BY <1>2, <2>1, <2>2
<1> QED
  BY <1>1, <1>2

\* A step of session s outside of PASV, RETR and QUIT leaves the transfer alone.
LEMMA TransferKept ==
    ASSUME OwnerInv, StepInv, ServedInv, NEW s \in Sessions,
           {session[s], session'[s]} \subseteq {"none", "start", "recv"},
           \A u \in Sessions \ {s} : session'[u] = session[u],
           UNCHANGED <<dataBound, filename, data, owner, peer, served>>,
           \A u \in Sessions : \A c \in {150, 226, 227} : Said(u, c)' <=> Said(u, c)
    PROVE  OwnerInv' /\ StepInv' /\ ServedInv'
<1>1. \A u \in Sessions :
          /\ session'[u] = session[u] \/ {session[u], session'[u]} \subseteq {"none", "start", "recv"}
          /\ Said(u, 150)' <=> Said(u, 150)
          /\ Said(u, 226)' <=> Said(u, 226)
          /\ Said(u, 227)' <=> Said(u, 227)
  OBVIOUS
<1>2. OwnerInv'
  BY <1>1 DEF OwnerInv
<1>3. StepInv'
  BY <1>1 DEF StepInv
<1>4. ServedInv'
  BY <1>1 DEF ServedInv
<1> QED
  BY <1>2, <1>3, <1>4

\* A handler that is done when it has read its command, with its answer; or a
\* token that is no command.
LEMMA HandlerKeeps ==
    ASSUME DisciplineInv, NEW s \in Sessions, session[s] = "recv",
           session' = [session EXCEPT ![s] = "recv"], inbox[s] # <<>>,
           \/ inbox' = [inbox EXCEPT ![s] = Tail(@)]
           \/ Lined(inbox[s]) /\ inbox' = [inbox EXCEPT ![s] = ReadArgs(@)],
           UNCHANGED <<dataBound, client, sent, filename, data, owner, peer, served>>,
           status' = "running",
           \/ \E code \in Nat \ {150, 226, 227} : Tells(s, code)
           \/ ~Fresh(s) /\ TellsNothing
    PROVE  PoliteInv'
<1> USE DEF DisciplineInv, PoliteInv
<1>t. /\ session \in [Sessions -> SessionSteps] /\ sent \in [Sessions -> Nat]
      /\ \A u \in Sessions : Len(replies[u]) \in Nat
  BY DEF TypesInv, TypeOK, MutexInv, TypeInv
<1>1. /\ ~Fresh(s)'
      /\ \A i \in DOMAIN inbox'[s] : i # 1 => inbox'[s][i] \notin Commands
      /\ \A u \in Sessions \ {s} : inbox'[u] = inbox[u]
  BY RestNotFresh
<1>2. \A u \in Sessions : session'[u] = session[u]
  BY <1>t
<1>3. /\ \A u \in Sessions : \A c \in {150, 226, 227} : Said(u, c)' <=> Said(u, c)
      /\ \A u \in Sessions \ {s} : Len(replies'[u]) = Len(replies[u])
      /\ \/ Len(replies'[s]) = Len(replies[s]) + 1
         \/ ~Fresh(s) /\ Len(replies'[s]) = Len(replies[s])
  <2>1. ASSUME NEW code \in Nat \ {150, 226, 227}, Tells(s, code)
        PROVE  /\ \A u \in Sessions : \A c \in {150, 226, 227} : Said(u, c)' <=> Said(u, c)
               /\ \A u \in Sessions \ {s} : Len(replies'[u]) = Len(replies[u])
               /\ Len(replies'[s]) = Len(replies[s]) + 1
    <3>1. \A c \in {150, 226, 227} : c # code
      BY <2>1
    <3> QED
      BY <2>1, <3>1 DEF Tells
  <2>2. CASE ~Fresh(s) /\ TellsNothing
    BY <2>2 DEF TellsNothing
  <2> QED
    BY <2>1, <2>2
<1>4. UpInv'
  BY <1>1, <1>2 DEF UpInv
<1>5. LineInv'
  BY <1>1, <1>2, <1>3, LineKept
<1>6. OwnerInv' /\ StepInv' /\ ServedInv'
  BY <1>2, <1>3, TransferKept
<1>7. AnswerInv'
  <2>1. Len(replies[s]) >= sent[s] /\ (Len(replies[s]) > sent[s] \/ Fresh(s))
    BY DEF AnswerInv, Busy
  <2>2. sent'[s] = sent[s] /\ sent[s] \in Nat /\ Len(replies[s]) \in Nat
    BY <1>t
  <2>3. Len(replies'[s]) > sent'[s]
    BY <1>3, <2>1, <2>2
  <2>4. \A u \in Sessions \ {s} : /\ inbox'[u] = inbox[u] /\ session'[u] = session[u]
                                  /\ sent'[u] = sent[u] /\ Len(replies'[u]) = Len(replies[u])
    BY <1>1, <1>2, <1>3
  <2>5. Len(replies'[s]) >= sent'[s]
    BY <1>3, <2>1, <2>2
  <2> QED
    BY <2>3, <2>4, <2>5, AnswerKept
<1> QED
  BY <1>4, <1>5, <1>6, <1>7

\* A step of session s that receives nothing
LEMMA MoveKeeps ==
    ASSUME DisciplineInv, NEW s \in Sessions, session[s] # "recv",
           UNCHANGED <<inbox, sent, dataBound>>,
           \A u \in Sessions \ {s} : /\ session'[u] = session[u]
                                     /\ Said(u, 226)' <=> Said(u, 226)
                                     /\ Said(u, 227)' <=> Said(u, 227)
                                     /\ Len(replies'[u]) = Len(replies[u]),
           Len(replies'[s]) >= sent[s],
           Len(replies'[s]) > sent[s] \/ Busy(s)'
    PROVE  LineInv' /\ AnswerInv'
<1> USE DEF DisciplineInv, PoliteInv
<1>1. ~Fresh(s)
  BY DEF LineInv
<1>2. ~Fresh(s)'
  BY <1>1 DEF Fresh
<1>3. \A i \in DOMAIN inbox'[s] : i # 1 => inbox'[s][i] \notin Commands
  BY DEF LineInv
<1>4. LineInv'
  BY <1>2, <1>3, LineKept
<1>5. AnswerInv'
  BY AnswerKept
<1> QED
  BY <1>4, <1>5

LEMMA AcceptKeeps ==
    ASSUME DisciplineInv, NEW s \in Sessions, Accept(s)
    PROVE  PoliteInv'
<1> USE DEF DisciplineInv, PoliteInv
<1>t. /\ session \in [Sessions -> SessionSteps] /\ sent \in [Sessions -> Nat]
      /\ \A u \in Sessions : Len(replies[u]) \in Nat
  BY DEF TypesInv, TypeOK, MutexInv, TypeInv
<1>1. /\ session[s] = "none" /\ session' = [session EXCEPT ![s] = "start"]
      /\ UNCHANGED <<dataBound, client, inbox, sent, filename, data, owner, peer, served>>
      /\ client[s] # "none" /\ Write(s, 220, Tested)
  BY DEF Accept, Goto, control, transfer
<1>c. client[s] = "connected"
  BY <1>1 DEF UpInv
<1>2. status' = "running" /\ Tells(s, 220)
  BY <1>1, <1>c, WriteUp
<1>3. session'[s] = "start" /\ \A u \in Sessions \ {s} : session'[u] = session[u]
  BY <1>t, <1>1
<1>4. /\ \A u \in Sessions : \A c \in {150, 226, 227} : Said(u, c)' <=> Said(u, c)
      /\ \A u \in Sessions \ {s} : Len(replies'[u]) = Len(replies[u])
      /\ Len(replies'[s]) = Len(replies[s]) + 1
  BY <1>2 DEF Tells
<1>5. sent[s] = 0 /\ Len(replies'[s]) >= sent[s] /\ Len(replies'[s]) > sent[s]
  BY <1>t, <1>1, <1>4 DEF UpInv
<1>6. LineInv' /\ AnswerInv'
  BY <1>1, <1>3, <1>4, <1>5, MoveKeeps
<1>7. OwnerInv' /\ StepInv' /\ ServedInv'
  BY <1>1, <1>3, <1>4, TransferKept
<1>8. UpInv'
  BY <1>1, <1>2, <1>3, <1>c DEF UpInv
<1> QED
  BY <1>6, <1>7, <1>8

\* ftp_session's start, and its handlers without a transfer
LEMMA LoopKeeps ==
    ASSUME Disciplined, DisciplineInv, NEW s \in Sessions,
           Start(s) \/ Skip(s) \/ RecvFails(s) \/ User(s) \/ Type(s) \/ Size(s) \/ Empty(s)
    PROVE  PoliteInv'
<1> USE DEF DisciplineInv, PoliteInv
<1>t. /\ session \in [Sessions -> SessionSteps] /\ sent \in [Sessions -> Nat]
      /\ \A u \in Sessions : Len(replies[u]) \in Nat
      /\ inbox[s] \in Seq(Tokens)
  BY DEF TypesInv, TypeOK, MutexInv, TypeInv
<1>h. inbox[s] # <<>> => Head(inbox[s]) = inbox[s][1]
  BY <1>t
<1>1. CASE Start(s)
  <2>1. /\ session[s] = "start" /\ session' = [session EXCEPT ![s] = "recv"]
        /\ UNCHANGED <<status, dataBound, client, inbox, sent, replies, filename, data, owner, peer, served>>
    BY <1>1 DEF Start, Silent, Goto, control, transfer
  <2>2. TellsNothing
    BY <2>1, NothingTold
  <2>3. session'[s] = "recv" /\ \A u \in Sessions \ {s} : session'[u] = session[u]
    BY <1>t, <2>1
  <2>4. ~Fresh(s) /\ ~Busy(s)
    BY <2>1 DEF LineInv, Busy
  <2>5. Len(replies'[s]) >= sent[s] /\ Len(replies'[s]) > sent[s]
    BY <2>1, <2>4 DEF AnswerInv
  <2>6. \A u \in Sessions : \A c : Said(u, c)' <=> Said(u, c)
    BY <2>2 DEF TellsNothing
  <2>7. LineInv' /\ AnswerInv'
    BY <2>1, <2>3, <2>5, <2>6, MoveKeeps
  <2>8. OwnerInv' /\ StepInv' /\ ServedInv'
    BY <2>1, <2>3, <2>6, TransferKept
  <2>9. UpInv'
    BY <2>1, <2>3 DEF UpInv
  <2> QED
    BY <2>7, <2>8, <2>9
<1>2. CASE Skip(s)
  <2>1. /\ session[s] = "recv" /\ session' = [session EXCEPT ![s] = "recv"]
        /\ inbox[s] # <<>> /\ Head(inbox[s]) \notin Commands
        /\ inbox' = [inbox EXCEPT ![s] = Tail(@)]
        /\ UNCHANGED <<status, dataBound, client, sent, replies, filename, data, owner, peer, served>>
    BY <1>2 DEF Skip, Handle, Handles, Goto, transfer
  <2>2. ~Fresh(s)
    BY <1>h, <2>1 DEF Fresh
  <2>3. TellsNothing
    BY <2>1, NothingTold
  <2>4. status' = "running"
    BY <2>1 DEF UpInv
  <2> QED
    BY <2>1, <2>2, <2>3, <2>4, HandlerKeeps
<1>3. CASE RecvFails(s)
  BY <1>3 DEF RecvFails, Stop, UpInv
<1>c. ASSUME session[s] = "recv", NEW code \in {230, 220, 213, 550, 202}, Write(s, code, Ignored)
      PROVE  status' = "running" /\ \E c \in Nat \ {150, 226, 227} : Tells(s, c)
  BY <1>c, WriteUp
<1>4. CASE User(s)
  <2>1. /\ session[s] = "recv" /\ session' = [session EXCEPT ![s] = "recv"]
        /\ inbox[s] # <<>> /\ Head(inbox[s]) = "USER" /\ Lined(inbox[s])
        /\ inbox' = [inbox EXCEPT ![s] = ReadArgs(@)]
        /\ UNCHANGED <<dataBound, client, sent, filename, data, owner, peer, served>>
    BY <1>4 DEF User, Handle, Handles, HasLine, Lined, Goto, transfer
  <2>2. FirstArg(inbox[s]) \in {None, "anonymous"}
    <3>1. FreshIs(s, "USER")
      BY <1>h, <2>1 DEF FreshIs, Fresh, Commands
    <3>2. inbox[s] \in Lines[s]
      BY <3>1 DEF FreshIs, LineInv
    <3>3. PoliteLine(inbox[s])
      BY <3>2, FtpAssumption DEF AllLines
    <3> QED
      BY <3>1, <3>3 DEF PoliteLine, FirstArg, FreshIs
  <2>3. Write(s, 230, Ignored)
    BY <1>4, <2>2 DEF User
  <2>4. status' = "running" /\ \E c \in Nat \ {150, 226, 227} : Tells(s, c)
    BY <1>c, <2>1, <2>3
  <2> QED
    BY <2>1, <2>4, HandlerKeeps
<1>5. CASE Type(s)
  <2>1. /\ session[s] = "recv" /\ session' = [session EXCEPT ![s] = "recv"]
        /\ inbox[s] # <<>> /\ Head(inbox[s]) = "TYPE" /\ Lined(inbox[s])
        /\ inbox' = [inbox EXCEPT ![s] = ReadArgs(@)]
        /\ UNCHANGED <<dataBound, client, sent, filename, data, owner, peer, served>>
    BY <1>5 DEF Type, Handle, Handles, HasLine, Lined, Goto, transfer
  <2>2. FirstArg(inbox[s]) # None
    <3>1. FreshIs(s, "TYPE")
      BY <1>h, <2>1 DEF FreshIs, Fresh, Commands
    <3>2. inbox[s] \in Lines[s]
      BY <3>1 DEF FreshIs, LineInv
    <3>3. PoliteLine(inbox[s])
      BY <3>2, FtpAssumption DEF AllLines
    <3>4. inbox[s][2] \in Tokens
      <4> DEFINE q == inbox[s]
                 n == Len(q)
      <4>1. n \in Nat /\ n # 0 /\ q[n] = "EOL" /\ q[1] # "EOL" /\ \A i \in 1..n : q[i] \in Tokens
        BY <1>t, <2>1, <3>1, LinesEnd DEF FreshIs, LineInv
      <4> HIDE DEF q, n
      <4>2. n # 1
        BY <4>1
      <4>3. 2 \in 1..n
        BY <4>1, <4>2
      <4>4. q[2] \in Tokens
        BY <4>1, <4>3
      <4> QED
        BY <4>4 DEF q
    <3> QED
      BY <3>1, <3>3, <3>4, FtpAssumption DEF PoliteLine, FirstArg, FreshIs
  <2>3. Write(s, 220, Ignored)
    BY <1>5, <2>2 DEF Type
  <2>4. status' = "running" /\ \E c \in Nat \ {150, 226, 227} : Tells(s, c)
    BY <1>c, <2>1, <2>3
  <2> QED
    BY <2>1, <2>4, HandlerKeeps
<1>6. CASE Size(s)
  <2>1. /\ session[s] = "recv" /\ session' = [session EXCEPT ![s] = "recv"]
        /\ inbox[s] # <<>> /\ Lined(inbox[s]) /\ inbox' = [inbox EXCEPT ![s] = ReadArgs(@)]
        /\ UNCHANGED <<dataBound, client, sent, filename, data, owner, peer, served>>
    BY <1>6 DEF Size, Handle, Handles, HasLine, Lined, Goto, transfer
  <2>2. Write(s, 213, Ignored) \/ Write(s, 550, Ignored)
    BY <1>6 DEF Size
  <2>3. status' = "running" /\ \E c \in Nat \ {150, 226, 227} : Tells(s, c)
    BY <1>c, <2>1, <2>2
  <2> QED
    BY <2>1, <2>3, HandlerKeeps
<1>7. CASE Empty(s)
  <2>1. /\ session[s] = "recv" /\ session' = [session EXCEPT ![s] = "recv"]
        /\ inbox[s] # <<>> /\ inbox' = [inbox EXCEPT ![s] = Tail(@)]
        /\ UNCHANGED <<dataBound, client, sent, filename, data, owner, peer, served>>
    BY <1>7 DEF Empty, Handle, Handles, Goto, transfer
  <2>2. Write(s, 202, Ignored)
    BY <1>7 DEF Empty
  <2>3. status' = "running" /\ \E c \in Nat \ {150, 226, 227} : Tells(s, c)
    BY <1>c, <2>1, <2>2
  <2> QED
    BY <2>1, <2>3, HandlerKeeps
<1> QED
  BY <1>1, <1>2, <1>3, <1>4, <1>5, <1>6, <1>7

\* ftp_quit_handler and the end of the session
LEMMA QuitKeeps ==
    ASSUME DisciplineInv, NEW s \in Sessions, Quit(s) \/ Free(s)
    PROVE  PoliteInv'
<1> USE DEF DisciplineInv, PoliteInv
<1>t. /\ session \in [Sessions -> SessionSteps] /\ sent \in [Sessions -> Nat]
      /\ \A u \in Sessions : Len(replies[u]) \in Nat
      /\ inbox[s] \in Seq(Tokens) /\ DOMAIN client = Sessions
  BY DEF TypesInv, TypeOK, MutexInv, TypeInv
<1>1. CASE Quit(s)
  <2>1. /\ session[s] = "recv" /\ session' = [session EXCEPT ![s] = "free"]
        /\ inbox[s] # <<>> /\ Head(inbox[s]) = "QUIT"
        /\ inbox' = [inbox EXCEPT ![s] = Tail(@)]
        /\ client' = [client EXCEPT ![s] = "quit"]
        /\ UNCHANGED <<dataBound, sent, filename, data, owner, peer, served>>
        /\ Write(s, 221, Ignored)
    BY <1>1 DEF Quit, Handle, Handles, Goto, transfer
  <2>2. status' = "running" /\ Tells(s, 221)
    BY <2>1, WriteUp
  <2>3. session'[s] = "free" /\ \A u \in Sessions \ {s} : session'[u] = session[u]
    BY <1>t, <2>1
  <2>4. /\ ~Fresh(s)'
        /\ \A i \in DOMAIN inbox'[s] : i # 1 => inbox'[s][i] \notin Commands
        /\ \A u \in Sessions \ {s} : inbox'[u] = inbox[u]
    BY <2>1, RestNotFresh
  <2>5. /\ \A u \in Sessions : /\ Said(u, 150)' <=> Said(u, 150)
                               /\ Said(u, 226)' <=> Said(u, 226)
                               /\ Said(u, 227)' <=> Said(u, 227)
        /\ \A u \in Sessions \ {s} : Len(replies'[u]) = Len(replies[u])
        /\ Len(replies'[s]) = Len(replies[s]) + 1
    BY <2>2 DEF Tells
  <2>6. FreshIs(s, "QUIT")
    BY <1>t, <2>1 DEF FreshIs, Fresh, Commands
  \* The promise of the client: its transfer, if it has one, is over.
  <2>7. owner = s => data = "joined"
    BY <2>1, <2>6 DEF LineInv, OwnerInv, StepInv
  <2>8. UpInv'
    BY <1>t, <2>1, <2>2, <2>3, <2>4 DEF UpInv
  <2>9. LineInv'
    BY <2>1, <2>3, <2>4, <2>5, LineKept
  <2>10. OwnerInv'
    BY <2>1, <2>3, <2>5 DEF OwnerInv
  <2>11. StepInv'
    BY <2>1, <2>3, <2>5, <2>7 DEF StepInv
  <2>12. ServedInv'
    BY <2>1, <2>5 DEF ServedInv
  <2>13. AnswerInv'
    <3>1. Len(replies[s]) >= sent[s] /\ sent'[s] = sent[s] /\ sent[s] \in Nat
      BY <1>t, <2>1 DEF AnswerInv
    <3>2. Len(replies'[s]) >= sent'[s] /\ Len(replies'[s]) > sent'[s]
      BY <1>t, <2>5, <3>1
    <3>3. \A u \in Sessions \ {s} : sent'[u] = sent[u]
      BY <2>1
    <3> QED
      BY <2>3, <2>4, <2>5, <3>2, <3>3, AnswerKept
  <2> QED
    BY <2>8, <2>9, <2>10, <2>11, <2>12, <2>13
<1>2. CASE Free(s)
  <2>1. /\ session[s] = "free" /\ session' = [session EXCEPT ![s] = "ended"]
        /\ UNCHANGED <<status, dataBound, client, inbox, sent, replies, filename, data, owner, peer, served>>
    BY <1>2 DEF Free, Silent, Goto, control, transfer
  <2>2. \A u \in Sessions : \A c : Said(u, c)' <=> Said(u, c)
    BY <2>1, NothingTold DEF TellsNothing
  <2>3. session'[s] = "ended" /\ \A u \in Sessions \ {s} : session'[u] = session[u]
    BY <1>t, <2>1
  <2>4. ~Fresh(s) /\ ~Busy(s)
    BY <2>1 DEF LineInv, Busy
  <2>5. Len(replies'[s]) >= sent[s] /\ Len(replies'[s]) > sent[s]
    BY <2>1, <2>4 DEF AnswerInv
  <2>6. LineInv' /\ AnswerInv'
    BY <2>1, <2>2, <2>3, <2>5, MoveKeeps
  <2>7. \A u \in Sessions : /\ Said(u, 150)' <=> Said(u, 150)
                            /\ Said(u, 226)' <=> Said(u, 226)
                            /\ Said(u, 227)' <=> Said(u, 227)
    BY <2>2
  <2>8. OwnerInv'
    BY <2>1, <2>3, <2>7 DEF OwnerInv
  <2>9. StepInv'
    BY <2>1, <2>3, <2>7 DEF StepInv
  <2>10. ServedInv'
    BY <2>1, <2>7 DEF ServedInv
  <2>11. UpInv'
    BY <2>1, <2>3 DEF UpInv
  <2> QED
    BY <2>6, <2>8, <2>9, <2>10, <2>11
<1> QED
  BY <1>1, <1>2

LEMMA PasvKeeps ==
    ASSUME DisciplineInv, NEW s \in Sessions, PasvBind(s) \/ PasvThread(s) \/ PasvReply(s)
    PROVE  PoliteInv'
<1> USE DEF DisciplineInv, PoliteInv
<1>t. /\ session \in [Sessions -> SessionSteps] /\ sent \in [Sessions -> Nat]
      /\ \A u \in Sessions : Len(replies[u]) \in Nat
      /\ inbox[s] \in Seq(Tokens)
  BY DEF TypesInv, TypeOK, MutexInv, TypeInv
<1>1. CASE PasvBind(s)
  <2>1. /\ session[s] = "recv" /\ session' = [session EXCEPT ![s] = "pasv_thread"]
        /\ inbox[s] # <<>> /\ Head(inbox[s]) = "PASV"
        /\ inbox' = [inbox EXCEPT ![s] = Tail(@)]
        /\ dataBound' = TRUE /\ status' = IF dataBound THEN "exit" ELSE status
        /\ UNCHANGED <<client, sent, replies, filename, data, owner, peer, served>>
    BY <1>1 DEF PasvBind, Handle, Handles, Goto, transfer
  <2>2. \A u \in Sessions : \A c : Said(u, c)' <=> Said(u, c)
    BY <2>1, NothingTold DEF TellsNothing
  <2>3. session'[s] = "pasv_thread" /\ \A u \in Sessions \ {s} : session'[u] = session[u]
    BY <1>t, <2>1
  <2>4. /\ ~Fresh(s)'
        /\ \A i \in DOMAIN inbox'[s] : i # 1 => inbox'[s][i] \notin Commands
        /\ \A u \in Sessions \ {s} : inbox'[u] = inbox[u]
    BY <2>1, RestNotFresh
  <2>5. \A u \in Sessions : /\ Said(u, 150)' <=> Said(u, 150)
                            /\ Said(u, 226)' <=> Said(u, 226)
                            /\ Said(u, 227)' <=> Said(u, 227)
    BY <2>2
  \* The promise of the client: nobody sent PASV before.
  <2>6. FreshIs(s, "PASV") /\ ~dataBound /\ data = "none"
    <3>1. FreshIs(s, "PASV")
      BY <1>t, <2>1 DEF FreshIs, Fresh, Commands
    <3> QED
      BY <3>1 DEF LineInv, OwnerInv
  <2>7. UpInv'
    BY <2>1, <2>3, <2>4, <2>6 DEF UpInv
  <2>8. LineInv'
    BY <2>3, <2>4, <2>5, <2>6, LineKept
  <2>9. OwnerInv'
    BY <2>1, <2>3, <2>5, <2>6 DEF OwnerInv
  <2>10. StepInv'
    BY <2>1, <2>3, <2>5 DEF StepInv
  <2>11. ServedInv'
    BY <2>1, <2>5 DEF ServedInv
  <2>12. AnswerInv'
    <3>1. Len(replies'[s]) >= sent'[s] /\ Busy(s)'
      BY <2>1, <2>3 DEF AnswerInv, Busy
    <3>2. \A u \in Sessions \ {s} : sent'[u] = sent[u] /\ Len(replies'[u]) = Len(replies[u])
      BY <2>1
    <3> QED
      BY <2>3, <2>4, <3>1, <3>2, AnswerKept
  <2> QED
    BY <2>7, <2>8, <2>9, <2>10, <2>11, <2>12
<1>2. CASE PasvThread(s)
  <2>1. /\ session[s] = "pasv_thread" /\ session' = [session EXCEPT ![s] = "pasv_reply"]
        /\ data' = "start" /\ owner' = s
        /\ UNCHANGED <<status, dataBound, client, inbox, sent, replies, filename, peer, served>>
    BY <1>2 DEF PasvThread, Goto, control
  <2>2. \A u \in Sessions : \A c : Said(u, c)' <=> Said(u, c)
    BY <2>1, NothingTold DEF TellsNothing
  <2>3. session'[s] = "pasv_reply" /\ \A u \in Sessions \ {s} : session'[u] = session[u]
    BY <1>t, <2>1
  <2>4. Len(replies'[s]) >= sent[s] /\ Busy(s)'
    BY <2>1, <2>3 DEF AnswerInv, Busy
  <2>5. LineInv' /\ AnswerInv'
    BY <2>1, <2>2, <2>3, <2>4, MoveKeeps
  <2>6. \A u \in Sessions : /\ Said(u, 150)' <=> Said(u, 150)
                            /\ Said(u, 226)' <=> Said(u, 226)
                            /\ Said(u, 227)' <=> Said(u, 227)
    BY <2>2
  <2>7. data = "none" /\ owner = None /\ dataBound /\ s # None
    BY <2>1, FtpAssumption DEF OwnerInv
  <2>8. \A u \in Sessions : ~Said(u, 227) /\ owner # u
    BY <2>1, <2>7, FtpAssumption DEF PassInv, Passing, UpInv, Said, Answers
  <2>9. \A u \in Sessions \ {s} : session[u] \notin {"pasv_thread", "pasv_reply"}
    BY <2>1 DEF PassInv, Passing, UpInv
  <2>10. OwnerInv'
    BY <2>1, <2>3, <2>6, <2>7, <2>8, <2>9 DEF OwnerInv
  <2>11. StepInv'
    BY <2>1, <2>3, <2>6, <2>8 DEF StepInv
  <2>12. ServedInv'
    BY <2>1, <2>6, <2>7 DEF ServedInv
  <2>13. UpInv'
    BY <2>1, <2>3 DEF UpInv
  <2> QED
    BY <2>5, <2>10, <2>11, <2>12, <2>13
<1>3. CASE PasvReply(s)
  <2>1. /\ session[s] = "pasv_reply" /\ session' = [session EXCEPT ![s] = "recv"]
        /\ UNCHANGED <<dataBound, client, inbox, sent, filename, data, owner, peer, served>>
        /\ Write(s, 227, Ignored)
    BY <1>3 DEF PasvReply, Goto, control, transfer
  <2>2. status' = "running" /\ Tells(s, 227)
    BY <2>1, WriteUp
  <2>3. session'[s] = "recv" /\ \A u \in Sessions \ {s} : session'[u] = session[u]
    BY <1>t, <2>1
  <2>4. /\ \A u \in Sessions : /\ Said(u, 150)' <=> Said(u, 150)
                               /\ Said(u, 226)' <=> Said(u, 226)
                               /\ Said(u, 227)' <=> Said(u, 227) \/ u = s
        /\ \A u \in Sessions \ {s} : Len(replies'[u]) = Len(replies[u])
        /\ Len(replies'[s]) = Len(replies[s]) + 1
    BY <2>2 DEF Tells
  <2>5. Len(replies'[s]) >= sent[s] /\ Len(replies'[s]) > sent[s]
    <3>1. Len(replies[s]) >= sent[s] /\ sent[s] \in Nat /\ Len(replies[s]) \in Nat
      BY <1>t, <2>1 DEF AnswerInv
    <3> QED
      BY <2>4, <3>1
  <2>6. LineInv' /\ AnswerInv'
    BY <2>1, <2>3, <2>4, <2>5, MoveKeeps
  <2>7. OwnerInv'
    BY <2>1, <2>3, <2>4 DEF OwnerInv
  <2>8. StepInv'
    BY <2>1, <2>3, <2>4 DEF StepInv
  <2>9. ServedInv'
    BY <2>1, <2>4 DEF ServedInv
  <2>10. UpInv'
    BY <2>1, <2>2, <2>3 DEF UpInv
  <2> QED
    BY <2>6, <2>7, <2>8, <2>9, <2>10
<1> QED
  BY <1>1, <1>2, <1>3

LEMMA RetrKeeps ==
    ASSUME DisciplineInv, NEW s \in Sessions,
           RetrName(s) \/ RetrUnlock(s) \/ RetrJoin(s) \/ RetrReply(s)
    PROVE  PoliteInv'
<1> USE DEF DisciplineInv, PoliteInv
<1>t. /\ session \in [Sessions -> SessionSteps] /\ sent \in [Sessions -> Nat]
      /\ \A u \in Sessions : Len(replies[u]) \in Nat
      /\ inbox[s] \in Seq(Tokens) /\ DOMAIN filename = Sessions
  BY DEF TypesInv, TypeOK, MutexInv, TypeInv
<1>1. CASE RetrName(s)
  <2>1. /\ session[s] = "recv" /\ session' = [session EXCEPT ![s] = "retr_unlock"]
        /\ inbox[s] # <<>> /\ Head(inbox[s]) = "RETR" /\ Lined(inbox[s])
        /\ inbox' = [inbox EXCEPT ![s] = ReadArgs(@)]
        /\ filename' = [filename EXCEPT ![s] = FirstArg(inbox[s])]
        /\ UNCHANGED <<status, dataBound, client, sent, replies, data, owner, peer, served>>
    BY <1>1 DEF RetrName, Handle, Handles, HasLine, Lined, Goto, transfer
  <2>2. \A u \in Sessions : \A c : Said(u, c)' <=> Said(u, c)
    BY <2>1, NothingTold DEF TellsNothing
  <2>3. session'[s] = "retr_unlock" /\ \A u \in Sessions \ {s} : session'[u] = session[u]
    BY <1>t, <2>1
  <2>4. /\ ~Fresh(s)'
        /\ \A i \in DOMAIN inbox'[s] : i # 1 => inbox'[s][i] \notin Commands
        /\ \A u \in Sessions \ {s} : inbox'[u] = inbox[u]
    BY <2>1, RestNotFresh
  <2>5. \A u \in Sessions : /\ Said(u, 150)' <=> Said(u, 150)
                            /\ Said(u, 226)' <=> Said(u, 226)
                            /\ Said(u, 227)' <=> Said(u, 227)
    BY <2>2
  \* The promise of the client: its PASV was answered, and this is its first
  \* RETR, so the data thread is its own and was not joined.
  <2>6. owner = s /\ ~Said(s, 226) /\ data # "joined"
    <3>1. FreshIs(s, "RETR")
      BY <1>t, <2>1 DEF FreshIs, Fresh, Commands
    <3>2. Said(s, 227) /\ ~Said(s, 226)
      BY <3>1 DEF LineInv
    <3> QED
      BY <2>1, <3>2 DEF OwnerInv, StepInv
  <2>7. \A u \in Sessions : filename'[u] = "freed" => filename[u] = "freed"
    <3>1. FirstArg(inbox[s]) # "freed"
      BY <1>t, <2>1, FirstArgType DEF Commands
    <3> QED
      BY <1>t, <2>1, <3>1
  <2>8. UpInv'
    BY <2>1, <2>3, <2>4 DEF UpInv
  <2>9. LineInv'
    BY <2>1, <2>3, <2>4, <2>5, LineKept
  <2>10. OwnerInv'
    BY <2>1, <2>3, <2>5 DEF OwnerInv
  <2>11. StepInv'
    BY <2>1, <2>3, <2>5, <2>6, <2>7 DEF StepInv
  <2>12. ServedInv'
    BY <2>1, <2>5 DEF ServedInv
  <2>13. AnswerInv'
    <3>1. Len(replies'[s]) >= sent'[s] /\ Busy(s)'
      BY <2>1, <2>3 DEF AnswerInv, Busy
    <3>2. \A u \in Sessions \ {s} : sent'[u] = sent[u] /\ Len(replies'[u]) = Len(replies[u])
      BY <2>1
    <3> QED
      BY <2>3, <2>4, <3>1, <3>2, AnswerKept
  <2> QED
    BY <2>8, <2>9, <2>10, <2>11, <2>12, <2>13
<1>2. CASE RetrUnlock(s) \/ RetrJoin(s)
  <2>1. /\ \/ /\ session[s] = "retr_unlock" /\ session' = [session EXCEPT ![s] = "retr_join"]
              /\ data' = data /\ status' = status
           \/ /\ session[s] = "retr_join" /\ session' = [session EXCEPT ![s] = "retr_reply"]
              /\ \/ owner = s /\ data = "done" /\ data' = "joined" /\ status' = status
                 \/ owner # s \/ data = "joined"
        /\ UNCHANGED <<dataBound, client, inbox, sent, replies, filename, owner, peer, served>>
    BY <1>2 DEF RetrUnlock, RetrJoin, Silent, Goto, control, transfer
  <2>2. owner = s /\ ~Said(s, 226) /\ data # "joined"
    BY <2>1 DEF StepInv
  <2>3. \A u \in Sessions : \A c : Said(u, c)' <=> Said(u, c)
    BY <2>1, NothingTold DEF TellsNothing
  <2>4. /\ session[s] \in {"retr_unlock", "retr_join"} /\ status' = "running"
        /\ \/ session'[s] = "retr_join" /\ data' = data
           \/ session'[s] = "retr_reply" /\ data = "done" /\ data' = "joined"
        /\ \A u \in Sessions \ {s} : session'[u] = session[u]
    BY <1>t, <2>1, <2>2 DEF UpInv
  <2>5. Len(replies'[s]) >= sent[s] /\ Busy(s)'
    BY <2>1, <2>4 DEF AnswerInv, Busy
  <2>6. LineInv' /\ AnswerInv'
    BY <2>1, <2>3, <2>4, <2>5, MoveKeeps
  <2>7. \A u \in Sessions : /\ Said(u, 150)' <=> Said(u, 150)
                            /\ Said(u, 226)' <=> Said(u, 226)
                            /\ Said(u, 227)' <=> Said(u, 227)
    BY <2>3
  <2>8. OwnerInv'
    BY <2>1, <2>4, <2>7, FtpAssumption DEF OwnerInv
  <2>9. StepInv'
    BY <2>1, <2>2, <2>4, <2>7 DEF StepInv
  <2>10. ServedInv'
    BY <2>1, <2>4, <2>7 DEF ServedInv
  <2>11. UpInv'
    BY <2>1, <2>4 DEF UpInv
  <2> QED
    BY <2>6, <2>8, <2>9, <2>10, <2>11
<1>3. CASE RetrReply(s)
  <2>1. /\ session[s] = "retr_reply" /\ session' = [session EXCEPT ![s] = "recv"]
        /\ filename' = [filename EXCEPT ![s] = "freed"]
        /\ UNCHANGED <<dataBound, client, inbox, sent, data, owner, peer, served>>
        /\ Write(s, 226, Tested)
    BY <1>3 DEF RetrReply, Goto, control, transfer
  <2>2. status' = "running" /\ Tells(s, 226)
    BY <2>1, WriteUp
  <2>3. session'[s] = "recv" /\ \A u \in Sessions \ {s} : session'[u] = session[u]
    BY <1>t, <2>1
  <2>4. /\ \A u \in Sessions : /\ Said(u, 150)' <=> Said(u, 150)
                               /\ Said(u, 226)' <=> Said(u, 226) \/ u = s
                               /\ Said(u, 227)' <=> Said(u, 227)
        /\ \A u \in Sessions \ {s} : Len(replies'[u]) = Len(replies[u])
        /\ Len(replies'[s]) = Len(replies[s]) + 1
    BY <2>2 DEF Tells
  <2>5. Len(replies'[s]) >= sent[s] /\ Len(replies'[s]) > sent[s]
    <3>1. Len(replies[s]) >= sent[s] /\ sent[s] \in Nat /\ Len(replies[s]) \in Nat
      BY <1>t, <2>1 DEF AnswerInv
    <3> QED
      BY <2>4, <3>1
  <2>6. LineInv' /\ AnswerInv'
    BY <2>1, <2>3, <2>4, <2>5, MoveKeeps
  <2>7. OwnerInv'
    BY <2>1, <2>3, <2>4 DEF OwnerInv
  <2>8. \A u \in Sessions : filename'[u] = "freed" => filename[u] = "freed" \/ u = s
    BY <1>t, <2>1
  <2>9. StepInv'
    BY <2>1, <2>3, <2>4, <2>8 DEF StepInv
  <2>10. ServedInv'
    BY <2>1, <2>4 DEF ServedInv
  <2>11. UpInv'
    BY <2>1, <2>2, <2>3 DEF UpInv
  <2> QED
    BY <2>6, <2>7, <2>9, <2>10, <2>11
<1> QED
  BY <1>1, <1>2, <1>3

\* What the data thread does changes nothing that the sessions go by but data,
\* peer, served and the replies.
LEMMA DataKeeps ==
    ASSUME DisciplineInv, DataStep
    PROVE  PoliteInv'
<1> USE DEF DisciplineInv, PoliteInv
<1>t. /\ \A u \in Sessions : Len(replies[u]) \in Nat
      /\ served \in Nat /\ sent \in [Sessions -> Nat]
  BY DEF TypesInv, TypeOK, MutexInv, TypeInv
<1>o. owner \in Sessions /\ data \notin {"none", "done", "joined"}
      /\ UNCHANGED <<dataBound, session, client, inbox, sent, filename, owner>>
  BY DEF DataStep, DataListen, DataAccept, DataTouchesFreed, DataLock, DataOpen, DataOpenFreed,
         DataSend,
         DataClose, DataUnlock, DataGoto, DataUndefined, OwnerFreed, control, TypesInv, MutexInv, TypeInv
\* The session of the data thread is not past its RETR.
<1>s. /\ session[owner] \notin {"free", "ended"} /\ filename[owner] # "freed"
      /\ \A u \in Sessions : ~Said(u, 226) /\ session[u] # "retr_reply"
  BY <1>o DEF StepInv
<1>b. session[owner] # "none"
  BY <1>o DEF MutexInv, TypesInv, NotBegunInv
\* What is left to show of each step
<1>k. ASSUME status' = "running", peer' \in {"none", "connected", "closed"},
             \A u \in Sessions : /\ Said(u, 226)' <=> Said(u, 226)
                                 /\ Said(u, 227)' <=> Said(u, 227)
                                 /\ Len(replies'[u]) >= Len(replies[u])
                                 /\ Len(replies'[u]) \in Nat,
             data' \notin {"none", "joined"}, ServedInv'
      PROVE  PoliteInv'
  <2>1. UpInv'
    BY <1>k, <1>o DEF UpInv
  <2>2. \A u \in Sessions : (Fresh(u)' <=> Fresh(u)) /\ (Busy(u)' <=> Busy(u))
                            /\ \A c : FreshIs(u, c)' <=> FreshIs(u, c)
    BY <1>o DEF Fresh, FreshIs, Busy
  <2>3. LineInv'
    BY <1>k, <1>o, <2>2 DEF LineInv
  <2>4. OwnerInv'
    BY <1>k, <1>o, FtpAssumption DEF OwnerInv
  <2>5. StepInv'
    BY <1>k, <1>o, <1>s DEF StepInv
  <2>6. AnswerInv'
    <3> SUFFICES ASSUME NEW u \in Sessions, session'[u] # "none"
                 PROVE  /\ Len(replies'[u]) >= sent'[u]
                        /\ Len(replies'[u]) > sent'[u] \/ Fresh(u)' \/ Busy(u)'
      BY DEF AnswerInv
    <3>1. /\ Len(replies[u]) >= sent[u]
          /\ Len(replies[u]) > sent[u] \/ Fresh(u) \/ Busy(u)
      BY <1>o DEF AnswerInv
    <3>2. sent'[u] = sent[u] /\ sent[u] \in Nat /\ Len(replies[u]) \in Nat
          /\ Len(replies'[u]) \in Nat /\ Len(replies'[u]) >= Len(replies[u])
      BY <1>k, <1>o, <1>t
    <3> QED
      BY <2>2, <3>1, <3>2
  <2> QED
    BY <1>k, <2>1, <2>3, <2>4, <2>5, <2>6
\* The same for a step that tells nobody anything
<1>q. ASSUME UNCHANGED replies
      PROVE  \A u \in Sessions : /\ Said(u, 150)' <=> Said(u, 150)
                                 /\ Said(u, 226)' <=> Said(u, 226)
                                 /\ Said(u, 227)' <=> Said(u, 227)
                                 /\ Len(replies'[u]) >= Len(replies[u])
                                 /\ Len(replies'[u]) \in Nat
  BY <1>q, <1>t, NothingTold DEF TellsNothing
<1>1. CASE DataListen \/ DataAccept \/ DataLock
  <2>1. /\ \/ data = "start" /\ data' = "accept"
           \/ data = "accept" /\ data' = "lock"
           \/ data = "lock" /\ data' = "open"
        /\ UNCHANGED <<status, replies, peer, served>>
    BY <1>1 DEF DataListen, DataAccept, DataLock, DataGoto
  <2>2. ServedInv'
    BY <1>o, <1>q, <2>1 DEF ServedInv
  <2> QED
    BY <1>k, <1>q, <2>1, <2>2 DEF UpInv
<1>2. CASE DataTouchesFreed \/ DataOpenFreed
  BY <1>2, <1>s DEF DataTouchesFreed, DataOpenFreed, OwnerFreed
<1>3. CASE DataOpen
  <2>1. /\ data = "open" /\ UNCHANGED <<peer, served>>
        /\ \/ data' = "send" /\ Write(owner, 150, Tested)
           \/ data' = "close" /\ Write(owner, 550, Ignored)
    BY <1>3 DEF DataOpen, DataGoto
  <2>2. /\ status' = "running"
        /\ \/ data' = "send" /\ Tells(owner, 150)
           \/ data' = "close" /\ Tells(owner, 550)
    BY <1>o, <1>b, <1>s, <2>1, WriteUp
  <2>3. \A u \in Sessions : /\ Said(u, 226)' <=> Said(u, 226)
                            /\ Said(u, 227)' <=> Said(u, 227)
                            /\ Len(replies'[u]) >= Len(replies[u])
                            /\ Len(replies'[u]) \in Nat
    BY <1>t, <2>2 DEF Tells
  <2>4. \A u \in Sessions : Said(u, 150)' <=> Said(u, 150) \/ (u = owner /\ data' = "send")
    BY <2>2 DEF Tells
  <2>5. served = 0 /\ \A u \in Sessions : ~Said(u, 150)
    BY <2>1 DEF ServedInv
  <2>6. ServedInv'
    BY <1>o, <2>1, <2>2, <2>4, <2>5 DEF ServedInv
  <2> QED
    BY <1>k, <2>1, <2>2, <2>3, <2>6 DEF UpInv
<1>4. CASE DataSend
  <2>1. /\ data = "send" /\ data' = "close" /\ UNCHANGED <<replies, peer>>
        /\ peer = "connected" => status' = status /\ served' = served + 1
        /\ peer \in {"connected", "gone"}
    BY <1>4 DEF DataSend, DataGoto
  <2>2. peer = "connected" /\ served = 0 /\ Said(owner, 150)
    BY <1>o, <2>1 DEF UpInv, ServedInv
  <2>3. served' = 1
    BY <2>1, <2>2
  <2>4. ServedInv'
    BY <1>o, <1>q, <2>1, <2>2, <2>3 DEF ServedInv
  <2> QED
    BY <1>k, <1>q, <2>1, <2>2, <2>4 DEF UpInv
<1>5. CASE DataClose \/ DataUnlock
  <2>1. /\ \/ data = "close" /\ data' = "unlock" /\ peer' = "closed"
           \/ data = "unlock" /\ data' = "done" /\ peer' = peer
        /\ UNCHANGED <<status, replies, served>>
    BY <1>5 DEF DataClose, DataUnlock, DataGoto
  <2>2. ServedInv'
    BY <1>o, <1>q, <2>1 DEF ServedInv
  <2> QED
    BY <1>k, <1>q, <2>1, <2>2 DEF UpInv
<1> QED
  BY <1>1, <1>2, <1>3, <1>4, <1>5 DEF DataStep

LEMMA ClientKeeps ==
    ASSUME Disciplined, DisciplineInv,
           \/ \E s \in Sessions : ClientStep(s)
           \/ PeerConnect \/ PeerLeave \/ Refused \/ UNCHANGED vars
    PROVE  PoliteInv'
<1> USE DEF DisciplineInv, PoliteInv
<1>t. /\ sent \in [Sessions -> Nat] /\ inbox \in [Sessions -> Seq(Tokens)]
      /\ DOMAIN client = Sessions /\ \A u \in Sessions : Len(replies[u]) \in Nat
  BY DEF TypesInv, TypeOK, MutexInv, TypeInv
<1>u. UNCHANGED <<dataBound, session, replies, filename, data, owner>>
  BY ClientKeepsServer
<1>n. \A u \in Sessions : \A c : Said(u, c)' <=> Said(u, c)
  BY <1>u, NothingTold DEF TellsNothing
<1>o. OwnerInv' /\ StepInv'
  <2>1. \A u \in Sessions : /\ Said(u, 226)' <=> Said(u, 226)
                            /\ Said(u, 227)' <=> Said(u, 227)
    BY <1>n
  <2> QED
    BY <1>u, <2>1 DEF OwnerInv, StepInv
\* The connections come and go: clients that are disciplined do not leave.
<1>1. CASE \/ \E s \in Sessions : ClientConnect(s) \/ ClientLeave(s)
           \/ PeerConnect \/ PeerLeave \/ Refused \/ UNCHANGED vars
  <2>1. /\ UNCHANGED <<status, inbox, sent, served>>
        /\ peer' = peer \/ (peer = "none" /\ peer' = "connected")
        /\ client' = client \/ \E s \in Sessions : client' = [client EXCEPT ![s] = "connected"]
    BY <1>1 DEF ClientConnect, ClientLeave, PeerConnect, PeerLeave, ServerUnchanged, vars,
                Refused, BindFails, AcceptFails, DataAcceptFails
  <2>2. \A u \in Sessions : client'[u] \in {client[u], "connected"}
    BY <1>t, <2>1
  <2>3. \A u \in Sessions : (Fresh(u)' <=> Fresh(u)) /\ (Busy(u)' <=> Busy(u))
                            /\ \A c : FreshIs(u, c)' <=> FreshIs(u, c)
    BY <1>u, <2>1 DEF Fresh, FreshIs, Busy
  <2>4. UpInv'
    BY <1>u, <2>1, <2>2 DEF UpInv
  <2>5. LineInv'
    <3>1. \A u \in Sessions : /\ Said(u, 226)' <=> Said(u, 226)
                              /\ Said(u, 227)' <=> Said(u, 227)
      BY <1>n
    <3> QED
      BY <1>u, <2>1, <2>3, <3>1 DEF LineInv
  <2>6. ServedInv'
    <3>1. \A u \in Sessions : Said(u, 150)' <=> Said(u, 150)
      BY <1>n
    <3> QED
      BY <1>u, <2>1, <3>1 DEF ServedInv
  <2>7. AnswerInv'
    BY <1>u, <2>1, <2>3 DEF AnswerInv
  <2> QED
    BY <1>o, <2>4, <2>5, <2>6, <2>7
<1>2. ASSUME NEW s \in Sessions, NEW line \in Lines[s], ClientSend(s, line)
      PROVE  PoliteInv'
  <2>1. /\ UNCHANGED <<status, client, peer, served>>
        /\ inbox[s] = <<>> /\ MaySend(s, line)
        /\ inbox' = [inbox EXCEPT ![s] = <<>> \o line]
        /\ sent' = [sent EXCEPT ![s] = @ + 1]
    BY <1>2 DEF ClientSend, ServerUnchanged
  <2>2. /\ line \in Seq(Tokens) /\ line # <<>> /\ PoliteLine(line)
        /\ <<>> \o line = line
    <3>1. line \in Seq(Tokens) /\ line # <<>> /\ PoliteLine(line)
      BY FtpAssumption DEF AllLines
    <3> QED
      BY <3>1, ConcatEmptySeq
  <2>3. inbox'[s] = line /\ \A u \in Sessions \ {s} : inbox'[u] = inbox[u]
    BY <1>t, <2>1, <2>2
  <2>4. /\ session[s] = "recv"
        /\ line[1] = "PASV" => ~PasvSent
        /\ line[1] = "RETR" => Said(s, 227) /\ ~Said(s, 226)
        /\ line[1] = "QUIT" => ~Said(s, 227) \/ Said(s, 226)
    BY <2>1 DEF MaySend, Quiet
  <2>5. /\ \A u \in Sessions \ {s} : Fresh(u)' <=> Fresh(u)
        /\ \A c : \A u \in Sessions \ {s} : FreshIs(u, c)' <=> FreshIs(u, c)
        /\ Fresh(s)' /\ \A c : FreshIs(s, c)' => line[1] = c
    BY <2>2, <2>3 DEF Fresh, FreshIs, PoliteLine
  <2>6. ~PasvSent => ~dataBound /\ \A u \in Sessions : ~FreshIs(u, "PASV")
    <3>1. ASSUME NEW u \in Sessions, FreshIs(u, "PASV") PROVE PasvSent
      <4>1. inbox[u] \in Seq(Tokens) /\ inbox[u] # <<>> /\ inbox[u][1] = "PASV"
        BY <1>t, <3>1 DEF FreshIs, Fresh
      <4>2. 1 \in DOMAIN inbox[u]
        BY <4>1
      <4> QED
        BY <4>1, <4>2 DEF PasvSent
    <3> QED
      BY <3>1 DEF PasvSent
  <2>7. UpInv'
    BY <1>u, <2>1, <2>3, <2>4, <1>t DEF UpInv
  <2>8. LineInv'
    <3>1. \A u \in Sessions : \A i \in DOMAIN inbox'[u] : i # 1 => inbox'[u][i] \notin Commands
      <4>1. \A i \in 1..Len(line) : i # 1 => i \in 2..Len(line)
        BY <2>2
      <4>2. \A i \in DOMAIN line : i # 1 => line[i] \notin Commands
        BY <2>2, <4>1 DEF PoliteLine
      <4> QED
        BY <2>3, <4>2 DEF LineInv
    <3>2. \A u \in Sessions : Fresh(u)' => session'[u] = "recv" /\ inbox'[u] \in Lines[u]
      BY <1>u, <2>3, <2>4, <2>5 DEF LineInv
    <3>3. \A u, v \in Sessions : FreshIs(u, "PASV")' /\ FreshIs(v, "PASV")' => u = v
      BY <2>4, <2>5, <2>6 DEF LineInv
    <3>4. \A u \in Sessions : /\ Said(u, 226)' <=> Said(u, 226)
                              /\ Said(u, 227)' <=> Said(u, 227)
      BY <1>n
    <3>5. \A u \in Sessions :
              /\ FreshIs(u, "PASV")' => ~dataBound'
              /\ FreshIs(u, "RETR")' => Said(u, 227)' /\ ~Said(u, 226)'
              /\ FreshIs(u, "QUIT")' => ~Said(u, 227)' \/ Said(u, 226)'
      <4> SUFFICES ASSUME NEW u \in Sessions
                   PROVE  /\ FreshIs(u, "PASV")' => ~dataBound'
                          /\ FreshIs(u, "RETR")' => Said(u, 227)' /\ ~Said(u, 226)'
                          /\ FreshIs(u, "QUIT")' => ~Said(u, 227)' \/ Said(u, 226)'
        OBVIOUS
      <4>1. CASE u = s
        BY <1>u, <2>4, <2>5, <2>6, <3>4, <4>1
      <4>2. CASE u # s
        BY <1>u, <2>5, <3>4, <4>2 DEF LineInv
      <4> QED
        BY <4>1, <4>2
    <3> QED
      BY <3>1, <3>2, <3>3, <3>5 DEF LineInv
  <2>9. ServedInv'
    <3>1. \A u \in Sessions : Said(u, 150)' <=> Said(u, 150)
      BY <1>n
    <3> QED
      BY <1>u, <2>1, <3>1 DEF ServedInv
  \* The client waited for the answer to the line before.
  <2>10. AnswerInv'
    <3>1. ~Fresh(s) /\ ~Busy(s)
      BY <2>1, <2>4 DEF Fresh, Busy
    <3>2. Len(replies[s]) > sent[s] /\ sent[s] \in Nat /\ Len(replies[s]) \in Nat
      BY <1>t, <2>4, <3>1 DEF AnswerInv
    <3>3. sent'[s] = sent[s] + 1 /\ \A u \in Sessions \ {s} : sent'[u] = sent[u]
      BY <1>t, <2>1
    <3>4. Len(replies'[s]) >= sent'[s]
      BY <1>u, <3>2, <3>3
    <3> QED
      BY <1>u, <2>3, <2>5, <3>3, <3>4, AnswerKept
  <2> QED
    BY <1>o, <2>7, <2>8, <2>9, <2>10
<1> QED
  BY <1>1, <1>2 DEF ClientStep

LEMMA DisciplineNext ==
    ASSUME Disciplined, DisciplineInv, [Next]_vars
    PROVE  DisciplineInv'
<1>1. TypesInv' /\ PassInv'
  BY TypesNext, PassNext DEF DisciplineInv, TypesInv
<1>2. ASSUME NEW s \in Sessions, Accept(s) \/ SessionStep(s) PROVE PoliteInv'
  BY <1>2, AcceptKeeps, LoopKeeps, QuitKeeps, PasvKeeps, RetrKeeps DEF SessionStep
<1>3. PoliteInv'
  BY <1>2, DataKeeps, ClientKeeps DEF Next
<1> QED
  BY <1>1, <1>3 DEF DisciplineInv

LEMMA DisciplineAlways ==
    ASSUME Disciplined PROVE Spec => []DisciplineInv
<1>1. DisciplineInv /\ [Next]_vars => DisciplineInv'
  BY DisciplineNext
<1> QED
  BY <1>1, DisciplineInit, PTL DEF Spec

\* However many clients there are and however their sessions and the data
\* thread interleave: clients that keep the discipline never end the process
\* or make it use freed memory.
THEOREM StaysUpAlways ==
    ASSUME Disciplined PROVE Spec => []StaysUp
<1>1. DisciplineInv => StaysUp
  BY DEF DisciplineInv, PoliteInv, UpInv, StaysUp
<1> QED
  BY <1>1, DisciplineAlways, PTL

\* The session that QUIT frees is one whose data thread has ended.
THEOREM NoUseAfterFreeAlways ==
    ASSUME Disciplined PROVE Spec => []NoUseAfterFree
<1>1. DisciplineInv => NoUseAfterFree
  BY DEF DisciplineInv, PoliteInv, TypesInv, TypeOK, StepInv, NoUseAfterFree
<1> QED
  BY <1>1, DisciplineAlways, PTL

\* 226 is told only when the connection is closed and what 150 announced was
\* sent, in every session and for every file.
THEOREM SuccessMeansSentAlways ==
    ASSUME Disciplined PROVE Spec => []SuccessMeansSent
<1>1. DisciplineInv => SuccessMeansSent
  <2> SUFFICES ASSUME DisciplineInv, NEW s \in Sessions, 226 \in Codes(s)
               PROVE  /\ peer = "closed"
                      /\ served = IF 150 \in Codes(s) THEN 1 ELSE 0
    BY DEF SuccessMeansSent
  <2>1. /\ Said(s, 226)
        /\ Said(s, 150) <=> 150 \in Codes(s)
    BY DEF Codes, Said
  <2>2. owner = s /\ data = "joined"
    BY <2>1 DEF DisciplineInv, PoliteInv, StepInv
  <2> QED
    BY <2>1, <2>2 DEF DisciplineInv, PoliteInv, ServedInv
<1> QED
  BY <1>1, DisciplineAlways, PTL

\* The data thread writes its reply while its session waits for it, before the
\* 226 and on a connection that is still open, in every session.
THEOREM RepliesInOrderAlways ==
    ASSUME Disciplined PROVE Spec => []RepliesInOrder
<1>1. DisciplineInv => RepliesInOrder
  <2> SUFFICES ASSUME DisciplineInv, data = "open"
               PROVE  ~Said(owner, 226) /\ client[owner] = "connected"
    BY DEF RepliesInOrder
  <2>1. owner \in Sessions
    BY DEF DisciplineInv, TypesInv, MutexInv, TypeInv
  <2>2. ~Said(owner, 226) /\ filename[owner] # "freed" /\ session[owner] \notin {"free", "ended"}
    BY <2>1 DEF DisciplineInv, PoliteInv, StepInv
  <2>3. session[owner] \in {"retr_unlock", "retr_join"}
    BY <2>1, <2>2 DEF DisciplineInv, TypesInv, MutexInv, InsideInv
  <2>4. client[owner] = "connected"
    BY <2>1, <2>3 DEF DisciplineInv, PoliteInv, UpInv
  <2> QED
    BY <2>2, <2>4
<1> QED
  BY <1>1, DisciplineAlways, PTL

\* A client that waits has an answer to everything it sent, the greeting
\* besides.
THEOREM AnswersKeepUpAlways ==
    ASSUME Disciplined PROVE Spec => []AnswersKeepUp
<1>1. DisciplineInv => AnswersKeepUp
  BY DEF DisciplineInv, PoliteInv, AnswerInv, AnswersKeepUp, Quiet, Fresh, Busy
<1> QED
  BY <1>1, DisciplineAlways, PTL
=============================================================================
