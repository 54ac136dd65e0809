-------------------------- MODULE VrepClientProofs --------------------------
(***************************************************************************)
(* VrepClient, for any number of rounds, any faults and timeouts at any    *)
(* time.  Without the navdata thread, vrep_mutex lets one caller in at a   *)
(* time, and so every caller reads the reply to its own command out of the *)
(* shared fetch buffer, although it reads it without a lock of the client. *)
(***************************************************************************)
EXTENDS VrepClient, TLAPS

Calling(t) == pc[t] \notin {"idle", "lock"}

\* The parts of the types that the argument needs.
CallTypes ==
    /\ pc \in [Threads -> {"idle", "lock", "call", "check", "waiting", "fetch",
                           "remove", "read", "copy"}]
    /\ at \in [Threads -> Nat]
    /\ rounds \in [Threads -> Nat]
    /\ err \in [Threads -> SUBSET Errors]
    /\ got \in [Threads -> BOOLEAN]
    /\ \A t \in Threads : at[t] \in DOMAIN Script(t)

\* Exactly the holder of vrep_mutex is inside a round.
MutexInv == \A t \in Threads : Calling(t) <=> vrep_mutex = t

\* A call that got a reply has it in the fetch buffer until it returns.
ReplyInv ==
    \A t \in Threads :
        pc[t] \in {"remove", "read"} /\ got[t] =>
            fetched.cmd = Cmd(t)

\* The image pointer is the video thread's, and points to an image.
ImageInv ==
    image => "video" \in Threads /\ vrep_mutex = "video" /\ fetched.cmd = "image"

BufferInv == CallTypes /\ MutexInv /\ ReplyInv /\ ImageInv

Unlocking == "navdata" \notin Threads

\* What a thread can be, and that None is nobody.
LEMMA OnlyLockers ==
    ASSUME Unlocking, NEW t \in Threads
    PROVE  Locks(t) /\ t \in {"control", "video"}
BY VrepAssumption DEF Unlocking, Locks

\* The round of a thread depends on rounds alone.
LEMMA SameCall ==
    ASSUME NEW t \in Threads, rounds'[t] = rounds[t], at'[t] = at[t]
    PROVE  Script(t)' = Script(t) /\ Cmd(t)' = Cmd(t) /\ Mode(t)' = Mode(t)
BY DEF Script, Cmd, Mode

\* The first call of a round exists, whatever round it is.
LEMMA FirstCall ==
    ASSUME NEW t \in Threads
    PROVE  1 \in DOMAIN Script(t) /\ 1 \in DOMAIN Script(t)'
BY VrepAssumption DEF Script, FirstScript, LaterScript, Call

\* A round is a sequence of calls.
LEMMA ScriptIsSequence ==
    ASSUME NEW t \in Threads
    PROVE  Len(Script(t)) \in Nat /\ DOMAIN Script(t) = 1..Len(Script(t))
<1>1. \A c, d : <<c>> \in Seq({c, d}) /\ <<c, d>> \in Seq({c, d})
  OBVIOUS
<1>2. PICK c, d : Script(t) = <<c, d>> \/ Script(t) = <<c>>
  BY VrepAssumption DEF Script, FirstScript, LaterScript
<1>3. Script(t) \in Seq({c, d})
  BY <1>1, <1>2
<1> QED
  BY <1>3

\* All commands of the video thread are for the image.
LEMMA VideoWantsImages ==
    ASSUME CallTypes, NEW t \in Threads, t = "video"
    PROVE  Cmd(t) = "image"
BY DEF CallTypes, Script, FirstScript, LaterScript, Cmd, Call

LEMMA BufferInit == Init => BufferInv
BY VrepAssumption, FirstCall
DEF Init, BufferInv, CallTypes, MutexInv, Calling, ReplyInv, ImageInv, NoCommand

-----------------------------------------------------------------------------
(* Steps that leave the callers where they are: the communication thread.   *)

LEMMA OtherSteps ==
    ASSUME BufferInv, UNCHANGED <<vrep_mutex, fetched, local>>
    PROVE  BufferInv'
<1>1. \A t \in Threads : Script(t)' = Script(t) /\ Cmd(t)' = Cmd(t)
  BY SameCall DEF local
<1> QED
  BY <1>1 DEF local, BufferInv, CallTypes, MutexInv, Calling, ReplyInv, ImageInv

\* Steps that move one caller inside its round, or to the mutex, and leave
\* the fetch buffer alone.
LEMMA MovesInside ==
    ASSUME BufferInv, NEW t \in Threads, NEW p,
           UNCHANGED <<vrep_mutex, fetched, at, rounds, got, image>>,
           err' \in [Threads -> SUBSET Errors],
           pc' = [pc EXCEPT ![t] = p],
           \/ p \in {"check", "fetch", "waiting"} /\ Calling(t)
           \/ p = "lock" /\ ~Calling(t)
           \/ p = "read" /\ pc[t] = "remove"
    PROVE  BufferInv'
<1>1. \A u \in Threads : Script(u)' = Script(u) /\ Cmd(u)' = Cmd(u)
  BY SameCall
<1> QED
  BY <1>1 DEF BufferInv, CallTypes, MutexInv, Calling, ReplyInv, ImageInv

\* A thread that has the mutex, and only that one, fetches: what the others
\* would read from the buffer is not theirs to read now.
LEMMA FetchStep ==
    ASSUME BufferInv, Unlocking, NEW t \in Threads, Fetch(t)
    PROVE  BufferInv'
<1>1. \A u \in Threads : Script(u)' = Script(u) /\ Cmd(u)' = Cmd(u)
  BY SameCall DEF Fetch, CopyReply
<1>2. vrep_mutex = t /\ vrep_mutex' = t
  BY DEF Fetch, CopyReply, BufferInv, MutexInv, Calling
<1>3. PICK r :
        /\ fetched' = IF r = None THEN fetched ELSE [cmd |-> Cmd(t), id |-> r.id]
        /\ err' = [err EXCEPT ![t] = @ \cup FetchErrors(r)]
        /\ got' = [got EXCEPT ![t] = r /= None]
  BY DEF Fetch, CopyReply
<1>4. CallTypes'
  <2>1. FetchErrors(r) \in SUBSET Errors
    BY DEF FetchErrors, Errors
  <2>2. pc' = [pc EXCEPT ![t] = "remove"] \/ pc' = [pc EXCEPT ![t] = "read"]
    BY DEF Fetch, CopyReply
  <2> QED
    BY <1>1, <1>3, <2>1, <2>2 DEF Fetch, CopyReply, BufferInv, CallTypes
<1>5. MutexInv'
  BY <1>2 DEF Fetch, CopyReply, BufferInv, CallTypes, MutexInv, Calling
<1>6. ReplyInv'
  <2> SUFFICES ASSUME NEW u \in Threads, pc'[u] \in {"remove", "read"}, got'[u]
               PROVE  fetched'.cmd = Cmd(u)
    BY <1>1 DEF ReplyInv
  <2>1. u = t
    BY <1>2, <1>5 DEF MutexInv, Calling
  <2>2. r /= None
    BY <1>3, <2>1 DEF BufferInv, CallTypes
  <2> QED
    BY <1>3, <2>1, <2>2
<1>7. ImageInv'
  <2> SUFFICES ASSUME image PROVE t = "video" /\ fetched'.cmd = "image"
    BY <1>2 DEF ImageInv, Fetch, CopyReply
  <2>1. t = "video" /\ fetched.cmd = "image"
    BY <1>2 DEF BufferInv, ImageInv
  <2>2. Cmd(t) = "image"
    BY <2>1, VideoWantsImages DEF BufferInv
  <2> QED
    BY <1>3, <2>1, <2>2
<1> QED
  BY <1>4, <1>5, <1>6, <1>7 DEF BufferInv

\* A thread takes the mutex.
LEMMA LockStep ==
    ASSUME BufferInv, Unlocking, NEW t \in Threads, Lock(t)
    PROVE  BufferInv'
<1>1. \A u \in Threads : Script(u)' = Script(u) /\ Cmd(u)' = Cmd(u)
  BY SameCall DEF Lock
<1>2. None \notin Threads
  BY VrepAssumption
<1>3. ~image
  <2>1. image => "video" \in Threads
    BY DEF Lock, BufferInv, ImageInv
  <2> QED
    BY <1>2, <2>1 DEF Lock, BufferInv, ImageInv
<1> QED
  BY <1>1, <1>2, <1>3 DEF Lock, BufferInv, CallTypes, MutexInv, Calling, ReplyInv, ImageInv

\* A caller reads its value, or the pointer to the image, and goes on to the
\* next call, to the copy, or out of its round.
LEMMA ReadStep ==
    ASSUME BufferInv, Unlocking, NEW t \in Threads, Read(t)
    PROVE  BufferInv'
<1>1. vrep_mutex = t /\ pc[t] = "read"
  BY DEF Read, BufferInv, MutexInv, Calling
<1>2. \A u \in Threads : u /= t => Script(u)' = Script(u) /\ Cmd(u)' = Cmd(u)
  <2> SUFFICES ASSUME NEW u \in Threads, u /= t
               PROVE  Script(u)' = Script(u) /\ Cmd(u)' = Cmd(u)
    OBVIOUS
  <2>1. rounds'[u] = rounds[u] /\ at'[u] = at[u]
    BY DEF Read, Finish, BufferInv, CallTypes
  <2> QED
    BY <2>1, SameCall
<1>3. PICK p \in {"call", "copy", "idle"} :
        /\ Return(t, p)
        /\ p = "idle" => Finish(t)
        /\ p /= "idle" => vrep_mutex' = vrep_mutex /\ rounds' = rounds
        /\ p = "copy" => at' = at
        /\ p = "call" => \/ at' = at
                         \/ at[t] < Len(Script(t)) /\ at' = [at EXCEPT ![t] = @ + 1]
  BY DEF Read
<1>4. fetched' = fetched
  BY DEF Read, shared
<1>5. CallTypes'
  <2>1. at'[t] \in DOMAIN Script(t)' /\ at' \in [Threads -> Nat]
    <3>1. CASE p = "idle"
      <4>1. at' = [at EXCEPT ![t] = 1]
        BY <1>3, <3>1 DEF Finish
      <4> QED
        BY <4>1, FirstCall DEF BufferInv, CallTypes
    <3>2. CASE p /= "idle"
      <4>1. Script(t)' = Script(t)
        BY <1>3, <3>2 DEF Script
      <4>2. Len(Script(t)) \in Nat /\ DOMAIN Script(t) = 1..Len(Script(t))
        BY ScriptIsSequence
      <4> QED
        BY <1>3, <3>2, <4>1, <4>2 DEF BufferInv, CallTypes
    <3> QED
      BY <3>1, <3>2
  <2>2. rounds' \in [Threads -> Nat]
    BY <1>3 DEF Finish, BufferInv, CallTypes
  <2>3. \A u \in Threads : u /= t => at'[u] = at[u]
    BY <1>3 DEF Finish, BufferInv, CallTypes
  <2> QED
    BY <1>2, <1>3, <2>1, <2>2, <2>3 DEF Return, BufferInv, CallTypes
<1>6. MutexInv'
  <2>1. CASE p = "idle"
    BY <1>1, <1>3, <2>1, VrepAssumption
    DEF Return, Finish, BufferInv, CallTypes, MutexInv, Calling
  <2>2. CASE p /= "idle"
    BY <1>1, <1>3, <2>2 DEF Return, BufferInv, CallTypes, MutexInv, Calling
  <2> QED
    BY <2>1, <2>2
<1>7. ReplyInv'
  <2> SUFFICES ASSUME NEW u \in Threads, pc'[u] \in {"remove", "read"}, got'[u]
               PROVE  fetched'.cmd = Cmd(u)'
    BY DEF ReplyInv
  <2>1. u /= t
    BY <1>3 DEF Return, BufferInv, CallTypes
  <2> QED
    BY <1>2, <1>3, <1>4, <2>1 DEF Return, BufferInv, CallTypes, ReplyInv
<1>8. ImageInv'
  <2> SUFFICES ASSUME image'
               PROVE  "video" \in Threads /\ vrep_mutex' = "video" /\ fetched'.cmd = "image"
    BY DEF ImageInv
  <2>1. t = "video"
    BY <1>1 DEF Read, BufferInv, ImageInv
  <2>2. p /= "idle"
    BY <1>3, <2>1 DEF Read, Return, BufferInv, CallTypes
  <2>3. fetched.cmd = "image"
    BY <1>1, <2>1, VideoWantsImages DEF Read, Valued, BufferInv, ReplyInv, ImageInv
  <2> QED
    BY <1>1, <1>3, <1>4, <2>1, <2>2, <2>3
<1> QED
  BY <1>5, <1>6, <1>7, <1>8 DEF BufferInv

\* The video thread copies the image and lets the next caller in.
LEMMA CopyStep ==
    ASSUME BufferInv, Unlocking, Copy
    PROVE  BufferInv'
<1>1. "video" \in Threads /\ vrep_mutex = "video" /\ vrep_mutex' = None
  BY DEF Copy, Finish, BufferInv, MutexInv, Calling
<1>2. \A u \in Threads : u /= "video" => Script(u)' = Script(u) /\ Cmd(u)' = Cmd(u)
  <2> SUFFICES ASSUME NEW u \in Threads, u /= "video"
               PROVE  Script(u)' = Script(u) /\ Cmd(u)' = Cmd(u)
    OBVIOUS
  <2>1. rounds'[u] = rounds[u] /\ at'[u] = at[u]
    BY DEF Copy, Finish, BufferInv, CallTypes
  <2> QED
    BY <2>1, SameCall
<1>3. CallTypes'
  BY <1>1, <1>2, FirstCall DEF Copy, Finish, BufferInv, CallTypes
<1>4. MutexInv'
  BY <1>1, VrepAssumption DEF Copy, BufferInv, CallTypes, MutexInv, Calling
<1>5. ReplyInv'
  BY <1>2 DEF Copy, shared, BufferInv, CallTypes, ReplyInv
<1> QED
  BY <1>3, <1>4, <1>5 DEF Copy, BufferInv, ImageInv

-----------------------------------------------------------------------------

LEMMA BufferNext ==
    ASSUME BufferInv, Unlocking, [Next]_vars
    PROVE  BufferInv'
<1>1. ASSUME NEW t \in Threads, Begin(t) PROVE BufferInv'
  <2>1. pc' = [pc EXCEPT ![t] = "lock"] /\ err' = err
    BY <1>1, OnlyLockers DEF Begin
  <2> QED
    BY <1>1, <2>1, MovesInside DEF Begin, shared, Calling, BufferInv, CallTypes
<1>2. ASSUME NEW t \in Threads, Enqueue(t) PROVE BufferInv'
  <2>1. err' \in [Threads -> SUBSET Errors]
    BY <1>2 DEF Enqueue, AddCommand, BufferInv, CallTypes
  <2> QED
    BY <1>2, <2>1, MovesInside DEF Enqueue, AddCommand, Calling
<1>3. ASSUME NEW t \in Threads, Peek(t) PROVE BufferInv'
  <2>1. err' \in [Threads -> SUBSET Errors]
    BY <1>3 DEF Peek, BufferInv, CallTypes
  <2> QED
    BY <1>3, <2>1, MovesInside DEF Peek, shared, Calling
<1>4. ASSUME NEW t \in Threads, Check(t) PROVE BufferInv'
  <2>1. PICK p \in {"fetch", "waiting"} : pc' = [pc EXCEPT ![t] = p]
    BY <1>4 DEF Check
  <2>2. err' \in [Threads -> SUBSET Errors] /\ Calling(t)
    BY <1>4 DEF Check, BufferInv, CallTypes, Calling
  <2> QED
    BY <1>4, <2>1, <2>2, MovesInside DEF Check, shared
<1>5. ASSUME NEW t \in Threads, Arrived(t) PROVE BufferInv'
  <2>1. err' \in [Threads -> SUBSET Errors]
    BY <1>5 DEF Arrived, BufferInv, CallTypes
  <2> QED
    BY <1>5, <2>1, MovesInside DEF Arrived, shared, Calling
<1>6. ASSUME NEW t \in Threads, TimeOut(t) PROVE BufferInv'
  <2>1. err' \in [Threads -> SUBSET Errors]
    BY <1>6 DEF TimeOut, BufferInv, CallTypes, Errors
  <2> QED
    BY <1>6, <2>1, MovesInside DEF TimeOut, shared, Calling
<1>7. ASSUME NEW t \in Threads, Remove(t) PROVE BufferInv'
  <2>1. err' \in [Threads -> SUBSET Errors]
    BY <1>7 DEF Remove, BufferInv, CallTypes
  <2> QED
    BY <1>7, <2>1, MovesInside DEF Remove
<1>8. CASE CommGate \/ CommSend \/ CommReceive \/ CommCorrupt
           \/ CommFail \/ CommDisconnect \/ Over \/ UNCHANGED vars
  <2>1. UNCHANGED <<vrep_mutex, fetched, local>>
    BY <1>8 DEF CommGate, Passes, CommSend, CommReceive, CommCorrupt, CommFail,
                CommDisconnect, Over, vars, shared
  <2> QED
    BY <2>1, OtherSteps
<1> QED
  BY <1>1, <1>2, <1>3, <1>4, <1>5, <1>6, <1>7, <1>8,
     LockStep, FetchStep, ReadStep, CopyStep DEF Next

LEMMA BufferInvGivesOwnBuffer ==
    ASSUME BufferInv
    PROVE  OwnBuffer
<1>1. ASSUME NEW t \in Threads, pc[t] = "read", Valued(t)
      PROVE  fetched.cmd = Cmd(t)
  BY <1>1 DEF BufferInv, ReplyInv, Valued
<1>2. image => fetched.cmd = "image"
  BY DEF BufferInv, ImageInv
<1> QED
  BY <1>1, <1>2 DEF OwnBuffer

(* Without the navdata thread, which takes no lock, every caller finds the  *)
(* reply to its own command in the fetch buffer (vrep_mutex taken in        *)
(* vrep_control.c and vrep_video.c), whatever the simulator does.           *)
THEOREM OwnBufferAlways ==
    ASSUME Unlocking
    PROVE  Spec => []OwnBuffer
<1>1. Init => BufferInv
  BY BufferInit
<1>2. BufferInv /\ [Next]_vars => BufferInv'
  BY BufferNext
<1>3. BufferInv => OwnBuffer
  BY BufferInvGivesOwnBuffer
<1> QED
  BY <1>1, <1>2, <1>3, PTL DEF Spec
-----------------------------------------------------------------------------
(***************************************************************************)
(* What a waiting call is told when one caller is inside the client at a   *)
(* time, because vrep_mutex keeps the others out or because the navdata    *)
(* thread is the only one; and the types.                                  *)
(***************************************************************************)

\* A thread inside a round has rounds left, and its call exists.
CallInv ==
    /\ DOMAIN rounds = Threads
    /\ \A t \in Threads : at[t] \in DOMAIN Script(t)
    /\ \A t \in Threads : pc[t] /= "idle" => rounds[t] < MaxRounds[t]

\* The ids of messages sent and of replies received.
LinkInv ==
    /\ DOMAIN inbox = Commands
    /\ lastId < nextId
    /\ comm = "receive" => nextId > 0
    /\ wire /= {} => comm = "receive"

TypeInv == TypeOK /\ CallInv /\ LinkInv

-----------------------------------------------------------------------------
(* Calls                                                                    *)

\* What the calls of the program are.
LEMMA CallTypesOf ==
    ASSUME NEW t \in Threads, at[t] \in DOMAIN Script(t)
    PROVE  /\ at[t] \in 1..2
           /\ Cmd(t) \in Commands
           /\ Mode(t) \in Modes
           /\ Mode(t) = "wait" => t = "navdata" \/ (t = "video" /\ rounds[t] = 0 /\ at[t] = 1)
           /\ Mode(t) = "streaming" => t = "video" /\ rounds[t] = 0 /\ at[t] = 2
           /\ Cmd(t) = "image" <=> t = "video"
<1>1. CASE rounds[t] = 0
  BY <1>1, VrepAssumption DEF Script, FirstScript, Cmd, Mode, Call, Commands, Modes
<1>2. CASE rounds[t] /= 0
  BY <1>2, VrepAssumption DEF Script, FirstScript, LaterScript, Cmd, Mode, Call, Commands, Modes
<1> QED
  BY <1>1, <1>2

\* A round has at most two calls.
LEMMA TwoCalls ==
    ASSUME NEW t \in Threads
    PROVE  /\ DOMAIN Script(t) \subseteq 1..2
           /\ DOMAIN Script(t)' \subseteq 1..2
<1>1. PICK c, d : Script(t) = <<c, d>> \/ Script(t) = <<c>>
  BY VrepAssumption DEF Script, FirstScript, LaterScript
<1>2. PICK e, f : Script(t)' = <<e, f>> \/ Script(t)' = <<e>>
  BY VrepAssumption DEF Script, FirstScript, LaterScript
<1> QED
  BY <1>1, <1>2

LEMMA TypeInit == Init => TypeInv
<1> SUFFICES ASSUME Init PROVE TypeInv
  OBVIOUS
<1>1. CallInv
  BY FirstCall DEF Init, CallInv
<1>2. LinkInv
  BY DEF Init, LinkInv, NoCommand
<1>3. Carried(inbox) = {}
  BY DEF Init, NoCommand, Carried
<1>4. outbox \in [Commands -> Modes \cup {None}]
  BY DEF Init, NoCommand
<1>5. /\ \A t \in Threads : rounds[t] \in 0..MaxRounds[t]
      /\ idle \in 0..MaxIdle
  BY VrepAssumption DEF Init
<1>6. /\ err \in [Threads -> SUBSET Errors] /\ began \in [Threads -> Nat]
      /\ at \in [Threads -> 1..2]
  BY DEF Init, Errors
<1>7. got \in [Threads -> BOOLEAN]
  BY DEF Init
<1>8. pc \in [Threads -> {"idle", "lock", "call", "check", "waiting", "fetch",
                         "remove", "read", "copy"}]
  BY DEF Init
<1>9. wire \subseteq Commands /\ vrep_mutex \in Threads \cup {None}
  BY DEF Init
<1>10. waitId \in Nat \cup {-1} /\ nextId \in Nat /\ lastId \in Nat \cup {-1} /\ waitId <= nextId
  BY DEF Init
<1> QED
  BY <1>1, <1>2, <1>3, <1>4, <1>5, <1>6, <1>7, <1>8, <1>9, <1>10 DEF Init, TypeInv, TypeOK

-----------------------------------------------------------------------------
(* The types: callers                                                       *)

\* A caller moves to p inside its round, or into one when it has one left.
LEMMA CallerMoves ==
    ASSUME TypeInv, NEW t \in Threads, NEW p,
           UNCHANGED <<at, rounds>>,
           pc' = [pc EXCEPT ![t] = p],
           pc[t] /= "idle" \/ rounds[t] < MaxRounds[t]
    PROVE  CallInv'
<1>1. \A u \in Threads : Script(u)' = Script(u)
  BY SameCall
<1> QED
  BY <1>1 DEF TypeInv, TypeOK, CallInv

LEMMA TypeCallers ==
    ASSUME TypeInv, NEW t \in Threads,
           Begin(t) \/ Lock(t) \/ Peek(t) \/ Check(t) \/ Arrived(t) \/ TimeOut(t)
    PROVE  TypeInv'
<1>1. PICK p \in {"lock", "call", "fetch", "waiting"} : pc' = [pc EXCEPT ![t] = p]
  BY DEF Begin, Lock, Peek, Check, Arrived, TimeOut
<1>2. /\ UNCHANGED <<shared, line, at, rounds, got, began, image>>
      /\ vrep_mutex' \in {t, vrep_mutex}
      /\ err' \in {err, [err EXCEPT ![t] = {}], [err EXCEPT ![t] = @ \cup {"timeout"}]}
      /\ pc[t] /= "idle" \/ rounds[t] < MaxRounds[t]
  BY DEF Begin, Lock, Peek, Check, Arrived, TimeOut
<1>3. CallInv'
  BY <1>1, <1>2, CallerMoves
<1>4. LinkInv'
  BY <1>2 DEF TypeInv, LinkInv, shared, line
<1>5. err' \in [Threads -> SUBSET Errors]
  BY <1>2 DEF TypeInv, TypeOK, Errors
<1>6. pc' \in [Threads -> {"idle", "lock", "call", "check", "waiting", "fetch",
                           "remove", "read", "copy"}]
  BY <1>1 DEF TypeInv, TypeOK
<1> QED
  BY <1>2, <1>3, <1>4, <1>5, <1>6 DEF TypeInv, TypeOK, shared, line, Carried

LEMMA TypeEnqueue ==
    ASSUME TypeInv, NEW t \in Threads, Enqueue(t)
    PROVE  TypeInv'
<1>1. Cmd(t) \in Commands /\ Mode(t) \in Modes
  BY CallTypesOf DEF TypeInv, CallInv
<1>2. CallInv'
  BY CallerMoves DEF Enqueue, AddCommand
<1>3. LinkInv'
  BY DEF TypeInv, LinkInv, Enqueue, AddCommand, line
<1>4. /\ outbox' \in [Commands -> Modes \cup {None}]
      /\ waitId' \in Nat \cup {-1} /\ waitId' <= nextId
  BY <1>1 DEF TypeInv, TypeOK, Enqueue, AddCommand
<1>5. err' \in [Threads -> SUBSET Errors] /\ began' \in [Threads -> Nat]
  BY DEF TypeInv, TypeOK, Enqueue, AddCommand
<1> QED
  BY <1>2, <1>3, <1>4, <1>5 DEF TypeInv, TypeOK, Enqueue, AddCommand, line, Carried

LEMMA TypeFetch ==
    ASSUME TypeInv, NEW t \in Threads, Fetch(t)
    PROVE  TypeInv'
<1>1. Cmd(t) \in Commands
  BY CallTypesOf DEF TypeInv, CallInv
<1> DEFINE r == inbox[Cmd(t)]
<1>2. /\ fetched' = IF r = None THEN fetched ELSE [cmd |-> Cmd(t), id |-> r.id]
      /\ err' = [err EXCEPT ![t] = @ \cup FetchErrors(r)]
      /\ got' = [got EXCEPT ![t] = r /= None]
  BY DEF Fetch, CopyReply
<1>3. r /= None => r.id \in Nat
  BY <1>1 DEF Replies, TypeInv, TypeOK, Carried
<1>4. fetched' /= None => fetched'.cmd \in Commands /\ fetched'.id \in Nat
  BY <1>1, <1>2, <1>3 DEF TypeInv, TypeOK
<1>5. FetchErrors(r) \subseteq Errors
  BY DEF FetchErrors, Errors
<1>6. err' \in [Threads -> SUBSET Errors] /\ got' \in [Threads -> BOOLEAN]
  BY <1>2, <1>5 DEF TypeInv, TypeOK
<1>7. PICK p \in {"remove", "read"} : pc' = [pc EXCEPT ![t] = p]
  BY DEF Fetch, CopyReply
<1>8. CallInv'
  BY <1>7, CallerMoves DEF Fetch, CopyReply
<1>9. LinkInv'
  BY DEF TypeInv, LinkInv, Fetch, CopyReply, line
<1>10. pc' \in [Threads -> {"idle", "lock", "call", "check", "waiting", "fetch",
                            "remove", "read", "copy"}]
  BY <1>7 DEF TypeInv, TypeOK
<1> QED
  BY <1>4, <1>6, <1>8, <1>9, <1>10 DEF TypeInv, TypeOK, Fetch, CopyReply, line, Carried

LEMMA TypeRemove ==
    ASSUME TypeInv, NEW t \in Threads, Remove(t)
    PROVE  TypeInv'
<1>1. CallInv'
  BY CallerMoves DEF Remove
<1>2. LinkInv'
  BY DEF TypeInv, LinkInv, Remove, line
<1>3. \A c \in Carried(inbox') : c \in Carried(inbox) /\ inbox'[c] = inbox[c]
  BY DEF TypeInv, LinkInv, Remove, Carried
<1>4. \A c \in Carried(inbox') : inbox'[c] \in Replies
  BY <1>3 DEF TypeInv, TypeOK
<1>5. pc' \in [Threads -> {"idle", "lock", "call", "check", "waiting", "fetch",
                           "remove", "read", "copy"}]
  BY DEF TypeInv, TypeOK, Remove
<1>6. UNCHANGED <<vrep_mutex, waitId, nextId, lastId, outbox, fetched, line, at, rounds, err, got, began, image>>
  BY DEF Remove
<1> QED
  BY <1>1, <1>2, <1>4, <1>5, <1>6 DEF TypeInv, TypeOK, line

\* The end of a call or of a round
LEMMA TypeReturns ==
    ASSUME TypeInv, NEW t \in Threads, Read(t) \/ (Copy /\ t = "video")
    PROVE  TypeInv'
<1>1. PICK p \in {"call", "copy", "idle"} :
        /\ pc' = [pc EXCEPT ![t] = p]
        /\ p = "idle" => Finish(t)
        /\ p /= "idle" => vrep_mutex' = vrep_mutex /\ rounds' = rounds
        /\ p /= "idle" => \/ at' = at
                          \/ at[t] < Len(Script(t)) /\ at' = [at EXCEPT ![t] = @ + 1]
  BY DEF Read, Return, Copy
<1>2. /\ err' \in {err, [err EXCEPT ![t] = {}]}
      /\ got' \in {got, [got EXCEPT ![t] = FALSE]}
      /\ began' \in {began, [began EXCEPT ![t] = 0]}
      /\ UNCHANGED <<shared, line>>
  BY DEF Read, Return, Copy
<1>3. image' \in BOOLEAN
  BY DEF Read, Copy, Valued, TypeInv, TypeOK
<1>4. pc[t] /= "idle"
  BY DEF Read, Copy
<1>5. \A u \in Threads : u /= t => Script(u)' = Script(u) /\ at'[u] = at[u] /\ rounds'[u] = rounds[u]
  <2> SUFFICES ASSUME NEW u \in Threads, u /= t
               PROVE  Script(u)' = Script(u) /\ at'[u] = at[u] /\ rounds'[u] = rounds[u]
    OBVIOUS
  <2>1. rounds'[u] = rounds[u] /\ at'[u] = at[u]
    BY <1>1 DEF Finish, TypeInv, TypeOK, CallInv
  <2> QED
    BY <2>1, SameCall
<1>6. at'[t] \in DOMAIN Script(t)'
  <2>1. CASE p = "idle"
    BY <1>1, <2>1, FirstCall DEF Finish, TypeInv, TypeOK
  <2>2. CASE p /= "idle"
    <3>1. Script(t)' = Script(t)
      BY <1>1, <2>2 DEF Script
    <3> QED
      BY <1>1, <2>2, <3>1, ScriptIsSequence DEF TypeInv, TypeOK, CallInv
  <2> QED
    BY <2>1, <2>2
<1>7. \A u \in Threads : at'[u] \in DOMAIN Script(u)'
  BY <1>5, <1>6 DEF TypeInv, CallInv
<1>8. at' \in [Threads -> 1..2]
  <2>1. \A u \in Threads : at'[u] \in 1..2
    BY <1>7, TwoCalls
  <2>2. at' = [at EXCEPT ![t] = at'[t]]
    BY <1>1 DEF Finish, TypeInv, TypeOK
  <2> QED
    BY <2>1, <2>2 DEF TypeInv, TypeOK
<1>9. \A u \in Threads : rounds'[u] \in 0..MaxRounds[u]
  <2>1. rounds'[t] \in {rounds[t], rounds[t] + 1} /\ rounds[t] < MaxRounds[t]
    BY <1>1, <1>4 DEF Finish, TypeInv, TypeOK, CallInv
  <2> QED
    BY <1>5, <2>1, VrepAssumption DEF TypeInv, TypeOK
<1>10. \A u \in Threads : pc'[u] /= "idle" => rounds'[u] < MaxRounds[u]
  BY <1>1, <1>4, <1>5 DEF TypeInv, TypeOK, CallInv
<1>11. vrep_mutex' \in Threads \cup {None}
  BY <1>1 DEF Finish, TypeInv, TypeOK
<1>12. LinkInv'
  BY <1>2 DEF TypeInv, LinkInv, shared, line
<1>13. err' \in [Threads -> SUBSET Errors] /\ began' \in [Threads -> Nat]
  BY <1>2 DEF TypeInv, TypeOK
<1>14. got' \in [Threads -> BOOLEAN]
  BY <1>2 DEF TypeInv, TypeOK
<1>15. DOMAIN rounds' = Threads
  BY <1>1 DEF Finish, TypeInv, CallInv
<1>16. pc' \in [Threads -> {"idle", "lock", "call", "check", "waiting", "fetch",
                            "remove", "read", "copy"}]
  BY <1>1 DEF TypeInv, TypeOK
<1> QED
  BY <1>2, <1>3, <1>7, <1>8, <1>9, <1>10, <1>11, <1>12, <1>13, <1>14, <1>15, <1>16
  DEF TypeInv, TypeOK, CallInv, shared, line, Carried

-----------------------------------------------------------------------------
(* The types: the communication thread                                      *)

\* The callers stay where they are.
LEMMA CallersStay ==
    ASSUME TypeInv, UNCHANGED local
    PROVE  CallInv'
<1>1. \A t \in Threads : Script(t)' = Script(t)
  BY SameCall DEF local
<1> QED
  BY <1>1 DEF local, TypeInv, CallInv

LEMMA TypeSend ==
    ASSUME TypeInv, CommGate \/ CommSend
    PROVE  TypeInv'
<1>1. CallInv'
  BY CallersStay DEF CommGate, Passes, CommSend
<1>2. CASE CommGate
  BY <1>1, <1>2 DEF CommGate, Passes, TypeInv, TypeOK, LinkInv, shared, local, Carried
<1>3. CASE CommSend
  <2>1. /\ outbox' \in [Commands -> Modes \cup {None}]
        /\ Carried(outbox) \subseteq Commands
        /\ streaming' \in BOOLEAN
    BY <1>3 DEF CommSend, NoCommand, Carried, TypeInv, TypeOK
  <2>2. idle' \in 0..MaxIdle
    BY <1>3, VrepAssumption DEF CommSend, TypeInv, TypeOK
  <2>3. nextId' \in Nat /\ nextId' > 0 /\ lastId < nextId' /\ waitId <= nextId'
    BY <1>3 DEF CommSend, TypeInv, TypeOK, LinkInv
  <2> QED
    BY <1>1, <1>3, <2>1, <2>2, <2>3 DEF CommSend, TypeInv, TypeOK, LinkInv, local, Carried
<1> QED
  BY <1>2, <1>3

\* What may arrive: an image only from a simulator that streams, and the id
\* of the message that went out unless it carried no command.
Received(extra, bad, id) ==
    /\ Merge(wire \cup extra, bad, id)
    /\ faulted' = (faulted \/ bad /= {})
    /\ ~streaming => extra = {}
    /\ wire /= {} => id = nextId - 1

LEMMA ReceivedSomething ==
    ASSUME CommReceive
    PROVE  \E extra, bad : \E id \in {nextId - 1, -1} : Received(extra, bad, id)
<1> DEFINE Extra == IF streaming THEN {{}, {"image"}} ELSE {{}}
           Bad(extra) == IF Faulty THEN SUBSET (wire \cup extra) ELSE {{}}
           Ids == IF wire = {} THEN {nextId - 1, -1} ELSE {nextId - 1}
<1>1. PICK extra \in Extra : \E bad \in Bad(extra) : \E id \in Ids :
                Merge(wire \cup extra, bad, id) /\ faulted' = (faulted \/ bad /= {})
  BY DEF CommReceive
<1>2. PICK bad \in Bad(extra), id \in Ids :
                Merge(wire \cup extra, bad, id) /\ faulted' = (faulted \/ bad /= {})
  BY <1>1
<1>3. ~streaming => extra = {}
  OBVIOUS
<1>4. id \in {nextId - 1, -1} /\ (wire /= {} => id = nextId - 1)
  OBVIOUS
<1> WITNESS extra, bad
<1> WITNESS id \in {nextId - 1, -1}
<1> QED
  BY <1>2, <1>3, <1>4 DEF Received

LEMMA TypeReceive ==
    ASSUME TypeInv, CommReceive
    PROVE  TypeInv'
<1>1. CallInv'
  BY CallersStay DEF CommReceive
<1>2. PICK extra, bad, id :
        id \in {nextId - 1, -1} /\ Received(extra, bad, id)
  BY ReceivedSomething
<1>3. nextId - 1 \in Nat
  BY DEF CommReceive, TypeInv, TypeOK, LinkInv
<1>4. \A c \in Carried(inbox') : inbox'[c] \in Replies
  BY <1>2, <1>3 DEF Received, Merge, Reply, Replies, Carried, TypeInv, TypeOK
<1>5. lastId' \in Nat \cup {-1} /\ lastId' < nextId /\ DOMAIN inbox' = Commands
  BY <1>2, <1>3 DEF Received, Merge, TypeInv, TypeOK, LinkInv
<1>6. faulted' \in BOOLEAN
  BY <1>2 DEF Received, TypeInv, TypeOK
<1> QED
  BY <1>1, <1>4, <1>5, <1>6 DEF CommReceive, TypeInv, TypeOK, LinkInv, local

LEMMA TypeFaults ==
    ASSUME TypeInv, CommCorrupt \/ CommFail \/ CommDisconnect
    PROVE  TypeInv'
<1>1. CallInv'
  BY CallersStay DEF CommCorrupt, CommFail, CommDisconnect
<1>2. NoCommand \in [Commands -> Modes \cup {None}] /\ Carried(NoCommand) = {}
  BY DEF NoCommand, Carried
<1>3. CASE CommCorrupt
  BY <1>1, <1>3 DEF CommCorrupt, TypeInv, TypeOK, LinkInv, shared, local, Carried
<1>4. CASE CommFail
  <2>1. nextId' \in {nextId, nextId + 1} /\ outbox' \in {outbox, NoCommand}
    BY <1>4 DEF CommFail
  <2>2. nextId' \in Nat /\ lastId < nextId' /\ waitId <= nextId'
    BY <2>1 DEF TypeInv, TypeOK, LinkInv
  <2>3. outbox' \in [Commands -> Modes \cup {None}]
    BY <1>2, <2>1 DEF TypeInv, TypeOK
  <2> QED
    BY <1>1, <1>4, <2>2, <2>3 DEF CommFail, TypeInv, TypeOK, LinkInv, local, Carried
<1>5. CASE CommDisconnect
  BY <1>1, <1>2, <1>5 DEF CommDisconnect, TypeInv, TypeOK, LinkInv, local, NoCommand
<1> QED
  BY <1>3, <1>4, <1>5

LEMMA TypeNext ==
    ASSUME TypeInv, [Next]_vars
    PROVE  TypeInv'
<1>1. CASE Over \/ UNCHANGED vars
  <2>1. UNCHANGED vars
    BY <1>1 DEF Over
  <2>2. CallInv'
    BY <2>1, CallersStay DEF vars
  <2> QED
    BY <2>1, <2>2 DEF vars, shared, line, local, TypeInv, TypeOK, LinkInv, Carried
<1>2. Copy => "video" \in Threads
  BY DEF Copy
<1> QED
  BY <1>1, <1>2, TypeCallers, TypeEnqueue, TypeFetch, TypeRemove, TypeReturns, TypeSend, TypeReceive,
     TypeFaults DEF Next

(* The variables keep their types, and nobody waits for a message that will *)
(* only be sent after the next one (waitId <= nextId), whatever the threads *)
(* and the simulator do.                                                    *)
THEOREM TypeCorrect == Spec => []TypeOK
<1>1. Init => TypeInv
  BY TypeInit
<1>2. TypeInv /\ [Next]_vars => TypeInv'
  BY TypeNext
<1>3. TypeInv => TypeOK
  BY DEF TypeInv
<1> QED
  BY <1>1, <1>2, <1>3, PTL DEF Spec

-----------------------------------------------------------------------------
(* Waiting.  One caller is inside the client at a time.                     *)

OneCaller == \A t, u \in Threads : Calling(t) /\ Calling(u) => t = u

\* Control and video under the mutex, or navdata alone
SingleFile == Unlocking \/ Threads = {"navdata"}

\* The simulator streams, or will, once the video thread asked it to.
StreamInv ==
    streaming \/ outbox["image"] = "streaming" =>
        "video" \in Threads /\ (rounds["video"] > 0 \/ at["video"] = 2)

\* Until then no reply comes without an id.
InboxInv == ~streaming => \A c \in Carried(inbox) : inbox[c].id <= lastId

\* The call of t waits for its reply, or fetches what came of the wait.
Awaiting(t) == pc[t] \in {"check", "waiting", "fetch"} /\ Mode(t) = "wait"

\* Its command is in the outbox for the next message, or in the last one.
Pending(t) ==
    /\ lastId < began[t]
    /\ \/ outbox[Cmd(t)] /= None /\ nextId = began[t]
       \/ Cmd(t) \in wire /\ nextId = began[t] + 1 /\ Carried(outbox) = {}

\* Its reply is in the inbox, behind the gate.
Answered(t) ==
    /\ began[t] <= lastId
    /\ inbox[Cmd(t)] /= None /\ inbox[Cmd(t)].id >= began[t]
    /\ comm = "gate"

\* Its message or its reply was lost, and no other can be taken for it.
Dropped(t) == lastId < began[t] /\ Carried(outbox) = {} /\ wire = {}

WaitInv ==
    \A t \in Threads : Awaiting(t) =>
        /\ waitId = began[t]
        /\ pc[t] = "fetch" => "timeout" \in err[t] \/ waitId <= lastId
        /\ Pending(t) \/ Answered(t) \/ Dropped(t)

DoneInv ==
    \A t \in Threads : pc[t] \in {"remove", "read"} /\ Mode(t) = "wait" =>
        "timeout" \in err[t] \/ (got[t] /\ fetched.id >= began[t])

ReplyWaitInv == TypeInv /\ StreamInv /\ InboxInv /\ WaitInv /\ DoneInv

\* While a call waits for its reply the simulator does not stream.
LEMMA NoStream ==
    ASSUME SingleFile, TypeInv, StreamInv, NEW t \in Threads, Mode(t) = "wait"
    PROVE  ~streaming
<1>1. t = "navdata" \/ (t = "video" /\ rounds[t] = 0 /\ at[t] = 1)
  BY CallTypesOf DEF TypeInv, CallInv
<1> QED
  BY <1>1 DEF SingleFile, Unlocking, StreamInv

\* A caller moves, and touches nothing of the client.
LEMMA MovesLocally ==
    ASSUME ReplyWaitInv, TypeInv', NEW t \in Threads, NEW p,
           UNCHANGED <<shared, line, at, rounds, got, began>>,
           pc' = [pc EXCEPT ![t] = p],
           p \notin {"remove", "read"},
           \A u \in Threads : u /= t => err'[u] = err[u],
           p \in {"check", "waiting", "fetch"} /\ Mode(t) = "wait" =>
               /\ Awaiting(t)
               /\ p = "fetch" => "timeout" \in err'[t] \/ waitId <= lastId
    PROVE  ReplyWaitInv'
<1>1. \A u \in Threads : Cmd(u)' = Cmd(u) /\ Mode(u)' = Mode(u)
  BY SameCall
<1>2. pc'[t] = p /\ \A u \in Threads : u /= t => pc'[u] = pc[u]
  BY DEF ReplyWaitInv, TypeInv, TypeOK
<1>3. WaitInv'
  <2> SUFFICES ASSUME NEW u \in Threads, Awaiting(u)'
               PROVE  /\ waitId = began[u]
                      /\ pc'[u] = "fetch" => "timeout" \in err'[u] \/ waitId <= lastId
                      /\ Pending(u)' \/ Answered(u)' \/ Dropped(u)'
    BY DEF WaitInv, shared
  <2>1. Awaiting(u)
    BY <1>1, <1>2 DEF Awaiting
  <2>2. (Pending(u) <=> Pending(u)') /\ (Answered(u) <=> Answered(u)') /\ (Dropped(u) <=> Dropped(u)')
    BY <1>1 DEF Pending, Answered, Dropped, Carried, shared, line
  <2> QED
    BY <1>1, <1>2, <2>1, <2>2 DEF ReplyWaitInv, WaitInv, Awaiting
<1>4. DoneInv'
  BY <1>1, <1>2 DEF ReplyWaitInv, DoneInv, shared
<1> QED
  BY <1>3, <1>4 DEF ReplyWaitInv, StreamInv, InboxInv, Carried, shared, line

LEMMA WaitLocally ==
    ASSUME ReplyWaitInv, TypeInv', NEW t \in Threads,
           Begin(t) \/ Lock(t) \/ Peek(t) \/ Check(t) \/ Arrived(t) \/ TimeOut(t)
    PROVE  ReplyWaitInv'
<1>1. /\ UNCHANGED <<shared, line, at, rounds, got, began>>
      /\ err' \in {err, [err EXCEPT ![t] = {}], [err EXCEPT ![t] = @ \cup {"timeout"}]}
  BY DEF Begin, Lock, Peek, Check, Arrived, TimeOut
<1>2. \A u \in Threads : u /= t => err'[u] = err[u]
  BY <1>1 DEF ReplyWaitInv, TypeInv, TypeOK
<1>3. CASE Begin(t) \/ Lock(t)
  <2>1. PICK p \in {"lock", "call"} : pc' = [pc EXCEPT ![t] = p]
    BY <1>3 DEF Begin, Lock
  <2> QED
    BY <1>1, <1>2, <2>1, MovesLocally
<1>4. CASE Peek(t)
  BY <1>1, <1>2, <1>4, MovesLocally DEF Peek
<1>5. CASE Check(t)
  <2>1. Mode(t) = "wait" => waitId = began[t] /\ Awaiting(t)
    BY <1>5 DEF Check, Awaiting, ReplyWaitInv, WaitInv
  <2>2. Mode(t) = "wait" => waitId /= -1
    BY <2>1 DEF ReplyWaitInv, TypeInv, TypeOK
  <2>3. PICK p \in {"fetch", "waiting"} :
            pc' = [pc EXCEPT ![t] = p] /\ (p = "fetch" => waitId = -1)
    BY <1>5 DEF Check
  <2> QED
    BY <1>1, <1>2, <2>1, <2>2, <2>3, MovesLocally
<1>6. CASE Arrived(t)
  <2>1. Mode(t) = "wait" => Awaiting(t) /\ waitId <= lastId
    BY <1>6 DEF Arrived, Awaiting, ReplyWaitInv, TypeInv, TypeOK
  <2>2. pc' = [pc EXCEPT ![t] = "fetch"]
    BY <1>6 DEF Arrived
  <2> QED
    BY <1>1, <1>2, <2>1, <2>2, MovesLocally
<1>7. CASE TimeOut(t)
  <2>1. (Mode(t) = "wait" => Awaiting(t)) /\ "timeout" \in err'[t]
    BY <1>7 DEF TimeOut, Awaiting, ReplyWaitInv, TypeInv, TypeOK
  <2>2. pc' = [pc EXCEPT ![t] = "fetch"]
    BY <1>7 DEF TimeOut
  <2> QED
    BY <1>1, <1>2, <2>1, <2>2, MovesLocally
<1> QED
  BY <1>3, <1>4, <1>5, <1>6, <1>7

\* When one caller is inside, the others neither wait nor read.
LEMMA OthersIdle ==
    ASSUME OneCaller, NEW t \in Threads, Calling(t), NEW u \in Threads, u /= t
    PROVE  pc[u] \notin {"check", "waiting", "fetch", "remove", "read"}
BY DEF OneCaller, Calling

LEMMA WaitEnqueue ==
    ASSUME ReplyWaitInv, TypeInv', OneCaller, NEW t \in Threads, Enqueue(t)
    PROVE  ReplyWaitInv'
<1>1. \A u \in Threads : Cmd(u)' = Cmd(u) /\ Mode(u)' = Mode(u)
  BY SameCall DEF Enqueue, AddCommand
<1>2. pc'[t] = "check"
  BY DEF Enqueue, AddCommand, ReplyWaitInv, TypeInv, TypeOK
<1>3. \A u \in Threads : u /= t => pc'[u] \notin {"check", "waiting", "fetch", "remove", "read"}
  BY OthersIdle DEF Calling, Enqueue, AddCommand, ReplyWaitInv, TypeInv, TypeOK
<1>4. Cmd(t) \in Commands /\ Mode(t) \in Modes
  BY CallTypesOf DEF ReplyWaitInv, TypeInv, CallInv
<1>5. outbox'[Cmd(t)] = Mode(t) /\ Mode(t) /= None
  BY <1>4, VrepAssumption DEF Enqueue, AddCommand, ReplyWaitInv, TypeInv, TypeOK
<1>6. WaitInv'
  <2> SUFFICES ASSUME NEW u \in Threads, Awaiting(u)'
               PROVE  /\ waitId' = began'[u]
                      /\ pc'[u] /= "fetch"
                      /\ Pending(u)'
    BY DEF WaitInv
  <2>1. u = t /\ Mode(t) = "wait"
    BY <1>1, <1>3 DEF Awaiting
  <2>2. waitId' = nextId /\ began'[t] = nextId /\ nextId' = nextId /\ lastId' < nextId
    BY <2>1 DEF Enqueue, AddCommand, ReplyWaitInv, TypeInv, TypeOK, LinkInv
  <2> QED
    BY <1>1, <1>2, <1>5, <2>1, <2>2 DEF Pending
<1>7. DoneInv'
  BY <1>2, <1>3 DEF DoneInv
<1>8. StreamInv'
  <2>1. outbox'["image"] = "streaming" /\ outbox["image"] /= "streaming" =>
            t = "video" /\ at[t] = 2
    BY CallTypesOf DEF Enqueue, AddCommand, ReplyWaitInv, TypeInv, TypeOK, CallInv
  <2> QED
    BY <2>1 DEF Enqueue, AddCommand, line, ReplyWaitInv, StreamInv
<1>9. InboxInv'
  BY DEF Enqueue, AddCommand, line, ReplyWaitInv, InboxInv, Carried
<1> QED
  BY <1>6, <1>7, <1>8, <1>9 DEF ReplyWaitInv

LEMMA WaitFetch ==
    ASSUME ReplyWaitInv, TypeInv', OneCaller, NEW t \in Threads, Fetch(t)
    PROVE  ReplyWaitInv'
<1>1. \A u \in Threads : Cmd(u)' = Cmd(u) /\ Mode(u)' = Mode(u)
  BY SameCall DEF Fetch, CopyReply
<1>2. pc'[t] \in {"remove", "read"}
  BY DEF Fetch, CopyReply, ReplyWaitInv, TypeInv, TypeOK
<1>3. \A u \in Threads : u /= t => pc'[u] \notin {"check", "waiting", "fetch", "remove", "read"}
  BY OthersIdle DEF Calling, Fetch, CopyReply, ReplyWaitInv, TypeInv, TypeOK
<1>4. WaitInv'
  BY <1>2, <1>3 DEF WaitInv, Awaiting
<1> DEFINE r == inbox[Cmd(t)]
<1>5. /\ fetched' = IF r = None THEN fetched ELSE [cmd |-> Cmd(t), id |-> r.id]
      /\ err'[t] = err[t] \cup FetchErrors(r)
      /\ got'[t] = (r /= None)
  BY DEF Fetch, CopyReply, ReplyWaitInv, TypeInv, TypeOK
<1>6. ASSUME Mode(t) = "wait", "timeout" \notin err'[t]
      PROVE  got'[t] /\ fetched'.id >= began[t]
  <2>1. Awaiting(t) /\ "timeout" \notin err[t]
    BY <1>5, <1>6 DEF Awaiting, Fetch, CopyReply
  <2>2. began[t] <= lastId
    BY <2>1 DEF Fetch, CopyReply, ReplyWaitInv, WaitInv
  <2>3. Answered(t)
    BY <2>1, <2>2 DEF Pending, Dropped, ReplyWaitInv, WaitInv, TypeInv, TypeOK
  <2> QED
    BY <1>5, <2>3 DEF Answered
<1>7. DoneInv'
  <2> SUFFICES ASSUME NEW u \in Threads, pc'[u] \in {"remove", "read"}, Mode(u) = "wait"
               PROVE  "timeout" \in err'[u] \/ (got'[u] /\ fetched'.id >= began[u])
    BY <1>1 DEF DoneInv, Fetch, CopyReply
  <2> QED
    BY <1>3, <1>6
<1> QED
  BY <1>4, <1>7 DEF Fetch, CopyReply, line, ReplyWaitInv, StreamInv, InboxInv, Carried

LEMMA WaitRemove ==
    ASSUME ReplyWaitInv, TypeInv', OneCaller, NEW t \in Threads, Remove(t)
    PROVE  ReplyWaitInv'
<1>1. \A u \in Threads : Cmd(u)' = Cmd(u) /\ Mode(u)' = Mode(u)
  BY SameCall DEF Remove
<1>2. pc'[t] = "read" /\ pc[t] = "remove"
  BY DEF Remove, ReplyWaitInv, TypeInv, TypeOK
<1>3. \A u \in Threads : u /= t => pc'[u] \notin {"check", "waiting", "fetch", "remove", "read"}
  BY OthersIdle DEF Calling, Remove, ReplyWaitInv, TypeInv, TypeOK
<1>4. WaitInv'
  BY <1>2, <1>3 DEF WaitInv, Awaiting
<1>5. DoneInv'
  BY <1>1, <1>2, <1>3 DEF Remove, ReplyWaitInv, DoneInv
<1>6. \A c \in Carried(inbox') : c \in Carried(inbox) /\ inbox'[c] = inbox[c]
  BY DEF TypeInv, LinkInv, Remove, Carried, ReplyWaitInv
<1> QED
  BY <1>4, <1>5, <1>6 DEF Remove, line, ReplyWaitInv, StreamInv, InboxInv

LEMMA WaitReturns ==
    ASSUME ReplyWaitInv, TypeInv', OneCaller, NEW t \in Threads, Read(t) \/ (Copy /\ t = "video")
    PROVE  ReplyWaitInv'
<1>1. UNCHANGED <<shared, line>>
  BY DEF Read, Copy
<1>2. PICK p \in {"call", "copy", "idle"} :
        /\ pc' = [pc EXCEPT ![t] = p]
        /\ p = "idle" => Finish(t)
        /\ p /= "idle" => rounds' = rounds
        /\ p /= "idle" => at' = at \/ at' = [at EXCEPT ![t] = @ + 1]
  BY DEF Read, Return, Copy
<1>3. \A u \in Threads : pc'[u] \notin {"check", "waiting", "fetch", "remove", "read"}
  BY <1>2, OthersIdle DEF Read, Copy, Calling, ReplyWaitInv, TypeInv, TypeOK
<1>4. WaitInv' /\ DoneInv'
  BY <1>3 DEF WaitInv, DoneInv, Awaiting
<1>5. StreamInv'
  <2> SUFFICES ASSUME "video" \in Threads, rounds["video"] > 0 \/ at["video"] = 2
               PROVE  rounds'["video"] > 0 \/ at'["video"] = 2
    BY <1>1 DEF shared, line, ReplyWaitInv, StreamInv
  <2>1. /\ at["video"] \in 1..2 /\ at'["video"] \in 1..2
        /\ rounds["video"] \in Nat
    BY VrepAssumption DEF ReplyWaitInv, TypeInv, TypeOK
  <2>2. CASE p = "idle"
    BY <1>2, <2>1, <2>2 DEF Finish, ReplyWaitInv, TypeInv, TypeOK, CallInv
  <2>3. CASE p /= "idle"
    BY <1>2, <2>1, <2>3 DEF ReplyWaitInv, TypeInv, TypeOK
  <2> QED
    BY <2>2, <2>3
<1> QED
  BY <1>1, <1>4, <1>5 DEF shared, line, ReplyWaitInv, InboxInv, Carried

-----------------------------------------------------------------------------
(* Waiting: the communication thread                                        *)

\* The callers stay where they are: what is left is to follow the message of
\* the one that waits.
LEMMA MessageMoves ==
    ASSUME ReplyWaitInv, TypeInv', UNCHANGED <<waitId, fetched, local>>,
           lastId' >= lastId,
           \A t \in Threads : Awaiting(t) => Pending(t)' \/ Answered(t)' \/ Dropped(t)'
    PROVE  WaitInv' /\ DoneInv'
<1>1. \A t \in Threads : Cmd(t)' = Cmd(t) /\ Mode(t)' = Mode(t)
  BY SameCall DEF local
<1>2. \A t \in Threads : Awaiting(t)' <=> Awaiting(t)
  BY <1>1 DEF Awaiting, local
<1>3. \A t \in Threads : waitId <= lastId => waitId <= lastId'
  BY DEF ReplyWaitInv, TypeInv, TypeOK
<1> QED
  BY <1>1, <1>2, <1>3 DEF ReplyWaitInv, WaitInv, DoneInv, local

LEMMA WaitGate ==
    ASSUME ReplyWaitInv, TypeInv', CommGate
    PROVE  ReplyWaitInv'
<1>1. UNCHANGED <<shared, wire, streaming, local>>
  BY DEF CommGate, Passes
<1>2. \A t \in Threads : Cmd(t)' = Cmd(t)
  BY <1>1, SameCall DEF local
<1>3. ASSUME NEW t \in Threads, Awaiting(t)
      PROVE  Pending(t)' \/ Answered(t)' \/ Dropped(t)'
  <2>1. ~Answered(t)
    BY <1>3 DEF CommGate, Answered, ReplyWaitInv, WaitInv, TypeInv, TypeOK
  <2>2. Pending(t) \/ Dropped(t)
    BY <1>3, <2>1 DEF ReplyWaitInv, WaitInv
  <2> QED
    BY <1>1, <1>2, <2>2 DEF Pending, Dropped, Carried, shared, local
<1>4. WaitInv' /\ DoneInv'
  BY <1>1, <1>3, MessageMoves DEF shared, ReplyWaitInv, TypeInv, TypeOK
<1> QED
  BY <1>1, <1>4 DEF ReplyWaitInv, StreamInv, InboxInv, Carried, shared, local

LEMMA WaitSend ==
    ASSUME ReplyWaitInv, TypeInv', CommSend
    PROVE  ReplyWaitInv'
<1>1. \A t \in Threads : Cmd(t)' = Cmd(t) /\ Cmd(t) \in Commands
  BY SameCall, CallTypesOf DEF CommSend, local, ReplyWaitInv, TypeInv, CallInv
<1>2. Carried(outbox') = {} /\ wire' = Carried(outbox) /\ nextId' = nextId + 1
  BY DEF CommSend, NoCommand, Carried
<1>3. ASSUME NEW t \in Threads, Awaiting(t)
      PROVE  Pending(t)' \/ Dropped(t)'
  <2>1. comm /= "gate" /\ wire = {}
    BY DEF CommSend, ReplyWaitInv, TypeInv, LinkInv
  <2>2. CASE Pending(t)
    BY <1>1, <1>2, <2>1, <2>2 DEF Pending, Carried, CommSend, local
  <2>3. CASE Dropped(t)
    BY <1>2, <2>3 DEF Dropped, CommSend, local
  <2> QED
    BY <1>3, <2>1, <2>2, <2>3 DEF Answered, ReplyWaitInv, WaitInv
<1>4. WaitInv' /\ DoneInv'
  BY <1>3, MessageMoves DEF CommSend, ReplyWaitInv, TypeInv, TypeOK
<1>5. StreamInv'
  <2>1. outbox'["image"] /= "streaming"
    BY VrepAssumption DEF CommSend, NoCommand, Commands, Modes
  <2> QED
    BY <2>1 DEF CommSend, local, ReplyWaitInv, StreamInv
<1> QED
  BY <1>4, <1>5 DEF CommSend, ReplyWaitInv, InboxInv, Carried

LEMMA WaitReceive ==
    ASSUME ReplyWaitInv, TypeInv', SingleFile, CommReceive
    PROVE  ReplyWaitInv'
<1>1. \A t \in Threads : Cmd(t)' = Cmd(t) /\ Cmd(t) \in Commands
  BY SameCall, CallTypesOf DEF CommReceive, local, ReplyWaitInv, TypeInv, CallInv
<1>2. PICK extra, bad, id :
        id \in {nextId - 1, -1} /\ Received(extra, bad, id)
  BY ReceivedSomething
<1>3. /\ nextId \in Nat /\ nextId > 0 /\ lastId < nextId /\ lastId \in Nat \cup {-1}
      /\ comm = "receive" /\ comm' = "gate" /\ wire' = {}
      /\ UNCHANGED <<waitId, nextId, outbox, fetched, streaming, local>>
  BY DEF CommReceive, ReplyWaitInv, TypeInv, TypeOK, LinkInv
<1>4. lastId' \in {lastId, nextId - 1} /\ lastId' >= lastId
  BY <1>2, <1>3 DEF Received, Merge
\* Without an image that nobody asked for, what is merged is the reply.
<1>5. ASSUME ~streaming, wire = {}
      PROVE  lastId' = lastId /\ \A c \in Commands : inbox'[c] = inbox[c]
  BY <1>2, <1>5 DEF Received, Merge
<1>6. ASSUME ~streaming, wire /= {}
      PROVE  /\ lastId' = nextId - 1
             /\ \A c \in Commands : c \in wire => inbox'[c] = Reply(nextId - 1, c \in bad)
             /\ \A c \in Commands : c \notin wire => inbox'[c] = inbox[c]
  BY <1>2, <1>3, <1>6 DEF Received, Merge
<1>7. \A c \in Commands : /\ Reply(nextId - 1, c \in bad) /= None
                         /\ Reply(nextId - 1, c \in bad).id = nextId - 1
  <2>1. \A b \in BOOLEAN : Reply(nextId - 1, b) /= None /\ Reply(nextId - 1, b).id = nextId - 1
    BY <1>3, VrepAssumption DEF Reply, Replies
  <2>2. \A c : (c \in bad) \in BOOLEAN
    OBVIOUS
  <2> QED
    BY <2>1, <2>2
<1>8. ASSUME NEW t \in Threads, Awaiting(t)
      PROVE  Pending(t)' \/ Answered(t)' \/ Dropped(t)'
  <2>1. ~streaming
    BY <1>8, NoStream DEF Awaiting, ReplyWaitInv
  <2>2. began[t] \in Nat /\ began'[t] = began[t]
    BY <1>3 DEF local, ReplyWaitInv, TypeInv, TypeOK
  <2>3. CASE Pending(t) /\ nextId = began[t]
    BY <1>1, <1>3, <1>4, <2>2, <2>3 DEF Pending, Carried
  <2>4. CASE Pending(t) /\ nextId /= began[t]
    <3>1. Cmd(t) \in wire /\ nextId - 1 = began[t]
      BY <2>2, <2>4 DEF Pending
    <3> QED
      BY <1>1, <1>3, <1>6, <1>7, <2>1, <2>2, <3>1 DEF Answered
  <2>5. CASE Dropped(t)
    BY <1>3, <1>5, <2>1, <2>2, <2>5 DEF Dropped, Carried
  <2> QED
    BY <1>3, <1>8, <2>3, <2>4, <2>5 DEF Answered, ReplyWaitInv, WaitInv
<1>9. WaitInv' /\ DoneInv'
  BY <1>3, <1>4, <1>8, MessageMoves
<1>10. InboxInv'
  <2> SUFFICES ASSUME ~streaming, NEW c \in Carried(inbox')
               PROVE  inbox'[c].id <= lastId'
    BY <1>3 DEF InboxInv
  <2>1. CASE c \in wire
    BY <1>3, <1>6, <1>7, <2>1 DEF Carried
  <2>2. CASE c \notin wire
    <3>1. c \in Carried(inbox) /\ inbox'[c] = inbox[c]
      BY <1>5, <1>6, <2>2 DEF Carried
    <3>2. inbox[c].id <= lastId /\ inbox[c].id \in Nat
      BY <3>1 DEF ReplyWaitInv, InboxInv, TypeInv, TypeOK, Replies
    <3> QED
      BY <1>3, <1>4, <3>1, <3>2
  <2> QED
    BY <2>1, <2>2
<1> QED
  BY <1>3, <1>9, <1>10 DEF ReplyWaitInv, StreamInv, local

LEMMA WaitFaults ==
    ASSUME ReplyWaitInv, TypeInv', CommCorrupt \/ CommFail \/ CommDisconnect
    PROVE  ReplyWaitInv'
<1>1. UNCHANGED <<waitId, lastId, fetched, streaming, local>> /\ wire' = {} /\ comm /= "gate"
  BY DEF CommCorrupt, CommFail, CommDisconnect, shared, ReplyWaitInv, TypeInv, LinkInv
<1>2. \/ UNCHANGED <<outbox, nextId>>
      \/ outbox' = NoCommand
  BY DEF CommCorrupt, CommFail, CommDisconnect, shared
<1>3. Carried(NoCommand) = {}
  BY DEF Carried, NoCommand
<1>4. \A t \in Threads : Cmd(t)' = Cmd(t)
  BY <1>1, SameCall DEF local
<1>5. ASSUME NEW t \in Threads, Awaiting(t)
      PROVE  Pending(t)' \/ Dropped(t)'
  <2>1. Pending(t) \/ Dropped(t)
    BY <1>1, <1>5 DEF Answered, ReplyWaitInv, WaitInv
  <2>2. CASE outbox' = NoCommand
    BY <1>1, <1>3, <2>1, <2>2 DEF Pending, Dropped, local
  <2>3. CASE UNCHANGED <<outbox, nextId>>
    BY <1>1, <1>4, <2>1, <2>3 DEF Pending, Dropped, Carried, local
  <2> QED
    BY <1>2, <2>2, <2>3
<1>6. WaitInv' /\ DoneInv'
  BY <1>1, <1>5, MessageMoves DEF ReplyWaitInv, TypeInv, TypeOK
<1>7. StreamInv'
  <2>1. NoCommand["image"] /= "streaming"
    BY VrepAssumption DEF NoCommand, Commands, Modes
  <2> QED
    BY <1>1, <1>2, <2>1 DEF local, ReplyWaitInv, StreamInv
<1>8. InboxInv'
  <2>1. inbox' = inbox \/ Carried(inbox') = {}
    BY <1>3 DEF CommCorrupt, CommFail, CommDisconnect, shared
  <2> QED
    BY <1>1, <2>1 DEF ReplyWaitInv, InboxInv, Carried
<1> QED
  BY <1>6, <1>7, <1>8 DEF ReplyWaitInv

-----------------------------------------------------------------------------
LEMMA WaitInit == Init => ReplyWaitInv
<1> SUFFICES ASSUME Init PROVE ReplyWaitInv
  OBVIOUS
<1>1. TypeInv
  BY TypeInit
<1>2. outbox["image"] /= "streaming" /\ Carried(inbox) = {}
  BY VrepAssumption DEF Init, NoCommand, Carried, Commands, Modes
<1>3. WaitInv /\ DoneInv
  BY DEF Init, WaitInv, DoneInv, Awaiting
<1> QED
  BY <1>1, <1>2, <1>3 DEF Init, ReplyWaitInv, StreamInv, InboxInv

LEMMA WaitNext ==
    ASSUME ReplyWaitInv, SingleFile, OneCaller, [Next]_vars
    PROVE  ReplyWaitInv'
<1>1. TypeInv'
  BY TypeNext DEF ReplyWaitInv
<1>2. CASE Over \/ UNCHANGED vars
  <2>1. UNCHANGED vars
    BY <1>2 DEF Over
  <2>2. UNCHANGED <<shared, wire, comm, streaming, local>>
    BY <2>1 DEF vars, line
  <2>3. \A t \in Threads : Cmd(t)' = Cmd(t)
    BY <2>2, SameCall DEF local
  <2>4. \A t \in Threads : Awaiting(t) => Pending(t)' \/ Answered(t)' \/ Dropped(t)'
    BY <2>2, <2>3 DEF ReplyWaitInv, WaitInv, Pending, Answered, Dropped, Carried, shared, local
  <2>5. WaitInv' /\ DoneInv'
    BY <1>1, <2>2, <2>4, MessageMoves DEF shared, ReplyWaitInv, TypeInv, TypeOK
  <2> QED
    BY <1>1, <2>2, <2>5 DEF ReplyWaitInv, StreamInv, InboxInv, Carried, shared, local
<1>3. Copy => "video" \in Threads
  BY DEF Copy
<1> QED
  BY <1>1, <1>2, <1>3, WaitLocally, WaitEnqueue, WaitFetch, WaitRemove, WaitReturns, WaitGate,
     WaitSend, WaitReceive, WaitFaults DEF Next

LEMMA AlwaysOneCaller ==
    ASSUME SingleFile
    PROVE  Spec => []OneCaller
<1>1. CASE Unlocking
  <2>1. Init => BufferInv
    BY BufferInit
  <2>2. BufferInv /\ [Next]_vars => BufferInv'
    BY <1>1, BufferNext
  <2>3. BufferInv => OneCaller
    BY DEF BufferInv, MutexInv, OneCaller
  <2> QED
    BY <2>1, <2>2, <2>3, PTL DEF Spec
<1>2. CASE Threads = {"navdata"}
  <2>1. OneCaller
    BY <1>2 DEF OneCaller
  <2> QED
    BY <2>1, PTL
<1> QED
  BY <1>1, <1>2 DEF SingleFile

\* What the invariant says of the gate
LEMMA GateIsShut ==
    ASSUME ReplyWaitInv, SingleFile, comm = "send", NEW t \in Threads
    PROVE  ~Unread(t)
<1> SUFFICES ASSUME Unread(t) PROVE FALSE
  OBVIOUS
<1>1. Awaiting(t) /\ Cmd(t) \in Commands /\ ~streaming
  BY CallTypesOf, NoStream DEF Unread, Awaiting, ReplyWaitInv, TypeInv, CallInv
<1>2. lastId < began[t]
  BY <1>1 DEF ReplyWaitInv, WaitInv, Pending, Answered, Dropped
<1>3. inbox[Cmd(t)].id <= lastId /\ inbox[Cmd(t)].id \in Nat
  BY <1>1 DEF Unread, ReplyWaitInv, InboxInv, TypeInv, TypeOK, Carried, Replies
<1> QED
  BY <1>2, <1>3 DEF Unread, ReplyWaitInv, TypeInv, TypeOK

LEMMA WaitInvGives ==
    ASSUME ReplyWaitInv
    PROVE  RepliesOrTimeout
BY DEF ReplyWaitInv, DoneInv, RepliesOrTimeout

(* A waiting call finds its reply or reports a timeout: the gate keeps the  *)
(* reply for it, and no late answer makes the wait return too early.        *)
THEOREM RepliesOrTimeoutAlways ==
    ASSUME SingleFile
    PROVE  Spec => []RepliesOrTimeout
<1>1. Init => ReplyWaitInv
  BY WaitInit
<1>2. ReplyWaitInv /\ OneCaller /\ [Next]_vars => ReplyWaitInv'
  BY WaitNext
<1>3. ReplyWaitInv => RepliesOrTimeout
  BY WaitInvGives
<1>4. Spec => []OneCaller
  BY AlwaysOneCaller
<1> QED
  BY <1>1, <1>2, <1>3, <1>4, PTL DEF Spec

(* The communication thread never sends while the reply that a waiting call *)
(* asked for is unread in the inbox.                                        *)
THEOREM ReadBeforeNextAlways ==
    ASSUME SingleFile
    PROVE  Spec => ReadBeforeNext
<1>1. Init => ReplyWaitInv
  BY WaitInit
<1>2. ReplyWaitInv /\ OneCaller /\ [Next]_vars => ReplyWaitInv'
  BY WaitNext
<1>3. ReplyWaitInv => [comm = "send" /\ comm' = "receive" => ~\E t \in Threads : Unread(t)]_vars
  BY GateIsShut
<1>4. Spec => []OneCaller
  BY AlwaysOneCaller
<1> QED
  BY <1>1, <1>2, <1>3, <1>4, PTL DEF Spec, ReadBeforeNext
=============================================================================
