----------------------------- MODULE VrepClient -----------------------------
(***************************************************************************)
(* libs/vrep/extApi.c as the program uses it: one remote API client, with  *)
(* one communication thread, shared by the control thread                  *)
(* (vrep_control.c), the video thread (vrep_video.c) and the navdata       *)
(* thread (vrep_navdata.c).  A call puts a command into the outbox, may    *)
(* wait until the reply to the next message has arrived, and copies its    *)
(* reply from the inbox to the one fetch buffer, out of which the caller   *)
(* reads.  The message id to wait for is one variable for all callers.     *)
(* Control and video call under vrep_mutex, navdata without.               *)
(*                                                                         *)
(* Sections under the client's resource lock are single actions; what is   *)
(* read without it (the test before waiting, the fetch buffer) is not part *)
(* of them.  The 4 signals set and the 7 read stand as 2 each.             *)
(***************************************************************************)
EXTENDS Integers, Sequences, FiniteSets

CONSTANTS
    Threads,        \* the threads that use the client, by the options given
    MaxRounds,      \* bound: the PCMDs, frames or navdata packets of each thread
    MaxIdle,        \* bound: messages sent without a command
    Faulty,         \* TRUE: replies may be corrupt, commands refused, the connection lost
    None

Commands == {"roll", "pitch", "image", "theta", "phi"}
\* simx_opmode_oneshot, _oneshot_wait, _streaming, _buffer
Modes == {"oneshot", "wait", "streaming", "buffer"}
\* The id of the message a reply came with, and whether it reports an error
Replies == [id : Nat, bad : BOOLEAN]
Errors == {"novalue", "timeout", "remote"}

ASSUME VrepAssumption ==
    /\ Threads \subseteq {"control", "video", "navdata"}
    /\ MaxRounds \in [Threads -> Nat]
    /\ MaxIdle \in Nat
    /\ Faulty \in BOOLEAN
    /\ None \notin Int \cup Threads \cup Modes \cup Replies

VARIABLES
    vrep_mutex,     \* the thread that holds it, or None
    waitId,         \* _waitBeforeSendingAgainWhenMessageIDArrived, -1: no wait
    nextId,         \* _nextMessageIDToSend
    lastId,         \* _lastReceivedMessageID
    outbox,         \* _messageToSend: the mode of each command in it, or None
    inbox,          \* _messageReceived: the reply to each command, or None
    fetched,        \* _commandReceived: the reply copied last and its command
    comm,           \* the communication thread: "gate", "send", "receive",
                    \* "closing", "down"
    wire,           \* the commands of the message whose reply is due
    streaming,      \* the simulator streams images
    idle,           \* how many messages without a command were sent
    faulted,        \* a reply was corrupt or refused, or the connection was lost
    pc, at,         \* what each thread does next, and in which call of its round
    rounds,         \* the rounds each thread has done
    err,            \* the error flags of its call
    got,            \* its call fetched a reply
    began,          \* the id of the first message that can carry its command
    image           \* the frame being read has an image pointer

shared == <<waitId, nextId, lastId, outbox, inbox, fetched>>
line == <<comm, wire, streaming, idle, faulted>>
local == <<pc, at, rounds, err, got, began, image>>
vars == <<vrep_mutex, shared, line, local>>

NoCommand == [c \in Commands |-> None]
Carried(messages) == {c \in Commands : messages[c] /= None}
Reply(id, bad) == [id |-> id, bad |-> bad]

Call(cmd, mode) == [cmd |-> cmd, mode |-> mode]

\* The calls of a round: vrep_at_pcmd_mag, vrep_fill_navdata_demo, and
\* read_vrep_stream when it needs a frame; its first frame is different.
FirstScript ==
    [control |-> <<Call("roll", "oneshot"), Call("pitch", "oneshot")>>,
     navdata |-> <<Call("theta", "wait"), Call("phi", "wait")>>,
     video   |-> <<Call("image", "wait"), Call("image", "streaming")>>]

LaterScript == [FirstScript EXCEPT !["video"] = <<Call("image", "buffer")>>]

Script(t) == (IF rounds[t] = 0 THEN FirstScript ELSE LaterScript)[t]

Cmd(t) == Script(t)[at[t]].cmd
Mode(t) == Script(t)[at[t]].mode
Locks(t) == t \in {"control", "video"}

\* The call of t came back with a value.
Valued(t) == got[t] /\ err[t] = {}

TypeOK ==
    /\ vrep_mutex \in Threads \cup {None}
    /\ waitId \in Nat \cup {-1} /\ nextId \in Nat /\ lastId \in Nat \cup {-1}
    /\ outbox \in [Commands -> Modes \cup {None}]
    /\ \A c \in Carried(inbox) : inbox[c] \in Replies
    /\ fetched /= None => fetched.cmd \in Commands /\ fetched.id \in Nat
    /\ comm \in {"gate", "send", "receive", "closing", "down"}
    /\ wire \subseteq Commands
    /\ streaming \in BOOLEAN
    /\ idle \in 0..MaxIdle
    /\ faulted \in BOOLEAN
    /\ pc \in [Threads -> {"idle", "lock", "call", "check", "waiting", "fetch",
                           "remove", "read", "copy"}]
    /\ at \in [Threads -> 1..2]
    /\ \A t \in Threads : rounds[t] \in 0..MaxRounds[t]
    /\ err \in [Threads -> SUBSET Errors]
    /\ got \in [Threads -> BOOLEAN]
    /\ began \in [Threads -> Nat]
    /\ image \in BOOLEAN
    \* the wait is for a message that was sent or for the next one
    /\ waitId <= nextId

\* simxStart, once connected
Init ==
    /\ vrep_mutex = None
    /\ waitId = -1 /\ nextId = 0 /\ lastId = -1
    /\ outbox = NoCommand /\ inbox = NoCommand
    /\ fetched = None
    /\ comm = "gate" /\ wire = {} /\ streaming = FALSE /\ idle = 0 /\ faulted = FALSE
    /\ pc = [t \in Threads |-> "idle"]
    /\ at = [t \in Threads |-> 1]
    /\ rounds = [t \in Threads |-> 0]
    /\ err = [t \in Threads |-> {}]
    /\ got = [t \in Threads |-> FALSE]
    /\ began = [t \in Threads |-> 0]
    /\ image = FALSE
-----------------------------------------------------------------------------
(* The callers. *)

\* A PCMD arrives, the encoder wants a frame, or a navdata packet is due.
Begin(t) ==
    /\ pc[t] = "idle"
    /\ rounds[t] < MaxRounds[t]
    /\ pc' = [pc EXCEPT ![t] = IF Locks(t) THEN "lock" ELSE "call"]
    /\ UNCHANGED <<vrep_mutex, shared, line, at, rounds, err, got, began, image>>

\* Slip: the caller goes on without the mutex.
LockNothing(t) ==
    /\ pc[t] = "lock"
    /\ pc' = [pc EXCEPT ![t] = "call"]
    /\ UNCHANGED <<vrep_mutex, shared, line, at, rounds, err, got, began, image>>

\* pthread_mutex_lock(&vrep_mutex)
Lock(t) ==
    /\ pc[t] = "lock"
    /\ vrep_mutex = None
    /\ vrep_mutex' = t
    /\ pc' = [pc EXCEPT ![t] = "call"]
    /\ UNCHANGED <<shared, line, at, rounds, err, got, began, image>>

\* _exec_int, _exec_string, _exec_string_buffer: the command is added to the
\* outbox, or takes the place of the same command, under the resource lock.
AddCommand(t, awaited) ==
    /\ pc[t] = "call" /\ Mode(t) /= "buffer"
    /\ outbox' = [outbox EXCEPT ![Cmd(t)] = Mode(t)]
    /\ waitId' = IF Mode(t) = "wait" THEN awaited ELSE waitId
    /\ pc' = [pc EXCEPT ![t] = "check"]
    /\ err' = [err EXCEPT ![t] = {}]
    /\ began' = [began EXCEPT ![t] = nextId]
    /\ UNCHANGED <<vrep_mutex, nextId, lastId, inbox, fetched, line, at, rounds, got, image>>

\* Slip: the id to wait for is counted from one.
EnqueueCountsFromOne(t) == AddCommand(t, nextId + 1)

\* Slip: wait for the message before the one that carries the command.
EnqueueWaitsForLast(t) == AddCommand(t, nextId - 1)

Enqueue(t) == AddCommand(t, nextId)

\* simx_opmode_buffer sends nothing.
Peek(t) ==
    /\ pc[t] = "call" /\ Mode(t) = "buffer"
    /\ pc' = [pc EXCEPT ![t] = "fetch"]
    /\ err' = [err EXCEPT ![t] = {}]
    /\ UNCHANGED <<vrep_mutex, shared, line, at, rounds, got, began, image>>

\* Whether to wait is read without the lock, and whoever waits makes it true.
Check(t) ==
    /\ pc[t] = "check"
    /\ pc' = [pc EXCEPT ![t] = IF waitId = -1 THEN "fetch" ELSE "waiting"]
    /\ UNCHANGED <<vrep_mutex, shared, line, at, rounds, err, got, began, image>>

\* _waitUntilMessageArrived reads the id to wait for again each time round.
Arrived(t) ==
    /\ pc[t] = "waiting"
    /\ lastId >= waitId
    /\ pc' = [pc EXCEPT ![t] = "fetch"]
    /\ UNCHANGED <<vrep_mutex, shared, line, at, rounds, err, got, began, image>>

\* Slip: the wait gives up without a word.
TimeOutSilently(t) ==
    /\ pc[t] = "waiting"
    /\ lastId < waitId
    /\ pc' = [pc EXCEPT ![t] = "fetch"]
    /\ UNCHANGED <<vrep_mutex, shared, line, at, rounds, err, got, began, image>>

\* _REPLY_WAIT_TIMEOUT_IN_MS have passed.
TimeOut(t) ==
    /\ pc[t] = "waiting"
    /\ lastId < waitId
    /\ pc' = [pc EXCEPT ![t] = "fetch"]
    /\ err' = [err EXCEPT ![t] = @ \cup {"timeout"}]
    /\ UNCHANGED <<vrep_mutex, shared, line, at, rounds, got, began, image>>

\* What _setLastFetchedCmd makes of the reply r (or None) to the call of t.
FetchErrors(r) ==
    IF r = None THEN {"novalue"} ELSE IF r.bad THEN {"remote"} ELSE {}

\* The reply is copied to the fetch buffer.
CopyReply(t) ==
    /\ pc[t] = "fetch"
    /\ LET r == inbox[Cmd(t)] IN
        /\ fetched' = IF r = None THEN fetched ELSE [cmd |-> Cmd(t), id |-> r.id]
        /\ err' = [err EXCEPT ![t] = @ \cup FetchErrors(r)]
        /\ got' = [got EXCEPT ![t] = r /= None]
    /\ pc' = [pc EXCEPT ![t] = IF Mode(t) = "wait" THEN "remove" ELSE "read"]
    /\ UNCHANGED <<vrep_mutex, nextId, lastId, outbox, inbox, line, at, rounds, began, image>>

\* Slip: the communication thread is not enabled again.
FetchKeepsWait(t) == CopyReply(t) /\ UNCHANGED waitId

\* ... and nobody waits any longer.
Fetch(t) == CopyReply(t) /\ waitId' = -1

\* _removeCommandReply_int, _removeCommandReply_string
Remove(t) ==
    /\ pc[t] = "remove"
    /\ inbox' = [inbox EXCEPT ![Cmd(t)] = None]
    /\ pc' = [pc EXCEPT ![t] = "read"]
    /\ UNCHANGED <<vrep_mutex, waitId, nextId, lastId, outbox, fetched, line, at, rounds, err, got, began, image>>

\* The call of t returns to its caller, which goes on at next; the locals of
\* the call are gone.
Return(t, next) ==
    /\ pc' = [pc EXCEPT ![t] = next]
    /\ err' = [err EXCEPT ![t] = {}]
    /\ got' = [got EXCEPT ![t] = FALSE]
    /\ began' = [began EXCEPT ![t] = 0]

\* The round of t is over: pthread_mutex_unlock if it holds the mutex.
Finish(t) ==
    /\ vrep_mutex' = IF vrep_mutex = t THEN None ELSE vrep_mutex
    /\ rounds' = [rounds EXCEPT ![t] = @ + 1]
    /\ at' = [at EXCEPT ![t] = 1]

\* read_vrep_stream repeats a buffer call until it has a value.
Repeats(t) == Mode(t) = "buffer" /\ err[t] /= {}

\* simxGetFloatSignal and simxGetVisionSensorImage read the fetch buffer (the
\* latter keeps a pointer into it) when there is a value, and the next call
\* follows.  No caller acts on an error of another call: the flags are
\* positive, and read_vrep_stream tests ret < 0.
Read(t) ==
    /\ pc[t] = "read"
    /\ image' = IF t = "video" THEN image \/ Valued(t) ELSE image
    /\ \/ /\ Repeats(t)
          /\ Return(t, "call")
          /\ UNCHANGED <<vrep_mutex, rounds, at>>
       \/ /\ ~Repeats(t) /\ at[t] < Len(Script(t))
          /\ Return(t, "call")
          /\ at' = [at EXCEPT ![t] = @ + 1]
          /\ UNCHANGED <<vrep_mutex, rounds>>
       \/ /\ ~Repeats(t) /\ at[t] = Len(Script(t)) /\ t = "video"
          /\ Return(t, "copy")
          /\ UNCHANGED <<vrep_mutex, rounds, at>>
       \/ /\ ~Repeats(t) /\ at[t] = Len(Script(t)) /\ t /= "video"
          /\ Return(t, "idle")
          /\ Finish(t)
    /\ UNCHANGED <<shared, line>>

\* read_vrep_stream copies the image and releases the mutex.
Copy ==
    /\ "video" \in Threads /\ pc["video"] = "copy"
    /\ pc' = [pc EXCEPT !["video"] = "idle"]
    /\ image' = FALSE
    /\ Finish("video")
    /\ UNCHANGED <<shared, line, err, got, began>>

-----------------------------------------------------------------------------
(* The communication thread, and the simulator at the other end. *)

Passes ==
    /\ comm = "gate"
    /\ comm' = "send"
    /\ UNCHANGED <<vrep_mutex, shared, wire, streaming, idle, faulted, local>>

\* Slip: the gate lets a message pass as soon as the awaited reply is there.
CommGateOpen == Passes

\* Slip: no message at all while somebody waits.
CommGateShut == Passes /\ waitId = -1

\* No further message while a reply that somebody waited for is unread.  (The
\* code lets the first one pass by the size of the inbox: lastId is -1 then.)
CommGate == Passes /\ (waitId = -1 \/ lastId < waitId)

\* All commands of the outbox leave in one message.
CommSend ==
    /\ comm = "send"
    /\ Carried(outbox) /= {} \/ idle < MaxIdle
    /\ idle' = IF Carried(outbox) = {} THEN idle + 1 ELSE idle
    /\ wire' = Carried(outbox)
    /\ streaming' = (streaming \/ outbox["image"] = "streaming")
    /\ outbox' = NoCommand
    /\ nextId' = nextId + 1
    /\ comm' = "receive"
    /\ UNCHANGED <<vrep_mutex, waitId, lastId, inbox, fetched, faulted, local>>

\* The simulator answers every command, and may add an image once it streams;
\* an answer to no command may come without an id (-1 in the message).
Merge(replies, bad, id) ==
    /\ inbox' = [c \in Commands |->
                    IF c \in replies THEN Reply(nextId - 1, c \in bad) ELSE inbox[c]]
    /\ lastId' = IF replies = {} \/ id = -1 THEN lastId ELSE id

\* The reply is merged into the inbox: each answer takes the place of an older
\* one to the same command, and has an error flag of its own.
CommReceive ==
    /\ comm = "receive"
    /\ comm' = "gate"
    /\ \E extra \in (IF streaming THEN {{}, {"image"}} ELSE {{}}) :
       \E bad \in (IF Faulty THEN SUBSET (wire \cup extra) ELSE {{}}) :
       \E id \in (IF wire = {} THEN {nextId - 1, -1} ELSE {nextId - 1}) :
            /\ Merge(wire \cup extra, bad, id)
            /\ faulted' = (faulted \/ bad /= {})
    /\ wire' = {}
    /\ UNCHANGED <<vrep_mutex, waitId, nextId, outbox, fetched, streaming, idle, local>>

\* A reply with a wrong checksum is dropped.
CommCorrupt ==
    /\ Faulty
    /\ comm = "receive"
    /\ comm' = "gate"
    /\ faulted' = TRUE
    /\ wire' = {}
    /\ UNCHANGED <<vrep_mutex, shared, streaming, idle, local>>

\* Sending (the outbox is then empty already) or receiving fails.
CommFail ==
    /\ Faulty
    /\ comm \in {"send", "receive"}
    /\ comm' = "closing"
    /\ faulted' = TRUE
    /\ outbox' = IF comm = "send" THEN NoCommand ELSE outbox
    /\ nextId' = IF comm = "send" THEN nextId + 1 ELSE nextId
    /\ wire' = {}
    /\ UNCHANGED <<vrep_mutex, waitId, lastId, inbox, fetched, streaming, idle, local>>

\* The boxes are emptied, and the thread does not connect again: simxStart
\* was told not to.
CommDisconnect ==
    /\ comm = "closing"
    /\ comm' = "down"
    /\ outbox' = NoCommand
    /\ inbox' = NoCommand
    /\ UNCHANGED <<vrep_mutex, waitId, nextId, lastId, fetched, wire, streaming, idle, faulted, local>>

\* The bounds are used up.
Over ==
    /\ \A t \in Threads : pc[t] = "idle" /\ rounds[t] = MaxRounds[t]
    /\ UNCHANGED vars

Step(t) == Lock(t) \/ Enqueue(t) \/ Peek(t) \/ Check(t) \/ Arrived(t) \/ Fetch(t) \/ Remove(t) \/ Read(t)

Next ==
    \/ \E t \in Threads :
        \/ Begin(t) \/ Lock(t) \/ Enqueue(t) \/ Peek(t) \/ Check(t) \/ Arrived(t)
        \/ TimeOut(t) \/ Fetch(t) \/ Remove(t) \/ Read(t)
    \/ Copy
    \/ CommGate \/ CommSend \/ CommReceive \/ CommCorrupt \/ CommFail \/ CommDisconnect
    \/ Over

\* Threads keep running and the simulator answers; a timeout need never occur.
Fairness ==
    /\ \A t \in Threads : WF_vars(Step(t))
    /\ WF_vars(Copy)
    /\ WF_vars(CommGate \/ CommSend \/ CommReceive)

Spec == Init /\ [][Next]_vars /\ Fairness
-----------------------------------------------------------------------------
(* The reply of a call in mode simx_opmode_oneshot_wait is in the fetch     *)
(* buffer when the call has fetched, unless the call says that it timed     *)
(* out (extApi.c:197, "wait until we received a reply, or a timeout").      *)
RepliesOrTimeout ==
    \A t \in Threads :
        pc[t] \in {"remove", "read"} /\ Mode(t) = "wait" =>
            "timeout" \in err[t] \/ got[t]

(* Whoever reads the fetch buffer, for a signal's value, an image pointer   *)
(* or the bytes of the image, finds the reply to its own command there.     *)
OwnBuffer ==
    /\ \A t \in Threads :
        pc[t] = "read" /\ Valued(t) => fetched.cmd = Cmd(t)
    /\ \A t \in Threads :
        t = "video" /\ pc[t] = "copy" /\ image => fetched.cmd = "image"

(* The communication thread sends nothing while the reply that a waiting    *)
(* call asked for is in the inbox unread (the gate, extApi.c:1499).         *)
Unread(t) ==
    /\ pc[t] \in {"check", "waiting", "fetch"} /\ Mode(t) = "wait"
    /\ inbox[Cmd(t)] /= None /\ inbox[Cmd(t)].id >= began[t]
ReadBeforeNext == [][comm = "send" /\ comm' = "receive" => ~\E t \in Threads : Unread(t)]_vars

(* The frame that is copied comes with an image pointer: when the sensor    *)
(* cannot be read, read_vrep_stream ends the program (vrep_video.c:58).     *)
FrameHasImage ==
    \A t \in Threads : t = "video" /\ pc[t] = "copy" => image

(* As long as the simulator answers, every round under way ends without the *)
(* help of a timeout: the waits, the gate and the mutex never wait for each  *)
(* other.                                                                    *)
RoundsEnd == \A t \in Threads : pc[t] /= "idle" ~> pc[t] = "idle" \/ faulted
=============================================================================
