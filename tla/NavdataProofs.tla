---------------------------- MODULE NavdataProofs ----------------------------
(***************************************************************************)
(* NavdataServer next to any callers: for any number of packets, sequence  *)
(* numbers of any width and any faults of the simulator, packets follow    *)
(* each other in number, and in time unless the others disturbed them.     *)
(***************************************************************************)
EXTENDS NavdataServer, VrepClientProofs

Serving == "navdata" \in Threads

Packets == [sequence : SeqNums, demo : [Fields -> Int]]
Sent == [navdata : Packets, failed : BOOLEAN, disturbed : BOOLEAN]

NavTypes ==
    /\ socket \in Seq(SeqNums \cup {None})
    /\ sequence \in SeqNums
    /\ navdata \in Packets
    /\ failed \in BOOLEAN
    /\ disturbed \in BOOLEAN
    /\ packets \in Seq(Sent)

\* Where the thread can be; it serves before it calls.
RoundInv ==
    /\ pc["navdata"] \notin {"lock", "copy"}
    /\ pc["navdata"] = "idle" => at["navdata"] = 1
    /\ nav /= "serve" => pc["navdata"] = "idle" /\ packets = <<>>

\* Replies and the values taken from them are older than the next message,
\* and than the call under way.
AgeInv ==
    /\ \A c \in Carried(inbox) : inbox[c].id < nextId
    /\ pc["navdata"] \in {"remove", "read"} /\ got["navdata"] =>
        fetched.id \in Nat /\ fetched.id < nextId
    /\ \A f \in Fields : navdata.demo[f] < nextId
    /\ UnderWay => \A f \in Fields : navdata.demo[f] < began["navdata"]

\* The number of the packet being filled, and the next one
NumberInv ==
    /\ pc["navdata"] /= "idle" \/ packets /= <<>> =>
        sequence = (navdata.sequence + 1) % SeqModulus
    /\ packets /= <<>> =>
        LET before == packets[Len(packets)].navdata IN
        navdata.sequence = IF pc["navdata"] = "idle" THEN before.sequence
                           ELSE (before.sequence + 1) % SeqModulus

\* Its values against the packet before: the first is in it already when the
\* second is called for.  Between two packets nothing changes.
ValueInv ==
    packets /= <<>> =>
        LET before == packets[Len(packets)].navdata IN
        /\ ~disturbed => \A f \in Fields : navdata.demo[f] >= before.demo[f]
        /\ pc["navdata"] = "idle" => navdata.demo = before.demo
        /\ at["navdata"] = 2 /\ ~failed /\ ~disturbed =>
            navdata.demo["theta"] > before.demo["theta"]

PacketInv == NavTypes /\ RoundInv /\ AgeInv /\ NumberInv /\ ValueInv /\ PacketsInOrder

\* A call waits for the message that carries its command, or for a later one.
Awaits == pc["navdata"] \in {"check", "waiting", "fetch"}

\* The command is to be sent, was sent, or will not be answered any more.
Unanswered ==
    LET n == "navdata" IN
    /\ lastId < began[n]
    /\ \/ outbox[Cmd(n)] /= None /\ nextId = began[n]
       \/ Cmd(n) \in wire /\ nextId = began[n] + 1
       \/ comm \in {"closing", "down"}

\* What is in the inbox for it is the answer, and not one that came late.
AnswerIsNew ==
    LET n == "navdata" IN
    /\ began[n] <= lastId
    /\ inbox[Cmd(n)] /= None => inbox[Cmd(n)].id >= began[n]

\* An undisturbed call: the wait of an other is for a later message.
CallWaits ==
    LET n == "navdata" IN
    Awaits /\ ~disturbed =>
        /\ began[n] <= waitId /\ began[n] <= nextId
        /\ pc[n] = "fetch" => "timeout" \in err[n] \/ began[n] <= lastId
        /\ Unanswered \/ AnswerIsNew

CallReturns ==
    LET n == "navdata" IN
    pc[n] \in {"remove", "read"} /\ ~disturbed /\ Valued(n) =>
        fetched.id >= began[n] /\ fetched.cmd = Cmd(n)

ServerInv == TypeInv /\ PacketInv /\ CallWaits /\ CallReturns

-----------------------------------------------------------------------------
(* The client below                                                         *)

\* Every step of the server is a step of the client, or leaves it alone.
LEMMA NavStepIsClientStep ==
    ASSUME Serving, [NavNext]_<<vars, navVars>>
    PROVE  [Next]_vars
<1>1. "navdata" \in Threads
  BY DEF Serving
<1>2. CASE NavBind \/ NavBindFails \/ ClientAsk \/ Receive
  BY <1>2 DEF NavBind, NavBindFails, ClientAsk, Receive
<1>3. CASE Fill
  BY <1>1, <1>3 DEF Fill, Next
<1>4. CASE StoreAndSend
  BY <1>1, <1>4 DEF StoreAndSend, Stores, Next
<1>5. CASE InCall \/ CallTimesOut
  BY <1>1, <1>5 DEF InCall, CallTimesOut, Next
<1>6. ASSUME NEW t \in Threads, OtherBegins(t) \/ OtherCalls(t) \/ OtherFetches(t)
      PROVE  [Next]_vars
  BY <1>6 DEF OtherBegins, OtherCalls, OtherFetches, Next
<1>7. CASE Communicating
  BY <1>7 DEF Communicating, Next
<1> QED
  BY <1>2, <1>3, <1>4, <1>5, <1>6, <1>7 DEF NavNext

\* The two calls of a round
LEMMA NavCalls ==
    ASSUME Serving, TypeInv
    PROVE  /\ at["navdata"] \in 1..2
           /\ Cmd("navdata") = IF at["navdata"] = 1 THEN "theta" ELSE "phi"
           /\ Cmd("navdata") \in Commands
           /\ Mode("navdata") = "wait"
           /\ Len(Script("navdata")) = 2
<1>1. at["navdata"] \in 1..2
  BY DEF Serving, TypeInv, TypeOK
<1>2. Script("navdata") = <<Call("theta", "wait"), Call("phi", "wait")>>
  BY DEF Script, FirstScript, LaterScript
<1> QED
  BY <1>1, <1>2 DEF Cmd, Mode, Call, Commands

\* The call of the thread stays the same, and so does its command.
LEMMA SameNavCall ==
    ASSUME Serving, at'["navdata"] = at["navdata"], rounds'["navdata"] = rounds["navdata"]
    PROVE  Cmd("navdata")' = Cmd("navdata")
BY SameCall DEF Serving

\* What Read does to the navdata thread
LEMMA NavRead ==
    ASSUME Serving, TypeInv, Read("navdata")
    PROVE  /\ at["navdata"] = 1 => pc'["navdata"] = "call" /\ at'["navdata"] = 2
           /\ at["navdata"] = 2 => pc'["navdata"] = "idle" /\ at'["navdata"] = 1
           /\ UNCHANGED <<shared, line>>
           /\ pc["navdata"] = "read"
<1>1. ~Repeats("navdata") /\ at["navdata"] \in 1..2 /\ Len(Script("navdata")) = 2
  BY NavCalls DEF Repeats
<1>2. DOMAIN pc = Threads /\ at \in [Threads -> 1..2] /\ "navdata" \in Threads
  BY DEF Serving, TypeInv, TypeOK
<1>3. UNCHANGED <<shared, line>> /\ pc["navdata"] = "read"
  BY DEF Read
<1>4. CASE at["navdata"] = 1
  <2>1. Return("navdata", "call") /\ at' = [at EXCEPT !["navdata"] = @ + 1]
    BY <1>1, <1>4 DEF Read
  <2> QED
    BY <1>2, <1>3, <1>4, <2>1 DEF Return
<1>5. CASE at["navdata"] = 2
  <2>1. at["navdata"] = 2 /\ Len(Script("navdata")) = 2 /\ ~(2 < 2) /\ "navdata" /= "video"
    BY <1>1, <1>5
  <2>2. Return("navdata", "idle") /\ Finish("navdata")
    BY <1>1, <2>1, Zenon DEF Read
  <2> QED
    BY <1>2, <1>3, <1>5, <2>2 DEF Return, Finish
<1> QED
  BY <1>1, <1>4, <1>5

\* The numbers stay in range.
LEMMA NextNumber == \A n \in SeqNums : (n + 1) % SeqModulus \in SeqNums
BY NavdataAssumption DEF SeqNums

LEMMA PacketInit ==
    ASSUME Serving, NavInit
    PROVE  ServerInv
<1>1. 0 \in SeqNums
  BY NavdataAssumption DEF SeqNums
<1>2. navdata \in Packets
  BY <1>1 DEF NavInit, Packets
<1>3. packets = <<>> /\ socket = <<>> /\ failed \in BOOLEAN /\ disturbed \in BOOLEAN /\ sequence \in SeqNums
  BY <1>1 DEF NavInit
<1>4. Carried(inbox) = {} /\ nextId = 0 /\ nav = "bind"
  BY DEF NavInit, Init, NoCommand, Carried
<1>5. pc["navdata"] = "idle" /\ at["navdata"] = 1
  BY DEF NavInit, Init, Serving
<1>6. \A f \in Fields : navdata.demo[f] < nextId
  BY <1>4 DEF NavInit
<1>7. AgeInv
  BY <1>4, <1>5, <1>6 DEF AgeInv, UnderWay
<1>8. TypeInv
  BY TypeInit DEF NavInit
<1> QED
  BY <1>2, <1>3, <1>4, <1>5, <1>7, <1>8
  DEF ServerInv, PacketInv, NavTypes, RoundInv, NumberInv, ValueInv, PacketsInOrder,
      CallWaits, Awaits, CallReturns

-----------------------------------------------------------------------------
(* Steps that leave the packets alone                                       *)

\* The thread does not leave its call or its idleness, and the server's
\* variables stay as they are, but for the history.
SameCallOf ==
    /\ at'["navdata"] = at["navdata"] /\ rounds'["navdata"] = rounds["navdata"]
    /\ pc'["navdata"] \notin {"lock", "copy"}
    /\ pc'["navdata"] = "idle" <=> pc["navdata"] = "idle"
    /\ UNCHANGED <<nav, socket, sequence, navdata, failed, packets>>
    /\ disturbed' \in BOOLEAN /\ (disturbed => disturbed')

\* No reply is of a message that was not sent.
Older ==
    /\ nextId' \in {nextId, nextId + 1}
    /\ \A c \in Commands : \/ inbox'[c] \in {None, inbox[c]}
                           \/ inbox'[c].id \in Nat /\ inbox'[c].id < nextId

LEMMA PacketStays ==
    ASSUME PacketInv, SameCallOf
    PROVE  NavTypes' /\ RoundInv' /\ NumberInv' /\ ValueInv' /\ PacketsInOrder'
BY DEF SameCallOf, PacketInv, NavTypes, RoundInv, NumberInv, ValueInv, PacketsInOrder

\* A step after which the thread is where it was
LEMMA AgesStay ==
    ASSUME TypeInv, PacketInv, SameCallOf, Older,
           pc'["navdata"] = pc["navdata"], got'["navdata"] = got["navdata"],
           began'["navdata"] = began["navdata"],
           fetched' /= fetched => fetched'.id \in Nat /\ fetched'.id < nextId
    PROVE  AgeInv'
<1>1. nextId \in Nat
  BY DEF TypeInv, TypeOK
<1>2. \A c \in Carried(inbox') : inbox'[c].id < nextId'
  <2>1. \A c \in Carried(inbox) : inbox[c].id \in Nat /\ inbox[c].id < nextId
    BY DEF PacketInv, AgeInv, TypeInv, TypeOK, Replies
  <2> QED
    BY <1>1, <2>1 DEF Older, Carried
<1>3. \A f \in Fields : navdata'.demo[f] = navdata.demo[f] /\ navdata.demo[f] \in Int
  BY DEF SameCallOf, PacketInv, NavTypes, Packets
<1>4. \A f \in Fields : navdata'.demo[f] < nextId'
  BY <1>1, <1>3 DEF Older, PacketInv, AgeInv
<1>5. pc'["navdata"] \in {"remove", "read"} /\ got'["navdata"] =>
        fetched'.id \in Nat /\ fetched'.id < nextId'
  BY <1>1 DEF Older, PacketInv, AgeInv
<1>6. UnderWay' => \A f \in Fields : navdata'.demo[f] < began'["navdata"]
  BY <1>3 DEF PacketInv, AgeInv, UnderWay
<1> QED
  BY <1>2, <1>4, <1>5, <1>6 DEF AgeInv

\* The communication thread
LEMMA Communicates ==
    ASSUME Serving, ServerInv, TypeInv', Communicating
    PROVE  ServerInv'
<1> DEFINE n == "navdata"
<1>1. UNCHANGED <<fetched, waitId, local>>
  BY DEF Communicating, CommGate, Passes, CommSend, CommReceive, CommCorrupt, CommFail,
         CommDisconnect, shared
<1>2. /\ SameCallOf
      /\ disturbed' = disturbed \/ disturbed' = (disturbed \/ UnderWay)
  BY <1>1 DEF Communicating, navVars, local, SameCallOf, ServerInv, PacketInv,
              RoundInv, NavTypes
<1>3. Cmd(n)' = Cmd(n) /\ Cmd(n) \in Commands
  BY <1>1, SameNavCall, NavCalls DEF ServerInv, local
<1>4. /\ nextId \in Nat /\ lastId \in Nat \cup {-1} /\ waitId \in Nat \cup {-1}
      /\ lastId < nextId /\ began[n] \in Nat
      /\ wire /= {} => comm = "receive"
  BY DEF Serving, ServerInv, TypeInv, TypeOK, LinkInv
<1>5. Older
  <2>1. CASE CommReceive
    <3>1. PICK extra, bad, id : id \in {nextId - 1, -1} /\ Received(extra, bad, id)
      BY <2>1, ReceivedSomething
    <3>2. nextId' = nextId /\ nextId - 1 \in Nat
      BY <1>4, <2>1 DEF CommReceive, ServerInv, TypeInv, LinkInv
    <3>3. \A c \in Commands : inbox'[c] = inbox[c] \/ inbox'[c].id = nextId - 1
      BY <3>1 DEF Received, Merge, Reply
    <3> QED
      BY <1>4, <3>2, <3>3 DEF Older
  <2>2. CASE CommDisconnect
    BY <2>2 DEF CommDisconnect, NoCommand, Older
  <2>3. CASE CommGate \/ CommSend \/ CommCorrupt \/ CommFail
    BY <2>3 DEF CommGate, Passes, CommSend, CommCorrupt, CommFail, shared, Older
  <2> QED
    BY <2>1, <2>2, <2>3 DEF Communicating
<1>6. AgeInv'
  BY <1>1, <1>2, <1>5, AgesStay DEF local, ServerInv
<1>7. ASSUME Awaits, ~disturbed, ~disturbed'
      PROVE  /\ Unanswered' \/ AnswerIsNew'
             /\ lastId' >= lastId /\ lastId' \in Nat \cup {-1}
             /\ nextId' \in Nat /\ nextId' >= nextId
  <2>1. Unanswered \/ AnswerIsNew
    BY <1>7 DEF ServerInv, CallWaits
  <2>2. began' = began
    BY <1>1 DEF local
  <2>3. CASE CommGate
    BY <1>3, <1>4, <2>1, <2>2, <2>3 DEF CommGate, Passes, shared, Unanswered, AnswerIsNew
  <2>4. CASE CommSend
    <3>1. /\ comm = "send" /\ wire' = Carried(outbox) /\ nextId' = nextId + 1
          /\ UNCHANGED <<lastId, inbox>>
      BY <2>4 DEF CommSend
    <3>2. CASE Unanswered
      BY <1>3, <1>4, <2>2, <3>1, <3>2 DEF Unanswered, Carried
    <3>3. CASE AnswerIsNew
      BY <1>3, <1>4, <2>2, <3>1, <3>3 DEF AnswerIsNew
    <3> QED
      BY <1>4, <2>1, <3>1, <3>2, <3>3
  <2>5. CASE CommReceive
    <3>1. PICK extra, bad, id : id \in {nextId - 1, -1} /\ Received(extra, bad, id)
      BY <2>5, ReceivedSomething
    <3>2. /\ comm = "receive" /\ UNCHANGED <<nextId, outbox>> /\ nextId - 1 \in Nat
      BY <1>4, <2>5 DEF CommReceive, ServerInv, TypeInv, LinkInv
    <3>3. lastId' \in {lastId, nextId - 1} /\ (wire /= {} => lastId' = nextId - 1)
      BY <3>1, <3>2 DEF Received, Merge
    <3>4. /\ Cmd(n) \in wire => inbox'[Cmd(n)].id = nextId - 1
          /\ inbox'[Cmd(n)] = inbox[Cmd(n)] \/ inbox'[Cmd(n)].id = nextId - 1
      BY <1>3, <3>1 DEF Received, Merge, Reply
    <3>5. CASE AnswerIsNew
      BY <1>3, <1>4, <2>2, <3>2, <3>3, <3>4, <3>5 DEF AnswerIsNew
    <3>6. CASE Unanswered /\ Cmd(n) \in wire /\ nextId = began[n] + 1
      BY <1>3, <1>4, <2>2, <3>2, <3>3, <3>4, <3>6 DEF AnswerIsNew
    <3>7. CASE Unanswered /\ outbox[Cmd(n)] /= None /\ nextId = began[n]
      BY <1>3, <1>4, <2>2, <3>2, <3>3, <3>7 DEF Unanswered
    <3> QED
      BY <1>4, <2>1, <3>2, <3>3, <3>5, <3>6, <3>7 DEF Unanswered
  <2>6. CASE CommFail
    <3>1. /\ comm' = "closing" /\ nextId' \in {nextId, nextId + 1} /\ UNCHANGED <<lastId, inbox>>
      BY <2>6 DEF CommFail
    <3> QED
      BY <1>3, <1>4, <2>1, <2>2, <3>1 DEF Unanswered, AnswerIsNew
  <2>7. CASE CommDisconnect
    <3>1. /\ comm' = "down" /\ UNCHANGED <<lastId, nextId>> /\ inbox'[Cmd(n)] = None
      BY <1>3, <2>7 DEF CommDisconnect, NoCommand
    <3> QED
      BY <1>3, <1>4, <2>1, <2>2, <3>1 DEF Unanswered, AnswerIsNew
  <2>8. ASSUME CommCorrupt, ~CommReceive, ~CommFail, ~CommDisconnect, ~CommGate, ~CommSend
        PROVE  FALSE
    BY <1>7, <2>8 DEF Communicating, Awaits, UnderWay
  <2> QED
    BY <2>3, <2>4, <2>5, <2>6, <2>7, <2>8 DEF Communicating
<1>8. CallWaits'
  <2> SUFFICES ASSUME Awaits, ~disturbed, ~disturbed' PROVE CallWaits'
    BY <1>1, <1>2 DEF local, CallWaits, Awaits, SameCallOf
  <2>1. /\ began[n] <= waitId /\ began[n] <= nextId
        /\ pc[n] = "fetch" => "timeout" \in err[n] \/ began[n] <= lastId
    BY DEF ServerInv, CallWaits
  <2> QED
    BY <1>1, <1>4, <1>7, <2>1 DEF local, CallWaits
<1>9. CallReturns'
  BY <1>1, <1>2, <1>3 DEF local, ServerInv, CallReturns, Valued, SameCallOf
<1> QED
  BY <1>2, <1>6, <1>8, <1>9, PacketStays DEF ServerInv, PacketInv

\* What the steps of an other leave alone, and what they do to the client
OtherLeaves(t) ==
    LET n == "navdata" IN
    /\ pc'[n] = pc[n] /\ at'[n] = at[n] /\ rounds'[n] = rounds[n]
    /\ err'[n] = err[n] /\ got'[n] = got[n] /\ began'[n] = began[n]
    /\ UNCHANGED <<nextId, lastId, line>>
    /\ \A c \in Commands : inbox'[c] \in {None, inbox[c]}
    /\ \A c \in Commands : outbox'[c] = None => outbox[c] = None
    /\ Fetch(t) \/ (UNCHANGED fetched /\ waitId' \in {waitId, nextId})

LEMMA Others ==
    ASSUME Serving, TypeInv, NEW t \in Threads, t /= "navdata",
           \/ Begin(t) \/ Lock(t) \/ Enqueue(t) \/ Peek(t) \/ Check(t) \/ Arrived(t)
           \/ TimeOut(t) \/ Fetch(t) \/ Remove(t) \/ Read(t)
           \/ t = "video" /\ Copy
    PROVE  OtherLeaves(t)
<1>1. /\ Cmd(t) \in Commands /\ Mode(t) \in Modes /\ None \notin Modes
      /\ DOMAIN outbox = Commands /\ DOMAIN inbox = Commands
  BY CallTypesOf, VrepAssumption DEF TypeInv, CallInv, TypeOK, LinkInv
<1>2. CASE Begin(t) \/ Lock(t) \/ Peek(t) \/ Check(t) \/ Arrived(t) \/ TimeOut(t)
  BY <1>2 DEF Begin, Lock, Peek, Check, Arrived, TimeOut, shared, Serving, TypeInv, TypeOK, OtherLeaves
<1>3. CASE Enqueue(t)
  BY <1>1, <1>3 DEF Enqueue, AddCommand, Serving, TypeInv, TypeOK, OtherLeaves
<1>4. CASE Fetch(t)
  BY <1>4 DEF Fetch, CopyReply, Serving, TypeInv, TypeOK, OtherLeaves
<1>5. CASE Remove(t)
  BY <1>1, <1>5 DEF Remove, Serving, TypeInv, TypeOK, OtherLeaves
<1>6. CASE Read(t) \/ (t = "video" /\ Copy)
  <2>1. /\ UNCHANGED <<shared, line>>
        /\ pc'["navdata"] = pc["navdata"]
    BY <1>6 DEF Read, Return, Copy, Serving, TypeInv, TypeOK
  <2>2. /\ err'["navdata"] = err["navdata"]
        /\ got'["navdata"] = got["navdata"]
        /\ began'["navdata"] = began["navdata"]
    BY <1>6 DEF Read, Return, Copy, Serving, TypeInv, TypeOK
  <2>3. /\ rounds'["navdata"] = rounds["navdata"]
        /\ at'["navdata"] = at["navdata"]
    BY <1>6 DEF Read, Finish, Copy, Serving, TypeInv, TypeOK, CallInv
  <2> QED
    BY <2>1, <2>2, <2>3 DEF shared, OtherLeaves
<1> QED
  BY <1>2, <1>3, <1>4, <1>5, <1>6

LEMMA OthersKeep ==
    ASSUME Serving, ServerInv, TypeInv', NEW t \in Threads,
           OtherBegins(t) \/ OtherCalls(t) \/ OtherFetches(t)
    PROVE  ServerInv'
<1> DEFINE n == "navdata"
<1>1. OtherLeaves(t)
  BY Others DEF ServerInv, OtherBegins, OtherCalls, OtherFetches
<1>2. SameCallOf
  BY <1>1 DEF OtherBegins, OtherCalls, OtherFetches, navVars, OtherLeaves, SameCallOf,
              ServerInv, PacketInv, RoundInv, NavTypes
<1>3. Older
  BY <1>1 DEF OtherLeaves, Older
<1>4. fetched' /= fetched => fetched'.id \in Nat /\ fetched'.id < nextId
  <2>1. CASE Fetch(t)
    <3> DEFINE r == inbox[Cmd(t)]
    <3>1. Cmd(t) \in Commands
      BY CallTypesOf DEF ServerInv, TypeInv, CallInv
    <3>2. fetched' = IF r = None THEN fetched ELSE [cmd |-> Cmd(t), id |-> r.id]
      BY <2>1 DEF Fetch, CopyReply
    <3>3. r /= None => r.id \in Nat /\ r.id < nextId
      BY <3>1 DEF ServerInv, PacketInv, AgeInv, TypeInv, TypeOK, Replies, Carried
    <3> QED
      BY <3>2, <3>3
  <2> QED
    BY <1>1, <2>1 DEF OtherLeaves
<1>5. AgeInv'
  BY <1>1, <1>2, <1>3, <1>4, AgesStay DEF OtherLeaves, ServerInv
<1>6. Cmd(n)' = Cmd(n) /\ Cmd(n) \in Commands
  BY <1>2, SameNavCall, NavCalls DEF SameCallOf, ServerInv
<1>7. CASE Fetch(t) /\ OtherFetches(t)
  <2>1. disturbed' \/ ~UnderWay'
    BY <1>1, <1>7 DEF OtherFetches, OtherLeaves, UnderWay
  <2>2. CallWaits' /\ CallReturns'
    BY <2>1 DEF CallWaits, CallReturns, Awaits, UnderWay
  <2> QED
    BY <1>2, <1>5, <2>2, PacketStays DEF ServerInv, PacketInv
<1>8. CASE ~Fetch(t)
  <2>1. disturbed' = disturbed /\ fetched' = fetched /\ waitId' \in {waitId, nextId}
    BY <1>1, <1>8 DEF OtherBegins, OtherCalls, OtherFetches, navVars, OtherLeaves
  <2>2. CallReturns'
    BY <1>1, <1>6, <2>1 DEF OtherLeaves, ServerInv, CallReturns, Valued
  <2>3. CallWaits'
    <3> SUFFICES ASSUME Awaits, ~disturbed PROVE CallWaits'
      BY <1>1, <2>1 DEF OtherLeaves, CallWaits, Awaits
    <3>1. Unanswered => Unanswered'
      BY <1>1, <1>6 DEF OtherLeaves, line, Unanswered
    <3>2. AnswerIsNew => AnswerIsNew'
      BY <1>1, <1>6 DEF OtherLeaves, AnswerIsNew
    <3> QED
      BY <1>1, <2>1, <3>1, <3>2 DEF OtherLeaves, ServerInv, CallWaits
  <2> QED
    BY <1>2, <1>5, <2>2, <2>3, PacketStays DEF ServerInv, PacketInv
<1>9. Fetch(t) => OtherFetches(t)
  BY DEF OtherBegins, OtherCalls, OtherFetches, Fetch, CopyReply, Begin, Lock, Enqueue, AddCommand, Peek, Check,
         Arrived, TimeOut, Remove, Read, Copy
<1> QED
  BY <1>7, <1>8, <1>9

\* What the client does for a call of the thread
LEMMA Calls ==
    ASSUME Serving, ServerInv, TypeInv', InCall \/ CallTimesOut
    PROVE  ServerInv'
<1> DEFINE n == "navdata"
<1>1. /\ n \in Threads /\ Cmd(n) \in Commands /\ Mode(n) = "wait"
      /\ UNCHANGED <<nav, socket, sequence, navdata, failed, disturbed, packets>>
      /\ nextId \in Nat /\ lastId \in Nat \cup {-1} /\ waitId \in Nat \cup {-1}
      /\ lastId < nextId /\ began[n] \in Nat
  BY NavCalls DEF InCall, CallTimesOut, navVars, Serving, ServerInv, TypeInv, TypeOK, LinkInv
<1>2. /\ UNCHANGED <<at, rounds, nextId, lastId, line>>
      /\ pc[n] /= "idle" /\ pc'[n] \in {"check", "waiting", "fetch", "remove", "read"}
  BY <1>1 DEF InCall, CallTimesOut, Enqueue, AddCommand, Check, Arrived, TimeOut, Fetch, CopyReply, Remove, shared,
              ServerInv, TypeInv, TypeOK
<1>3. SameCallOf
  BY <1>1, <1>2 DEF SameCallOf, ServerInv, PacketInv, NavTypes
<1>4. Cmd(n)' = Cmd(n)
  BY <1>2, SameNavCall
<1>5. /\ NavTypes' /\ RoundInv' /\ NumberInv' /\ ValueInv' /\ PacketsInOrder'
  BY <1>3, PacketStays DEF ServerInv
<1>6. /\ \A c \in Carried(inbox) : inbox[c].id \in Nat /\ inbox[c].id < nextId
      /\ \A f \in Fields : navdata.demo[f] \in Int /\ navdata.demo[f] < nextId
      /\ navdata' = navdata /\ disturbed' = disturbed
  BY <1>1 DEF ServerInv, PacketInv, NavTypes, Packets, AgeInv, TypeInv, TypeOK, Replies
<1>7. CASE Enqueue(n)
  <2>1. /\ pc'[n] = "check" /\ began'[n] = nextId /\ waitId' = nextId
        /\ outbox'[Cmd(n)] /= None /\ UNCHANGED <<inbox, fetched>>
    BY <1>1, <1>7, VrepAssumption DEF Enqueue, AddCommand, ServerInv, TypeInv, TypeOK, Modes
  <2>2. AgeInv'
    BY <1>2, <1>6, <2>1 DEF AgeInv, UnderWay, Carried
  <2>3. CallWaits' /\ CallReturns'
    BY <1>1, <1>2, <1>4, <2>1 DEF CallWaits, CallReturns, Awaits, Unanswered
  <2> QED
    BY <1>5, <2>2, <2>3 DEF ServerInv, PacketInv
<1>8. CASE Check(n) \/ Arrived(n) \/ TimeOut(n)
  <2>1. /\ UNCHANGED <<shared, got, began>> /\ Awaits
        /\ pc'[n] \in {"waiting", "fetch"}
    BY <1>1, <1>8 DEF Check, Arrived, TimeOut, Awaits, ServerInv, TypeInv, TypeOK
  <2>2. AgeInv'
    BY <1>6, <2>1 DEF shared, Awaits, AgeInv, UnderWay, Carried, ServerInv, PacketInv
  <2>3. CallReturns'
    BY <2>1 DEF CallReturns
  <2>4. CallWaits'
    <3> SUFFICES ASSUME ~disturbed PROVE CallWaits'
      BY <1>6 DEF CallWaits
    <3>1. began[n] <= waitId /\ began[n] <= nextId /\ (Unanswered \/ AnswerIsNew)
      BY <2>1 DEF ServerInv, CallWaits
    <3>2. (Unanswered \/ AnswerIsNew)'
      BY <1>2, <1>4, <2>1, <3>1 DEF shared, line, Unanswered, AnswerIsNew
    <3>3. pc'[n] = "fetch" => "timeout" \in err'[n] \/ began[n] <= lastId
      <4>1. CASE Check(n)
        BY <1>1, <3>1, <4>1 DEF Check, ServerInv, TypeInv, TypeOK
      <4>2. CASE Arrived(n)
        BY <1>1, <3>1, <4>2 DEF Arrived
      <4>3. CASE TimeOut(n)
        BY <1>1, <4>3 DEF TimeOut, ServerInv, TypeInv, TypeOK
      <4> QED
        BY <1>8, <4>1, <4>2, <4>3
    <3> QED
      BY <2>1, <3>1, <3>2, <3>3 DEF shared, CallWaits
  <2> QED
    BY <1>5, <2>2, <2>3, <2>4 DEF ServerInv, PacketInv
<1>9. CASE Fetch(n)
  <2> DEFINE r == inbox[Cmd(n)]
  <2>1. /\ fetched' = IF r = None THEN fetched ELSE [cmd |-> Cmd(n), id |-> r.id]
        /\ got'[n] = (r /= None) /\ err'[n] = err[n] \cup FetchErrors(r)
        /\ pc[n] = "fetch" /\ pc'[n] = "remove" /\ UNCHANGED <<inbox, began>>
    BY <1>1, <1>9 DEF Fetch, CopyReply, ServerInv, TypeInv, TypeOK
  <2>2. r /= None => r.id \in Nat /\ r.id < nextId
    BY <1>1, <1>6 DEF Carried
  <2>3. AgeInv'
    BY <1>2, <1>6, <2>1, <2>2 DEF AgeInv, UnderWay, Carried, ServerInv, PacketInv
  <2>4. CallWaits'
    BY <2>1 DEF CallWaits, Awaits
  <2>5. CallReturns'
    <3> SUFFICES ASSUME ~disturbed, Valued(n)' PROVE fetched'.id >= began[n] /\ fetched'.cmd = Cmd(n)
      BY <1>4, <1>6, <2>1 DEF CallReturns
    <3>1. r /= None /\ "timeout" \notin err[n]
      BY <2>1 DEF Valued
    <3>2. began[n] <= lastId /\ (Unanswered \/ AnswerIsNew)
      BY <2>1, <3>1 DEF ServerInv, CallWaits, Awaits
    <3>3. r.id >= began[n]
      BY <1>1, <3>1, <3>2 DEF Unanswered, AnswerIsNew
    <3> QED
      BY <2>1, <3>1, <3>3
  <2> QED
    BY <1>5, <2>3, <2>4, <2>5 DEF ServerInv, PacketInv
<1>10. CASE Remove(n)
  <2>1. /\ pc[n] = "remove" /\ pc'[n] = "read" /\ UNCHANGED <<fetched, err, got, began>>
        /\ \A c \in Carried(inbox') : c \in Carried(inbox) /\ inbox'[c] = inbox[c]
    BY <1>1, <1>10 DEF Remove, Carried, ServerInv, TypeInv, TypeOK, LinkInv
  <2>2. AgeInv'
    BY <1>2, <1>6, <2>1 DEF AgeInv, UnderWay, ServerInv, PacketInv
  <2>3. CallWaits' /\ CallReturns'
    BY <1>4, <1>6, <2>1 DEF CallWaits, Awaits, CallReturns, Valued, ServerInv
  <2> QED
    BY <1>5, <2>2, <2>3 DEF ServerInv, PacketInv
<1> QED
  BY <1>7, <1>8, <1>9, <1>10 DEF InCall, CallTimesOut

\* Before the first packet, and the start of a packet
LEMMA PacketStarts ==
    ASSUME Serving, PacketInv, TypeInv, NavBind \/ NavBindFails \/ ClientAsk \/ Receive \/ Fill
    PROVE  PacketInv'
<1>1. CASE NavBind \/ NavBindFails
  BY <1>1 DEF NavBind, NavBindFails, NavGoto, vars, shared, line, local, Carried, PacketInv,
              NavTypes, RoundInv, AgeInv, UnderWay, NumberInv, ValueInv, PacketsInOrder
<1>2. CASE ClientAsk
  <2>1. PICK number \in SeqNums \cup {None} : socket' = Append(socket, number)
    BY <1>2, NavdataAssumption DEF ClientAsk
  <2>2. socket' \in Seq(SeqNums \cup {None})
    BY <2>1 DEF PacketInv, NavTypes
  <2> QED
    BY <1>2, <2>2 DEF ClientAsk, vars, shared, line, local, Carried, PacketInv,
              NavTypes, RoundInv, AgeInv, UnderWay, NumberInv, ValueInv, PacketsInOrder
<1>3. CASE Receive
  <2>1. packets = <<>> /\ pc["navdata"] = "idle" /\ UNCHANGED <<vars, socket, navdata, failed, disturbed, packets>>
    BY <1>3 DEF Receive, NavGoto, PacketInv, RoundInv
  <2>2. Head(socket) \in SeqNums \cup {None}
    BY <1>3 DEF Receive, PacketInv, NavTypes
  <2>3. sequence' \in SeqNums
    BY <1>3, <2>2 DEF Receive, PacketInv, NavTypes
  <2>4. nav' = "serve" /\ UNCHANGED <<pc, at, got, began, fetched, inbox, nextId>>
    BY <1>3, <2>1 DEF Receive, NavGoto, vars, shared, local
  <2> QED
    BY <2>1, <2>3, <2>4 DEF Carried, PacketInv, NavTypes, RoundInv, AgeInv, UnderWay, NumberInv, ValueInv, PacketsInOrder
<1>4. CASE Fill
  <2>1. /\ pc["navdata"] = "idle" /\ pc'["navdata"] = "call" /\ nav' = "serve"
        /\ UNCHANGED <<at, got, began, fetched, inbox, nextId, socket, packets>>
    BY <1>4 DEF Fill, NavGoto, Begin, Locks, shared, Serving, TypeInv, TypeOK
  <2>2. /\ navdata' = [navdata EXCEPT !.sequence = sequence]
        /\ sequence' = (sequence + 1) % SeqModulus
        /\ failed' = FALSE /\ disturbed' = FALSE
    BY <1>4 DEF Fill
  <2>3. /\ navdata'.sequence = sequence /\ navdata'.demo = navdata.demo
        /\ navdata' \in Packets /\ sequence' \in SeqNums
    BY <2>2, NextNumber DEF PacketInv, NavTypes, Packets
  <2>4. NavTypes' /\ RoundInv' /\ AgeInv' /\ PacketsInOrder'
    BY <2>1, <2>2, <2>3 DEF Carried, PacketInv, NavTypes, RoundInv, AgeInv, UnderWay, PacketsInOrder
  <2>5. NumberInv'
    BY <2>1, <2>2, <2>3 DEF PacketInv, NumberInv
  <2>6. ValueInv'
    <3> SUFFICES ASSUME packets /= <<>> PROVE ValueInv'
      BY <2>1 DEF ValueInv
    <3>1. navdata.demo = packets[Len(packets)].navdata.demo /\ at["navdata"] = 1
      BY <2>1 DEF PacketInv, RoundInv, ValueInv
    <3>2. \A f \in Fields : navdata.demo[f] \in Int
      BY DEF PacketInv, NavTypes, Packets
    <3> QED
      BY <2>1, <2>3, <3>1, <3>2 DEF ValueInv
  <2> QED
    BY <2>4, <2>5, <2>6 DEF PacketInv
<1> QED
  BY <1>1, <1>2, <1>3, <1>4

-----------------------------------------------------------------------------
(* A value comes in, and with the second one the packet goes out.           *)

LEMMA PacketStores ==
    ASSUME Serving, ServerInv, StoreAndSend
    PROVE  PacketInv'
<1> DEFINE n == "navdata"
           f0 == Cmd(n)
           last == packets[Len(packets)].navdata
<1>1. /\ n \in Threads /\ at[n] \in 1..2 /\ f0 \in Fields
      /\ f0 = IF at[n] = 1 THEN "theta" ELSE "phi"
      /\ Mode(n) = "wait" /\ pc[n] = "read"
  BY NavCalls, NavRead DEF Serving, ServerInv, Fields, StoreAndSend, Stores
<1>2. UNCHANGED <<shared, line, nav, socket, sequence, disturbed>>
  BY NavRead DEF StoreAndSend, Stores, ServerInv
<1>3. /\ at[n] = 1 => pc'[n] = "call" /\ at'[n] = 2
      /\ at[n] = 2 => pc'[n] = "idle" /\ at'[n] = 1
  BY NavRead DEF StoreAndSend, Stores, ServerInv
<1>4. /\ navdata \in Packets /\ failed \in BOOLEAN /\ disturbed \in BOOLEAN /\ packets \in Seq(Sent)
      /\ nextId \in Nat /\ began[n] \in Nat
  BY <1>1 DEF ServerInv, PacketInv, NavTypes, TypeInv, TypeOK
<1>5. ASSUME Valued(n)
      PROVE  /\ fetched.id \in Nat /\ fetched.id < nextId
             /\ ~disturbed => fetched.id > navdata.demo[f0]
  <2>1. ~disturbed => fetched.id >= began[n]
    BY <1>1, <1>5 DEF ServerInv, CallReturns
  <2>2. fetched.id \in Nat /\ fetched.id < nextId /\ navdata.demo[f0] < began[n]
    BY <1>1, <1>5 DEF Valued, ServerInv, PacketInv, AgeInv, UnderWay
  <2> QED
    BY <1>1, <1>4, <2>1, <2>2 DEF Packets
\* The packet afterwards
<1>6. /\ navdata' \in Packets /\ navdata'.sequence = navdata.sequence
      /\ \A f \in Fields : f /= f0 => navdata'.demo[f] = navdata.demo[f]
      /\ navdata'.demo[f0] < nextId
      /\ ~disturbed => navdata'.demo[f0] >= navdata.demo[f0]
      /\ ~disturbed /\ Valued(n) => navdata'.demo[f0] > navdata.demo[f0]
  <2>1. \A f \in Fields : navdata.demo[f] \in Int /\ navdata.demo[f] < nextId
    BY <1>4 DEF Packets, ServerInv, PacketInv, AgeInv
  <2>2. PICK v \in Int :
            /\ navdata' = [navdata EXCEPT !.demo[f0] = v]
            /\ v < nextId
            /\ ~disturbed => v >= navdata.demo[f0]
            /\ ~disturbed /\ Valued(n) => v > navdata.demo[f0]
    <3>1. CASE Valued(n)
      <4>1. navdata' = [navdata EXCEPT !.demo[f0] = fetched.id]
        BY <3>1 DEF StoreAndSend, Stores
      <4>2. fetched.id \in Int /\ fetched.id < nextId
            /\ (~disturbed => fetched.id > navdata.demo[f0])
        BY <1>5, <3>1
      <4> QED
        BY <1>1, <2>1, <4>1, <4>2
    <3>2. CASE ~Valued(n)
      <4>1. navdata' = [navdata EXCEPT !.demo[f0] = navdata.demo[f0]]
        BY <3>2 DEF StoreAndSend, Stores
      <4>2. navdata.demo[f0] \in Int /\ navdata.demo[f0] < nextId
        BY <1>1, <2>1
      <4> QED
        BY <3>2, <4>1, <4>2
    <3> QED
      BY <3>1, <3>2
  <2>3. /\ navdata' \in Packets /\ navdata'.sequence = navdata.sequence
        /\ \A f \in Fields : navdata'.demo[f] = IF f = f0 THEN v ELSE navdata.demo[f]
    BY <1>1, <1>4, <2>2 DEF Packets
  <2> QED
    BY <1>1, <2>2, <2>3
<1>7. failed' \in BOOLEAN /\ (~failed' => ~failed /\ Valued(n))
  BY <1>4 DEF StoreAndSend, Stores, Valued
<1>8. \A f \in Fields : /\ navdata'.demo[f] \in Int /\ navdata.demo[f] \in Int
                        /\ navdata'.demo[f] < nextId
                        /\ ~disturbed => navdata'.demo[f] >= navdata.demo[f]
  <2> SUFFICES ASSUME NEW f \in Fields
               PROVE  /\ navdata'.demo[f] \in Int /\ navdata.demo[f] \in Int
                      /\ navdata'.demo[f] < nextId
                      /\ ~disturbed => navdata'.demo[f] >= navdata.demo[f]
    OBVIOUS
  <2>1. navdata'.demo[f] \in Int /\ navdata.demo[f] \in Int
    BY <1>4, <1>6 DEF Packets
  <2>2. navdata.demo[f] < nextId
    BY DEF ServerInv, PacketInv, AgeInv
  <2>3. CASE f = f0
    BY <1>6, <2>1, <2>3
  <2>4. CASE f # f0
    BY <1>6, <2>1, <2>2, <2>4
  <2> QED
    BY <2>3, <2>4
<1>9. packets # <<>> => last \in Packets /\ \A f \in Fields : last.demo[f] \in Int
  <2> SUFFICES ASSUME packets # <<>> PROVE last \in Packets /\ \A f \in Fields : last.demo[f] \in Int
    OBVIOUS
  <2>1. packets \in Seq(Sent)
    BY <1>4
  <2>2. Len(packets) \in 1..Len(packets)
    BY <2>1
  <2>3. packets[Len(packets)] \in Sent
    BY <2>1, <2>2
  <2>4. last \in Packets
    BY <2>3 DEF Sent
  <2> QED
    BY <2>4 DEF Packets
<1>10. AgeInv'
  <2>1. pc'[n] \in {"call", "idle"}
    BY <1>1, <1>3
  <2> QED
    BY <1>2, <1>8, <2>1 DEF shared, Carried, ServerInv, PacketInv, AgeInv, UnderWay
<1>11. CASE at[n] = 1
  <2>1. packets' = packets
    BY <1>3, <1>11 DEF StoreAndSend, Stores
  <2>2. NavTypes' /\ RoundInv' /\ PacketsInOrder'
    BY <1>2, <1>3, <1>6, <1>7, <1>11, <2>1, <1>1 DEF ServerInv, PacketInv, NavTypes, RoundInv, PacketsInOrder
  <2>3. NumberInv'
    BY <1>1, <1>2, <1>3, <1>6, <1>11, <2>1 DEF ServerInv, PacketInv, NumberInv
  <2>4. ValueInv'
    <3> SUFFICES ASSUME packets # <<>>
                 PROVE  ~disturbed =>
                            /\ \A f \in Fields : navdata'.demo[f] >= last.demo[f]
                            /\ ~failed' => navdata'.demo["theta"] > last.demo["theta"]
      BY <1>2, <1>3, <1>11, <2>1 DEF ValueInv
    <3>1. ~disturbed => \A f \in Fields : navdata.demo[f] >= last.demo[f]
      BY DEF ServerInv, PacketInv, ValueInv
    <3> QED
      BY <1>1, <1>6, <1>7, <1>8, <1>9, <1>11, <3>1 DEF Fields
  <2> QED
    BY <1>10, <2>2, <2>3, <2>4 DEF ServerInv, PacketInv
<1>12. CASE at[n] = 2
  <2> DEFINE p == [navdata |-> navdata', failed |-> failed', disturbed |-> disturbed]
  <2>1. packets' = Append(packets, p) /\ p \in Sent
    BY <1>3, <1>4, <1>6, <1>7, <1>12 DEF StoreAndSend, Stores, Sent
  <2>2. /\ packets' \in Seq(Sent) /\ packets' # <<>>
        /\ Len(packets') = Len(packets) + 1 /\ Len(packets) \in Nat
        /\ packets'[Len(packets')] = p
        /\ \A i \in 1..Len(packets) : packets'[i] = packets[i]
    BY <1>4, <2>1
  <2>3. NavTypes'
    BY <1>2, <1>6, <1>7, <2>2 DEF ServerInv, PacketInv, NavTypes
  <2>4. RoundInv'
    BY <1>1, <1>2, <1>3, <1>12 DEF ServerInv, PacketInv, RoundInv
  <2>5. NumberInv'
    BY <1>1, <1>2, <1>3, <1>6, <1>12, <2>2 DEF ServerInv, PacketInv, NumberInv
  <2>6. ValueInv'
    BY <1>3, <1>8, <1>12, <2>2 DEF ValueInv
  <2>7. PacketsInOrder'
    <3> SUFFICES ASSUME packets # <<>>
                 PROVE  /\ navdata'.sequence = (last.sequence + 1) % SeqModulus
                        /\ ~disturbed =>
                            \A f \in Fields :
                                /\ navdata'.demo[f] >= last.demo[f]
                                /\ ~failed' => navdata'.demo[f] > last.demo[f]
      <4>1. CASE packets = <<>>
        BY <2>2, <4>1 DEF PacketsInOrder
      <4>2. CASE packets # <<>>
        <5> SUFFICES ASSUME NEW i \in 2..Len(packets')
                     PROVE  LET now == packets'[i].navdata  before == packets'[i - 1].navdata IN
                            /\ now.sequence = (before.sequence + 1) % SeqModulus
                            /\ ~packets'[i].disturbed =>
                                \A f \in Fields :
                                  /\ now.demo[f] >= before.demo[f]
                                  /\ ~packets'[i].failed => now.demo[f] > before.demo[f]
          BY DEF PacketsInOrder
        <5>1. CASE i = Len(packets')
          <6>1. i - 1 = Len(packets) /\ Len(packets) \in 1..Len(packets)
            BY <2>2, <4>2, <5>1
          <6>2. packets'[i] = p /\ packets'[i - 1].navdata = last
            BY <2>2, <5>1, <6>1
          <6>3. p.navdata = navdata' /\ p.failed = failed' /\ p.disturbed = disturbed
            OBVIOUS
          <6>4. /\ packets'[i].navdata = navdata' /\ packets'[i].failed = failed'
                /\ packets'[i].disturbed = disturbed
                /\ packets # <<>>
            BY <4>2, <6>2, <6>3
          <6>5. /\ navdata'.sequence = (last.sequence + 1) % SeqModulus
                /\ ~disturbed =>
                    \A f \in Fields :
                        /\ navdata'.demo[f] >= last.demo[f]
                        /\ ~failed' => navdata'.demo[f] > last.demo[f]
            BY <6>4
          <6> HIDE DEF p, last
          <6> QED
            BY <6>2, <6>4, <6>5, Zenon
        <5>2. CASE i # Len(packets')
          <6>1. i \in 2..Len(packets) /\ i \in 1..Len(packets) /\ i - 1 \in 1..Len(packets)
            BY <2>2, <5>2
          <6>2. packets'[i] = packets[i] /\ packets'[i - 1] = packets[i - 1]
            BY <2>2, <6>1
          <6>3. LET now == packets[i].navdata  before == packets[i - 1].navdata IN
                /\ now.sequence = (before.sequence + 1) % SeqModulus
                /\ ~packets[i].disturbed =>
                    \A f \in Fields :
                      /\ now.demo[f] >= before.demo[f]
                      /\ ~packets[i].failed => now.demo[f] > before.demo[f]
            BY <6>1 DEF ServerInv, PacketInv, PacketsInOrder
          <6> HIDE DEF p
          <6> QED
            BY <6>2, <6>3, Zenon
        <5> QED
          BY <5>1, <5>2
      <4> QED
        BY <4>1, <4>2
    <3>1. navdata'.sequence = (last.sequence + 1) % SeqModulus
      BY <1>1, <1>6 DEF ServerInv, PacketInv, NumberInv
    <3>2. /\ ~disturbed => \A f \in Fields : navdata.demo[f] >= last.demo[f]
          /\ ~failed /\ ~disturbed => navdata.demo["theta"] > last.demo["theta"]
      BY <1>12 DEF ServerInv, PacketInv, ValueInv
    <3>3. ~disturbed => \A f \in Fields : navdata'.demo[f] >= last.demo[f]
      <4> SUFFICES ASSUME ~disturbed, NEW f \in Fields PROVE navdata'.demo[f] >= last.demo[f]
        OBVIOUS
      <4>1. last.demo[f] \in Int
        BY <1>9
      <4>2. navdata'.demo[f] \in Int /\ navdata.demo[f] \in Int /\ navdata'.demo[f] >= navdata.demo[f]
        BY <1>8
      <4>3. navdata.demo[f] >= last.demo[f]
        BY <3>2
      <4> QED
        BY <4>1, <4>2, <4>3
    <3>4. ASSUME ~failed', ~disturbed PROVE \A f \in Fields : navdata'.demo[f] > last.demo[f]
      <4>1. ~failed /\ Valued(n) /\ ~disturbed
        BY <1>7, <3>4
      <4>2. f0 = "phi" /\ f0 \in Fields /\ "theta" \in Fields
        BY <1>1, <1>12 DEF Fields
      <4>3. navdata'.demo["theta"] = navdata.demo["theta"]
        BY <1>6, <4>2
      <4>4. navdata'.demo["theta"] > last.demo["theta"]
        BY <3>2, <4>1, <4>3
      <4>5. /\ navdata'.demo["phi"] > navdata.demo["phi"]
            /\ navdata.demo["phi"] >= last.demo["phi"]
        BY <1>6, <3>2, <4>1, <4>2
      <4>6. navdata'.demo["phi"] \in Int /\ navdata.demo["phi"] \in Int /\ last.demo["phi"] \in Int
        BY <1>8, <1>9, <4>2
      <4>7. navdata'.demo["phi"] > last.demo["phi"]
        BY <4>5, <4>6
      <4> QED
        BY <4>4, <4>7 DEF Fields
    <3> QED
      BY <3>1, <3>3, <3>4
  <2> QED
    BY <1>10, <2>3, <2>4, <2>5, <2>6, <2>7 DEF ServerInv, PacketInv
<1> QED
  BY <1>1, <1>11, <1>12

-----------------------------------------------------------------------------
LEMMA ServerNext ==
    ASSUME Serving, ServerInv, [NavNext]_<<vars, navVars>>
    PROVE  ServerInv'
<1>1. TypeInv'
  BY NavStepIsClientStep, TypeNext DEF ServerInv
<1>2. CASE UNCHANGED <<vars, navVars>>
  <2>1. UNCHANGED <<shared, line, local, navVars>>
    BY <1>2 DEF vars
  <2>2. Cmd("navdata")' = Cmd("navdata")
    BY <2>1, SameNavCall DEF local
  <2>3. CallWaits' /\ CallReturns'
    BY <2>1, <2>2 DEF shared, line, local, navVars, ServerInv, CallWaits, Awaits, Unanswered, AnswerIsNew,
                      CallReturns, Valued
  <2>4. PacketInv'
    BY <2>1 DEF shared, local, navVars, Carried, UnderWay, ServerInv, PacketInv, NavTypes, RoundInv, AgeInv,
                NumberInv, ValueInv, PacketsInOrder
  <2> QED
    BY <1>1, <2>3, <2>4 DEF ServerInv
<1>3. CASE NavBind \/ NavBindFails \/ ClientAsk \/ Receive \/ Fill
  <2>1. PacketInv'
    BY <1>3, PacketStarts DEF ServerInv
  <2>2. CASE Fill
    BY <1>1, <2>1, <2>2 DEF Fill, Begin, Locks, Serving, ServerInv, TypeInv, TypeOK, CallWaits, Awaits, CallReturns
  <2>3. CASE ~Fill
    <3>1. UNCHANGED <<shared, line, local, disturbed>>
      BY <1>3, <2>3 DEF NavBind, NavBindFails, ClientAsk, Receive, vars
    <3>2. Cmd("navdata")' = Cmd("navdata")
      BY <3>1, SameNavCall DEF local
    <3> QED
      BY <1>1, <2>1, <3>1, <3>2 DEF shared, line, local, ServerInv, CallWaits, Awaits, Unanswered, AnswerIsNew,
                                    CallReturns, Valued
  <2> QED
    BY <2>2, <2>3
<1>4. CASE StoreAndSend
  <2>1. pc'["navdata"] \in {"call", "idle"}
    BY <1>4, NavCalls, NavRead DEF StoreAndSend, Stores, ServerInv
  <2>2. CallWaits' /\ CallReturns'
    BY <2>1 DEF CallWaits, Awaits, CallReturns
  <2> QED
    BY <1>1, <1>4, <2>2, PacketStores DEF ServerInv
<1> QED
  BY <1>1, <1>2, <1>3, <1>4, Calls, OthersKeep, Communicates DEF NavNext

LEMMA ServerInvGives ==
    ASSUME ServerInv
    PROVE  PacketsInOrder /\ FreshUnlessDisturbed
BY DEF ServerInv, PacketInv, CallReturns, FreshUnlessDisturbed

(* Of two packets that follow each other the second has the next number,    *)
(* and unless the others disturbed it no older value, and newer ones if its *)
(* calls succeeded: next to any callers, for any number of packets, a       *)
(* sequence number of any width, and any calls that time out or fail.       *)
THEOREM PacketsInOrderAlways ==
    ASSUME Serving
    PROVE  NavSpec => []PacketsInOrder
<1>1. NavInit => ServerInv
  BY PacketInit
<1>2. ServerInv /\ [NavNext]_<<vars, navVars>> => ServerInv'
  BY ServerNext
<1>3. ServerInv => PacketsInOrder
  BY ServerInvGives
<1> QED
  BY <1>1, <1>2, <1>3, PTL DEF NavSpec

(* A value without an error answers the call that returns it, unless an     *)
(* other fetched in the middle of a call for the packet or a reply was lost: *)
(* however many calls of the navdata thread before it were answered late,   *)
(* and whatever the others send meanwhile.                                  *)
THEOREM FreshUnlessDisturbedAlways ==
    ASSUME Serving
    PROVE  NavSpec => []FreshUnlessDisturbed
<1>1. NavInit => ServerInv
  BY PacketInit
<1>2. ServerInv /\ [NavNext]_<<vars, navVars>> => ServerInv'
  BY ServerNext
<1>3. ServerInv => FreshUnlessDisturbed
  BY ServerInvGives
<1> QED
  BY <1>1, <1>2, <1>3, PTL DEF NavSpec
=============================================================================
