---------------------------- MODULE NavdataServer ----------------------------
(***************************************************************************)
(* navdata/navdata_server.c over the remote API client: a first datagram   *)
(* tells the navdata thread where to send and from which number to count;  *)
(* from then on it fills a packet by calls to the simulator                *)
(* (vrep_fill_navdata_demo) and sends it, for ever.  A call that fails     *)
(* leaves in the packet what the one before had there.                     *)
(*                                                                         *)
(* The navdata thread uses the client of the control or the video thread   *)
(* (main.c:96), which go on with calls of their own: Threads has one of    *)
(* them at least, and they are called the others here.                     *)
(*                                                                         *)
(* A value is the id of the message whose reply it came with, the number   *)
(* of messages being the simulator's time; -1 is the zero of calloc.       *)
(***************************************************************************)
EXTENDS VrepClient

CONSTANTS
    SeqModulus,     \* sequence numbers are 0..SeqModulus-1 (2^32 in the code)
    Asked,          \* what a datagram holds: a number, or None when it is empty
    MaxAsked,       \* bound: datagrams sent to the port
    MaxTimeouts     \* bound: calls of the navdata thread that time out

VARIABLES
    status,     \* "running" or "exit" (error())
    nav,        \* navdata_listen: "bind", "recv", "serve"
    socket,     \* the datagrams that arrived
    sequence,   \* the local variable
    navdata,    \* the packet being filled: its number and its values
    failed,     \* a call for it failed
    disturbed,  \* history: an other fetched in the middle of a call for it, or a
                \* reply was lost
    packets,    \* the packets sent
    timeouts    \* calls for packets that timed out

Fields == {"theta", "phi"}
SeqNums == 0..(SeqModulus - 1)

ASSUME NavdataAssumption ==
    /\ SeqModulus \in Nat \ {0}
    /\ Asked \subseteq SeqNums \cup {None}
    /\ MaxAsked \in Nat
    /\ MaxTimeouts \in Nat

navVars ==
    <<status, nav, socket, sequence, navdata, failed, disturbed, packets, timeouts>>

\* A call for the packet was begun and has not returned.
UnderWay == pc["navdata"] \in {"check", "waiting", "fetch", "remove", "read"}

NavInit ==
    /\ Init
    /\ status = "running" /\ nav = "bind"
    /\ socket = <<>>
    /\ sequence = 0
    /\ navdata = [sequence |-> 0, demo |-> [f \in Fields |-> -1]]
    /\ failed = FALSE
    /\ disturbed = FALSE
    /\ packets = <<>>
    /\ timeouts = 0

NavGoto(from, to) == status = "running" /\ nav = from /\ nav' = to

NavBind ==
    /\ NavGoto("bind", "recv")
    /\ UNCHANGED <<vars, status, socket, sequence, navdata, failed, disturbed, packets, timeouts>>

NavBindFails ==
    /\ NavGoto("bind", "bind")
    /\ status' = "exit"
    /\ UNCHANGED <<vars, socket, sequence, navdata, failed, disturbed, packets, timeouts>>

\* A client asks, or asks again: with a number, or with an empty datagram.
ClientAsk ==
    /\ status = "running"
    /\ nav # "bind"
    /\ Len(socket) < MaxAsked
    /\ \E number \in Asked : socket' = Append(socket, number)
    /\ UNCHANGED <<vars, status, nav, sequence, navdata, failed, disturbed, packets, timeouts>>

\* The first datagram is read, and no other after it; without contents it counts
\* as an error.
Receive ==
    /\ NavGoto("recv", "serve")
    /\ socket # <<>>
    /\ status' = IF Head(socket) = None THEN "exit" ELSE status
    /\ sequence' = IF Head(socket) = None THEN sequence ELSE Head(socket)
    /\ UNCHANGED <<vars, socket, navdata, failed, disturbed, packets, timeouts>>

\* The header of the next packet, and the call of fill_navdata_demo.
Fill ==
    /\ NavGoto("serve", "serve")
    /\ Begin("navdata")
    /\ navdata' = [navdata EXCEPT !.sequence = sequence]
    /\ sequence' = (sequence + 1) % SeqModulus
    /\ failed' = FALSE
    /\ disturbed' = FALSE
    /\ UNCHANGED <<status, socket, packets, timeouts>>

\* The call returns; after the last one the packet is sent.
Stores(value) ==
    /\ status = "running"
    /\ Read("navdata")
    /\ navdata' = [navdata EXCEPT !.demo[Cmd("navdata")] = value]
    /\ failed' = (failed \/ ~Valued("navdata"))
    /\ packets' = IF pc'["navdata"] = "idle"
                  THEN Append(packets, [navdata |-> navdata', failed |-> failed',
                                        disturbed |-> disturbed])
                  ELSE packets
    /\ UNCHANGED <<status, nav, socket, sequence, disturbed, timeouts>>

\* Slip: the fetch buffer is read whatever became of the call.
StoreUnchecked == Stores(IF fetched = None THEN -1 ELSE fetched.id)

\* simxGetFloatSignal stores the value, if there is one.
StoreAndSend ==
    Stores(IF Valued("navdata") THEN fetched.id ELSE navdata.demo[Cmd("navdata")])

\* The other steps of the call
InCall ==
    /\ status = "running"
    /\ LET t == "navdata" IN
        Enqueue(t) \/ Check(t) \/ Arrived(t) \/ Fetch(t) \/ Remove(t)
    /\ UNCHANGED navVars

CallTimesOut ==
    /\ status = "running"
    /\ timeouts < MaxTimeouts
    /\ TimeOut("navdata")
    /\ timeouts' = timeouts + 1
    /\ UNCHANGED <<status, nav, socket, sequence, navdata, failed, disturbed, packets>>

\* A PCMD arrives, the encoder wants a frame, or the wait of an other is over.
OtherBegins(t) ==
    /\ status = "running"
    /\ t # "navdata"
    /\ Begin(t) \/ TimeOut(t)
    /\ UNCHANGED navVars

OtherCalls(t) ==
    /\ status = "running"
    /\ t # "navdata"
    /\ \/ Lock(t) \/ Enqueue(t) \/ Peek(t) \/ Check(t) \/ Arrived(t) \/ Remove(t) \/ Read(t)
       \/ t = "video" /\ Copy
    /\ UNCHANGED navVars

\* Its reply goes to the one fetch buffer, and nobody waits any longer.
OtherFetches(t) ==
    /\ status = "running"
    /\ t # "navdata"
    /\ Fetch(t)
    /\ disturbed' = (disturbed \/ UnderWay)
    /\ UNCHANGED <<status, nav, socket, sequence, navdata, failed, packets, timeouts>>

\* The communication thread.  When a reply is lost, what an other sent since is
\* answered next, and that answer ends the wait.
Communicating ==
    /\ status = "running"
    /\ \/ /\ CommGate \/ CommSend \/ CommReceive \/ CommFail \/ CommDisconnect
          /\ UNCHANGED disturbed
       \/ /\ CommCorrupt
          /\ disturbed' = (disturbed \/ UnderWay)
    /\ UNCHANGED <<status, nav, socket, sequence, navdata, failed, packets, timeouts>>

NavNext ==
    \/ NavBind \/ NavBindFails \/ ClientAsk \/ Receive
    \/ Fill \/ StoreAndSend \/ InCall \/ CallTimesOut
    \/ \E t \in Threads : OtherBegins(t) \/ OtherCalls(t) \/ OtherFetches(t)
    \/ Communicating

\* Threads keep running and the simulator answers; a timeout need never occur.
NavFairness ==
    /\ WF_<<vars, navVars>>(NavBind \/ Receive \/ Fill \/ StoreAndSend \/ InCall)
    /\ WF_<<vars, navVars>>(\E t \in Threads : OtherCalls(t) \/ OtherFetches(t))
    /\ WF_<<vars, navVars>>(Communicating /\ ~faulted')

NavSpec == NavInit /\ [][NavNext]_<<vars, navVars>> /\ NavFairness

-----------------------------------------------------------------------------
(* A value that a call of the navdata thread returns without an error is the *)
(* answer to that call: not one that an earlier call, timed out, left behind, *)
(* and not what an other had in the fetch buffer.  This is so as long as no  *)
(* other fetches in the middle of a call for the packet and no reply is lost; *)
(* no lock keeps the others from it (vrep_navdata.c:19).                     *)
FreshUnlessDisturbed ==
    pc["navdata"] = "read" /\ Valued("navdata") /\ ~disturbed =>
        /\ fetched.id >= began["navdata"]
        /\ fetched.cmd = Cmd("navdata")

(* Of two packets that follow each other the second has the next number, up *)
(* to the width of the number.  Unless the others disturbed it, it has no   *)
(* value that is older than in the first, and if no call failed for it all  *)
(* its values are newer: although calls time out and are answered late, in  *)
(* between what the others send and even if the first was disturbed.  An    *)
(* older value would send the drone back in time.                           *)
PacketsInOrder ==
    \A i \in 2..Len(packets) :
        LET now == packets[i].navdata  before == packets[i - 1].navdata IN
        /\ now.sequence = (before.sequence + 1) % SeqModulus
        /\ ~packets[i].disturbed =>
            \A f \in Fields :
                /\ now.demo[f] >= before.demo[f]
                /\ ~packets[i].failed => now.demo[f] > before.demo[f]

(* A client that asked is sent packets as long as the simulator answers:    *)
(* neither the replies it waits for, behind the gate, nor the calls of the  *)
(* others, which end its wait or take the fetch buffer, stop the navdata    *)
(* thread for good.                                                         *)
PacketsFlow ==
    nav = "serve" ~> Len(packets) = MaxRounds["navdata"] \/ faulted \/ status # "running"
=============================================================================
