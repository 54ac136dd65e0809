-------------------------------- MODULE Server --------------------------------
(***************************************************************************)
(* The control port and the controlcomm port together: the control thread  *)
(* parses datagrams (ControlServer), and its handler of AT*CTRL is the     *)
(* producer of the configuration queue (ConfigRelay).  While the handler   *)
(* reads, queues and posts, the parser does not go on; the sessions do.    *)
(* Either part can end the process.                                        *)
(***************************************************************************)
EXTENDS ConfigRelay

CONSTANTS BufSize, SeqModulus, MaxSent, MaxReceived, Shapes, Clipped

VARIABLES
    parser,     \* "running" or "exit": error() in the control thread
    net, sent, clientSeq, received, buf, node, seq_num, applied, configs, current, called,
    asked       \* the requests in the datagrams received

parserVars == <<parser, net, sent, clientSeq, received, buf, node, seq_num, applied,
                configs, current, called>>
controlVars == <<parserVars, asked>>
serverVars == <<vars, controlVars>>

Control == INSTANCE ControlServer WITH status <- parser

\* ControlAssumption, of the constants of the parser
ASSUME ServerAssumption ==
    /\ BufSize \in Nat \ {0}
    /\ SeqModulus \in Nat \ {0}
    /\ MaxSent \in Nat
    /\ MaxReceived \in Nat
    /\ \A shape \in Shapes : shape \in Seq(Control!Names \X Control!ArgKinds) /\ shape # <<>>
    /\ Clipped \in BOOLEAN

Alive == status = "running" /\ parser = "running"

ServerInit == Init /\ Control!Init /\ asked = 0

\* The commands AT*CTRL=...,4 of a datagram
Requests(d) ==
    {i \in 3..Len(d.symbols) : d.symbols[i][1] = "args4" /\ d.symbols[i - 2] = Control!NameOf.CTRL[3]}

ClientSends == (\E shape \in Shapes : Control!Send(shape)) /\ UNCHANGED <<vars, asked>>

\* The control thread is in its loop, not in a handler.
Looping == Alive /\ ctl = "listen"

ControlReceives ==
    /\ Looping
    /\ \E d \in net : Control!Receive(d) /\ asked' = asked + Cardinality(Requests(d))
    /\ UNCHANGED vars

ControlParses ==
    /\ Looping
    /\ \/ Control!Walk \/ Control!EqualsWithoutCommand
       \/ Control!CallEmpty \/ Control!Unterminated \/ Control!CallMove
    /\ UNCHANGED <<vars, asked>>

\* control_ctrl_handler: a request goes on in ConfigRelay.
ControlAnswers ==
    /\ Looping
    /\ Control!CallCtrl
    /\ IF configs' > configs THEN CtrlRequest \/ CtrlNoFile ELSE UNCHANGED vars
    /\ UNCHANGED asked

Handler == Alive /\ CtrlStep /\ UNCHANGED controlVars
Listener == Alive /\ CommStep /\ UNCHANGED controlVars
Waiting == Alive /\ (\E s \in Sessions : SessionSemWait(s)) /\ UNCHANGED controlVars
Session(s) ==
    /\ Alive
    /\ SessionPop(s) \/ SessionWrite(s) \/ SessionWriteFails(s) \/ SessionFree(s)
    /\ UNCHANGED controlVars
Peers == Alive /\ (\E s \in Sessions : ClientConnect(s) \/ ClientLeave(s)) /\ UNCHANGED controlVars

\* bind on the control port, accept on the controlcomm port
PortFails ==
    \/ Looping /\ Control!BindFails /\ UNCHANGED <<vars, asked>>
    \/ Alive /\ CommAcceptFails /\ UNCHANGED controlVars

ServerNext ==
    \/ PortFails
    \/ ClientSends \/ ControlReceives \/ ControlParses \/ ControlAnswers \/ Handler
    \/ Listener \/ Waiting \/ (\E s \in Sessions : Session(s)) \/ Peers

\* Threads that can run do run, as in the two parts.
ServerFairness ==
    /\ WF_serverVars(ControlParses \/ ControlAnswers \/ Handler)
    /\ WF_serverVars(Listener) /\ WF_serverVars(Waiting)
    /\ \A s \in Sessions : WF_serverVars(Session(s))

ServerSpec == ServerInit /\ [][ServerNext]_serverVars /\ ServerFairness

-----------------------------------------------------------------------------
\* From the datagram to the queue: when the control thread has worked off what
\* it received, every AT*CTRL=...,4 in it was handled once, however many are in
\* one datagram, whatever came with them and whatever the sessions do meanwhile.
AskedIsHandled ==
    Looping /\ buf = <<>> => requests = asked

\* What was written for a client, or to one that had gone
Answered == lost \cup UNION {WrittenFor(s) : s \in Sessions}

\* From the datagram to the client: once a session is there, all that was asked
\* for is handled, queued, taken and written, but for as many configurations as
\* sem_init wiped out posts: for those no session is ever woken.
AskedIsWritten ==
    (\E s \in Sessions : session[s] # "none") /\ asked > 0
        ~> ~Alive \/ (requests = asked /\ Cardinality((1..requests) \ Answered) <= erased)
=============================================================================
