---------------------------- MODULE ControlServer ----------------------------
(***************************************************************************)
(* control/control_server.c and control_handlers.c: the thread that reads  *)
(* AT commands from datagrams.  It walks the command trie one character at *)
(* a time and calls the handler of the node reached at '='; the handlers   *)
(* of REF, PCMD and PCMD_MAG drop a command whose sequence number is below *)
(* the last one applied, the handler of CTRL queues the configuration.     *)
(* The network loses, duplicates and reorders datagrams.                   *)
(*                                                                         *)
(* Characters are grouped into symbols: names that share a prefix share    *)
(* the symbols of that prefix, so a node of the trie is the sequence of    *)
(* symbols that leads to it.  A symbol is a pair <<text, number>>.         *)
(***************************************************************************)
EXTENDS Naturals, Sequences, FiniteSets

CONSTANTS
    BufSize,        \* the symbols that fit into the receive buffer (300 bytes)
    SeqModulus,     \* sequence numbers are 0..SeqModulus-1 (2^32 in the code)
    MaxSent,        \* bound: datagrams the client sends
    MaxReceived,    \* bound: datagrams the server receives
    Shapes,         \* the datagrams a client composes: sequences of commands
    Clipped         \* TRUE: a client may also send any prefix of a datagram

Symbol(text) == <<text, 0>>
AT == Symbol("AT*")
EQ == Symbol("=")
CR == Symbol("CR")

\* create_control_command_trie: AT*C and AT*CO are nodes where names part, too.
NameOf ==
    [REF        |-> <<AT, Symbol("REF")>>,
     PCMD       |-> <<AT, Symbol("PCMD")>>,
     PCMD_MAG   |-> <<AT, Symbol("PCMD"), Symbol("_MAG")>>,
     FTRIM      |-> <<AT, Symbol("FTRIM")>>,
     CONFIG     |-> <<AT, Symbol("C"), Symbol("O"), Symbol("NFIG")>>,
     CONFIG_IDS |-> <<AT, Symbol("C"), Symbol("O"), Symbol("NFIG"), Symbol("_IDS")>>,
     COMWDG     |-> <<AT, Symbol("C"), Symbol("O"), Symbol("MWDG")>>,
     CALIB      |-> <<AT, Symbol("C"), Symbol("ALIB")>>,
     CTRL       |-> <<AT, Symbol("C"), Symbol("TRL")>>]

Names == DOMAIN NameOf
Moves == {"REF", "PCMD", "PCMD_MAG"}
Empties == Names \ (Moves \cup {"CTRL"})

\* The nodes of the trie, the root included.
Nodes == UNION {{SubSeq(NameOf[c], 1, k) : k \in 0..Len(NameOf[c])} : c \in Names}
Root == <<>>
HasHandler(n) == \E c \in Names : NameOf[c] = n
CommandAt(n) == CHOOSE c \in Names : NameOf[c] = n

SeqNums == 0..(SeqModulus - 1)

\* Arguments: a sequence number and, for CTRL, 4 or something else; or text
\* that does not start with a number.
ArgKinds == {"args", "args4", "text"}
Symbols == (UNION {{NameOf[c][i] : i \in DOMAIN NameOf[c]} : c \in Names})
           \cup {EQ, CR} \cup (ArgKinds \X SeqNums)

ASSUME ControlAssumption ==
    /\ BufSize \in Nat \ {0}
    /\ SeqModulus \in Nat \ {0}
    /\ MaxSent \in Nat
    /\ MaxReceived \in Nat
    /\ \A shape \in Shapes : shape \in Seq(Names \X ArgKinds) /\ shape # <<>>
    /\ Clipped \in BOOLEAN

\* A command as the client writes it.
Spell(c, kind, seq) == NameOf[c] \o <<EQ, <<kind, seq>>, CR>>

VARIABLES
    status,     \* "running" or "exit" (error())
    net,        \* datagrams on their way, kept so that they may arrive again
    sent,       \* how many datagrams the client sent
    clientSeq,  \* the last sequence number the client used
    received,   \* how many datagrams the server received
    buf,        \* the part of the receive buffer from buf_ptr on
    node,       \* the local variable n of control_listen
    seq_num,    \* seq_num of the session
    applied,    \* commands passed to at_ref and at_pcmd_mag, in order
    configs,    \* configurations queued for the controlcomm server
    current,    \* the datagram being parsed, and whether node was the root
    called      \* the commands whose handler was called for it

network == <<net, sent, clientSeq, received>>
outcome == <<seq_num, applied, configs>>
vars == <<status, network, buf, node, outcome, current, called>>

\* A datagram: what is in it, the commands it was composed of, and whether it
\* was clipped.
Datagram(cmds, symbols, whole) == [cmds |-> cmds, symbols |-> symbols, whole |-> whole]
NoDatagram == Datagram(<<>>, <<>>, FALSE)

TypeOK ==
    /\ status \in {"running", "exit"}
    /\ \A d \in net : d.symbols \in Seq(Symbols) /\ d.cmds \in Seq(Names) /\ d.whole \in BOOLEAN
    /\ sent \in 0..MaxSent
    /\ clientSeq \in SeqNums
    /\ received \in 0..MaxReceived
    /\ buf \in Seq(Symbols) /\ Len(buf) <= BufSize
    /\ node \in Nodes
    /\ seq_num \in SeqNums
    /\ applied \in Seq(Moves \X SeqNums)
    /\ configs \in Nat
    /\ current.datagram \in net \cup {NoDatagram} /\ current.fromRoot \in BOOLEAN
    /\ called \in Seq(Names)

Init ==
    /\ status = "running"
    /\ net = {}
    /\ sent = 0
    /\ clientSeq = 0
    /\ received = 0
    /\ buf = <<>>
    /\ node = Root
    /\ seq_num = 0
    /\ applied = <<>>
    /\ configs = 0
    /\ current = [datagram |-> NoDatagram, fromRoot |-> TRUE]
    /\ called = <<>>

-----------------------------------------------------------------------------
(* The client and the network                                               *)

\* The client numbers its commands one after the other, modulo the width of
\* the number.
SeqAfter(k) == (clientSeq + k) % SeqModulus

SpellAll(shape) ==
    LET upTo[k \in 0..Len(shape)] ==
            IF k = 0 THEN <<>>
            ELSE upTo[k - 1] \o Spell(shape[k][1], shape[k][2], SeqAfter(k))
    IN  upTo[Len(shape)]

Send(shape) ==
    LET cmds == [i \in DOMAIN shape |-> shape[i][1]]
        text == SpellAll(shape)
        sizes == IF Clipped THEN 0..Len(text) ELSE {Len(text)}
    IN  /\ sent < MaxSent
        /\ \E n \in sizes :
              net' = net \cup {Datagram(cmds, SubSeq(text, 1, n), n = Len(text))}
        /\ sent' = sent + 1
        /\ clientSeq' = SeqAfter(Len(shape))
        /\ UNCHANGED <<status, received, buf, node, outcome, current, called>>

-----------------------------------------------------------------------------
(* control_listen                                                           *)

\* bind, before the first datagram is waited for
BindFails ==
    /\ status = "running" /\ received = 0
    /\ status' = "exit"
    /\ UNCHANGED <<network, buf, node, outcome, current, called>>

\* recvfrom cuts a datagram that does not fit; a datagram without contents
\* makes it return 0, which counts as an error.
Receive(d) ==
    /\ status = "running"
    /\ buf = <<>>
    /\ received < MaxReceived
    /\ received' = received + 1
    /\ buf' = SubSeq(d.symbols, 1, IF Len(d.symbols) < BufSize THEN Len(d.symbols) ELSE BufSize)
    /\ status' = IF d.symbols = <<>> THEN "exit" ELSE status
    /\ current' = [datagram |-> d, fromRoot |-> node = Root]
    /\ called' = <<>>
    /\ UNCHANGED <<net, sent, clientSeq, node, outcome>>

Parsing == status = "running" /\ buf # <<>>

\* A symbol that no command continues with sends the walk back to the root;
\* it is not looked at again from there.
Walk ==
    /\ Parsing
    /\ Head(buf) # EQ
    /\ node' = IF Append(node, Head(buf)) \in Nodes THEN Append(node, Head(buf)) ELSE Root
    /\ buf' = Tail(buf)
    /\ UNCHANGED <<status, network, outcome, current, called>>

\* Slip: continue without moving on in the buffer.
EqualsStays ==
    /\ Parsing /\ Head(buf) = EQ /\ ~HasHandler(node)
    /\ node' = Root
    /\ UNCHANGED <<status, network, buf, outcome, current, called>>

EqualsWithoutCommand ==
    /\ Parsing /\ Head(buf) = EQ /\ ~HasHandler(node)
    /\ node' = Root
    /\ buf' = Tail(buf)
    /\ UNCHANGED <<status, network, outcome, current, called>>

AtCommand(names) ==
    /\ Parsing
    /\ Head(buf) = EQ
    /\ \E c \in names : node = NameOf[c]
    /\ node' = Root

\* control_empty_handler does not look at the arguments: they are walked
\* through like anything else.
CallEmpty ==
    /\ AtCommand(Empties)
    /\ buf' = Tail(buf)
    /\ called' = Append(called, CommandAt(node))
    /\ UNCHANGED <<status, network, outcome, current>>

\* control_read_args: the arguments end at CR, which stays in the buffer.
CrPositions == {i \in DOMAIN buf : buf[i] = CR}

\* Slip: the last CR of the buffer is taken for the end of the arguments.
LastCr == CHOOSE i \in CrPositions : \A j \in CrPositions : j <= i

EndOfArgs == CHOOSE i \in CrPositions : \A j \in CrPositions : i <= j
AfterArgs == SubSeq(buf, EndOfArgs, Len(buf))
Args == buf[2]

\* When sscanf finds no number, seq_num is an uninitialised local variable.
ReadSeq == {seq \in SeqNums : Args[1] = "text" \/ seq = Args[2]}

\* Slip: bytes_left is tested after it was decremented for the CR.
UnterminatedOffByOne ==
    /\ AtCommand(Moves \cup {"CTRL"})
    /\ CrPositions \subseteq {Len(buf)}
    /\ status' = "exit"
    /\ UNCHANGED <<network, buf, outcome, current, called>>

Unterminated ==
    /\ AtCommand(Moves \cup {"CTRL"})
    /\ CrPositions = {}
    /\ status' = "exit"
    /\ UNCHANGED <<network, buf, outcome, current, called>>

\* A handler that reads its arguments, up to what it does with them.
WithArgs(names) ==
    /\ AtCommand(names)
    /\ CrPositions # {}
    /\ buf' = AfterArgs
    /\ called' = Append(called, CommandAt(node))
    /\ UNCHANGED <<status, network, current>>

\* Slip: the number expected next is stored instead of the last one.
CallMoveStoresNext ==
    /\ WithArgs(Moves)
    /\ \E seq \in ReadSeq :
          /\ seq >= seq_num
          /\ applied' = Append(applied, <<CommandAt(node), seq>>)
          /\ seq_num' = seq + 1
    /\ UNCHANGED configs

\* Slip: the sequence number is stored and not compared.
CallMoveUnchecked ==
    /\ WithArgs(Moves)
    /\ \E seq \in ReadSeq :
          /\ applied' = Append(applied, <<CommandAt(node), seq>>)
          /\ seq_num' = seq
    /\ UNCHANGED configs

CallMove ==
    /\ WithArgs(Moves)
    /\ \E seq \in ReadSeq :
          \/ /\ seq >= seq_num
             /\ applied' = Append(applied, <<CommandAt(node), seq>>)
             /\ seq_num' = seq
          \/ /\ seq < seq_num
             /\ UNCHANGED <<applied, seq_num>>
    /\ UNCHANGED configs

\* No sequence number is checked; control, too, is uninitialised when sscanf
\* finds no number.
CallCtrl ==
    /\ WithArgs({"CTRL"})
    /\ \E request \in IF Args[1] = "text" THEN BOOLEAN ELSE {Args[1] = "args4"} :
          configs' = IF request THEN configs + 1 ELSE configs
    /\ UNCHANGED <<seq_num, applied>>

-----------------------------------------------------------------------------
ParseStep ==
    \/ Walk \/ EqualsWithoutCommand \/ CallEmpty \/ Unterminated \/ CallMove \/ CallCtrl

Next ==
    \/ BindFails
    \/ \E shape \in Shapes : Send(shape)
    \/ \E d \in net : Receive(d)
    \/ ParseStep

\* The control thread keeps running.  The network promises nothing.
Spec == Init /\ [][Next]_vars /\ WF_vars(ParseStep)

-----------------------------------------------------------------------------
(* Properties                                                               *)

IsPrefixOf(p, q) == Len(p) <= Len(q) /\ p = SubSeq(q, 1, Len(p))

\* Commands take effect in the order of their numbers whatever order they
\* arrive in, and the number kept is that of the last one that did: a
\* delayed REF or PCMD never overrides a newer one.
NewestWins ==
    /\ \A i, j \in DOMAIN applied : i < j => applied[i][2] <= applied[j][2]
    /\ applied # <<>> => seq_num = applied[Len(applied)][2]

\* The commands of the datagram that the parser can see: all, or all but the
\* first when the datagram before left the walk in the middle of a name.
Visible == IF current.fromRoot \/ current.datagram.cmds = <<>>
           THEN current.datagram.cmds ELSE Tail(current.datagram.cmds)

\* The handlers called are those of the commands of the datagram, in order;
\* when the buffer has been used up and neither the client nor recvfrom cut
\* the datagram, of every one of them.  One datagram cut short costs at most
\* the first command of the next.
ParsesCommands ==
    status = "running" =>
        /\ IsPrefixOf(called, Visible)
        /\ buf = <<>> /\ current.datagram.whole /\ Len(current.datagram.symbols) <= BufSize
              => called = Visible

\* Clients that send whole datagrams that fit the buffer never end the process
\* once the port is bound, and every datagram leaves the walk at the root for
\* the next.
WholeDatagramsAreSafe ==
    (\A d \in net : d.whole /\ Len(d.symbols) <= BufSize) =>
        /\ received > 0 => status = "running"
        /\ status = "running" /\ buf = <<>> => node = Root

\* Whatever is in a datagram, the server gets to the end of it.
ParseEnds == buf # <<>> ~> buf = <<>> \/ status = "exit"
=============================================================================
