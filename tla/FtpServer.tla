----------------------------- MODULE FtpServer ------------------------------
(***************************************************************************)
(* ftp/ftp_server.c and ftp/ftp_handlers.c: a listener thread, a session   *)
(* thread per client, and the data thread that a PASV command starts.  The *)
(* two threads of a transfer meet by retr_mutex and pthread_join: the      *)
(* session holds the mutex from its start, RETR stores the file name,      *)
(* unlocks it and joins the data thread, which locks it before it reads    *)
(* the name.  The data socket is created once, in ftp_listen, and copied   *)
(* into every session.                                                     *)
(*                                                                         *)
(* What a client sends is a stream of tokens: a command the trie knows, an *)
(* argument, or "EOL".  Bytes within a token, and arguments longer than    *)
(* read_args's buffer, are left out.                                       *)
(***************************************************************************)
EXTENDS Naturals, Sequences

CONSTANTS
    Sessions,       \* the clients, each with its session thread
    Lines,          \* Lines[s]: the lines s may send, sequences of tokens
    MaxLines,       \* bound: MaxLines[s] lines are sent by s
    Existing,       \* the arguments that name a file in the working directory
    Disciplined,    \* TRUE: clients keep the discipline defined below, and
                    \* the system lets the server bind and accept
    None            \* no argument, no owner, no file name

Commands == {"USER", "TYPE", "SIZE", "PASV", "RETR", "QUIT", "NOOP"}
AllLines == UNION {Lines[s] : s \in Sessions}
Tokens == UNION {{line[i] : i \in DOMAIN line} : line \in AllLines}
Names == Tokens \ (Commands \cup {"EOL"})

\* A disciplined client sends one command in a line: what follows it is no
\* command, TYPE names a type, and USER nobody or anonymous.
PoliteLine(line) ==
    /\ line[1] \in Commands
    /\ \A i \in 2..Len(line) : line[i] \notin Commands
    /\ \A i \in 1..(Len(line) - 1) : line[i] # "EOL"
    /\ line[1] = "TYPE" => line[2] # "EOL"
    /\ line[1] = "USER" => line[2] \in {"EOL", "anonymous"}

ASSUME FtpAssumption ==
    /\ MaxLines \in [Sessions -> Nat]
    /\ Disciplined \in BOOLEAN
    /\ None \notin Tokens \cup Sessions \cup {"freed"}
    /\ "freed" \notin Tokens
    /\ \A line \in AllLines :
          line \in Seq(Tokens) /\ line # <<>> /\ line[Len(line)] = "EOL"
    /\ Disciplined => \A line \in AllLines : PoliteLine(line)

VARIABLES
    status,     \* "running", "exit" (error()), "fault" (a signal), or
                \* "undefined": freed memory, a dead thread id or a reused
                \* descriptor was used
    dataBound,  \* data_sockfd is bound and listening
    session,    \* what each session thread does next
    client,     \* the control connection: "none", "connected", "gone", "quit"
    inbox,      \* inbox[s]: tokens sent by the client and not yet received
    sent,       \* how many lines each client sent
    replies,    \* the reply codes written to each client
    mutex,      \* retr_mutex of each session: "free", "session", "data"
    filename,   \* filename of each session: "unset", None (NULL), a name, or
                \* "freed" when it points into freed memory
    data,       \* what the data thread does next
    owner,      \* the session whose PASV started the data thread, or None
    peer,       \* the data connection: "none", "connected", "gone", "closed"
    served      \* how many files were sent over the data connection

vars == <<status, dataBound, session, client, inbox, sent, replies, mutex,
          filename, data, owner, peer, served>>

TypeOK ==
    /\ status \in {"running", "exit", "fault", "undefined"}
    /\ dataBound \in BOOLEAN
    /\ session \in [Sessions -> {"none", "start", "recv", "pasv_thread", "pasv_reply",
                                 "retr_unlock", "retr_join", "retr_reply",
                                 "free", "ended"}]
    /\ client \in [Sessions -> {"none", "connected", "gone", "quit"}]
    /\ inbox \in [Sessions -> Seq(Tokens)]
    /\ sent \in [Sessions -> Nat]
    /\ replies \in [Sessions -> Seq(150..550)]
    /\ mutex \in [Sessions -> {"free", "session", "data"}]
    /\ filename \in [Sessions -> Names \cup Commands \cup {None, "unset", "freed"}]
    /\ data \in {"none", "start", "accept", "lock", "open", "send", "close", "unlock",
                 "done", "joined"}
    /\ owner \in Sessions \cup {None}
    /\ peer \in {"none", "connected", "gone", "closed"}
    /\ served \in Nat

Init ==
    /\ status = "running"
    /\ dataBound = FALSE
    /\ session = [s \in Sessions |-> "none"]
    /\ client = [s \in Sessions |-> "none"]
    /\ inbox = [s \in Sessions |-> <<>>]
    /\ sent = [s \in Sessions |-> 0]
    /\ replies = [s \in Sessions |-> <<>>]
    /\ mutex = [s \in Sessions |-> "free"]
    /\ filename = [s \in Sessions |-> "unset"]
    /\ data = "none"
    /\ owner = None
    /\ peer = "none"
    /\ served = 0

-----------------------------------------------------------------------------
(* Helpers                                                                  *)

control == <<client, inbox, sent>>
transfer == <<data, owner, peer, served>>

Goto(s, from, to) ==
    /\ status = "running"
    /\ session[s] = from
    /\ session' = [session EXCEPT ![s] = to]

\* A step of a session that nobody outside of it sees.
Silent(s, from, to) ==
    Goto(s, from, to) /\ UNCHANGED <<status, dataBound, replies, control, transfer>>

\* write to the control connection of s.  When the client has gone it may
\* still succeed; otherwise SIGPIPE kills the process, or the caller tests
\* the result and calls error().  After QUIT the descriptor is closed: the
\* write fails, or goes wherever a descriptor of the same number leads now.
Write(s, code, failures) ==
    \/ /\ client[s] = "connected"
       /\ replies' = [replies EXCEPT ![s] = Append(@, code)]
       /\ UNCHANGED status
    \/ /\ client[s] = "gone"
       /\ status' \in {"running"} \cup failures
       /\ UNCHANGED replies
    \/ /\ client[s] = "quit"
       /\ status' \in {"undefined", IF "exit" \in failures THEN "exit" ELSE "running"}
       /\ UNCHANGED replies

Ignored == {"fault"}
Tested == {"fault", "exit"}

\* read_args: everything up to the end of the line, of which the handlers
\* look at the first word.
EolAt(q) == CHOOSE i \in DOMAIN q : q[i] = "EOL" /\ \A j \in 1..(i - 1) : q[j] # "EOL"

\* Slip: the end of the line is taken for an argument.
LastToken(q) == q[EolAt(q)]

FirstArg(q) == IF q[2] = "EOL" THEN None ELSE q[2]
ReadArgs(q) == SubSeq(q, EolAt(q) + 1, Len(q))

\* The next token completes command c in the trie; its handler leaves rest in
\* the stream and the session at to.
Handle(s, c, rest(_), to) ==
    /\ Goto(s, "recv", to)
    /\ inbox[s] # <<>>
    /\ Head(inbox[s]) = c
    /\ inbox' = [inbox EXCEPT ![s] = rest(@)]
    /\ UNCHANGED <<sent, transfer>>

\* The same for a handler that calls read_args, which waits for the whole line.
HasLine(s) == \E i \in DOMAIN inbox[s] : inbox[s][i] = "EOL"
Handles(s, c, to) == HasLine(s) /\ Handle(s, c, ReadArgs, to)

\* error(): the process ends, with nothing else changed.
Stop ==
    /\ status = "running"
    /\ status' = "exit"
    /\ UNCHANGED <<dataBound, session, control, replies, mutex, filename, transfer>>

-----------------------------------------------------------------------------
(* ftp_listen                                                               *)

\* The control port is taken: nobody has connected by then.
BindFails ==
    /\ ~Disciplined
    /\ \A s \in Sessions : client[s] = "none"
    /\ Stop

AcceptFails(s) ==
    /\ ~Disciplined
    /\ client[s] # "none"
    /\ session[s] = "none"
    /\ Stop

Accept(s) ==
    /\ client[s] # "none"
    /\ Goto(s, "none", "start")
    /\ Write(s, 220, Tested)
    /\ UNCHANGED <<dataBound, control, mutex, filename, transfer>>

-----------------------------------------------------------------------------
(* ftp_session: the loop                                                    *)

\* Slip: the session forgets to take retr_mutex.
StartUnlocked(s) == Silent(s, "start", "recv") /\ UNCHANGED <<mutex, filename>>

Start(s) ==
    /\ Silent(s, "start", "recv")
    /\ mutex' = [mutex EXCEPT ![s] = "session"]
    /\ UNCHANGED filename

\* Anything but a command leads the trie walk back to its root.
Skip(s) ==
    /\ \E token \in Tokens \ Commands : Handle(s, token, Tail, "recv")
    /\ UNCHANGED <<status, dataBound, client, replies, mutex, filename>>

\* recv returns 0 when the client closed the connection without QUIT, in the
\* loop or in the middle of a line that read_args waits for: error() ends the
\* process, the other sessions with it.
RecvFails(s) ==
    /\ session[s] = "recv"
    /\ client[s] = "gone"
    /\ inbox[s] # <<>> => Head(inbox[s]) \in {"USER", "TYPE", "SIZE", "RETR"} /\ ~HasLine(s)
    /\ Stop

-----------------------------------------------------------------------------
(* ftp_handlers.c: commands without a transfer                              *)

\* Only anonymous, or no name at all, gets an answer.
User(s) ==
    /\ Handles(s, "USER", "recv")
    /\ IF FirstArg(inbox[s]) \in {None, "anonymous"}
       THEN Write(s, 230, Ignored)
       ELSE UNCHANGED <<status, replies>>
    /\ UNCHANGED <<dataBound, client, mutex, filename>>

\* Without an argument strtok_r returns NULL, which the handler dereferences.
Type(s) ==
    /\ Handles(s, "TYPE", "recv")
    /\ IF FirstArg(inbox[s]) # None
       THEN Write(s, 220, Ignored)
       ELSE status' = "fault" /\ UNCHANGED replies
    /\ UNCHANGED <<dataBound, client, mutex, filename>>

Size(s) ==
    /\ Handles(s, "SIZE", "recv")
    /\ Write(s, IF FirstArg(inbox[s]) \in Existing THEN 213 ELSE 550, Ignored)
    /\ UNCHANGED <<dataBound, client, mutex, filename>>

\* Slip: the answer to an unsupported command is forgotten.
EmptySilent(s) ==
    /\ Handle(s, "NOOP", Tail, "recv")
    /\ UNCHANGED <<status, dataBound, client, replies, mutex, filename>>

\* NOOP stands for the 29 commands bound to ftp_empty_handler.  It does not
\* read its arguments: they stay in the stream and are looked up as commands.
Empty(s) ==
    /\ Handle(s, "NOOP", Tail, "recv")
    /\ Write(s, 202, Ignored)
    /\ UNCHANGED <<dataBound, client, mutex, filename>>

\* done is set, so the loop ends; the descriptor is closed and session_data
\* freed, whatever the data thread of the session still does with them.
Quit(s) ==
    /\ Handle(s, "QUIT", Tail, "free")
    /\ Write(s, 221, Ignored)
    /\ client' = [client EXCEPT ![s] = "quit"]
    /\ UNCHANGED <<dataBound, mutex, filename>>

Free(s) == Silent(s, "free", "ended") /\ UNCHANGED <<mutex, filename>>

-----------------------------------------------------------------------------
(* ftp_pasv_handler                                                         *)

\* Slip: a second bind of the data socket goes unnoticed.
PasvBindUntested(s) ==
    /\ Handle(s, "PASV", Tail, "pasv_thread")
    /\ dataBound' = TRUE
    /\ UNCHANGED <<status, client, replies, mutex, filename>>

\* data_sockfd is the same descriptor in every session, so only the first
\* PASV of the process can bind it.
PasvBind(s) ==
    /\ Handle(s, "PASV", Tail, "pasv_thread")
    /\ dataBound' = TRUE
    /\ status' = IF dataBound THEN "exit" ELSE status
    /\ UNCHANGED <<client, replies, mutex, filename>>

PasvThread(s) ==
    /\ Goto(s, "pasv_thread", "pasv_reply")
    /\ data' = "start"
    /\ owner' = s
    /\ UNCHANGED <<status, dataBound, control, replies, mutex, filename, peer, served>>

PasvReply(s) ==
    /\ Goto(s, "pasv_reply", "recv")
    /\ Write(s, 227, Ignored)
    /\ UNCHANGED <<dataBound, control, mutex, filename, transfer>>

-----------------------------------------------------------------------------
(* ftp_retr_handler                                                         *)

RetrName(s) ==
    /\ Handles(s, "RETR", "retr_unlock")
    /\ filename' = [filename EXCEPT ![s] = FirstArg(inbox[s])]
    /\ UNCHANGED <<status, dataBound, client, replies, mutex>>

\* Slip: the file name is stored, and the mutex kept.
RetrKeepsMutex(s) == Silent(s, "retr_unlock", "retr_join") /\ UNCHANGED <<mutex, filename>>

\* A second RETR unlocks a mutex that nobody locked again: without effect on
\* a default mutex.
RetrUnlock(s) ==
    /\ Silent(s, "retr_unlock", "retr_join")
    /\ mutex' = [mutex EXCEPT ![s] = "free"]
    /\ UNCHANGED filename

\* Slip: the session does not wait for the data thread.
RetrNoJoin(s) == Silent(s, "retr_join", "retr_reply") /\ UNCHANGED <<mutex, filename>>

\* data_thread of this session is 0 before PASV, and stale after one join:
\* joining it returns an error, which is ignored, or is undefined.
RetrJoin(s) ==
    /\ Goto(s, "retr_join", "retr_reply")
    /\ \/ /\ owner = s
          /\ data = "done"
          /\ data' = "joined"
          /\ UNCHANGED status
       \/ /\ owner # s \/ data = "joined"
          /\ status' \in {"running", "undefined"}
          /\ UNCHANGED data
    /\ UNCHANGED <<dataBound, control, replies, mutex, filename, owner, peer, served>>

\* filename points into args, which is freed.
RetrReply(s) ==
    /\ Goto(s, "retr_reply", "recv")
    /\ Write(s, 226, Tested)
    /\ filename' = [filename EXCEPT ![s] = "freed"]
    /\ UNCHANGED <<dataBound, control, mutex, transfer>>

-----------------------------------------------------------------------------
(* ftp_data_listen, on the data thread; owner is the session it was started *)
(* for                                                                      *)

DataGoto(from, to) ==
    /\ status = "running"
    /\ data = from
    /\ data' = to
    /\ UNCHANGED <<dataBound, session, control, owner>>

\* session_data is gone: QUIT freed it.
OwnerFreed == owner # None /\ session[owner] = "ended"

\* The thread uses memory that was freed.
DataUndefined(at) ==
    /\ DataGoto(at, at)
    /\ status' = "undefined"
    /\ UNCHANGED <<replies, mutex, filename, peer, served>>

\* data_sockfd, retr_mutex, filename and client_sockfd are in session_data.
DataTouchesFreed ==
    /\ OwnerFreed
    /\ \E at \in {"start", "lock", "open", "unlock"} : DataUndefined(at)

DataListen ==
    /\ DataGoto("start", "accept")
    /\ ~OwnerFreed
    /\ UNCHANGED <<status, replies, mutex, filename, peer, served>>

DataAccept ==
    /\ DataGoto("accept", "lock")
    /\ peer # "none"
    /\ UNCHANGED <<status, replies, mutex, filename, peer, served>>

DataAcceptFails ==
    /\ ~Disciplined
    /\ data = "accept"
    /\ peer # "none"
    /\ Stop

DataLock ==
    /\ DataGoto("lock", "open")
    /\ ~OwnerFreed
    /\ mutex[owner] = "free"
    /\ mutex' = [mutex EXCEPT ![owner] = "data"]
    /\ UNCHANGED <<status, replies, filename, peer, served>>

\* fopen of the name in filename, and the first reply.  A name in freed
\* memory, the one of an earlier RETR, names any file or none.
DataOpen ==
    /\ ~OwnerFreed
    /\ \/ /\ DataGoto("open", "send")
          /\ filename[owner] \in Existing \cup {"freed"}
          /\ Write(owner, 150, Tested)
       \/ /\ DataGoto("open", "close")
          /\ filename[owner] \notin Existing
          /\ Write(owner, 550, Ignored)
    /\ UNCHANGED <<mutex, filename, peer, served>>

\* Or the read of freed memory has some other effect.
DataOpenFreed == DataUndefined("open") /\ filename[owner] = "freed"

\* The file was read when it was opened.
DataSend ==
    /\ DataGoto("send", "close")
    /\ \/ /\ peer = "connected"
          /\ served' = served + 1
          /\ UNCHANGED status
       \/ /\ peer = "gone"
          /\ status' \in {"running"} \cup Tested
          /\ UNCHANGED served
    /\ UNCHANGED <<replies, mutex, filename, peer>>

DataClose ==
    /\ DataGoto("close", "unlock")
    /\ peer' = "closed"
    /\ UNCHANGED <<status, replies, mutex, filename, served>>

DataUnlock ==
    /\ DataGoto("unlock", "done")
    /\ ~OwnerFreed
    /\ mutex' = [mutex EXCEPT ![owner] = "free"]
    /\ UNCHANGED <<status, replies, filename, peer, served>>

-----------------------------------------------------------------------------
(* The clients                                                              *)

Said(s, code) == \E i \in DOMAIN replies[s] : replies[s][i] = code

\* Every line so far was received and answered.
Quiet(s) == session[s] = "recv" /\ inbox[s] = <<>>

\* What a disciplined client may send: one line at a time; PASV if nobody in
\* the life of the process sent one; RETR once, after PASV; QUIT not between
\* the two.  Nor does it leave without QUIT, or close the data connection.
PasvSent == dataBound \/ \E s \in Sessions : \E i \in DOMAIN inbox[s] : inbox[s][i] = "PASV"
MaySend(s, line) ==
    Disciplined =>
        /\ Quiet(s)
        /\ line[1] = "PASV" => ~PasvSent
        /\ line[1] = "RETR" => Said(s, 227) /\ ~Said(s, 226)
        /\ line[1] = "QUIT" => ~Said(s, 227) \/ Said(s, 226)

ServerUnchanged == UNCHANGED <<dataBound, session, replies, mutex, filename,
                               data, owner, served>>

ClientConnect(s) ==
    /\ status = "running"
    /\ client[s] = "none"
    /\ client' = [client EXCEPT ![s] = "connected"]
    /\ ServerUnchanged
    /\ UNCHANGED <<status, inbox, sent, peer>>

\* Bound: a client sends a line when the session has received the one before
\* (not: answered it).  What waits in the socket is invisible to the session.
ClientSend(s, line) ==
    /\ status = "running"
    /\ client[s] = "connected"
    /\ sent[s] < MaxLines[s]
    /\ inbox[s] = <<>>
    /\ MaySend(s, line)
    /\ inbox' = [inbox EXCEPT ![s] = @ \o line]
    /\ sent' = [sent EXCEPT ![s] = @ + 1]
    /\ ServerUnchanged
    /\ UNCHANGED <<status, client, peer>>

\* The client may leave without having sent the end of its line.
ClientLeave(s) ==
    /\ status = "running"
    /\ ~Disciplined
    /\ client[s] = "connected"
    /\ client' = [client EXCEPT ![s] = "gone"]
    /\ \E k \in {Len(inbox[s]) - 1, Len(inbox[s])} :
          inbox' = [inbox EXCEPT ![s] = SubSeq(@, 1, k)]
    /\ ServerUnchanged
    /\ UNCHANGED <<status, sent, peer>>

\* The client that was told the port of the data socket connects to it.
PeerConnect ==
    /\ status = "running"
    /\ peer = "none"
    /\ \E s \in Sessions : Said(s, 227)
    /\ peer' = "connected"
    /\ ServerUnchanged
    /\ UNCHANGED <<status, client, inbox, sent>>

PeerLeave ==
    /\ status = "running"
    /\ ~Disciplined
    /\ peer = "connected"
    /\ peer' = "gone"
    /\ ServerUnchanged
    /\ UNCHANGED <<status, client, inbox, sent>>

-----------------------------------------------------------------------------
SessionStep(s) ==
    \/ Start(s) \/ Skip(s) \/ RecvFails(s)
    \/ User(s) \/ Type(s) \/ Size(s) \/ Empty(s) \/ Quit(s) \/ Free(s)
    \/ PasvBind(s) \/ PasvThread(s) \/ PasvReply(s)
    \/ RetrName(s) \/ RetrUnlock(s) \/ RetrJoin(s) \/ RetrReply(s)

DataStep ==
    \/ DataListen \/ DataAccept \/ DataLock \/ DataOpen \/ DataSend
    \/ DataClose \/ DataUnlock
    \/ DataTouchesFreed \/ DataOpenFreed

\* What the system refuses the server.
Refused == BindFails \/ DataAcceptFails \/ \E s \in Sessions : AcceptFails(s)

ClientStep(s) ==
    \/ ClientConnect(s) \/ ClientLeave(s)
    \/ \E line \in Lines[s] : ClientSend(s, line)

Next ==
    \/ \E s \in Sessions : Accept(s) \/ SessionStep(s) \/ ClientStep(s)
    \/ DataStep \/ Refused
    \/ PeerConnect \/ PeerLeave

\* Threads that can run do run.  A client that was told a port connects to
\* it: without that the data thread waits in accept for ever.
Fairness ==
    /\ \A s \in Sessions : WF_vars(Accept(s)) /\ WF_vars(SessionStep(s))
    /\ WF_vars(DataStep)
    /\ WF_vars(PeerConnect)

Spec == Init /\ [][Next]_vars /\ Fairness

-----------------------------------------------------------------------------
(* Properties that hold for any client                                      *)

\* The data thread looks at filename only after RETR stored one, whenever
\* its peer connects: the session holds retr_mutex from its start on.
NoEarlyOpen ==
    data \in {"open", "send"} =>
        filename[owner] = "freed" \/ session[owner] \in {"retr_unlock", "retr_join"}

\* Only one PASV in the life of the process is answered, in whatever session.
OnePassive ==
    \A s, t \in Sessions : \A i \in DOMAIN replies[s], j \in DOMAIN replies[t] :
        replies[s][i] = 227 /\ replies[t][j] = 227 => s = t /\ i = j

-----------------------------------------------------------------------------
(* Properties that hold for disciplined clients                             *)

\* Clients that keep the discipline keep the server up: no error path, no
\* undefined behaviour, in any interleaving of sessions and data thread.
StaysUp == status = "running"

\* session_data is freed only after the data thread that uses it has ended.
NoUseAfterFree ==
    owner # None /\ session[owner] \in {"free", "ended"} => data \in {"done", "joined"}

Codes(s) == {replies[s][i] : i \in DOMAIN replies[s]}

\* 226 says that the transfer is over: the data connection is closed, and
\* what went over it is one file if 150 announced one, nothing otherwise.
SuccessMeansSent ==
    \A s \in Sessions : 226 \in Codes(s) =>
        /\ peer = "closed"
        /\ served = IF 150 \in Codes(s) THEN 1 ELSE 0

\* The data thread's own reply, 150 or 550, comes before the 226 of the session
\* thread, and finds a connection that QUIT has not closed.
RepliesInOrder ==
    data = "open" => ~Said(owner, 226) /\ client[owner] = "connected"

\* Every RETR of a client that connects to the port it was given ends with
\* 226: the mutex and the join never leave both threads waiting.
TransferEnds ==
    \A s \in Sessions : session[s] = "retr_unlock" ~> Said(s, 226)

\* A client that waits for the answer to each line is never left waiting for
\* good: the greeting, and at least one reply for every line it sent.
AnswersKeepUp ==
    \A s \in Sessions : Quiet(s) => Len(replies[s]) > sent[s]
=============================================================================
