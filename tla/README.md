# drone_simulator: a verification project

The program (`src/src`) lets software written for an AR.Drone talk to a drone
simulated in V-REP.  `server.a` starts five servers, each on a thread of its own,
and speaks the drone's protocols to a client.  This directory models the
program's own C code in TLA+, checks the models with TLC and proves what it can
with TLAPS.  (Paths below are relative to the directory that holds `src/`.)

## 1. Inventory

| component | source | state | operations | hard parts | module |
|---|---|---|---|---|---|
| startup | `main.c`, the `vrep_init_*`, `webcam_init`, `print_control_init` functions | `vrep_init`, client ids, `data_options` | parse options, start the threads, join | options in any order and number; what a thread is started with | `Startup` |
| options file | `util/config.c` | trie of options, `sscanf`'s buffers | read | buffers reused between lines, no terminating zero | `ConfigFile`, `OptionMap` |
| command and option trie | `data_structures/trie.c` | ternary tree | insert, step by one character | prefixes, the empty key | `Trie` |
| control server | `control/control_server.c`, `control_handlers.c` | trie node reached, bytes left, `seq_num` | parse a datagram, run the handler of a command | datagrams lost, doubled, reordered, cut; parse state kept across datagrams | `ControlServer` |
| configuration queue | `data_structures/linked_list.c` | head, tail, elements, `list_mutex` | `list_add`, `list_pop` | threads, freed and reused elements | `LinkedList`, `FifoList` |
| controlcomm server | `controlcomm/controlcomm_server.c` | `data_list`, `data_semaphore`, sessions | accept, wait, pop, write, free | semaphore initialised by a racing thread, clients that leave | `ConfigRelay`, `Server` |
| FTP server | `ftp/ftp_server.c`, `ftp_handlers.c` | per session: `data_sockfd`, `retr_mutex`, `filename`, `done` | commands; passive data transfer on a second thread | thread handshake by mutex and join, a socket shared by all sessions, session freed under the data thread | `FtpServer` |
| remote API client | `libs/vrep/extApi.c` | message buffers, wait flag, message ids | send, receive, blocking, streaming and buffered calls | shared by every thread of a client id | `VrepClient` |
| navdata server | `navdata/navdata_server.c`, `vrep_navdata.c` | `sequence`, the packet | wait for a first datagram, then fill and send for ever | sequence seeded by the client, wrap-around, failed calls | `NavdataServer` |
| video server | `video/video_server.c`, `vrep_video.c`, `webcam_video.c` | encoder, frame number, image pointer and size left | accept one client, read, encode, send | `vrep_mutex` held while polling; piecewise copy of a shared image buffer; two ways to the socket | `VideoServer`, `VrepClient` |

Interactions: the control thread hands configurations to the controlcomm sessions
through the queue and a semaphore (`Server`); control, video and navdata share one
remote API client (control and video under `vrep_mutex`, navdata without;
`VrepClient`, `NavdataServer`); control and FTP parse with the trie;
`configuration` is read at startup, by the control handler and served by FTP; every
`error()` ends the process under all threads.

What makes each component correct:

- startup: a server is started with the functions, the trie and the connection that its
  option needs (which for navdata depends on the order of the options, `main.c:96`); options
  file: the options read are those written; trie: it is the map its
  insertions describe;
- control server: an older movement command never overrides a newer one, whatever
  the network does; the handlers called are the commands sent, and a damaged
  datagram does not spoil more than its neighbour;
- configuration queue: it is a queue, also when threads interleave inside it and
  freed addresses come back; who pops an element owns it;
- controlcomm server: one token of the semaphore for one element, so that no session
  finds the list empty; no configuration is skipped or sent twice, from the datagram
  that asks for it to the client;
- FTP server: the data thread never uses a name that is not there or a session that
  is gone; replies come in the right order; a transfer ends;
- remote API client: an awaited reply is found or the caller is told; nobody reads
  another caller's reply; waits, gate and mutex never block each other for good;
- navdata server: packets follow each other in number and in time;
- video server: what the client gets is the simulator's frames, to the byte.

## 2. Plan

Done, in this order: `LinkedList` and `FifoList`; `ConfigRelay`; `ControlServer` and
`FtpServer`; `VrepClient`; `VideoServer`; `NavdataServer`; `Trie`, `OptionMap`,
`ConfigFile` and `Startup`; `Server`, which composes `ControlServer` with
`ConfigRelay`.

Left:

- messages of the remote API split over several packets, and the handshake of
  `simxStart`: `VrepClient` starts with a connected client and whole messages.

## 3. The modules

**`LinkedList`** has the variables of `struct linked_list` and `struct list_elem` (the
fields are functions of the address) and one action per statement of `list_add` and
`list_pop`.  `pc` is the statement a thread is about to execute, `e` its local variable.
`calloc` takes any address that is not allocated, so freed ones come back.  The popper
uses its element and frees it outside the mutex, as `controlcomm_session` does.
`ImplementsFifo` maps it to **`FifoList`**: an element counts as queued once it is linked
(`AddLink`), with the argument of `list_add` until the `data` field is assigned; as
handed over from `PopUnlink` until it is freed.

**`ConfigRelay`** uses `FifoList`'s actions for the list.  `ctl` is where the control
thread is in `control_ctrl_handler`, `comm` where the listener is in `controlcomm_listen`,
`session` where each session is in its loop.  `data_semaphore` works before `sem_init`
(a zeroed global is a semaphore of value 0 on Linux), and `sem_init` erases what was
posted before.  As `list_add` loses the length, the writes carry no bytes: `written`
records which configuration a write was made for.  `bind` and `accept` may fail and end the
process here, as in every server below.

**`ControlServer`** is `control_listen` with the trie walk and the handlers.  A symbol stands for
the characters that names with a common prefix share, so that every node at which names part is a
node of the model (`AT*C` and `AT*CO` among them).  `buf` is what is left of the datagram, `node`
the local variable `n`, which outlives the datagram as in the code.  An uninitialised number takes
any value.  The network keeps what was sent, and `Receive` takes any of it: datagrams are lost,
doubled and reordered.

**`Server`** is the two together: `ControlServer`'s `CallCtrl` is `ConfigRelay`'s
`CtrlRequest` or `CtrlNoFile`, the parser stands still while the handler reads, queues and
posts, the listener, the sessions and the clients go on, and either part ends the other.
`asked` counts the requests in the datagrams received.

**`FtpServer`** has one action per command handler, and one per step of the handlers that
meet the data thread (`PASV`, `RETR`).  `retr_mutex` is taken by the session when it
starts; `RETR` releases it and joins.  `data_sockfd` is one socket for all sessions, so
that a second `bind` fails.  A client's stream is a sequence of tokens, and may stop in the
middle of a line.  A reply to a client that said QUIT goes to a closed descriptor, which fails,
or to whatever has its number by then.  `status` is "undefined" when that happens, or when freed
memory or a dead thread id is used: what the program does after that is not described, and
the properties speak of the time before.

**`VrepClient`** is the client's outbox, inbox and fetch buffer, its communication
thread, and the calls of `vrep_at_pcmd_mag`, `vrep_fill_navdata_demo` and
`read_vrep_stream`.  What the client does under its own resource lock is one action; the
test whether to wait (`Check`), the wait (`Arrived`, `TimeOut`) and the reading of the
fetch buffer (`Read`, `Copy`) are actions of their own because the code does them
without the lock.  Control and video hold `vrep_mutex` for a whole round, navdata does
not.  Each reply of a message has an error flag of its own.  `faulted` remembers that a reply was
corrupt or refused, or the connection lost.

**`NavdataServer`** extends it with `navdata_listen`: the first datagram gives the address
and the sequence number, a round of `VrepClient`'s navdata thread fills a packet
(`StoreAndSend` keeps the old value of a field when its call failed), and the packet is
sent.  Navdata is never alone: only `-v` and `-c vrep` connect (`main.c:96`), so that control or
video, or both, use the same client (`OtherBegins`, `OtherCalls`, `OtherFetches`), without a
lock against navdata.  `disturbed` remembers that in the middle of a call for the packet one of
them fetched a reply, which ends navdata's wait, or that a reply was dropped.  The value a reply
carries is the id of its message, so that values show how old they are.

**`VideoServer`** is `video_listen`, `send_video` and `read_vrep_stream`.  A byte is a frame's
number and its place in the frame; FFmpeg is what these functions use of it: a buffer with
some room that `read_vrep_stream` fills, a decoder that cuts pictures off its front, and an
output buffer that the muxer flushes after every packet.  The header goes to the
descriptor directly.  A camera, a decoder, an encoder or a conversion that is not to be had ends
the process.  The frame itself comes from `VrepClient`'s round.

**`Trie`** is the ternary tree as a function from paths to nodes.  `Walk` is the loop that
insertion and lookup have in common, as a recursive function of the number of its steps: from a
node, a character goes `InsertWay` (a fresh node takes it) or `ChildWay`, and an insertion
allocates what it does not find where a lookup gives up.  `Insert` changes the nodes of the walk,
`Lookup` reads the one it ends at; **`ConfigFile`** is `config_read_options` with what `sscanf`
leaves in its buffers when a line does not match, and whatever `strtok_r` may find behind the
buffer: the last line goes on there if it has no newline, and any number of lines may follow it.
`ImplementsMap` maps the two to **`OptionMap`**, a function from names to values. **`Startup`** is
the rest of `main`: one action per option, one per trie built, and one per server started or
passed over.  `parsed` is the command line so far.

## 4. The runs

| run | question | bounds | distinct states |
|---|---|---|---|
| `linked_list` | is the list a queue, whatever the interleaving? | 2 adders, 2 poppers, 3 addresses, 2 items | 68,031 |
| `linked_list_sized` | does it hand over lengths? **No** | 1 adder | |
| `server` | does what a datagram asks for reach a client, once and in order? | 2 sessions, 2 datagrams of 2 shapes, 4 requests | 266,476 |
| `ftp_clients` | what holds for clients that do as they like? | a client with 3 lines out of 10, one with 2 out of 3 | 6,109,561 |
| `ftp_disciplined` | are clients that keep the rules served, and in order? | 2 sessions, 3 lines each | 12,875 |
| `control_clipped` | does the parser recover, and does the newest command win? | 2 datagrams sent, 3 received, numbers modulo 3, buffer of 11 symbols | 226,923 |
| `vrep_locked` | are calls under the mutex answered? | 1 PCMD, 2 frames, 1 idle message, all faults | 426,467 |
| `navdata` | do packets follow each other next to control, and go on? | 2 packets, 1 PCMD, 1 timeout, numbers modulo 2, no faults | 1,662,070 |
| `vrep_unlocked` | are unlocked calls answered? **No** | 1 PCMD, 2 packets, no faults | |
| `vrep_no_image` | is a frame always an image? **No** | 2 frames, no faults | |
| `startup` | is the file read, the trie a map of it, and does each server get what its option needs? | 3 lines of 7 kinds, 2 stray ones, with the options 5 in all | 293,381 |
| `video` | does the client get the frames? | pictures of 3 bytes, frames of 0 to 4, room for 1, 2 or 4, 4 frames | 12,178 |

Why the bounds are enough to be interesting:

- *LinkedList*: three addresses and reuse give a list of three, a list of one while
  another element is popped, and the address of a freed element on the list again; with
  one thread more on each side nothing new can be inside the mutex.
- *Server*: one of the shapes asks twice, so that four requests can be under way, more than
  there are sessions; both sessions can be past `sem_wait` together, and a post can be erased
  before the listener starts.  Its instance of `ControlServer` is not cut; cuts are
  `control_clipped`'s question.
- *FtpServer*: three lines allow PASV, RETR and QUIT or a second RETR, and one session's
  PASV meets the other's.  A client has one unread line in the socket at a time, but does
  not wait for answers, unless it is disciplined.  NOOP stands for the 29 commands with the
  same handler.
- *ControlServer*: two datagrams received three times include a duplicate that arrives
  after a newer one; numbers modulo 3 wrap; a buffer of 11 symbols holds some combinations of two
  commands whole (among them one with arguments that no handler reads before a command that
  must be seen) and cuts others, and a client may cut any of them anywhere.
- *VrepClient, NavdataServer*: a first and a second round, so that a late answer can meet a
  later call; four signals set and seven read stand as two each: one to be the last and
  one not.  Numbers modulo 2 wrap with the second packet.  With one PCMD in between, a reply can
  be fetched at every point of a packet, and with one call that times out (`MaxTimeouts`) its
  late answer can meet each of the calls after it.  Video next to navdata, all three threads at
  once, and faults next to navdata are left to the proofs, which make no difference between
  them; a second datagram is never read.
- *Startup*: the names are prefixes of each other and sort to either side, a value is longer
  than the one after it, and there is a line of every kind `sscanf` distinguishes; two
  stray lines are one that follows on another.  Lines and options have a bound together
  (`MaxInput`), as what the file said has no influence on the switch: the longest file comes with no
  options, and after an empty file there are five, each server's, one that has no effect and one
  too many.
- *VideoServer*: frames smaller than, equal to and larger than a picture, rooms that divide a
  frame and that do not, one that holds it exactly and one with room to spare.

Properties that need a word:

- `TokenConservation` counts the posts erased by `sem_init`: the control thread may post
  before the listener thread gets there.  `AskedIsWritten` says that once a session is there all
  that was asked for is handled and, but for as many configurations as posts were erased,
  written to a client, or to one that has gone (`Answered`).
- `ExactlyOnce` counts a configuration written to a client that left as lost: the session
  of a client that left is never told and goes on taking configurations.
- `NoEarlyOpen` and `OnePassive` hold for any client.  `StaysUp`, `NoUseAfterFree`,
  `SuccessMeansSent`, `RepliesInOrder`, `AnswersKeepUp` and `TransferEnds` are for disciplined
  ones, and a system that lets the server bind and accept: one line at a time with one command in
  it, TYPE with its argument, USER nobody or anonymous, one PASV in the life of the process, one
  RETR after it, QUIT not between the two, no leaving without QUIT (`PoliteLine`, `MaySend`).
  Without the discipline the program exits, answers on a closed descriptor, or uses freed memory;
  the hazards in `PROJECT.json` say where, and no property says that it does not.
- `ParsesCommands`: a datagram that ends inside a name costs at most the first command of
  the next; `WholeDatagramsAreSafe`: only a cut datagram can end the process.
- `PacketsInOrder` relates a packet to the one before: the number is the next one, always; and
  unless the packet was disturbed, a field whose call failed repeats its value and no field goes
  back in time.  In a disturbed packet one may: when another caller ends navdata's wait, an answer
  left over from a call that timed out can be taken for the answer to the call under way.
  `FreshUnlessDisturbed` says the same of each call.
- `Wiring` covers navdata with what the code does: `-n vrep` behind an option that connects gets the
  connected id, and before it one that was never assigned (`main.c:96`).  `src/README.md:14`
  lets a reader expect that any combination of the options works; `Wiring` says which do not: those
  with `-n vrep` and no connecting option before it.
- `PlainFileIsRead` is about files in which no value is shorter than the one before, as
  `sscanf` with `%80c` leaves the end of the longer one, and whose end was not missed;
  `ImplementsMap` is about all files.
- `StreamIsFrames` holds for frames of any size: pictures are cut across frames when the
  sizes differ, and no byte is lost but the last ones before an empty frame, which ends the
  stream.

What the violations show:

- `list_add` ignores its `length` (`linked_list.c:30`), so a client of the
  controlcomm port is never sent a byte.
- `vrep_fill_navdata_demo` calls the simulator without `vrep_mutex` (`vrep_navdata.c:19`):
  a call of the control thread makes its wait return at once, without a reply and without
  a timeout.
- `read_vrep_stream` looks for negative error codes (`vrep_video.c:57`), and there are
  none: when the first image does not come, the program goes on without one.

**Fairness.**  Threads that can run do run (weak fairness of each thread's steps): the code
runs each on a thread of its own under a preemptive scheduler.  Beyond that:

- `LinkedList`: fairness only inside a call; nobody is promised the mutex.
- `Server`: `sem_wait` wakes *some* waiting session, so its fairness is over all of
  them; the network, connections and departures promise nothing.
- `FtpServer`: in `TransferEnds`, the client that was told the port connects to it; without
  that the data thread waits in `accept` for ever.
- `ControlServer`: the parser only.  The network promises nothing.
- `VrepClient`, `NavdataServer`: the communication thread, with a simulator that answers.
  `TimeOut` has no fairness: `RoundsEnd` and `PacketsFlow` show that nothing *needs* a
  timeout, until `faulted`.  A thread is not promised `vrep_mutex` when others take it again
  and again; with bounded rounds that does not show.
- `VideoServer`: the video thread's steps but the failing ones, which no fairness calls for, with a
  simulator that has a next frame; the client promises nothing.
- `Startup`: `main` is the only thread, and runs.

`CHECK_DEADLOCK FALSE` is set where the modelled program may stop: it ended (`error()`), or
the clients have nothing more to send.

## 5. The proofs

All are for any values of the constants, under the named assumptions of the modules.

- **`LinkedListProofs`**: `TypeCorrect`, `WellFormedAlways`, `PoppedIsPrivateAlways`,
  `NoLeakAlways` and `ListImplementsFifo`, for any adders, poppers, addresses and items.
  What the list holds is what following `next` from `head` reaches, and that needs no
  recursion: a walk is a sequence along `next`, the chain is the walk from `head` to
  `NULL`, and there is one at most, as two would differ at a first place.  `ListInv` says that
  there is one at every statement (`ChainInv`), where `tail` lags behind it
  (`TailInv`), which nodes an adder and a popper have on or off the list at each statement
  (`AddInv`, `PopInv`), and that a node without its data is still an adder's (`DataInv`).
  With it each statement is an action of `FifoList` or a stutter.
- **`ServerProofs`**, about `ConfigRelay`: `TypeCorrect`, `TokensConserved` and `PopsAreSafe`, for
  any finite set of sessions and any number of requests.  The inductive invariant `IndInv` is
  `TypeOK`, `TokenConservation`, that a session holds an element exactly between `list_pop`
  and `free` (else `FifoPop` would not be enabled when the session pops), and that a
  configuration to be added has been requested.  The sessions past `sem_wait` are
  counted with lemmas on cardinality; the pop itself needs `TokenConservation` to know
  that the list is not empty.  `WritesInOrder`: each client is written its configurations in
  the order of the requests.  `InRequestOrder` is not inductive: `OrderInv` adds that the
  list is sorted, that what a session has written or holds was requested before
  everything on the list, and that the configuration to be queued next is newer than all
  of these; it builds on `IndInv`.  `ExactlyOnceAlways`: the places a configuration can be in
  (about to be queued, the list, each session and what it wrote, lost) cover `1..requests` and
  are disjoint in pairs (`PlaceInv`), so that their cardinalities add up to `requests`.
- **`ServerProofs`**, about `Server`: `ServerKeepsTokensAndOrder`: every step of `Server` is a step of
  `ConfigRelay` or leaves its variables alone, so that its invariants are the
  composition's, whatever the datagrams; `ServerDeliversOnce` gives `ExactlyOnce` in the same way.
  `EveryRequestIsHandled`: every step is a step of `ControlServer` or leaves that alone, too, so
  that `ControlServerProofs` (the instance `Parse`) says what each does to the requests that
  stand in the rest of the datagram (`Parse!Waiting`).  `AskedInv`: what was asked for is what
  was handled and what is waiting there.  The hypothesis is that every datagram is `Plain`:
  whole, not longer than the buffer, and with a number for the argument of AT*CTRL (without one
  the handler goes by an uninitialised variable).  A datagram that was cut can leave the walk
  in the middle of a name, and then the next datagram's first request is lost.
- **`ControlServerProofs`**: `NewestWinsAlways`, for any network, datagrams, buffer and
  modulus.  `OrderInv` keeps the numbers of the applied commands in the range of the
  variable, sorted, with the last one in `seq_num`.  `TypeCorrect`, `ParsesCommandsAlways` and
  `WholeDatagramsAreSafeAlways`, for any commands, buffer and network, with datagrams cut
  anywhere.  The text of a datagram is put together by a recursive function, `SpellAll`; that it
  is its commands one after the other, each of them its name, `=`, the arguments and the
  CR (`Laid`), is proved by taking the least length for which it were not.  `ParseInv` says
  that the parser stands after some number of symbols of some command (`At`): what is left in
  the buffer starts there (`BufAt`), the walk has followed the name so far, or is back at the
  root, or is lost in the first command as the last datagram ended in a name (`NodeAt`), and the
  handlers called are those of the commands before it (`CalledAt`).  Only a datagram that was
  cut can end the process (`WholeInv`, `UnterminatedIsCut`).  `AskInv`, for `ServerProofs`: with
  plain datagrams the parser is never behind an `=` of AT*CTRL outside its handler, so that
  no request is walked over.
- **`FtpServerProofs`**: `NoEarlyOpenAlways` and `OnePassiveAlways`, for any clients.  `MutexInv`
  says that a session has `retr_mutex` from its start until the end of its first RETR, and that a
  data thread inside the mutex finds its session between unlock and join (`NoEarlyOpen`);
  `PassInv` that at most one session is past a successful `bind`, and that nobody said 227 before
  it (`OnePassive`).
  `TypeCorrect`, for any clients: what is left in a socket ends in the end of a line, so that the
  tokens a handler takes off are there (`QueueInv`).  For disciplined clients (the hypothesis
  `Disciplined`, under which `ftp_disciplined` runs): `StaysUpAlways`,
  `NoUseAfterFreeAlways`, `SuccessMeansSentAlways`, `RepliesInOrderAlways` and
  `AnswersKeepUpAlways`.  None of them is
  inductive alone, as each rests on what the two threads know of each other.  `PoliteInv`
  says which commands can be waiting in a socket and what the client had been told before it
  sent them (`LineInv`), that the data thread belongs to the session that answered or is
  answering PASV (`OwnerInv`), that it ends between that session's RETR and its 226, and only
  then may the session be freed (`StepInv`), what was served by the time of each reply
  (`ServedInv`), and that a session owes one reply at most (`AnswerInv`).
- **`VrepClientProofs`**: `OwnBufferAlways`, for control and video (the hypothesis `Unlocking`:
  no navdata thread), any number of rounds and any faults.  `OwnBuffer` is not inductive:
  `BufferInv` adds that exactly the holder of `vrep_mutex` is inside a round (`MutexInv`),
  that the fetch buffer keeps the reply from the fetch until the call returns
  (`ReplyInv`), and that an image pointer exists only while the video thread holds the
  mutex and the buffer is an image (`ImageInv`).  `FetchStep`, the only writer of the
  buffer, and `ReadStep`, which may give up the mutex, are the steps that need it.
  Also `TypeCorrect`, for any threads and faults; and `RepliesOrTimeoutAlways`
  and `ReadBeforeNextAlways` for callers one at a time (the hypothesis
  `SingleFile`: `vrep_mutex` around every round, or navdata alone; without it
  `vrep_unlocked` shows the first to be false), any number of rounds and any faults.  In
  `ReplyWaitInv` a call that waits is `Pending` (its command is in the outbox, or on
  the wire in the last message), `Answered` (its reply is in the inbox behind the gate) or
  `Dropped` (the message was lost, and only the timeout is left).  What keeps a late
  answer from ending a later wait is that replies carry the id of their message and
  that `lastId` stays below the id of a pending call; a streamed image could
  raise it, so that the invariant also says that nobody waits once streaming began
  (`StreamInv`, `NoStream`).
- **`NavdataProofs`**: `PacketsInOrderAlways` and `FreshUnlessDisturbedAlways`, next to any other
  callers (the hypothesis `Serving` only says that there is a navdata thread): any number of packets
  and rounds, any `SeqModulus`, and any faults.  `ReplyWaitInv` is of no use here, as it is about
  callers one at a time.  `CallWaits` says what is left of it: as long as nobody disturbed the
  packet, the call waits for its own message or, because others asked since, for a later one, and
  its command is unanswered (`Unanswered`) or what is in the inbox for it is new (`AnswerIsNew`);
  `CallReturns` that what was then fetched is the answer.  `PacketInv` adds that what is stored is
  older than the call under way (`AgeInv`), what the packet being filled owes to the last one sent in
  number (`NumberInv`) and, field by field, in value (`ValueInv`).
- **`VideoServerProofs`**: `CopiesInsideFrame`, for any sizes of frame, picture and room.  The
  invariant adds the types and that the pointer is at the front when nothing is left.
  `StreamIsFramesAlways`, for the same and any number of frames.  `StreamInv`: what is left of
  the current frame is the end of all the bytes fetched (`LeftBytes`), headers and payloads
  alternate and are as many as pictures were made (`Paired`), and the bytes of the payloads,
  the picture being sent and the input are all that was handed over (`Accounted`).  The bytes of
  all frames and of all payloads are `FlattenSeq` of the community modules, a recursive function:
  that one more frame or picture appends its bytes is proved by a least counterexample.

- **`StartupProofs`**: `InsertedIsFound`, for any names, values and tree that insertions made
  (`Tree`: the parent of every node is there, and has its character).  A walk ends before
  its steps run out: a path inside the tree has fewer steps than the tree has nodes
  (`Depth`, an injection from the steps to the nodes), and off the tree every step uses up a
  character (`WalkReachesEnd`).  An insertion gives the nodes on its way characters, and changes
  none (`NamesKept`), so that a lookup for the name goes the same way (`PathIsNamed`) and one
  that ends at an older node still does (`OldWayKept`); two names cannot end at the same node
  (`NodeHasOneName`).  That smaller characters are to the left is nowhere needed: it is enough
  that insertion and lookup compare in the same way.  `OptionsAreMap`, the refinement, for
  files of any length: a line read is a `Put`, any other step a stutter, and the tree stays one
  that insertions made (`ConfigInv`).  `PlainFilesAreRead`: `PlainInv` says that while the file
  is plain the value buffer holds the last line's value, which a longer one covers
  entirely, and that for every name the tree has the value of the line in force.
  `WiringAlways`, for any number of options: `OptionsFit` says what the options parsed so far have
  come to (each server's functions, `vrep_init` and the connections, the id each was given),
  `ServersFit` which tries are built and which servers started by the time `main` is at each
  stage.  Where these proofs need induction on numbers (the walk's
  recursion, the length of a path), it is stated with sets: `StepsUp` and `StepsDown`, from
  `LeastNumber`.

Only model-checked: all liveness properties (`MutexReleased`, `AskedIsWritten`, `TransferEnds`,
`ParseEnds`, `RoundsEnd`, `PacketsFlow`, `EveryFrameIsSent`), which TLAPS cannot prove.  Every
invariant, action property and refinement of the passing runs has its theorem.

## 6. Not modelled

- FFmpeg (`src/FFMPEG`, and its headers once more in `src/src/libs/ffmpeg`): vendored, and
  nearly all of the repository's lines; `VideoServer` has the few calls the program makes as
  external.  The V-REP remote API beyond what the program calls (some 150 wrappers of the
  same functions, sockets and locks of each platform).  Most of the repository is
  third-party code of these two kinds, so that the share of it that models can cover
  is small; of the program's own C code nearly all is.
- The remote API's packets and its connection handshake (section 2).  The simulator is
  what the communication thread sees of it, and the Lua scripts that fly the drone inside
  V-REP are floating-point control with no protocol.
- `print_control.c` prints its arguments.  `control_config_handler` and the three limit
  handlers are not in any trie the server builds, and `config_set_option` has no other
  caller; `config_write_options` and `iterate_key_value_pairs` have none at all.
- Bytes: names are symbols, tokens or short sequences of numbers, files and signals have no
  contents; the checksum of a navdata packet is left out.
- The `struct server_init` variables of `main.c:172-200` are out of scope when the threads
  read them; with the Makefile's unoptimised build their storage is not reused, and `Startup`
  takes them as passed.
