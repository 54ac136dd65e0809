----------------------------- MODULE VideoServer -----------------------------
(***************************************************************************)
(* video/video_server.c with vrep_video.c as its input: the video thread   *)
(* takes one client, and sends it the frames of the simulator.  FFmpeg     *)
(* reads the input through read_vrep_stream, as much at a time as it has   *)
(* room for, and cuts it into pictures of the size open_vrep_stream names; *)
(* a frame is handed on in as many pieces as that takes.  Each encoded     *)
(* picture follows a header that is written past FFmpeg's output buffer.   *)
(*                                                                         *)
(* A byte of the input is its frame and its place in it, an encoded        *)
(* picture the bytes it was made of.  How a frame is fetched under         *)
(* vrep_mutex is in VrepClient.                                            *)
(***************************************************************************)
EXTENDS Naturals, SequencesExt

CONSTANTS
    PictureSize,    \* the bytes of a picture: 640 * 360 * 3 in the code
    Sizes,          \* the sizes a frame from the simulator may have
    ReadSizes,      \* how much room FFmpeg may have when it reads
    MaxFrames       \* bound: frames fetched

ASSUME VideoAssumption ==
    /\ PictureSize \in Nat \ {0} /\ MaxFrames \in Nat
    /\ Sizes \subseteq Nat /\ ReadSizes \subseteq Nat \ {0}

VARIABLES
    status,     \* "running", "exit" (error()) or "fault" (SIGPIPE)
    video,      \* the video thread: "bind", "accept", "open", "read", "header",
                \* "payload", "closed"
    client,     \* "none", "connected", "gone", "ended"
    frames,     \* the sizes of the frames fetched so far
    size_left, tmp_image_ptr,   \* read_vrep_stream; the pointer as an offset
    input,      \* what FFmpeg read and has not made pictures of
    picture,    \* the picture being sent
    ix,         \* its number
    stream      \* what was written to the client

inVars == <<frames, size_left, tmp_image_ptr>>
outVars == <<picture, ix, stream>>
vars == <<status, video, client, inVars, input, outVars>>

Init ==
    /\ status = "running" /\ video = "bind" /\ client = "none"
    /\ frames = <<>> /\ size_left = 0 /\ tmp_image_ptr = 0
    /\ input = <<>> /\ picture = <<>> /\ ix = 0 /\ stream = <<>>

Goto(from, to) == status = "running" /\ video = from /\ video' = to

-----------------------------------------------------------------------------
(* video_listen                                                             *)

Bind == Goto("bind", "accept") /\ UNCHANGED <<status, client, inVars, input, outVars>>

\* Nobody accepts a second client.
Accept ==
    /\ Goto("accept", "open")
    /\ client # "none"
    /\ UNCHANGED <<status, client, inVars, input, outVars>>

\* open_vrep_stream, open_webcam_stream and the encoder's setup
Open == Goto("open", "read") /\ UNCHANGED <<status, client, inVars, input, outVars>>

(* error(), which ends the process *)

Error(at) ==
    /\ Goto(at, at)
    /\ status' = "exit"
    /\ UNCHANGED <<client, inVars, input, outVars>>

BindFails == Error("bind")

AcceptFails == Error("accept")

\* No input, no decoder, no camera or no encoder.
OpenFails == Error("open")

\* No conversion context for the picture, or the encoder refuses it.
EncodingFails == Error("read") /\ Len(input) >= PictureSize

-----------------------------------------------------------------------------
(* read_vrep_stream                                                         *)

\* Slip: the pointer goes back to the front while part of the frame is left.
HandFromFront(size, ptr, room) ==
    LET copy_size == IF size <= room THEN size ELSE room
    IN  /\ input' = input \o [i \in 1..copy_size |-> <<Len(frames'), ptr + i>>]
        /\ size_left' = size - copy_size
        /\ tmp_image_ptr' = 0

\* The copy to a buffer with that much room, from ptr on, size bytes before
\* the end of the frame.
Hand(size, ptr, room) ==
    LET copy_size == IF size <= room THEN size ELSE room
    IN  /\ input' = input \o [i \in 1..copy_size |-> <<Len(frames'), ptr + i>>]
        /\ size_left' = size - copy_size
        /\ tmp_image_ptr' = IF size <= room THEN 0 ELSE ptr + copy_size

Reading == Len(input) < PictureSize

ReadOn(room) ==
    /\ Goto("read", "read") /\ Reading
    /\ size_left > 0
    /\ UNCHANGED frames
    /\ Hand(size_left, tmp_image_ptr, room)
    /\ UNCHANGED <<status, client, outVars>>

\* The frame before was handed on: another is fetched.
ReadFrame(size, room) ==
    /\ Goto("read", "read") /\ Reading
    /\ size_left = 0 /\ size > 0
    /\ Len(frames) < MaxFrames
    /\ frames' = Append(frames, size)
    /\ Hand(size, 0, room)
    /\ UNCHANGED <<status, client, outVars>>

\* An empty frame: 0 bytes read are the end of the stream to FFmpeg, which
\* drops the picture it has not got whole.
ReadEmpty ==
    /\ Goto("read", "closed") /\ Reading
    /\ size_left = 0 /\ 0 \in Sizes
    /\ Len(frames) < MaxFrames
    /\ frames' = Append(frames, 0)
    /\ client' = IF client = "gone" THEN "gone" ELSE "ended"
    /\ UNCHANGED <<status, size_left, tmp_image_ptr, input, outVars>>

-----------------------------------------------------------------------------
(* send_video                                                               *)

\* av_read_frame, the decoder, the scaler and the encoder, when that many
\* bytes are there
EncodeFrom(bytes) ==
    /\ Goto("read", "header")
    /\ Len(input) >= bytes
    /\ picture' = SubSeq(input, 1, PictureSize)
    /\ input' = SubSeq(input, PictureSize + 1, Len(input))
    /\ UNCHANGED <<status, client, inVars, ix, stream>>

\* Slip: without "zerolatency" the encoder looks a picture ahead.
EncodeLookingAhead == EncodeFrom(2 * PictureSize)

Encode == EncodeFrom(PictureSize)

\* write to the socket, its result ignored: when the client has gone it may
\* still succeed, or SIGPIPE kills the process.
Write(what) ==
    \/ client = "connected" /\ stream' = Append(stream, what) /\ UNCHANGED status
    \/ client = "gone" /\ status' \in {"running", "fault"} /\ UNCHANGED stream

Header(n) == [kind |-> "header", number |-> n]
Payload(p) == [kind |-> "payload", bytes |-> p]

\* create_frame_header, and the write to the descriptor itself
WriteHeader ==
    /\ Goto("header", "payload")
    /\ Write(Header(ix))
    /\ UNCHANGED <<client, inVars, input, picture, ix>>

\* Slip: the picture waits in the output buffer until the next one pushes it
\* out, so that a header overtakes it.
WritePayloadLate ==
    /\ Goto("payload", "read")
    /\ \/ ix = 0 /\ UNCHANGED <<stream, status>>
       \/ ix > 0 /\ Write(Payload(picture))
    /\ ix' = ix + 1
    /\ UNCHANGED <<client, inVars, input, picture>>

\* av_write_frame; the muxer flushes after every packet.
WritePayload ==
    /\ Goto("payload", "read")
    /\ Write(Payload(picture))
    /\ ix' = ix + 1
    /\ UNCHANGED <<client, inVars, input, picture>>

ClientConnect ==
    /\ status = "running" /\ video \notin {"bind"} /\ client = "none"
    /\ client' = "connected"
    /\ UNCHANGED <<status, video, inVars, input, outVars>>

ClientLeave ==
    /\ status = "running" /\ client = "connected"
    /\ client' = "gone"
    /\ UNCHANGED <<status, video, inVars, input, outVars>>

-----------------------------------------------------------------------------
VideoStep ==
    \/ Bind \/ Accept \/ Open
    \/ \E room \in ReadSizes : ReadOn(room) \/ \E size \in Sizes : ReadFrame(size, room)
    \/ ReadEmpty \/ Encode \/ WriteHeader \/ WritePayload

Fails == BindFails \/ AcceptFails \/ OpenFails \/ EncodingFails

Next == VideoStep \/ Fails \/ ClientConnect \/ ClientLeave

\* The video thread runs whenever it can, and the simulator goes on answering;
\* nothing need fail.
Spec == Init /\ [][Next]_vars /\ WF_vars(VideoStep)

-----------------------------------------------------------------------------
(* Properties                                                               *)

TypeOK ==
    /\ status \in {"running", "exit", "fault"}
    /\ video \in {"bind", "accept", "open", "read", "header", "payload", "closed"}
    /\ client \in {"none", "connected", "gone", "ended"}
    /\ frames \in Seq(Nat) /\ size_left \in Nat /\ tmp_image_ptr \in Nat
    /\ ix \in Nat

\* memcpy reads what is left of the frame and not beyond, whatever the sizes
\* of the frame and of the room: between two calls the pointer and the size
\* left add up to the frame that was fetched last.
InsideFrame ==
    size_left > 0 => frames # <<>> /\ tmp_image_ptr + size_left = frames[Len(frames)]

\* Bytes of the frames that were fetched, in order
FrameBytes(n, size) == [i \in 1..size |-> <<n, i>>]
AllBytes == FlattenSeq([n \in DOMAIN frames |-> FrameBytes(n, frames[n])])

\* Bytes of the pictures that were sent, in order
PictureBytes ==
    FlattenSeq([i \in DOMAIN stream |->
                   IF stream[i].kind = "payload" THEN stream[i].bytes ELSE <<>>])

\* A header and its picture alternate, numbered one after the other.
Framed ==
    \A i \in DOMAIN stream :
        IF i % 2 = 1 THEN stream[i] = Header((i - 1) \div 2) ELSE stream[i].kind = "payload"

\* To the byte, what a client was sent, what waits in FFmpeg and what is left
\* of the frame are the simulator's frames in order, none skipped and none
\* doubled, in pictures that each follow their header.
StreamIsFrames ==
    client \in {"connected", "ended"} =>
        /\ Framed
        /\ (PictureBytes \o (IF video \in {"header", "payload"} THEN picture ELSE <<>>)) \o input
             = SubSeq(AllBytes, 1, Len(AllBytes) - size_left)

Sent(kind) == SelectSeq(stream, LAMBDA item : item.kind = kind)

\* Every frame of the right size reaches a client that stays, unless the
\* simulator's frames end.
EveryFrameIsSent ==
    \A n \in 1..MaxFrames :
        Len(frames) = n /\ (\A k \in DOMAIN frames : frames[k] = PictureSize)
            ~> Len(Sent("payload")) >= n \/ client # "connected" \/ status # "running"
=============================================================================
