-------------------------- MODULE VideoServerProofs --------------------------
(***************************************************************************)
(* VideoServer, for every size of a picture and of the frames, and however *)
(* much room FFmpeg has when it reads: memcpy never reads past the frame.  *)
(***************************************************************************)
EXTENDS VideoServer, TLAPS, SequenceTheorems, WellFoundedInduction

\* What is copied and what is left add up to what there was.
LEMMA HandAddsUp ==
    ASSUME NEW size \in Nat, NEW ptr \in Nat, NEW room \in Nat, Hand(size, ptr, room)
    PROVE  /\ size_left' \in Nat /\ tmp_image_ptr' \in Nat
           /\ size_left' > 0 => tmp_image_ptr' + size_left' = ptr + size
<1>1. CASE size <= room
  BY <1>1 DEF Hand
<1>2. CASE ~(size <= room)
  <2>1. size_left' = size - room /\ tmp_image_ptr' = ptr + room
    BY <1>2 DEF Hand
  <2> QED
    BY <1>2, <2>1
<1> QED
  BY <1>1, <1>2

\* A frame that is fetched is the last one.
LEMMA FrameFetched ==
    ASSUME frames \in Seq(Nat), NEW size \in Nat, frames' = Append(frames, size)
    PROVE  /\ frames' \in Seq(Nat) /\ frames' # <<>>
           /\ frames'[Len(frames')] = size
OBVIOUS

LEMMA VideoInit == Init => TypeOK /\ InsideFrame
BY DEF Init, TypeOK, InsideFrame

LEMMA VideoNext == TypeOK /\ InsideFrame /\ [Next]_vars => TypeOK' /\ InsideFrame'
<1> SUFFICES ASSUME TypeOK, InsideFrame, [Next]_vars
             PROVE  TypeOK' /\ InsideFrame'
  OBVIOUS
<1> USE DEF TypeOK, Goto, outVars, inVars
<1>1. ASSUME NEW room \in ReadSizes, ReadOn(room)
      PROVE  TypeOK' /\ InsideFrame'
  <2>1. room \in Nat
    BY VideoAssumption
  <2>2. Hand(size_left, tmp_image_ptr, room) /\ size_left > 0 /\ frames' = frames
    BY <1>1 DEF ReadOn
  <2>3. /\ size_left' \in Nat /\ tmp_image_ptr' \in Nat
        /\ size_left' > 0 => tmp_image_ptr' + size_left' = tmp_image_ptr + size_left
    BY <2>1, <2>2, HandAddsUp
  <2>4. TypeOK'
    BY <1>1, <2>2, <2>3 DEF ReadOn
  <2>5. InsideFrame'
    BY <2>2, <2>3 DEF InsideFrame
  <2> QED
    BY <2>4, <2>5
<1>2. ASSUME NEW room \in ReadSizes, NEW size \in Sizes, ReadFrame(size, room)
      PROVE  TypeOK' /\ InsideFrame'
  <2>1. room \in Nat /\ size \in Nat
    BY VideoAssumption
  <2>2. Hand(size, 0, room) /\ frames' = Append(frames, size)
    BY <1>2 DEF ReadFrame
  <2>3. /\ size_left' \in Nat /\ tmp_image_ptr' \in Nat
        /\ size_left' > 0 => tmp_image_ptr' + size_left' = 0 + size
    BY <2>1, <2>2, HandAddsUp
  <2>4. /\ frames' \in Seq(Nat) /\ frames' # <<>>
        /\ frames'[Len(frames')] = size
    BY <2>1, <2>2, FrameFetched
  <2>5. TypeOK'
    BY <1>2, <2>3, <2>4 DEF ReadFrame
  <2>6. size_left' > 0 => tmp_image_ptr' + size_left' = size
    <3>1. 0 + size = size
      BY <2>1
    <3> QED
      BY <2>3, <3>1, Zenon
  <2>7. InsideFrame'
    BY <2>4, <2>6 DEF InsideFrame
  <2> QED
    BY <2>5, <2>7
<1>3. CASE ReadEmpty
  <2>1. frames' \in Seq(Nat)
    <3>1. frames' = Append(frames, 0)
      BY <1>3 DEF ReadEmpty
    <3> QED
      BY <3>1, FrameFetched
  <2>2. size_left' = 0 /\ tmp_image_ptr' = tmp_image_ptr
    BY <1>3 DEF ReadEmpty
  <2>3. TypeOK'
    BY <1>3, <2>1, <2>2 DEF ReadEmpty
  <2> QED
    BY <2>2, <2>3 DEF InsideFrame
\* The other steps leave read_vrep_stream's variables alone.
<1>4. ASSUME UNCHANGED inVars PROVE InsideFrame'
  BY <1>4 DEF InsideFrame
<1>5. CASE Bind \/ Accept \/ Open \/ Fails \/ ClientConnect \/ ClientLeave \/ UNCHANGED vars
  <2>1. TypeOK'
    BY <1>5 DEF Bind, Accept, Open, Fails, BindFails, AcceptFails, OpenFails, EncodingFails,
                Error, ClientConnect, ClientLeave, vars
  <2>2. UNCHANGED inVars
    BY <1>5 DEF Bind, Accept, Open, Fails, BindFails, AcceptFails, OpenFails, EncodingFails,
                Error, ClientConnect, ClientLeave, vars
  <2> QED
    BY <1>4, <2>1, <2>2
<1>6. CASE Encode \/ WriteHeader \/ WritePayload
  <2>1. TypeOK'
    BY <1>6 DEF Encode, EncodeFrom, WriteHeader, WritePayload, Write
  <2>2. UNCHANGED inVars
    BY <1>6 DEF Encode, EncodeFrom, WriteHeader, WritePayload
  <2> QED
    BY <1>4, <2>1, <2>2
<1> QED
  BY <1>1, <1>2, <1>3, <1>5, <1>6 DEF Next, VideoStep, Fails

\* The pointer into the frame and the size left always add up to the frame:
\* no copy reads beyond it, for every size and every room.
THEOREM CopiesInsideFrame == Spec => []InsideFrame
BY VideoInit, VideoNext, PTL DEF Spec

-----------------------------------------------------------------------------
(* FlattenSeq, by the least number of pieces for which a claim would fail   *)

LEMMA LeastNumber ==
    ASSUME NEW T \in SUBSET Nat, T # {}
    PROVE  \E x \in T : \A y \in T : x <= y
<1> DEFINE Less == {ss \in Nat \X Nat : ss[1] < ss[2]}
<1>1. IsWellFoundedOn(Less, Nat)
  BY NatLessThanWellFounded DEF OpToRel
<1>2. PICK x \in T : \A y \in T : ~(<<y, x>> \in Less)
  BY <1>1, WFMin
<1>3. ASSUME NEW y \in T PROVE x <= y
  <2>1. <<y, x>> \in Less <=> y < x
    OBVIOUS
  <2> QED
    BY <1>2, <2>1
<1> QED
  BY <1>3

\* f joins the first n pieces, one after the other.
Joins(f, pieces, n) ==
    \A k \in 1..n : f[k] = IF k = 1 THEN pieces[k] ELSE f[k - 1] \o pieces[k]

LEMMA JoinsExist ==
    ASSUME NEW pieces, NEW n \in Nat
    PROVE  \E f : Joins(f, pieces, n)
<1> DEFINE Bad == {m \in Nat : ~\E f : Joins(f, pieces, m)}
<1>1. SUFFICES ASSUME Bad # {} PROVE FALSE
  OBVIOUS
<1>2. PICK m \in Bad : \A k \in Bad : m <= k
  BY <1>1, LeastNumber
<1>3. m # 0
  <2>1. Joins(<<>>, pieces, 0)
    BY DEF Joins
  <2> QED
    BY <2>1
<1>4. m - 1 \in Nat /\ m - 1 \notin Bad
  BY <1>2, <1>3
<1>5. PICK f : Joins(f, pieces, m - 1)
  BY <1>4
<1> DEFINE g == [k \in 1..m |-> IF k < m THEN f[k]
                               ELSE IF k = 1 THEN pieces[k] ELSE f[k - 1] \o pieces[k]]
<1>6. Joins(g, pieces, m)
  <2> SUFFICES ASSUME NEW k \in 1..m
               PROVE  g[k] = IF k = 1 THEN pieces[k] ELSE g[k - 1] \o pieces[k]
    BY DEF Joins
  <2>1. k # 1 => g[k - 1] = f[k - 1]
    OBVIOUS
  <2>2. CASE k = m
    BY <2>1, <2>2
  <2>3. CASE k # m
    <3>1. k \in 1..(m - 1) /\ g[k] = f[k]
      BY <2>3
    <3> QED
      BY <1>5, <2>1, <3>1 DEF Joins
  <2> QED
    BY <2>2, <2>3
<1> QED
  BY <1>2, <1>6

LEMMA FlattenSeqIs ==
    ASSUME NEW pieces, Len(pieces) \in Nat \ {0}
    PROVE  \E f : Joins(f, pieces, Len(pieces)) /\ FlattenSeq(pieces) = f[Len(pieces)]
<1> DEFINE n == Len(pieces)
           F(g) == g = [i \in 1..n |-> IF i = 1 THEN pieces[i] ELSE g[i - 1] \o pieces[i]]
<1>1. PICK f : Joins(f, pieces, n)
  BY JoinsExist
<1> DEFINE h == [i \in 1..n |-> f[i]]
<1>2. F(h)
  <2> SUFFICES ASSUME NEW i \in 1..n
               PROVE  f[i] = IF i = 1 THEN pieces[i] ELSE h[i - 1] \o pieces[i]
    OBVIOUS
  <2>1. i # 1 => h[i - 1] = f[i - 1]
    OBVIOUS
  <2> QED
    BY <1>1, <2>1 DEF Joins
<1> DEFINE g == CHOOSE g : F(g)
<1>3. F(g)
  BY <1>2
<1>4. FlattenSeq(pieces) = g[n]
  BY DEF FlattenSeq
<1>5. Joins(g, pieces, n)
  <2> HIDE DEF g
  <2> QED
    BY <1>3 DEF Joins
<1> QED
  BY <1>4, <1>5

\* What joins the first pieces of one sequence joins those of another that
\* starts with them.
LEMMA JoinsAgree ==
    ASSUME NEW pieces, NEW more, NEW n \in Nat, \A k \in 1..n : pieces[k] = more[k],
           NEW f, Joins(f, pieces, n), NEW g, Joins(g, more, n)
    PROVE  \A k \in 1..n : f[k] = g[k]
<1> DEFINE Bad == {k \in 1..n : f[k] # g[k]}
<1>1. SUFFICES ASSUME Bad # {} PROVE FALSE
  OBVIOUS
<1>2. PICK m \in Bad : \A k \in Bad : m <= k
  <2>1. Bad \in SUBSET Nat
    OBVIOUS
  <2> HIDE DEF Bad
  <2> QED
    BY <1>1, <2>1, LeastNumber
<1>3. CASE m = 1
  BY <1>2, <1>3 DEF Joins
<1>4. CASE m # 1
  <2>1. m - 1 \in 1..n /\ m - 1 \notin Bad
    BY <1>2, <1>4
  <2> QED
    BY <1>2, <1>4, <2>1 DEF Joins
<1> QED
  BY <1>3, <1>4

LEMMA FlattenType ==
    ASSUME NEW S, NEW pieces \in Seq(Seq(S))
    PROVE  FlattenSeq(pieces) \in Seq(S)
<1> DEFINE n == Len(pieces)
<1>1. n \in Nat /\ \A k \in 1..n : pieces[k] \in Seq(S)
  OBVIOUS
<1>2. CASE n = 0
  <2>1. pieces = <<>>
    BY <1>2
  <2> QED
    BY <1>2, <2>1 DEF FlattenSeq
<1>3. CASE n # 0
  <2>1. PICK f : Joins(f, pieces, n) /\ FlattenSeq(pieces) = f[n]
    BY <1>1, <1>3, FlattenSeqIs
  <2> DEFINE Bad == {k \in 1..n : f[k] \notin Seq(S)}
  <2>2. Bad = {}
    <3>1. SUFFICES ASSUME Bad # {} PROVE FALSE
      OBVIOUS
    <3>2. PICK m \in Bad : \A k \in Bad : m <= k
      <4>1. Bad \in SUBSET Nat
        BY <1>1
      <4> HIDE DEF Bad
      <4> QED
        BY <3>1, <4>1, LeastNumber
    <3>3. CASE m = 1
      BY <1>1, <2>1, <3>2, <3>3 DEF Joins
    <3>4. CASE m # 1
      <4>1. m - 1 \in 1..n /\ m - 1 \notin Bad
        BY <1>1, <3>2, <3>4
      <4>2. f[m] = f[m - 1] \o pieces[m] /\ f[m - 1] \in Seq(S) /\ pieces[m] \in Seq(S)
        BY <1>1, <2>1, <3>2, <3>4, <4>1 DEF Joins
      <4>3. f[m] \in Seq(S)
        <5> HIDE DEF Bad
        <5> QED
          BY <4>2, ConcatProperties
      <4> QED
        BY <3>2, <4>3
    <3> QED
      BY <3>3, <3>4
  <2> QED
    BY <1>1, <1>3, <2>1, <2>2
<1> QED
  BY <1>2, <1>3

LEMMA FlattenAppend ==
    ASSUME NEW S, NEW pieces \in Seq(Seq(S)), NEW piece \in Seq(S)
    PROVE  FlattenSeq(Append(pieces, piece)) = FlattenSeq(pieces) \o piece
<1> DEFINE n == Len(pieces)
           more == Append(pieces, piece)
<1>1. /\ n \in Nat /\ Len(more) = n + 1 /\ more[n + 1] = piece
      /\ \A k \in 1..n : pieces[k] = more[k]
  OBVIOUS
<1>2. PICK g : Joins(g, more, n + 1) /\ FlattenSeq(more) = g[n + 1]
  <2> HIDE DEF more
  <2> QED
    BY <1>1, FlattenSeqIs
<1>3. CASE n = 0
  <2>1. pieces = <<>>
    BY <1>3
  <2>2. FlattenSeq(pieces) = <<>>
    BY <1>3, <2>1 DEF FlattenSeq
  <2>3. g[1] = more[1]
    BY <1>2, <1>3 DEF Joins
  <2> QED
    BY <1>1, <1>2, <1>3, <2>2, <2>3, ConcatEmptySeq
<1>4. CASE n # 0
  <2>1. PICK f : Joins(f, pieces, n) /\ FlattenSeq(pieces) = f[n]
    BY <1>1, <1>4, FlattenSeqIs
  <2>2. Joins(g, more, n)
    <3> HIDE DEF more, n
    <3>1. \A k \in 1..n : k \in 1..(n + 1)
      BY <1>1
    <3> QED
      BY <1>2, <3>1 DEF Joins
  <2>3. f[n] = g[n]
    <3> HIDE DEF more, n
    <3>1. \A k \in 1..n : f[k] = g[k]
      BY <1>1, <2>1, <2>2, JoinsAgree
    <3>2. n \in 1..n
      BY <1>1, <1>4
    <3> QED
      BY <3>1, <3>2
  <2>4. g[n + 1] = g[n] \o more[n + 1]
    <3>1. n + 1 \in 1..(n + 1) /\ n + 1 # 1 /\ (n + 1) - 1 = n
      BY <1>1, <1>4
    <3> HIDE DEF more, n
    <3> QED
      BY <1>2, <3>1 DEF Joins
  <2> QED
    BY <1>1, <1>2, <2>1, <2>3, <2>4
<1> QED
  BY <1>3, <1>4

-----------------------------------------------------------------------------
(* The bytes from the frames to the client                                  *)

LEMMA AppendIs ==
    ASSUME NEW S, NEW s \in Seq(S), NEW x \in S
    PROVE  Append(s, x) = [i \in 1..(Len(s) + 1) |-> IF i = Len(s) + 1 THEN x ELSE s[i]]
<1> DEFINE n == Len(s)
           t == [i \in 1..(n + 1) |-> IF i = n + 1 THEN x ELSE s[i]]
<1>1. n \in Nat /\ \A i \in 1..n : s[i] \in S
  OBVIOUS
<1>2. t \in Seq(S) /\ Len(t) = n + 1
  <2>1. \A i \in 1..(n + 1) : (IF i = n + 1 THEN x ELSE s[i]) \in S
    BY <1>1
  <2> HIDE DEF n
  <2> QED
    BY <1>1, <2>1
<1>3. \A i \in 1..(n + 1) : t[i] = Append(s, x)[i]
  <2>1. /\ \A i \in 1..n : Append(s, x)[i] = s[i]
        /\ Append(s, x)[n + 1] = x
    BY AppendProperties
  <2>2. \A i \in 1..(n + 1) : t[i] = IF i = n + 1 THEN x ELSE s[i]
    OBVIOUS
  <2>3. ASSUME NEW i \in 1..(n + 1) PROVE i = n + 1 \/ (i # n + 1 /\ i \in 1..n)
    BY <1>1
  <2> HIDE DEF n, t
  <2>4. ASSUME NEW i \in 1..(n + 1) PROVE t[i] = Append(s, x)[i]
    BY <2>1, <2>2, <2>3, Zenon
  <2> QED
    BY <2>4
<1>4. Append(s, x) \in Seq(S) /\ Len(Append(s, x)) = n + 1
  BY AppendProperties
<1> HIDE DEF n, t
<1>5. t = Append(s, x)
  BY <1>2, <1>3, <1>4, SeqEqual
<1> QED
  BY <1>5 DEF t, n

Byte == Nat \X Nat
Item == [kind : {"header"}, number : Nat] \cup [kind : {"payload"}, bytes : Seq(Byte)]

LEMMA BytesAssociative ==
    \A s, t, u \in Seq(Byte) : (s \o t) \o u = s \o (t \o u)
BY ConcatAssociative

LEMMA FrameBytesType ==
    ASSUME NEW n \in Nat, NEW size \in Nat
    PROVE  /\ FrameBytes(n, size) \in Seq(Byte) /\ Len(FrameBytes(n, size)) = size
           /\ \A i \in 1..size : FrameBytes(n, size)[i] = <<n, i>>
BY DEF FrameBytes, Byte

\* The frames as pieces of AllBytes
Fetched == [n \in DOMAIN frames |-> FrameBytes(n, frames[n])]

LEMMA FetchedType ==
    ASSUME frames \in Seq(Nat)
    PROVE  Fetched \in Seq(Seq(Byte)) /\ AllBytes \in Seq(Byte)
<1>1. Fetched \in Seq(Seq(Byte))
  <2>1. \A n \in 1..Len(frames) : FrameBytes(n, frames[n]) \in Seq(Byte)
    BY FrameBytesType
  <2>2. DOMAIN frames = 1..Len(frames) /\ Len(frames) \in Nat
    OBVIOUS
  <2> QED
    BY <2>1, <2>2 DEF Fetched
<1> QED
  BY <1>1, FlattenType DEF AllBytes, Fetched

LEMMA FramesGrow ==
    ASSUME frames \in Seq(Nat), NEW size \in Nat, frames' = Append(frames, size)
    PROVE  AllBytes' = AllBytes \o FrameBytes(Len(frames'), size)
<1> DEFINE last == FrameBytes(Len(frames'), size)
<1>0. last \in Seq(Byte)
  <2>1. Len(frames') \in Nat
    <3>1. Len(frames) \in Nat /\ Len(frames') = Len(frames) + 1
      OBVIOUS
    <3> QED
      BY <3>1
  <2> QED
    BY <2>1, FrameBytesType
<1>1. Fetched' = Append(Fetched, last)
  <2>1. /\ Len(frames) \in Nat /\ Len(frames') = Len(frames) + 1
        /\ DOMAIN frames = 1..Len(frames) /\ DOMAIN frames' = 1..(Len(frames) + 1)
        /\ frames'[Len(frames) + 1] = size
        /\ \A n \in 1..Len(frames) : frames'[n] = frames[n]
    OBVIOUS
  <2>2. Fetched \in Seq(Seq(Byte)) /\ Len(Fetched) = Len(frames)
    BY <2>1, FetchedType DEF Fetched
  <2>3. Fetched' = [n \in 1..(Len(frames) + 1) |-> FrameBytes(n, frames'[n])]
    BY <2>1 DEF Fetched
  <2>4. Append(Fetched, last) = [n \in 1..(Len(frames) + 1) |->
                                   IF n = Len(frames) + 1 THEN last ELSE Fetched[n]]
    <3> HIDE DEF last
    <3>2. Append(Fetched, last) = [n \in 1..(Len(Fetched) + 1) |->
                                      IF n = Len(Fetched) + 1 THEN last ELSE Fetched[n]]
      BY <1>0, <2>2, AppendIs
    <3> QED
      BY <2>2, <3>2
  <2>5. ASSUME NEW n \in 1..(Len(frames) + 1)
        PROVE  FrameBytes(n, frames'[n]) = IF n = Len(frames) + 1 THEN last ELSE Fetched[n]
    BY <2>1 DEF Fetched
  <2> HIDE DEF last
  <2> QED
    BY <2>3, <2>4, <2>5
<1>3. FlattenSeq(Append(Fetched, last)) = FlattenSeq(Fetched) \o last
  BY <1>0, FetchedType, FlattenAppend
<1> HIDE DEF last
<1>4. AllBytes = FlattenSeq(Fetched) /\ AllBytes' = FlattenSeq(Fetched')
  BY DEF AllBytes, Fetched
<1> QED
  BY <1>1, <1>3, <1>4 DEF last

\* The pictures as pieces of PictureBytes
BytesOf(item) == IF item.kind = "payload" THEN item.bytes ELSE <<>>
Pictures == [i \in DOMAIN stream |-> BytesOf(stream[i])]

LEMMA PicturesType ==
    ASSUME stream \in Seq(Item)
    PROVE  Pictures \in Seq(Seq(Byte)) /\ PictureBytes \in Seq(Byte)
<1>1. Pictures \in Seq(Seq(Byte))
  <2>1. \A i \in 1..Len(stream) : BytesOf(stream[i]) \in Seq(Byte)
    BY DEF BytesOf, Item
  <2>2. DOMAIN stream = 1..Len(stream) /\ Len(stream) \in Nat
    OBVIOUS
  <2> QED
    BY <2>1, <2>2 DEF Pictures
<1> QED
  BY <1>1, FlattenType DEF PictureBytes, Pictures, BytesOf

LEMMA StreamGrows ==
    ASSUME stream \in Seq(Item), NEW item \in Item, stream' = Append(stream, item)
    PROVE  PictureBytes' = PictureBytes \o BytesOf(item)
<1>1. Pictures' = Append(Pictures, BytesOf(item))
  <2>1. /\ Len(stream) \in Nat /\ Len(stream') = Len(stream) + 1
        /\ DOMAIN stream = 1..Len(stream) /\ DOMAIN stream' = 1..(Len(stream) + 1)
        /\ stream'[Len(stream) + 1] = item
        /\ \A i \in 1..Len(stream) : stream'[i] = stream[i]
    OBVIOUS
  <2>2. Pictures \in Seq(Seq(Byte)) /\ Len(Pictures) = Len(stream)
    BY <2>1, PicturesType DEF Pictures
  <2>3. Pictures' = [i \in 1..(Len(stream) + 1) |-> BytesOf(stream'[i])]
    BY <2>1 DEF Pictures, BytesOf
  <2>4. Append(Pictures, BytesOf(item)) = [i \in 1..(Len(stream) + 1) |->
                                 IF i = Len(stream) + 1 THEN BytesOf(item) ELSE Pictures[i]]
    <3>1. BytesOf(item) \in Seq(Byte)
      BY DEF BytesOf, Item
    <3>2. Append(Pictures, BytesOf(item)) = [i \in 1..(Len(Pictures) + 1) |->
                                 IF i = Len(Pictures) + 1 THEN BytesOf(item) ELSE Pictures[i]]
      BY <2>2, <3>1, AppendIs
    <3> QED
      BY <2>2, <3>2
  <2>5. ASSUME NEW i \in 1..(Len(stream) + 1)
        PROVE  BytesOf(stream'[i]) = IF i = Len(stream) + 1 THEN BytesOf(item) ELSE Pictures[i]
    BY <2>1 DEF Pictures
  <2> QED
    BY <2>3, <2>4, <2>5
<1>2. BytesOf(item) \in Seq(Byte)
  BY DEF BytesOf, Item
<1>3. FlattenSeq(Append(Pictures, BytesOf(item))) = FlattenSeq(Pictures) \o BytesOf(item)
  BY <1>2, PicturesType, FlattenAppend
<1>4. PictureBytes = FlattenSeq(Pictures) /\ PictureBytes' = FlattenSeq(Pictures')
  BY DEF PictureBytes, Pictures, BytesOf
<1> QED
  BY <1>1, <1>3, <1>4

\* What read_vrep_stream hands on is the next of all bytes, and what it leaves
\* are those behind.
LEMMA HandMoves ==
    ASSUME NEW all \in Seq(Byte), NEW size \in Nat, size <= Len(all),
           NEW ptr \in Nat, NEW room \in Nat, Hand(size, ptr, room),
           Len(frames') \in Nat,
           \A j \in 1..size : all[Len(all) - size + j] = <<Len(frames'), ptr + j>>
    PROVE  /\ \E piece \in Seq(Byte) :
                /\ input' = input \o piece
                /\ SubSeq(all, 1, Len(all) - size) \o piece
                     = SubSeq(all, 1, Len(all) - size_left')
           /\ size_left' \in Nat /\ size_left' <= Len(all)
           /\ \A j \in 1..size_left' :
                all[Len(all) - size_left' + j] = <<Len(frames'), tmp_image_ptr' + j>>
<1> DEFINE n == Len(all)
           copy == IF size <= room THEN size ELSE room
           piece == [i \in 1..copy |-> <<Len(frames'), ptr + i>>]
<1>1. /\ n \in Nat /\ copy \in 0..size /\ size_left' = size - copy
      /\ input' = input \o piece
      /\ size_left' > 0 => tmp_image_ptr' = ptr + copy
  BY DEF Hand
<1>2. piece \in Seq(Byte) /\ Len(piece) = copy
  <2>1. \A i \in 1..copy : <<Len(frames'), ptr + i>> \in Byte
    BY DEF Byte
  <2>2. copy \in Nat
    BY <1>1
  <2>3. piece \in [1..copy -> Byte]
    BY <2>1
  <2> HIDE DEF copy, piece
  <2> QED
    BY <2>2, <2>3
<1>3. SubSeq(all, 1, n - size) \o piece = SubSeq(all, 1, n - size_left')
  <2> DEFINE front == SubSeq(all, 1, n - size)
             longer == SubSeq(all, 1, n - (size - copy))
  <2>1. n - size \in 0..n /\ n - (size - copy) = (n - size) + copy /\ (n - size) + copy \in 0..n
    <3> HIDE DEF n, copy
    <3> QED
      BY <1>1 DEF n
  <2>2. front \in Seq(Byte) /\ Len(front) = n - size /\ \A i \in 1..(n - size) : front[i] = all[i]
    BY <2>1
  <2>3. /\ longer \in Seq(Byte) /\ Len(longer) = (n - size) + copy
        /\ \A i \in 1..((n - size) + copy) : longer[i] = all[i]
    BY <2>1
  <2>4. /\ front \o piece \in Seq(Byte) /\ Len(front \o piece) = (n - size) + copy
        /\ \A i \in 1..((n - size) + copy) :
             (front \o piece)[i] = IF i <= n - size THEN front[i] ELSE piece[i - (n - size)]
    <3> HIDE DEF front, piece, n, copy
    <3>1. /\ front \o piece \in Seq(Byte) /\ Len(front \o piece) = Len(front) + Len(piece)
          /\ \A i \in 1..(Len(front) + Len(piece)) :
               (front \o piece)[i] = IF i <= Len(front) THEN front[i] ELSE piece[i - Len(front)]
      BY <1>2, <2>2, ConcatProperties
    <3> QED
      BY <1>2, <2>2, <3>1
  <2>5. ASSUME NEW i \in 1..((n - size) + copy)
        PROVE  (front \o piece)[i] = longer[i]
    <3>1. CASE i <= n - size
      <4>1. i \in 1..(n - size)
        BY <2>1, <3>1
      <4> HIDE DEF front, longer, piece, n, copy
      <4> QED
        BY <2>2, <2>3, <2>4, <3>1, <4>1
    <3>2. CASE ~(i <= n - size)
      <4>1. /\ i - (n - size) \in 1..copy /\ i - (n - size) \in 1..size
            /\ n - size + (i - (n - size)) = i
        <5> HIDE DEF n, copy
        <5> QED
          BY <1>1, <3>2
      <4>2. piece[i - (n - size)] = <<Len(frames'), ptr + (i - (n - size))>>
        BY <4>1
      <4>3. all[i] = <<Len(frames'), ptr + (i - (n - size))>>
        <5>1. all[n - size + (i - (n - size))] = <<Len(frames'), ptr + (i - (n - size))>>
          BY <4>1
        <5> QED
          BY <4>1, <5>1
      <4> HIDE DEF front, longer, piece, n, copy
      <4> QED
        BY <2>3, <2>4, <3>2, <4>2, <4>3
    <3> QED
      BY <3>1, <3>2
  <2> HIDE DEF front, longer, piece
  <2>6. front \o piece = longer
    BY <2>3, <2>4, <2>5, SeqEqual
  <2> QED
    BY <1>1, <2>6 DEF front, longer
<1>4. size_left' \in Nat /\ size_left' <= n
  <2> HIDE DEF copy
  <2> QED
    BY <1>1
<1>5. ASSUME NEW j \in 1..size_left'
      PROVE  all[n - size_left' + j] = <<Len(frames'), tmp_image_ptr' + j>>
  <2>1. tmp_image_ptr' = ptr + copy
    BY <1>1, <1>4
  <2>2. /\ copy + j \in 1..size /\ n - size_left' + j = n - size + (copy + j)
        /\ ptr + (copy + j) = (ptr + copy) + j
    <3> HIDE DEF copy, n
    <3> QED
      BY <1>1, <1>4
  <2>3. all[n - size + (copy + j)] = <<Len(frames'), ptr + (copy + j)>>
    BY <2>2
  <2> HIDE DEF copy
  <2> QED
    BY <2>1, <2>2, <2>3
<1> HIDE DEF piece, copy
<1> QED
  BY <1>1, <1>2, <1>3, <1>4, <1>5

-----------------------------------------------------------------------------
(* The stream                                                               *)

\* The picture that is encoded and not written yet
Pending == IF video \in {"header", "payload"} THEN picture ELSE <<>>

StreamTypes ==
    /\ TypeOK
    /\ input \in Seq(Byte) /\ picture \in Seq(Byte) /\ stream \in Seq(Item)

\* What is left of the frame is the end of all bytes.
LeftBytes ==
    /\ size_left <= Len(AllBytes)
    /\ \A j \in 1..size_left :
          AllBytes[Len(AllBytes) - size_left + j] = <<Len(frames), tmp_image_ptr + j>>

\* Two writes to a picture
Paired == Len(stream) = 2 * ix + (IF video = "payload" THEN 1 ELSE 0)

Accounted ==
    (PictureBytes \o Pending) \o input = SubSeq(AllBytes, 1, Len(AllBytes) - size_left)

\* A client that left misses what was written since.
StreamInv ==
    /\ StreamTypes /\ LeftBytes
    /\ client # "gone" => Framed /\ Paired /\ Accounted

LEMMA StreamInit == Init => StreamInv
<1> SUFFICES ASSUME Init PROVE StreamInv
  OBVIOUS
<1>1. StreamTypes
  BY DEF Init, StreamTypes, TypeOK
<1>2. AllBytes = <<>>
  <2>1. [n \in DOMAIN frames |-> FrameBytes(n, frames[n])] = <<>>
    BY DEF Init
  <2> QED
    BY <2>1 DEF AllBytes, FlattenSeq
<1>3. PictureBytes = <<>>
  <2>1. [i \in DOMAIN stream |->
           IF stream[i].kind = "payload" THEN stream[i].bytes ELSE <<>>] = <<>>
    BY DEF Init
  <2> QED
    BY <2>1 DEF PictureBytes, FlattenSeq
<1>4. LeftBytes /\ Framed /\ Paired
  BY <1>2 DEF Init, LeftBytes, Framed, Paired
<1>5. Accounted
  <2>1. Pending = <<>> /\ input = <<>> /\ size_left = 0
    BY DEF Init, Pending
  <2>2. <<>> \o <<>> = <<>> /\ SubSeq(<<>>, 1, 0) = <<>>
    OBVIOUS
  <2> QED
    BY <1>2, <1>3, <2>1, <2>2 DEF Accounted
<1> QED
  BY <1>1, <1>4, <1>5 DEF StreamInv

LEMMA PendingType == StreamTypes => Pending \in Seq(Byte) /\ PictureBytes \in Seq(Byte)
BY PicturesType DEF StreamTypes, Pending

\* Steps that leave the bytes alone
LEMMA StreamRests ==
    ASSUME StreamInv, StreamTypes', UNCHANGED <<inVars, input, outVars>>,
           video' = video \/ ({video, video'} \cap {"header", "payload"} = {}),
           client' = "gone" \/ client # "gone"
    PROVE  StreamInv'
<1> USE DEF inVars, outVars
<1>1. AllBytes' = AllBytes /\ PictureBytes' = PictureBytes /\ Pending' = Pending
  BY DEF AllBytes, PictureBytes, Pending
<1>2. LeftBytes'
  BY <1>1 DEF StreamInv, LeftBytes
<1>3. ASSUME client' # "gone" PROVE Framed' /\ Paired' /\ Accounted'
  <2>1. Framed /\ Paired /\ Accounted
    BY <1>3 DEF StreamInv
  <2>2. Framed'
    BY <2>1 DEF Framed
  <2>3. Paired'
    BY <2>1 DEF Paired
  <2>4. Accounted'
    BY <1>1, <2>1 DEF Accounted
  <2> QED
    BY <2>2, <2>3, <2>4
<1> QED
  BY <1>2, <1>3 DEF StreamInv

\* read_vrep_stream: all is what the simulator sent, with the frame it fetched
\* if it fetched one.
LEMMA StreamReads ==
    ASSUME StreamInv, TypeOK', NEW room \in Nat, NEW size \in Nat, NEW ptr \in Nat,
           Hand(size, ptr, room), AllBytes' \in Seq(Byte), size <= Len(AllBytes'),
           \A j \in 1..size :
              AllBytes'[Len(AllBytes') - size + j] = <<Len(frames'), ptr + j>>,
           SubSeq(AllBytes', 1, Len(AllBytes') - size)
             = SubSeq(AllBytes, 1, Len(AllBytes) - size_left),
           video = "read", video' = "read", UNCHANGED <<client, outVars>>
    PROVE  StreamInv'
<1> USE DEF outVars
<1>1. Len(frames') \in Nat
  BY DEF TypeOK
<1> DEFINE all == AllBytes'
<1>2. PICK piece \in Seq(Byte) :
         /\ input' = input \o piece
         /\ SubSeq(all, 1, Len(all) - size) \o piece = SubSeq(all, 1, Len(all) - size_left')
  <2> HIDE DEF all
  <2> QED
    BY <1>1, HandMoves DEF all
<1>3. LeftBytes'
  <2>1. /\ size_left' <= Len(all)
        /\ \A j \in 1..size_left' :
             all[Len(all) - size_left' + j] = <<Len(frames'), tmp_image_ptr' + j>>
    <3> HIDE DEF all
    <3> QED
      BY <1>1, HandMoves DEF all
  <2> QED
    BY <2>1 DEF LeftBytes
<1>4. StreamTypes'
  <2>1. input' \in Seq(Byte)
    BY <1>2, ConcatProperties DEF StreamInv, StreamTypes
  <2> QED
    BY <2>1 DEF StreamInv, StreamTypes
<1>5. ASSUME client' # "gone" PROVE Framed' /\ Paired' /\ Accounted'
  <2>1. Framed /\ Paired /\ Accounted
    BY <1>5 DEF StreamInv
  <2>2. Framed' /\ Paired'
    BY <2>1 DEF Framed, Paired
  <2>3. PictureBytes' = PictureBytes /\ Pending' = Pending
    BY DEF PictureBytes, Pending
  <2>4. PictureBytes \in Seq(Byte) /\ Pending \in Seq(Byte) /\ input \in Seq(Byte)
    BY PendingType DEF StreamInv, StreamTypes
  <2> DEFINE out == PictureBytes \o Pending
  <2>5. out \in Seq(Byte)
    BY <2>4, ConcatProperties
  <2>6. out \o (input \o piece) = (out \o input) \o piece
    <3> HIDE DEF out
    <3>1. (out \o input) \o piece = out \o (input \o piece)
      BY <2>4, <2>5, BytesAssociative, Zenon
    <3> QED
      BY <3>1
  <2>7. out \o input = SubSeq(all, 1, Len(all) - size)
    BY <2>1 DEF Accounted
  <2> QED
    BY <1>2, <2>2, <2>3, <2>6, <2>7 DEF Accounted
<1> QED
  BY <1>3, <1>4, <1>5 DEF StreamInv

\* A sequence is its first k elements and the others.
LEMMA SplitJoins ==
    ASSUME NEW S, NEW s \in Seq(S), NEW k \in 0..Len(s)
    PROVE  SubSeq(s, 1, k) \o SubSeq(s, k + 1, Len(s)) = s
<1> DEFINE n == Len(s)
<1>1. n \in Nat
  OBVIOUS
<1>2. 1 \in 1..(n + 1) /\ k \in (1 - 1)..n /\ n \in k..n
  BY <1>1
<1>3. SubSeq(s, 1, k) \o SubSeq(s, k + 1, n) = SubSeq(s, 1, n)
  <2> HIDE DEF n
  <2> QED
    BY <1>2, ConcatAdjacentSubSeq DEF n
<1> QED
  BY <1>3, SubSeqFull

\* The encoder takes the first bytes of the input.
LEMMA StreamEncodes ==
    ASSUME StreamInv, TypeOK', Encode
    PROVE  StreamInv'
<1> USE DEF inVars
<1>1. /\ Len(input) >= PictureSize /\ video = "read" /\ video' = "header"
      /\ picture' = SubSeq(input, 1, PictureSize)
      /\ input' = SubSeq(input, PictureSize + 1, Len(input))
      /\ UNCHANGED <<client, inVars, ix, stream>>
  BY DEF Encode, EncodeFrom, Goto
<1>2. PictureSize \in Nat /\ input \in Seq(Byte)
  BY VideoAssumption DEF StreamInv, StreamTypes
<1>3. picture' \in Seq(Byte) /\ input' \in Seq(Byte)
  BY <1>1, <1>2
<1>4. picture' \o input' = input
  <2>1. PictureSize \in 0..Len(input)
    BY <1>1, <1>2
  <2>2. SubSeq(input, 1, PictureSize) \o SubSeq(input, PictureSize + 1, Len(input)) = input
    BY <1>2, <2>1, SplitJoins
  <2> QED
    BY <1>1, <2>2
<1>5. StreamTypes'
  BY <1>1, <1>3 DEF StreamInv, StreamTypes
<1>6. AllBytes' = AllBytes /\ PictureBytes' = PictureBytes
  BY <1>1 DEF AllBytes, PictureBytes
<1>7. LeftBytes'
  BY <1>1, <1>6 DEF StreamInv, LeftBytes
<1>8. ASSUME client' # "gone" PROVE Framed' /\ Paired' /\ Accounted'
  <2>1. Framed /\ Paired /\ Accounted
    BY <1>1, <1>8 DEF StreamInv
  <2>2. Framed' /\ Paired'
    BY <1>1, <2>1 DEF Framed, Paired
  <2>3. Pending = <<>> /\ Pending' = picture'
    BY <1>1 DEF Pending
  <2>4. PictureBytes \in Seq(Byte)
    BY PendingType DEF StreamInv
  <2>5. (PictureBytes \o picture') \o input' = PictureBytes \o (picture' \o input')
    BY <1>3, <2>4, ConcatAssociative
  <2>6. PictureBytes \o <<>> = PictureBytes
    BY <2>4, ConcatEmptySeq
  <2> QED
    BY <1>1, <1>4, <1>6, <2>1, <2>2, <2>3, <2>5, <2>6 DEF Accounted
<1> QED
  BY <1>5, <1>7, <1>8 DEF StreamInv

\* What is written after the picture's header is the picture.
LEMMA StreamWrites ==
    ASSUME StreamInv, TypeOK', WriteHeader \/ WritePayload
    PROVE  StreamInv'
<1> USE DEF inVars
<1>1. /\ UNCHANGED <<client, inVars, input, picture>>
      /\ video \in {"header", "payload"}
      /\ client \in {"none", "connected", "gone", "ended"} /\ ix \in Nat
  BY DEF WriteHeader, WritePayload, Goto, StreamInv, StreamTypes, TypeOK
<1>2. PICK item \in Item :
         /\ WriteHeader => item = Header(ix)
         /\ WritePayload => item = Payload(picture)
         /\ client # "gone" => stream' = Append(stream, item)
         /\ client = "gone" => stream' = stream
  <2>1. CASE WriteHeader
    <3>1. Header(ix) \in Item /\ video = "header" /\ video' = "payload"
      BY <1>1, <2>1 DEF Item, Header, WriteHeader, Goto
    <3>2. ~WritePayload
      BY <3>1 DEF WritePayload, Goto
    <3> QED
      BY <1>1, <2>1, <3>1, <3>2 DEF WriteHeader, Write
  <2>2. CASE WritePayload
    <3>1. Payload(picture) \in Item /\ video = "payload" /\ video' = "read"
      BY <2>2 DEF Item, Payload, WritePayload, Goto, StreamInv, StreamTypes
    <3>2. ~WriteHeader
      BY <3>1 DEF WriteHeader, Goto
    <3> QED
      BY <1>1, <2>2, <3>1, <3>2 DEF WritePayload, Write
  <2> QED
    BY <2>1, <2>2
<1>3. StreamTypes'
  <2>1. stream \in Seq(Item)
    BY DEF StreamInv, StreamTypes
  <2>2. stream' \in Seq(Item)
    BY <1>2, <2>1, AppendProperties
  <2> QED
    BY <1>1, <2>2 DEF StreamInv, StreamTypes
<1>4. AllBytes' = AllBytes
  BY <1>1 DEF AllBytes
<1>5. LeftBytes'
  BY <1>1, <1>4 DEF StreamInv, LeftBytes
<1>6. ASSUME client' # "gone" PROVE Framed' /\ Paired' /\ Accounted'
  <2>1. Framed /\ Paired /\ Accounted /\ stream \in Seq(Item) /\ Len(stream) \in Nat
    BY <1>1, <1>6 DEF StreamInv, StreamTypes
  <2>2. stream' = Append(stream, item)
    BY <1>1, <1>2, <1>6
  <2>3. /\ Len(stream') = Len(stream) + 1 /\ DOMAIN stream' = 1..(Len(stream) + 1)
        /\ DOMAIN stream = 1..Len(stream)
        /\ \A i \in 1..Len(stream) : stream'[i] = stream[i]
        /\ stream'[Len(stream) + 1] = item
    BY <2>1, <2>2, AppendProperties, LenProperties
  <2>4. PictureBytes' = PictureBytes \o BytesOf(item) /\ PictureBytes \in Seq(Byte)
    BY <2>1, <2>2, StreamGrows, PicturesType
  <2>5. CASE WriteHeader
    <3>1. video = "header" /\ video' = "payload" /\ ix' = ix /\ item = Header(ix)
      BY <1>2, <2>5 DEF WriteHeader, Goto
    <3>2. Len(stream) = 2 * ix
      BY <1>1, <2>1, <3>1 DEF Paired
    <3>3. Paired'
      BY <1>1, <2>3, <3>1, <3>2 DEF Paired
    <3>4. (2 * ix + 1) % 2 = 1 /\ ((2 * ix + 1) - 1) \div 2 = ix
      BY <1>1
    <3>5. Framed'
      <4> SUFFICES ASSUME NEW i \in 1..(Len(stream) + 1)
                   PROVE  IF i % 2 = 1 THEN stream'[i] = Header((i - 1) \div 2)
                          ELSE stream'[i].kind = "payload"
        BY <2>3 DEF Framed
      <4>1. CASE i = Len(stream) + 1
        BY <2>3, <3>1, <3>2, <3>4, <4>1
      <4>2. CASE i # Len(stream) + 1
        <5>1. i \in 1..Len(stream)
          BY <2>1, <4>2
        <5> QED
          BY <2>1, <2>3, <5>1 DEF Framed
      <4> QED
        BY <4>1, <4>2
    <3>6. BytesOf(item) = <<>>
      BY <3>1 DEF BytesOf, Header
    <3>7. PictureBytes' = PictureBytes
      BY <2>4, <3>6, ConcatEmptySeq
    <3>8. Pending' = Pending
      BY <1>1, <3>1 DEF Pending
    <3>9. Accounted'
      BY <1>1, <1>4, <2>1, <3>7, <3>8 DEF Accounted
    <3> QED
      BY <3>3, <3>5, <3>9
  <2>6. CASE WritePayload
    <3>1. video = "payload" /\ video' = "read" /\ ix' = ix + 1 /\ item = Payload(picture)
      BY <1>2, <2>6 DEF WritePayload, Goto
    <3>2. Len(stream) = 2 * ix + 1
      BY <1>1, <2>1, <3>1 DEF Paired
    <3>3. Paired'
      <4>1. Len(stream') = 2 * (ix + 1) + 0
        BY <1>1, <2>3, <3>2
      <4> QED
        BY <3>1, <4>1 DEF Paired
    <3>4. ((2 * ix + 1) + 1) % 2 # 1
      BY <1>1
    <3>5. Framed'
      <4> SUFFICES ASSUME NEW i \in 1..(Len(stream) + 1)
                   PROVE  IF i % 2 = 1 THEN stream'[i] = Header((i - 1) \div 2)
                          ELSE stream'[i].kind = "payload"
        BY <2>3 DEF Framed
      <4>1. CASE i = Len(stream) + 1
        BY <2>3, <3>1, <3>2, <3>4, <4>1 DEF Payload
      <4>2. CASE i # Len(stream) + 1
        <5>1. i \in 1..Len(stream)
          BY <2>1, <4>2
        <5> QED
          BY <2>1, <2>3, <5>1 DEF Framed
      <4> QED
        BY <4>1, <4>2
    <3>6. BytesOf(item) = picture /\ Pending = picture /\ Pending' = <<>>
      BY <3>1 DEF BytesOf, Payload, Pending
    <3>7. (PictureBytes \o picture) \o <<>> = PictureBytes \o picture
      <4>1. picture \in Seq(Byte)
        BY DEF StreamInv, StreamTypes
      <4>2. PictureBytes \o picture \in Seq(Byte)
        BY <2>4, <4>1, ConcatProperties
      <4> QED
        BY <4>2, ConcatEmptySeq
    <3>8. Accounted'
      BY <1>1, <1>4, <2>1, <2>4, <3>6, <3>7 DEF Accounted
    <3> QED
      BY <3>3, <3>5, <3>8
  <2> QED
    BY <2>5, <2>6
<1> QED
  BY <1>3, <1>5, <1>6 DEF StreamInv

LEMMA StreamNext == StreamInv /\ InsideFrame /\ [Next]_vars => StreamInv'
<1> SUFFICES ASSUME StreamInv, InsideFrame, [Next]_vars
             PROVE  StreamInv'
  OBVIOUS
<1>1. TypeOK /\ TypeOK'
  BY VideoNext DEF StreamInv, StreamTypes
<1>2. frames \in Seq(Nat) /\ size_left \in Nat /\ tmp_image_ptr \in Nat /\ AllBytes \in Seq(Byte)
  BY <1>1, FetchedType DEF TypeOK
<1>3. ASSUME NEW room \in ReadSizes, ReadOn(room)
      PROVE  StreamInv'
  <2>1. /\ room \in Nat /\ Hand(size_left, tmp_image_ptr, room) /\ frames' = frames
        /\ video = "read" /\ video' = "read" /\ UNCHANGED <<client, outVars>>
    BY <1>3, VideoAssumption DEF ReadOn, Goto
  <2>2. AllBytes' = AllBytes
    BY <2>1 DEF AllBytes
  <2>3. /\ size_left <= Len(AllBytes')
        /\ \A j \in 1..size_left :
             AllBytes'[Len(AllBytes') - size_left + j] = <<Len(frames'), tmp_image_ptr + j>>
    BY <2>1, <2>2 DEF StreamInv, LeftBytes
  <2>4. AllBytes' \in Seq(Byte)
    BY <1>2, <2>2
  <2>5. SubSeq(AllBytes', 1, Len(AllBytes') - size_left)
          = SubSeq(AllBytes, 1, Len(AllBytes) - size_left)
    BY <2>2
  <2> QED
    BY <1>1, <1>2, <2>1, <2>3, <2>4, <2>5, StreamReads
<1>4. ASSUME NEW room \in ReadSizes, NEW size \in Sizes, ReadFrame(size, room)
      PROVE  StreamInv'
  <2>1. /\ room \in Nat /\ size \in Nat /\ 0 \in Nat
        /\ Hand(size, 0, room) /\ frames' = Append(frames, size) /\ size_left = 0
        /\ video = "read" /\ video' = "read" /\ UNCHANGED <<client, outVars>>
    BY <1>4, VideoAssumption DEF ReadFrame, Goto
  <2> DEFINE all == AllBytes
             n == Len(AllBytes)
             last == FrameBytes(Len(frames'), size)
  <2>2. Len(frames') \in Nat
    BY <1>1 DEF TypeOK
  <2>3. /\ last \in Seq(Byte) /\ Len(last) = size
        /\ \A j \in 1..size : last[j] = <<Len(frames'), j>>
    BY <2>1, <2>2, FrameBytesType
  <2>4. AllBytes' = all \o last
    BY <1>2, <2>1, FramesGrow
  <2>5. all \in Seq(Byte) /\ n \in Nat /\ n = Len(all)
    BY <1>2
  <2> HIDE DEF all, n, last
  <2>6. /\ AllBytes' \in Seq(Byte) /\ Len(AllBytes') = n + size
        /\ \A i \in 1..(n + size) : AllBytes'[i] = IF i <= n THEN all[i] ELSE last[i - n]
    BY <2>3, <2>4, <2>5, ConcatProperties
  <2>7. size <= Len(AllBytes') /\ Len(AllBytes') - size = n
    BY <2>1, <2>5, <2>6
  <2>8. ASSUME NEW j \in 1..size
        PROVE  AllBytes'[Len(AllBytes') - size + j] = <<Len(frames'), 0 + j>>
    <3>1. n + j \in 1..(n + size) /\ ~(n + j <= n) /\ (n + j) - n = j /\ 0 + j = j
      BY <2>1, <2>5
    <3>2. AllBytes'[n + j] = last[j]
      BY <2>6, <3>1
    <3> QED
      BY <2>3, <2>7, <3>1, <3>2
  <2>9. SubSeq(AllBytes', 1, Len(AllBytes') - size) = SubSeq(AllBytes, 1, Len(AllBytes) - size_left)
    <3>1. SubSeq(AllBytes', 1, n) = all
      <4> DEFINE front == SubSeq(AllBytes', 1, n)
      <4>1. \A i \in 1..n : i \in 1..(n + size) /\ AllBytes'[i] \in Byte
        BY <2>1, <2>5, <2>6, ElementOfSeq
      <4>2. front \in Seq(Byte) /\ Len(front) = n /\ \A i \in 1..n : front[i] = AllBytes'[i]
        <5>1. /\ front \in Seq(Byte) /\ Len(front) = IF 1 <= n THEN n - 1 + 1 ELSE 0
              /\ \A i \in 1..(n - 1 + 1) : front[i] = AllBytes'[1 + i - 1]
          BY <2>5, <4>1, SubSeqProperties
        <5>2. (IF 1 <= n THEN n - 1 + 1 ELSE 0) = n /\ n - 1 + 1 = n
          BY <2>5
        <5>3. \A i \in 1..n : 1 + i - 1 = i
          OBVIOUS
        <5> HIDE DEF front
        <5> QED
          BY <5>1, <5>2, <5>3
      <4>3. \A i \in 1..n : front[i] = all[i]
        <5>1. \A i \in 1..n : i <= n
          OBVIOUS
        <5> HIDE DEF front
        <5> QED
          BY <2>6, <4>1, <4>2, <5>1
      <4> HIDE DEF front
      <4>4. front = all
        BY <2>5, <4>2, <4>3, SeqEqual
      <4> QED
        BY <4>4 DEF front
    <3>2. SubSeq(all, 1, n) = all
      BY <2>5, SubSeqFull
    <3>3. SubSeq(AllBytes, 1, Len(AllBytes) - size_left) = SubSeq(all, 1, n)
      <4>1. n - size_left = n
        BY <2>1, <2>5
      <4> QED
        BY <4>1 DEF all, n
    <3> QED
      BY <2>7, <3>1, <3>2, <3>3
  <2> QED
    BY <1>1, <2>1, <2>6, <2>7, <2>8, <2>9, StreamReads
<1>5. CASE ReadEmpty
  <2>1. /\ frames' = Append(frames, 0) /\ size_left = 0
        /\ UNCHANGED <<size_left, tmp_image_ptr, input, outVars>>
        /\ video = "read" /\ video' = "closed" /\ (client = "gone" => client' = "gone")
    BY <1>5 DEF ReadEmpty, Goto
  <2>2. AllBytes' = AllBytes
    <3>1. AllBytes' = AllBytes \o FrameBytes(Len(frames'), 0)
      BY <1>2, <2>1, FramesGrow
    <3>2. FrameBytes(Len(frames'), 0) = <<>>
      BY DEF FrameBytes
    <3> QED
      BY <1>2, <3>1, <3>2, ConcatEmptySeq
  <2>3. StreamTypes'
    BY <1>1, <2>1 DEF StreamInv, StreamTypes, outVars
  <2>4. LeftBytes'
    BY <1>2, <2>1, <2>2 DEF StreamInv, LeftBytes
  <2>5. ASSUME client' # "gone" PROVE Framed' /\ Paired' /\ Accounted'
    <3>1. Framed /\ Paired /\ Accounted
      BY <2>1, <2>5 DEF StreamInv
    <3>2. Framed' /\ Paired'
      BY <2>1, <3>1 DEF Framed, Paired, outVars
    <3>3. PictureBytes' = PictureBytes /\ Pending' = Pending
      BY <2>1 DEF PictureBytes, Pending, outVars
    <3> QED
      BY <2>1, <2>2, <3>1, <3>2, <3>3 DEF Accounted
  <2> QED
    BY <2>3, <2>4, <2>5 DEF StreamInv
<1>6. CASE Encode
  BY <1>1, <1>6, StreamEncodes
<1>7. CASE WriteHeader \/ WritePayload
  BY <1>1, <1>7, StreamWrites
<1>8. CASE Bind \/ Accept \/ Open \/ Fails \/ ClientConnect \/ ClientLeave \/ UNCHANGED vars
  <2>1. /\ UNCHANGED <<inVars, input, outVars>>
        /\ video' = video \/ {video, video'} \cap {"header", "payload"} = {}
        /\ client' = "gone" \/ client # "gone"
    BY <1>8 DEF Bind, Accept, Open, Fails, BindFails, AcceptFails, OpenFails, EncodingFails,
                Error, ClientConnect, ClientLeave, vars, Goto
  <2>2. StreamTypes'
    BY <1>1, <2>1 DEF StreamInv, StreamTypes, outVars
  <2> QED
    BY <2>1, <2>2, StreamRests
<1> QED
  BY <1>3, <1>4, <1>5, <1>6, <1>7, <1>8 DEF Next, VideoStep, Fails

\* To the byte, a client that stays was sent the simulator's frames in order,
\* none skipped and none doubled, cut into pictures that each follow the header
\* with their number: any sizes of frames, pictures and reads.
THEOREM StreamIsFramesAlways == Spec => []StreamIsFrames
<1>1. Init => StreamInv /\ InsideFrame
  BY StreamInit, VideoInit
<1>2. StreamInv /\ InsideFrame /\ [Next]_vars => StreamInv' /\ InsideFrame'
  BY StreamNext, VideoNext DEF StreamInv, StreamTypes
<1>3. StreamInv => StreamIsFrames
  BY DEF StreamInv, StreamIsFrames, Accounted, Pending
<1> QED
  BY <1>1, <1>2, <1>3, PTL DEF Spec
=============================================================================
