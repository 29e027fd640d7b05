-------------------------- MODULE VisionLinkProofs --------------------------
(***************************************************************************)
(* Proofs about the link between a vision client and the thread that       *)
(* serves it, for any size of header, any capacity of the sockets and any  *)
(* number of frames and rays, however send() and recv() cut up the stream. *)
(***************************************************************************)
EXTENDS VisionLink, SequenceLemmas

(* The constants of a link: its messages are those the client sends, and   *)
(* the bound of the channel allows for the introduction and all frames.    *)
LinkConstants ==
    /\ CommsAssumption /\ LinkAssumption
    /\ Messages = LinkMessages
    /\ MaxMessages \in Nat /\ MaxFrame < MaxMessages

(* What may be in a buffer, and what may be in the histories. *)
HeaderBytes == {HeaderByte(m, k) : m \in Messages, k \in Nat}
BodyBytes == {BodyByte(m, k) : m \in Messages, k \in Nat}
Bytes == HeaderBytes \cup BodyBytes \cup {[head |-> <<"", 0>>, at |-> 0]}
Contents == {Content(m) : m \in Messages}

(* The bytes of a message, and of a sequence of messages. *)
Encoded(c) == [k \in 1 .. HeaderSize |-> HeaderByte(c, k)] \o c.data
Stream(s)  == FlattenSeq([i \in DOMAIN s |-> Encoded(s[i])])

(* The bytes write() has sent of message m when n of the part p are sent,  *)
(* and the bytes read() has received of a message.                         *)
SentOf(p, m, n) ==
    IF p = "header" THEN SubSeq(HeaderOf(m), 1, n)
    ELSE IF p = "body" THEN HeaderOf(m) \o SubSeq(BodyOf(m), 1, n)
    ELSE <<>>
BegunOf(p, buf, data, n) ==
    IF p = "header" THEN SubSeq(buf, 1, n)
    ELSE IF p = "body" THEN buf \o data
    ELSE <<>>

(* The bytes a and w, one after the other, are those of the messages s and *)
(* what has been sent of the next.                                         *)
Continue(a, w, s, p, m, n) == a \o w = Stream(s) \o SentOf(p, m, n)

(* The messages that were written and not yet read. *)
Rest == SubSeq(written, Len(received) + 1, Len(written))

-----------------------------------------------------------------------------
(* The inductive invariant, part by part: the types; what write() and      *)
(* read() hold between two system calls; where the client stands in its    *)
(* messages; where the thread stands; and the stream itself.               *)
Types ==
    /\ TypeOK
    /\ wire \in Seq(Bytes)
    /\ header \in [1 .. HeaderSize -> Bytes]
    /\ in = [type |-> in.type, size |-> in.size, data |-> in.data]
    /\ in.size \in Nat /\ in.data \in Seq(Bytes)
    /\ written \in Seq(Contents) /\ received \in Seq(Contents)

Progress ==
    /\ nsent \in Nat /\ nread \in Nat
    /\ wpart = "none" => nsent = 0
    /\ wpart = "header" => nsent < HeaderSize
    /\ wpart = "body" => nsent < out.size
    /\ rpart = "none" => nread = 0
    /\ rpart = "header" => nread < HeaderSize
    /\ rpart = "body" =>
          /\ nread < in.size /\ Len(in.data) = nread
          /\ \E m \in Messages : m.type = in.type /\ m.size = in.size /\ header = HeaderOf(m)
    /\ in.type = "MSG_VISION_DATA" => in.size <= MaxRays

ClientInv ==
    /\ cpc = "open" => serving = "unknown"
    /\ cpc \in {"open", "init"} => written = <<>> /\ wpart = "none"
    /\ cpc = "capture" => wpart = "none"
    /\ Len(written) + (IF wpart = "none" THEN 0 ELSE 1) <= frame + 1
    /\ frameId <= frame
    /\ cpc = "sending" => frameId < frame

ThreadInv ==
    /\ serving # "served" => spc = "off"
    /\ rpart # "none" => spc = "reading" /\ rresult = 1
    /\ spc \in {"off", "check", "rays"} => rresult = 1
    /\ spc = "rays" => in.type = "MSG_VISION_DATA"
    /\ link = "closed" => serving = "rejected" \/ spc = "ended"
    /\ link # "up" => wire = <<>>

StreamInv ==
    /\ Len(received) <= Len(written)
    /\ \A i \in 1 .. Len(received) : received[i] = written[i]
    /\ link = "up" /\ rresult = 1 =>
          BegunOf(rpart, header, in.data, nread) \o wire = Stream(Rest) \o SentOf(wpart, out, nsent)

LinkInv == Types /\ Progress /\ ClientInv /\ ThreadInv /\ StreamInv

-----------------------------------------------------------------------------
(* The second of two sequences follows the first.                          *)
LEMMA AfterConcat ==
  ASSUME NEW S, NEW a \in Seq(S), NEW b \in Seq(S), NEW i \in 1 .. Len(b)
  PROVE  (a \o b)[i + Len(a)] = b[i]
  OBVIOUS

(* Two sequences that begin with parts of the same length agree on these   *)
(* parts and on what follows.                                              *)
LEMMA SplitEqual ==
  ASSUME NEW S, NEW a \in Seq(S), NEW b \in Seq(S), NEW c \in Seq(S), NEW d \in Seq(S),
         Len(a) = Len(c), a \o b = c \o d
  PROVE  a = c /\ b = d
<1>1. a = c
  <2>1. \A i \in 1 .. Len(a) : a[i] = (a \o b)[i] /\ c[i] = (c \o d)[i]
    BY ConcatProperties
  <2> QED
    BY <2>1, SeqEqual
<1>2. b = d
  <2>1. Len(b) = Len(d)
    BY ConcatProperties
  <2>2. \A i \in 1 .. Len(b) : b[i] = (a \o b)[i + Len(a)]
    BY AfterConcat
  <2>3. \A i \in 1 .. Len(d) : d[i] = (c \o d)[i + Len(c)]
    BY AfterConcat
  <2>4. \A i \in 1 .. Len(b) : b[i] = d[i]
    BY <2>1, <2>2, <2>3, Zenon
  <2> QED
    BY <2>1, <2>4, SeqEqual
<1> QED
  BY <1>1, <1>2

(* The same, what concatenation yields and that it is associative, for     *)
(* bytes.                                                                  *)
LEMMA BytesJoin ==
  \A a, b \in Seq(Bytes) : a \o b \in Seq(Bytes) /\ Len(a \o b) = Len(a) + Len(b)
  BY ConcatProperties

(* Concatenation of bytes is associative.                                  *)
LEMMA BytesAssociate ==
  \A a, b, c \in Seq(Bytes) : (a \o b) \o c = a \o (b \o c)
  BY ConcatAssociative

(* Equal strings with first parts of equal length have equal parts.        *)
LEMMA BytesSplit ==
  \A a, b, c, d \in Seq(Bytes) : Len(a) = Len(c) /\ a \o b = c \o d => a = c /\ b = d
  BY SplitEqual

(* Four parts joined from the left are joined from the right.              *)
LEMMA FourParts ==
  \A a, b, c, d \in Seq(Bytes) :
      Join(Join(Join(a, b), c), d) = Join(a, Join(b, Join(c, d)))
<1> SUFFICES ASSUME NEW a \in Seq(Bytes), NEW b \in Seq(Bytes), NEW c \in Seq(Bytes),
                    NEW d \in Seq(Bytes)
             PROVE  Join(Join(Join(a, b), c), d) = Join(a, Join(b, Join(c, d)))
  OBVIOUS
<1>1. c \o d \in Seq(Bytes) /\ a \o b \in Seq(Bytes)
  BY BytesJoin
<1>2. ASSUME NEW x \in Seq(Bytes) PROVE (x \o c) \o d = x \o (c \o d)
  BY BytesAssociate, ZenonT(30)
<1>a. ASSUME NEW x \in Seq(Bytes) PROVE (a \o b) \o x = a \o (b \o x)
  BY BytesAssociate, ZenonT(30)
<1>3. ((a \o b) \o c) \o d = (a \o b) \o (c \o d)
  BY <1>1, <1>2, Zenon
<1>4. (a \o b) \o (c \o d) = a \o (b \o (c \o d))
  BY <1>1, <1>a, Zenon
<1> QED
  BY <1>3, <1>4, Zenon DEF Join

(* Four parts joined from the middle are joined in pairs.                  *)
LEMMA MiddleParts ==
  \A a, b, c, d \in Seq(Bytes) :
      Join(Join(a, Join(b, c)), d) = Join(Join(a, b), Join(c, d))
<1> SUFFICES ASSUME NEW a \in Seq(Bytes), NEW b \in Seq(Bytes), NEW c \in Seq(Bytes),
                    NEW d \in Seq(Bytes)
             PROVE  Join(Join(a, Join(b, c)), d) = Join(Join(a, b), Join(c, d))
  OBVIOUS
<1>1. Join(Join(Join(a, b), c), d) = Join(a, Join(b, Join(c, d)))
  BY FourParts
<1>2. Join(a, Join(b, c)) = Join(Join(a, b), c)
  BY BytesAssociate, ZenonT(30) DEF Join
<1>3. Join(c, d) \in Seq(Bytes)
  BY BytesJoin DEF Join
<1>4. Join(a, Join(b, Join(c, d))) = Join(Join(a, b), Join(c, d))
  BY <1>3, BytesAssociate, ZenonT(30) DEF Join
<1> QED
  BY <1>1, <1>2, <1>4, Zenon

(* The bytes of a header and of a body.                                    *)
LEMMA MessageBytes ==
  ASSUME LinkConstants, NEW m \in Messages
  PROVE  /\ HeaderOf(m) \in Seq(Bytes) /\ Len(HeaderOf(m)) = HeaderSize
         /\ HeaderOf(m) \in [1 .. HeaderSize -> Bytes]
         /\ BodyOf(m) \in Seq(Bytes) /\ Len(BodyOf(m)) = m.size
         /\ m.size \in Nat \ {0}
<1>1. m.size \in Nat \ {0} /\ HeaderSize \in Nat
  BY DEF LinkConstants, CommsAssumption, LinkAssumption, LinkMessages, InitMessage, DataMessages
<1>2. ASSUME NEW k \in Nat PROVE HeaderByte(m, k) \in Bytes /\ BodyByte(m, k) \in Bytes
  <2>1. HeaderByte(m, k) \in HeaderBytes
    BY DEF HeaderBytes
  <2>2. BodyByte(m, k) \in BodyBytes
    BY DEF BodyBytes
  <2> QED
    BY <2>1, <2>2 DEF Bytes
<1>3. HeaderOf(m) \in [1 .. HeaderSize -> Bytes]
  BY <1>1, <1>2 DEF HeaderOf
<1>4. BodyOf(m) \in [1 .. m.size -> Bytes]
  BY <1>1, <1>2 DEF BodyOf
<1>5. ASSUME NEW n \in Nat, NEW f \in [1 .. n -> Bytes] PROVE f \in Seq(Bytes) /\ Len(f) = n
  BY <1>5
<1> QED
  BY <1>1, <1>3, <1>4, <1>5

(* Two messages with the same header have the same type and size.          *)
LEMMA HeadersDiffer ==
  ASSUME LinkConstants, NEW m \in Messages, NEW n, HeaderOf(m) = HeaderOf(n)
  PROVE  m.type = n.type /\ m.size = n.size
<1>1. 1 \in 1 .. HeaderSize
  BY DEF LinkConstants, CommsAssumption
<1>2. HeaderOf(m)[1] = HeaderByte(m, 1) /\ HeaderOf(n)[1] = HeaderByte(n, 1)
  BY <1>1 DEF HeaderOf
<1>3. HeaderByte(m, 1) = HeaderByte(n, 1)
  BY <1>2
<1>4. HeaderByte(m, 1).head = HeaderByte(n, 1).head
  BY <1>3
<1> QED
  BY <1>4 DEF HeaderByte

(* What is held of a message determines its bytes.                         *)
LEMMA ContentBytes ==
  ASSUME LinkConstants, NEW m \in Messages
  PROVE  /\ Content(m) \in Contents
         /\ Encoded(Content(m)) = HeaderOf(m) \o BodyOf(m)
         /\ Encoded(Content(m)) \in Seq(Bytes)
<1>1. Content(m).type = m.type /\ Content(m).size = m.size /\ Content(m).data = BodyOf(m)
  BY DEF Content
<1>2. \A k : HeaderByte(Content(m), k) = HeaderByte(m, k)
  BY <1>1 DEF HeaderByte
<1>3. [k \in 1 .. HeaderSize |-> HeaderByte(Content(m), k)] = HeaderOf(m)
  BY <1>2 DEF HeaderOf
<1>4. Encoded(Content(m)) = HeaderOf(m) \o BodyOf(m)
  BY <1>1, <1>3, Zenon DEF Encoded
<1>5. HeaderOf(m) \o BodyOf(m) \in Seq(Bytes)
  BY MessageBytes, ConcatProperties
<1>6. Content(m) \in Contents
  BY DEF Contents
<1> QED
  BY <1>4, <1>5, <1>6

(* A sequence of messages is one of sequences of bytes.                    *)
LEMMA EncodedSeq ==
  ASSUME LinkConstants, NEW s \in Seq(Contents)
  PROVE  /\ [i \in DOMAIN s |-> Encoded(s[i])] \in Seq(Seq(Bytes))
         /\ Len([i \in DOMAIN s |-> Encoded(s[i])]) = Len(s)
<1>1. \A c \in Contents : Encoded(c) \in Seq(Bytes)
  BY ContentBytes DEF Contents
<1>2. \A i \in DOMAIN s : Encoded(s[i]) \in Seq(Bytes)
  BY <1>1
<1> QED
  BY <1>2

(* The stream of one more message, at its end and at its beginning.        *)
LEMMA StreamGrows ==
  ASSUME LinkConstants, NEW s \in Seq(Contents), NEW m \in Messages
  PROVE  /\ Stream(s) \in Seq(Bytes) /\ Stream(<<>>) = <<>>
         /\ Stream(Append(s, Content(m))) = Stream(s) \o (HeaderOf(m) \o BodyOf(m))
<1> DEFINE E(t) == [i \in DOMAIN t |-> Encoded(t[i])]
<1>2. \A t \in Seq(Contents) : E(t) \in Seq(Seq(Bytes)) /\ Len(E(t)) = Len(t)
  BY EncodedSeq
<1>3. E(Append(s, Content(m))) = Append(E(s), Encoded(Content(m)))
  BY <1>2, ContentBytes
<1>4. Stream(s) \in Seq(Bytes)
  BY <1>2, FlattenType DEF Stream
<1>5. Stream(<<>>) = <<>>
  <2>1. E(<<>>) = <<>>
    OBVIOUS
  <2> QED
    BY <2>1, FlattenShort DEF Stream
<1>6. Stream(Append(s, Content(m))) = Stream(s) \o Encoded(Content(m))
  BY <1>2, <1>3, ContentBytes, FlattenAppend DEF Stream
<1> QED
  BY <1>4, <1>5, <1>6, ContentBytes

(* A stream begins with the header and body of its first message.          *)
LEMMA StreamFirst ==
  ASSUME LinkConstants, NEW s \in Seq(Contents), s # <<>>
  PROVE  \E m \in Messages :
            s[1] = Content(m) /\ Stream(s) = (HeaderOf(m) \o BodyOf(m)) \o Stream(Tail(s))
<1> DEFINE E(t) == [i \in DOMAIN t |-> Encoded(t[i])]
<1>2. \A t \in Seq(Contents) : E(t) \in Seq(Seq(Bytes)) /\ Len(E(t)) = Len(t)
  BY EncodedSeq
<1>3. E(s) # <<>> /\ E(s)[1] = Encoded(s[1])
  BY <1>2
<1>4. Tail(E(s)) = E(Tail(s))
  BY <1>2, <1>3
<1>5. PICK m \in Messages : s[1] = Content(m)
  BY DEF Contents
<1>6. Stream(s) = E(s)[1] \o Stream(Tail(s))
  BY <1>2, <1>3, <1>4, FlattenFirst DEF Stream
<1> QED
  BY <1>3, <1>5, <1>6, ContentBytes

-----------------------------------------------------------------------------
(* A next piece of a sequence continues the part before it.                *)
LEMMA NextPiece ==
  ASSUME NEW S, NEW s \in Seq(S), NEW n \in Nat, NEW k \in 1 .. Len(s) - n, NEW l, l = Len(s)
  PROVE  /\ SubSeq(SubSeq(s, n + 1, l), 1, k) \in Seq(S)
         /\ Len(SubSeq(SubSeq(s, n + 1, l), 1, k)) = k
         /\ SubSeq(s, 1, n) \o SubSeq(SubSeq(s, n + 1, l), 1, k) = SubSeq(s, 1, n + k)
<1>1. Len(s) \in Nat /\ n + 1 \in 1 .. Len(s) /\ n + k \in n .. Len(s) /\ k \in Nat \ {0}
  BY LenProperties
<1>2. SubSeq(SubSeq(s, n + 1, l), 1, k) = SubSeq(s, n + 1, n + k)
  BY <1>1
<1>3. SubSeq(s, n + 1, n + k) \in Seq(S) /\ Len(SubSeq(s, n + 1, n + k)) = k
  BY <1>1
<1>4. SubSeq(s, 1, n) \o SubSeq(s, n + 1, n + k) = SubSeq(s, 1, n + k)
  BY <1>1
<1> QED
  BY <1>2, <1>3, <1>4, Zenon

(* What remains of a sequence when something is appended to it, and when   *)
(* its first element is taken.                                             *)
LEMMA RestGrows ==
  ASSUME NEW S, NEW s \in Seq(S), NEW e \in S, NEW r \in 0 .. Len(s)
  PROVE  /\ SubSeq(Append(s, e), r + 1, Len(Append(s, e))) = Append(SubSeq(s, r + 1, Len(s)), e)
         /\ SubSeq(s, r + 1, Len(s)) \in Seq(S)
<1> DEFINE n == Len(s)
           a == Append(s, e)
           t == SubSeq(s, r + 1, n)
           u == SubSeq(a, r + 1, n + 1)
<1>1. n \in Nat /\ r \in Nat /\ r <= n
  BY LenProperties
<1>2. a \in Seq(S) /\ Len(a) = n + 1 /\ a[n + 1] = e /\ \A i \in 1 .. n : a[i] = s[i]
  BY AppendProperties
<1>3. t \in Seq(S) /\ Len(t) = n - r /\ \A i \in 1 .. n - r : t[i] = s[r + i]
  <2>1. \A i \in r + 1 .. n : s[i] \in S
    BY <1>1, ElementOfSeq
  <2> QED
    BY <1>1, <2>1, SubSeqProperties
<1> HIDE DEF a
<1>4. u \in Seq(S) /\ Len(u) = n - r + 1 /\ \A i \in 1 .. n - r + 1 : u[i] = a[r + i]
  <2>1. \A i \in r + 1 .. n + 1 : a[i] \in S
    BY <1>1, <1>2, ElementOfSeq
  <2> QED
    BY <1>1, <2>1, SubSeqProperties
<1> HIDE DEF n, t, u
<1>5. /\ Append(t, e) \in Seq(S) /\ Len(Append(t, e)) = n - r + 1
      /\ Append(t, e)[n - r + 1] = e /\ \A i \in 1 .. n - r : Append(t, e)[i] = t[i]
  <2>1. t \in Seq(S) /\ Len(t) = n - r
    BY <1>3
  <2>2. /\ Append(t, e) \in Seq(S) /\ Len(Append(t, e)) = Len(t) + 1
        /\ Append(t, e)[Len(t) + 1] = e /\ \A i \in 1 .. Len(t) : Append(t, e)[i] = t[i]
    BY <2>1, AppendProperties
  <2> QED
    BY <2>1, <2>2, Zenon
<1>6. ASSUME NEW i \in 1 .. n - r + 1 PROVE u[i] = Append(t, e)[i]
  <2>1. CASE i = n - r + 1
    BY <2>1, <1>1, <1>2, <1>4, <1>5
  <2>2. CASE i # n - r + 1
    <3>1. i \in 1 .. n - r /\ r + i \in 1 .. n
      BY <1>1, <2>2
    <3>2. a[r + i] = s[r + i]
      BY <1>2, <3>1
    <3>3. u[i] = a[r + i]
      BY <1>4
    <3>4. t[i] = s[r + i]
      BY <1>3, <3>1
    <3>5. Append(t, e)[i] = t[i]
      BY <1>5, <3>1
    <3> QED
      BY <3>2, <3>3, <3>4, <3>5, Zenon
  <2> QED
    BY <2>1, <2>2
<1>7. u = Append(t, e)
  BY <1>4, <1>5, <1>6, SeqEqual
<1> QED
  BY <1>2, <1>3, <1>7 DEF a, n, t, u

(* The same about the messages that were written.                          *)
LEMMA ContentsGrow ==
  \A s \in Seq(Contents), e \in Contents : \A r \in 0 .. Len(s) :
      /\ SubSeq(s, r + 1, Len(s)) \in Seq(Contents)
      /\ SubSeq(Append(s, e), r + 1, Len(Append(s, e))) = Append(SubSeq(s, r + 1, Len(s)), e)
<1> TAKE s \in Seq(Contents), e \in Contents
<1> TAKE r \in 0 .. Len(s)
<1> QED
  BY RestGrows

(* The rest of a sequence has the next element first.                      *)
LEMMA RestShrinks ==
  ASSUME NEW S, NEW s \in Seq(S), NEW r \in Nat, r < Len(s)
  PROVE  /\ SubSeq(s, r + 1, Len(s)) # <<>>
         /\ SubSeq(s, r + 1, Len(s))[1] = s[r + 1]
         /\ Tail(SubSeq(s, r + 1, Len(s))) = SubSeq(s, r + 1 + 1, Len(s))
<1>1. r + 1 \in 1 .. Len(s) /\ Len(s) \in r + 1 .. Len(s)
  BY LenProperties
<1>2. Tail(SubSeq(s, r + 1, Len(s))) = SubSeq(s, r + 1 + 1, Len(s))
  BY <1>1, HeadTailOfSubSeq
<1>3. Len(SubSeq(s, r + 1, Len(s))) # 0 /\ SubSeq(s, r + 1, Len(s))[1] = s[r + 1]
  BY <1>1
<1>4. Len(<<>>) = 0
  OBVIOUS
<1>5. SubSeq(s, r + 1, Len(s)) # <<>>
  BY <1>3, <1>4, Zenon
<1> QED
  BY <1>2, <1>3, <1>5

(* What write() has sent of a message, and how long it is.                 *)
LEMMA SentBytes ==
  ASSUME LinkConstants, NEW m \in Messages, NEW n \in Nat, NEW p \in {"none", "header", "body"},
         p = "header" => n <= HeaderSize, p = "body" => n <= m.size
  PROVE  /\ SentOf(p, m, n) \in Seq(Bytes)
         /\ Len(SentOf(p, m, n)) =
               IF p = "none" THEN 0 ELSE IF p = "header" THEN n ELSE HeaderSize + n
<1>1. HeaderSize \in Nat
  BY DEF LinkConstants, CommsAssumption
<1>2. CASE p = "none"
  BY <1>2 DEF SentOf
<1>3. CASE p = "header"
  <2>1. SubSeq(HeaderOf(m), 1, n) \in Seq(Bytes) /\ Len(SubSeq(HeaderOf(m), 1, n)) = n
    BY <1>3, MessageBytes
  <2> QED
    BY <1>3, <2>1 DEF SentOf
<1>4. CASE p = "body"
  <2>1. SubSeq(BodyOf(m), 1, n) \in Seq(Bytes) /\ Len(SubSeq(BodyOf(m), 1, n)) = n
    BY <1>4, MessageBytes
  <2>2. /\ HeaderOf(m) \o SubSeq(BodyOf(m), 1, n) \in Seq(Bytes)
        /\ Len(HeaderOf(m) \o SubSeq(BodyOf(m), 1, n)) = HeaderSize + n
    <3>1. HeaderOf(m) \in Seq(Bytes) /\ Len(HeaderOf(m)) = HeaderSize
      BY MessageBytes
    <3>2. /\ HeaderOf(m) \o SubSeq(BodyOf(m), 1, n) \in Seq(Bytes)
          /\ Len(HeaderOf(m) \o SubSeq(BodyOf(m), 1, n))
                = Len(HeaderOf(m)) + Len(SubSeq(BodyOf(m), 1, n))
      BY <2>1, <3>1, BytesJoin, Zenon
    <3> QED
      BY <2>1, <3>1, <3>2, Zenon
  <2> QED
    BY <1>4, <2>2 DEF SentOf
<1> QED
  BY <1>2, <1>3, <1>4

(* A complete header at the beginning of the stream is that of a message:  *)
(* of the first one that was written and not read, or of the one that is   *)
(* being written.                                                          *)
LEMMA HeaderFound ==
  ASSUME LinkConstants, NEW m \in Messages, NEW n \in Nat, NEW p \in {"none", "header", "body"},
         p = "header" => n < HeaderSize, p = "body" => n <= m.size,
         NEW s \in Seq(Contents), NEW buf \in Seq(Bytes), Len(buf) = HeaderSize,
         NEW w \in Seq(Bytes), Continue(buf, w, s, p, m, n)
  PROVE  \E x \in Messages : buf = HeaderOf(x)
<1>0. buf \o w = Stream(s) \o SentOf(p, m, n)
  BY DEF Continue
<1>1. HeaderSize \in Nat \ {0}
  BY DEF LinkConstants, CommsAssumption
<1>2. SentOf(p, m, n) \in Seq(Bytes)
  BY SentBytes
<1>3. CASE s = <<>>
  <2>1. buf \o w = SentOf(p, m, n)
    BY <1>0, <1>2, <1>3, StreamGrows, ConcatEmptySeq
  <2>2. Len(SentOf(p, m, n)) >= HeaderSize
    BY <1>1, <2>1, ConcatProperties, LenProperties
  <2>3. p = "body"
    <3>1. Len(SentOf(p, m, n)) =
             IF p = "none" THEN 0 ELSE IF p = "header" THEN n ELSE HeaderSize + n
      BY SentBytes
    <3> QED
      BY <1>1, <2>2, <3>1
  <2>4. SubSeq(BodyOf(m), 1, n) \in Seq(Bytes)
    BY <2>3, MessageBytes
  <2>5. buf \o w = HeaderOf(m) \o SubSeq(BodyOf(m), 1, n)
    BY <2>1, <2>3 DEF SentOf
  <2>6. buf = HeaderOf(m)
    <3>1. HeaderOf(m) \in Seq(Bytes) /\ Len(HeaderOf(m)) = HeaderSize
      BY MessageBytes
    <3> QED
      <4>1. Len(buf) = Len(HeaderOf(m))
        BY <3>1
      <4>2. \A d \in Seq(Bytes) : buf \o w = HeaderOf(m) \o d => buf = HeaderOf(m)
        BY <3>1, <4>1, BytesSplit, ZenonT(30)
      <4> QED
        BY <2>4, <2>5, <4>2, Zenon
  <2> QED
    BY <2>6
<1>4. CASE s # <<>>
  <2>1. PICK x \in Messages : Stream(s) = (HeaderOf(x) \o BodyOf(x)) \o Stream(Tail(s))
    BY <1>4, StreamFirst
  <2>2. Stream(Tail(s)) \in Seq(Bytes)
    BY <1>4, StreamGrows, HeadTailProperties
  <2> DEFINE b == BodyOf(x)  t == Stream(Tail(s))  q == SentOf(p, m, n)  h == HeaderOf(x)
  <2>3. h \in Seq(Bytes) /\ Len(h) = HeaderSize /\ b \in Seq(Bytes)
    BY MessageBytes
  <2>4. buf \o w = ((h \o b) \o t) \o q
    BY <1>0, <2>1
  <2> HIDE DEF b, t, q, h
  <2>5. /\ ((h \o b) \o t) \o q = h \o (b \o (t \o q))
        /\ b \o (t \o q) \in Seq(Bytes)
    <3>1. t \in Seq(Bytes) /\ q \in Seq(Bytes)
      BY <1>2, <2>2 DEF t, q
    <3> QED
      <4>1. t \o q \in Seq(Bytes)
        BY <3>1, BytesJoin
      <4>2. b \o (t \o q) \in Seq(Bytes)
        BY <2>3, <4>1, BytesJoin
      <4>3. ((h \o b) \o t) \o q = h \o (b \o (t \o q))
        <5>1. Join(Join(Join(h, b), t), q) = Join(h, Join(b, Join(t, q)))
          BY <2>3, <3>1, FourParts
        <5> QED
          BY <5>1, Zenon DEF Join
      <4> QED
        BY <4>2, <4>3, Zenon
  <2>6. buf = h
    BY <2>3, <2>4, <2>5, SplitEqual
  <2> QED
    BY <2>6 DEF h
<1> QED
  BY <1>3, <1>4

(* A complete body at the beginning of the stream is that of the first     *)
(* message that was written and not read, and the rest of the stream       *)
(* follows it.                                                             *)
LEMMA BodyFound ==
  ASSUME LinkConstants, NEW m \in Messages, NEW n \in Nat, NEW p \in {"none", "header", "body"},
         p = "header" => n < HeaderSize, p = "body" => n < m.size,
         NEW s \in Seq(Contents), NEW x \in Messages,
         NEW data \in Seq(Bytes), Len(data) = x.size,
         NEW w \in Seq(Bytes), Continue(HeaderOf(x) \o data, w, s, p, m, n)
  PROVE  /\ s # <<>> /\ s[1] = [type |-> x.type, size |-> x.size, data |-> data]
         /\ w = Join(Stream(Tail(s)), SentOf(p, m, n))
<1>0. (HeaderOf(x) \o data) \o w = Stream(s) \o SentOf(p, m, n)
  BY DEF Continue
<1>1. HeaderSize \in Nat \ {0}
  BY DEF LinkConstants, CommsAssumption
<1> DEFINE q == SentOf(p, m, n)  h == HeaderOf(x)
<1>2. q \in Seq(Bytes)
  <2>1. p = "header" => n <= HeaderSize
    BY <1>1
  <2>2. p = "body" => n <= m.size
    BY MessageBytes
  <2> QED
    BY <2>1, <2>2, SentBytes
<1>3. h \in Seq(Bytes) /\ Len(h) = HeaderSize /\ x.size \in Nat
  BY MessageBytes
<1>4. (h \o data) \o w = h \o (data \o w) /\ data \o w \in Seq(Bytes)
  <2>1. h \in Seq(Bytes)
    BY <1>3
  <2>2. (h \o data) \o w = h \o (data \o w)
    BY <2>1, BytesAssociate, Zenon
  <2>3. data \o w \in Seq(Bytes)
    BY BytesJoin, Zenon
  <2> QED
    BY <2>2, <2>3, Zenon
<1>5. h \o (data \o w) = Stream(s) \o q
  BY <1>0, <1>4
<1>6. s # <<>>
  <2> SUFFICES ASSUME s = <<>> PROVE FALSE
    OBVIOUS
  <2>1. h \o (data \o w) = q
    BY <1>2, <1>5, StreamGrows, ConcatEmptySeq
  <2>2. Len(q) = HeaderSize + (x.size + Len(w)) /\ Len(w) \in Nat
    BY <1>1, <1>3, <1>4, <2>1, ConcatProperties, LenProperties
  <2>3. p = "body" /\ x.size <= n
    <3>1. Len(q) = IF p = "none" THEN 0 ELSE IF p = "header" THEN n ELSE HeaderSize + n
      <4>1. (p = "header" => n <= HeaderSize) /\ (p = "body" => n <= m.size)
        BY <1>1, MessageBytes
      <4> QED
        BY <4>1, SentBytes
    <3> HIDE DEF q
    <3> QED
      BY <1>1, <1>3, <2>2, <3>1
  <2>4. SubSeq(BodyOf(m), 1, n) \in Seq(Bytes)
    BY <2>3, MessageBytes
  <2>5. h \o (data \o w) = HeaderOf(m) \o SubSeq(BodyOf(m), 1, n)
    BY <2>1, <2>3 DEF SentOf
  <2>6. h = HeaderOf(m)
    <3>1. HeaderOf(m) \in Seq(Bytes) /\ Len(HeaderOf(m)) = HeaderSize
      BY MessageBytes
    <3> QED
      <4>1. Len(h) = Len(HeaderOf(m))
        BY <1>3, <3>1
      <4>2. h \in Seq(Bytes) /\ data \o w \in Seq(Bytes)
        BY <1>3, <1>4
      <4> HIDE DEF h, q
      <4>3. \A d \in Seq(Bytes) : h \o (data \o w) = HeaderOf(m) \o d => h = HeaderOf(m)
        BY <3>1, <4>1, <4>2, BytesSplit, ZenonT(30)
      <4> QED
        BY <2>4, <2>5, <4>3, Zenon
  <2>7. x.size = m.size
    BY <2>6, HeadersDiffer
  <2> QED
    BY <2>3, <2>7, <1>3
<1>7. PICK y \in Messages :
          s[1] = Content(y) /\ Stream(s) = (HeaderOf(y) \o BodyOf(y)) \o Stream(Tail(s))
  BY <1>6, StreamFirst
<1> DEFINE t == Stream(Tail(s))  g == HeaderOf(y)  b == BodyOf(y)
<1>8. t \in Seq(Bytes)
  BY <1>6, StreamGrows, HeadTailProperties
<1>9. g \in Seq(Bytes) /\ Len(g) = HeaderSize /\ b \in Seq(Bytes) /\ Len(b) = y.size
  BY MessageBytes
<1>10. h \o (data \o w) = ((g \o b) \o t) \o q
  BY <1>5, <1>7
<1> HIDE DEF q, h, t, g, b
<1>11. /\ ((g \o b) \o t) \o q = g \o (b \o (t \o q))
       /\ t \o q \in Seq(Bytes) /\ b \o (t \o q) \in Seq(Bytes)
  <2>1. t \o q \in Seq(Bytes)
    BY <1>2, <1>8, BytesJoin
  <2>2. b \o (t \o q) \in Seq(Bytes)
    BY <1>9, <2>1, BytesJoin
  <2>3. ((g \o b) \o t) \o q = g \o (b \o (t \o q))
    <3>1. Join(Join(Join(g, b), t), q) = Join(g, Join(b, Join(t, q)))
      BY <1>2, <1>8, <1>9, FourParts
    <3> QED
      BY <3>1, Zenon DEF Join
  <2> QED
    BY <2>1, <2>2, <2>3, Zenon
<1>12. h = g /\ data \o w = b \o (t \o q)
  <2>1. Len(h) = Len(g) /\ h \o (data \o w) = g \o (b \o (t \o q))
    BY <1>3, <1>9, <1>10, <1>11, Zenon
  <2>2. h \in Seq(Bytes) /\ g \in Seq(Bytes)
    BY <1>3, <1>9, Zenon
  <2>3. data \o w \in Seq(Bytes) /\ b \o (t \o q) \in Seq(Bytes)
    BY <1>4, <1>11, Zenon
  <2> QED
    BY <2>1, <2>2, <2>3, BytesSplit, Zenon
<1>13. x.type = y.type /\ x.size = y.size
  BY <1>12, HeadersDiffer DEF h, g
<1>14. data = b /\ w = t \o q
  BY <1>9, <1>11, <1>12, <1>13, SplitEqual
<1>15. w = Join(t, q)
  BY <1>14, Zenon DEF Join
<1> QED
  BY <1>6, <1>7, <1>13, <1>14, <1>15 DEF Content, b, t, q

-----------------------------------------------------------------------------
(* The first state.                                                        *)
LEMMA InitLink == ASSUME LinkConstants, Init PROVE LinkInv
<1>1. out \in Messages
  BY DEF LinkConstants, LinkMessages, Init, CommsInit
<1>2. HeaderSize \in Nat \ {0} /\ Capacity \in Nat \ {0} /\ MaxRays \in Nat /\ MaxFrame \in Nat
  BY DEF LinkConstants, CommsAssumption, LinkAssumption
<1>3. header \in [1 .. HeaderSize -> Bytes]
  <2>1. [head |-> <<"", 0>>, at |-> 0] \in Bytes
    BY DEF Bytes
  <2> QED
    BY <2>1 DEF Init, CommsInit
<1>a. Len(<<>>) = 0 /\ <<>> \in Seq(Bytes) /\ <<>> \in Seq(Contents)
  OBVIOUS
<1>4. Types
  <2>1. TypeOK
    <3>1. Len(wire) <= Capacity
      <4>1. wire = <<>>
        BY DEF Init, CommsInit
      <4> QED
        BY <1>2, <1>a, <4>1
    <3>2. /\ 0 \in 0 .. HeaderSize + MaxRays /\ 0 \in 0 .. MaxFrame /\ 1 \in 1 .. MaxRays + 1
      BY <1>2
    <3> QED
      BY <1>1, <3>1, <3>2, Zenon DEF TypeOK, Init, CommsInit
  <2>2. /\ wire \in Seq(Bytes) /\ written \in Seq(Contents) /\ received \in Seq(Contents)
        /\ in = [type |-> in.type, size |-> in.size, data |-> in.data]
        /\ in.size \in Nat /\ in.data \in Seq(Bytes)
    BY <1>a DEF Init, CommsInit
  <2> QED
    BY <1>3, <2>1, <2>2 DEF Types
<1>5. Progress /\ ThreadInv
  BY <1>2 DEF Progress, ThreadInv, Init, CommsInit
<1>6. ClientInv
  <2>1. Len(written) = 0
    <3>1. written = <<>>
      BY DEF Init, CommsInit
    <3> QED
      BY <1>a, <3>1
  <2>2. /\ cpc = "open" /\ serving = "unknown" /\ written = <<>> /\ wpart = "none"
        /\ frame = 0 /\ frameId = 0
    BY DEF Init, CommsInit
  <2> QED
    BY <2>1, <2>2 DEF ClientInv
<1>7. StreamInv
  <2>1. Rest = <<>>
    <3>1. written = <<>> /\ received = <<>>
      BY DEF Init, CommsInit
    <3> QED
      BY <1>a, <3>1, SubSeqEmpty DEF Rest
  <2>2. Stream(<<>>) = <<>>
    <3>1. <<>> \in Seq(Contents)
      OBVIOUS
    <3> QED
      BY <1>1, <3>1, StreamGrows
  <2>3. BegunOf(rpart, header, in.data, nread) = <<>> /\ SentOf(wpart, out, nsent) = <<>>
    BY DEF BegunOf, SentOf, Init, CommsInit
  <2>4. wire = <<>> /\ received = <<>> /\ written = <<>>
    BY DEF Init, CommsInit
  <2> QED
    BY <1>a, <2>1, <2>2, <2>3, <2>4 DEF StreamInv
<1> QED
  BY <1>4, <1>5, <1>6, <1>7 DEF LinkInv

-----------------------------------------------------------------------------
(* What a send() does to the message that is being sent: a part goes on,   *)
(* the body follows the header, or the message is complete; the bytes it   *)
(* has taken are the next ones of the message.                             *)
LEMMA SendAdvances ==
  ASSUME LinkConstants, Types, Progress, NEW n \in Nat, Send(n)
  PROVE  /\ SubSeq(Unsent, 1, n) \in Seq(Bytes) /\ Len(SubSeq(Unsent, 1, n)) = n
         /\ \/ /\ wpart' = wpart /\ nsent' = nsent + n /\ UNCHANGED <<wresult, written>>
               /\ nsent' < IF wpart = "header" THEN HeaderSize ELSE out.size
               /\ SentOf(wpart', out, nsent') = SentOf(wpart, out, nsent) \o SubSeq(Unsent, 1, n)
            \/ /\ wpart' = "body" /\ nsent' = 0 /\ UNCHANGED <<wresult, written>>
               /\ SentOf(wpart', out, nsent') = SentOf(wpart, out, nsent) \o SubSeq(Unsent, 1, n)
            \/ /\ wpart' = "none" /\ nsent' = 0 /\ wresult' = 1
               /\ written' = Append(written, Content(out))
               /\ HeaderOf(out) \o BodyOf(out) = SentOf(wpart, out, nsent) \o SubSeq(Unsent, 1, n)
<1> DEFINE h == HeaderOf(out)  b == BodyOf(out)  x == SubSeq(Unsent, 1, n)
<1>1. /\ out \in Messages /\ wpart \in {"header", "body"} /\ nsent \in Nat
      /\ HeaderSize \in Nat \ {0}
  BY DEF Types, TypeOK, Progress, Send, LinkConstants, CommsAssumption
<1>2. /\ h \in Seq(Bytes) /\ Len(h) = HeaderSize /\ b \in Seq(Bytes) /\ Len(b) = out.size
      /\ out.size \in Nat \ {0}
  BY <1>1, MessageBytes
<1>3. n \in 1 .. Len(Unsent) /\ WriteAdvances(nsent + n)
  BY DEF Send
<1> HIDE DEF h, b
<1>4. CASE wpart = "header"
  <2>1. Unsent = SubSeq(h, nsent + 1, HeaderSize) /\ nsent < HeaderSize
    BY <1>4 DEF Unsent, Progress, h
  <2>2. n \in 1 .. HeaderSize - nsent
    BY <1>1, <1>2, <1>3, <2>1
  <2>3. x \in Seq(Bytes) /\ Len(x) = n /\ SubSeq(h, 1, nsent) \o x = SubSeq(h, 1, nsent + n)
    BY <1>1, <1>2, <2>1, <2>2, NextPiece
  <2>4. CASE nsent + n = HeaderSize
    <3>1. wpart' = "body" /\ nsent' = 0 /\ UNCHANGED <<wresult, written>>
      BY <1>2, <1>3, <1>4, <2>4 DEF WriteAdvances
    <3>2. SubSeq(h, 1, nsent + n) = h /\ h \o SubSeq(b, 1, 0) = h
      <4>1. SubSeq(b, 1, 0) = <<>>
        BY SubSeqEmpty
      <4> QED
        BY <1>2, <2>4, <4>1, SubSeqFull, ConcatEmptySeq
    <3>3. SentOf(wpart', out, nsent') = h \o SubSeq(b, 1, 0)
      BY <3>1 DEF SentOf, h, b
    <3>4. SentOf(wpart, out, nsent) = SubSeq(h, 1, nsent)
      BY <1>4 DEF SentOf, h
    <3> QED
      BY <2>3, <3>1, <3>2, <3>3, <3>4, Zenon
  <2>5. CASE nsent + n # HeaderSize
    <3>1. wpart' = wpart /\ nsent' = nsent + n /\ UNCHANGED <<wresult, written>>
      BY <1>3, <1>4, <2>5 DEF WriteAdvances
    <3>2. nsent' < HeaderSize
      BY <1>1, <2>2, <2>5, <3>1
    <3>3. SentOf(wpart', out, nsent') = SubSeq(h, 1, nsent + n)
      BY <1>4, <3>1 DEF SentOf, h
    <3>4. SentOf(wpart, out, nsent) = SubSeq(h, 1, nsent)
      BY <1>4 DEF SentOf, h
    <3> QED
      BY <1>4, <2>3, <3>1, <3>2, <3>3, <3>4, Zenon
  <2> QED
    BY <2>4, <2>5
<1>5. CASE wpart = "body"
  <2>1. Unsent = SubSeq(b, nsent + 1, out.size) /\ nsent < out.size
    BY <1>5 DEF Unsent, Progress, b
  <2>2. n \in 1 .. out.size - nsent
    BY <1>1, <1>2, <1>3, <2>1
  <2>3. x \in Seq(Bytes) /\ Len(x) = n /\ SubSeq(b, 1, nsent) \o x = SubSeq(b, 1, nsent + n)
    <3>1. n \in 1 .. Len(b) - nsent /\ out.size = Len(b) /\ x = SubSeq(SubSeq(b, nsent + 1, out.size), 1, n)
      BY <1>2, <2>1, <2>2
    <3>2. b \in Seq(Bytes) /\ nsent \in Nat
      BY <1>1, <1>2
    <3> HIDE DEF b, x
    <3>3. /\ SubSeq(SubSeq(b, nsent + 1, out.size), 1, n) \in Seq(Bytes)
          /\ Len(SubSeq(SubSeq(b, nsent + 1, out.size), 1, n)) = n
          /\ SubSeq(b, 1, nsent) \o SubSeq(SubSeq(b, nsent + 1, out.size), 1, n)
                 = SubSeq(b, 1, nsent + n)
      BY <3>1, <3>2, NextPiece, SMTT(30)
    <3> QED
      BY <3>1, <3>3, Zenon
  <2>4. SubSeq(b, 1, nsent) \in Seq(Bytes)
    BY <1>1, <1>2, <2>1
  <2>5. (h \o SubSeq(b, 1, nsent)) \o x = h \o (SubSeq(b, 1, nsent) \o x)
    BY <1>2, <2>3, <2>4, BytesAssociate, ZenonT(30)
  <2>6. SentOf(wpart, out, nsent) = h \o SubSeq(b, 1, nsent)
    BY <1>5 DEF SentOf, h, b
  <2>7. CASE nsent + n = out.size
    <3>1. /\ wpart' = "none" /\ nsent' = 0 /\ wresult' = 1
          /\ written' = Append(written, Content(out))
      BY <1>3, <1>5, <2>7 DEF WriteAdvances
    <3>2. SubSeq(b, 1, nsent + n) = b
      BY <1>2, <2>7, SubSeqFull
    <3>3. h \o b = SentOf(wpart, out, nsent) \o x
      BY <2>3, <2>5, <2>6, <3>2, Zenon
    <3> QED
      BY <2>3, <3>1, <3>3, Zenon DEF h, b
  <2>8. CASE nsent + n # out.size
    <3>1. wpart' = wpart /\ nsent' = nsent + n /\ UNCHANGED <<wresult, written>>
      BY <1>3, <1>5, <2>8 DEF WriteAdvances
    <3>2. nsent' < out.size
      BY <1>1, <1>2, <2>2, <2>8, <3>1
    <3>3. SentOf(wpart', out, nsent') = h \o SubSeq(b, 1, nsent + n)
      BY <1>5, <3>1 DEF SentOf, h, b
    <3>4. SentOf(wpart', out, nsent') = SentOf(wpart, out, nsent) \o x
      BY <2>3, <2>5, <2>6, <3>3, Zenon
    <3> QED
      BY <1>5, <2>3, <3>1, <3>2, <3>4, Zenon
  <2> QED
    BY <2>7, <2>8
<1> QED
  BY <1>1, <1>4, <1>5

-----------------------------------------------------------------------------
(* What a step must establish of the types that do not concern the bytes.  *)
SideTypes ==
    /\ cpc \in {"open", "init", "introducing", "capture", "sending", "exited", "undefined"}
    /\ frameId \in 0 .. MaxFrame /\ frame \in 0 .. MaxFrame
    /\ serving \in {"unknown", "pending", "served", "unserved", "rejected"}
    /\ spc \in {"off", "check", "reading", "rays", "leaving", "ended"}
    /\ initialized \in BOOLEAN /\ origin \in BOOLEAN /\ introduced \in BOOLEAN
    /\ rayIdx \in 1 .. MaxRays + 1
ByteTypes ==
    /\ link \in {"up", "closed", "down"} /\ writing \in BOOLEAN
    /\ Len(wire) <= Capacity
    /\ wpart \in {"none", "header", "body"} /\ rpart \in {"none", "header", "body"}
    /\ out \in Messages /\ nsent \in 0 .. HeaderSize + MaxRays
    /\ nread \in 0 .. HeaderSize + MaxRays
    /\ wresult \in {-1, 0, 1} /\ rresult \in {-1, 0, 1}
    /\ wire \in Seq(Bytes)
    /\ header \in [1 .. HeaderSize -> Bytes]
    /\ in = [type |-> in.type, size |-> in.size, data |-> in.data]
    /\ in.size \in Nat /\ in.data \in Seq(Bytes)
    /\ written \in Seq(Contents) /\ received \in Seq(Contents)

(* The types are those of the two sides and those of the bytes.            *)
LEMMA TypesParts == Types <=> SideTypes /\ ByteTypes
  BY DEF Types, TypeOK, SideTypes, ByteTypes

(* A step that leaves the connection and both buffers alone.               *)
LEMMA CommsKept ==
  ASSUME Types, Progress, StreamInv, UNCHANGED commsVars
  PROVE  ByteTypes' /\ Progress' /\ StreamInv'
<1> USE DEF commsVars, connVars, writeVars, readVars
<1>1. ByteTypes'
  BY TypesParts DEF ByteTypes
<1>2. Progress'
  BY DEF Progress
<1>3. Rest' = Rest
  BY DEF Rest
<1>4. StreamInv'
  BY <1>3 DEF StreamInv
<1> QED
  BY <1>1, <1>2, <1>4

(* The steps of the client and of the thread between two messages.         *)
LEMMA QuietStep ==
  ASSUME LinkConstants, LinkInv, UNCHANGED commsVars,
         \/ \E lookup \in {"ok", "failed"}, outcomes \in AddressLists : Open(lookup, outcomes)
         \/ Introduced \/ Sent \/ HandleInit \/ HandleData \/ HandleRay \/ Leave
         \/ UNCHANGED vars
         \/ \E d \in 0 .. MaxDropped : Capture(d, 0)
  PROVE  LinkInv'
<1> USE DEF commsVars, connVars, writeVars, readVars
<1>1. ByteTypes' /\ Progress' /\ StreamInv'
  BY CommsKept DEF LinkInv
<1>2. /\ SideTypes /\ ClientInv /\ ThreadInv /\ MaxFrame \in Nat /\ MaxRays \in Nat
      /\ MaxDropped \in Nat /\ in.size \in Nat /\ Len(written) \in Nat
      /\ in.type = "MSG_VISION_DATA" => in.size <= MaxRays
  <2>1. Len(written) \in Nat
    BY LenProperties DEF LinkInv, Types
  <2> QED
    BY <2>1, TypesParts DEF LinkInv, Types, Progress, LinkConstants, LinkAssumption
<1>3. SideTypes' /\ ClientInv' /\ ThreadInv'
  <2>1. ASSUME NEW lookup \in {"ok", "failed"}, NEW outcomes \in AddressLists,
               Open(lookup, outcomes)
        PROVE  SideTypes' /\ ClientInv' /\ ThreadInv'
    <3>1. /\ cpc = "open"
          /\ \/ cpc' = "exited" /\ UNCHANGED serving
             \/ cpc' = "undefined" /\ UNCHANGED serving
             \/ cpc' = "init" /\ serving' = "pending"
          /\ UNCHANGED <<commsVars, frameId, frame, spc, initialized, origin, introduced, rayIdx>>
      BY <2>1 DEF Open
    <3> QED
      BY <1>2, <3>1 DEF SideTypes, ClientInv, ThreadInv
  <2>2. CASE Introduced \/ Sent
    BY <1>2, <2>2 DEF Introduced, Sent, serverVars, SideTypes, ClientInv, ThreadInv
  <2>3. CASE HandleInit \/ HandleData \/ Leave
    <3>1. /\ UNCHANGED <<clientVars, serving>> /\ spc = "reading" /\ rpart = "none"
          /\ \/ spc' = "check" /\ rresult = 1
             \/ spc' = "rays" /\ rresult = 1 /\ in.type = "MSG_VISION_DATA"
             \/ spc' = "leaving"
      BY <2>3 DEF HandleInit, HandleData, Leave
    <3>2. /\ rayIdx' \in 1 .. MaxRays + 1
          /\ initialized' \in BOOLEAN /\ origin' \in BOOLEAN /\ introduced' \in BOOLEAN
      <4>1. CASE HandleInit
        BY <1>2, <4>1 DEF HandleInit, SideTypes
      <4>2. CASE HandleData
        BY <1>2, <4>2 DEF HandleData, SideTypes
      <4>3. CASE Leave
        BY <1>2, <4>3 DEF Leave, SideTypes
      <4> QED
        BY <2>3, <4>1, <4>2, <4>3
    <3> QED
      BY <1>2, <3>1, <3>2 DEF clientVars, SideTypes, ClientInv, ThreadInv
  <2>4. CASE HandleRay
    <3>1. /\ spc = "rays" /\ UNCHANGED <<commsVars, clientVars, serving, initialized, origin, introduced>>
          /\ \/ rayIdx <= in.size /\ rayIdx' = rayIdx + 1 /\ UNCHANGED spc
             \/ spc' = "check" /\ UNCHANGED rayIdx
      BY <2>4 DEF HandleRay
    <3> QED
      BY <1>2, <3>1 DEF clientVars, SideTypes, ClientInv, ThreadInv
  <2>5. CASE UNCHANGED vars
    BY <1>2, <2>5 DEF vars, clientVars, serverVars, SideTypes, ClientInv, ThreadInv
  <2>6. ASSUME NEW d \in 0 .. MaxDropped, Capture(d, 0) PROVE SideTypes' /\ ClientInv' /\ ThreadInv'
    <3>1. /\ cpc = "capture" /\ frame + 1 + d <= MaxFrame /\ frame' = frame + 1 + d
          /\ frameId' = frameId + d /\ cpc' = cpc /\ UNCHANGED serverVars
      BY <2>6 DEF Capture
    <3> QED
      BY <1>2, <3>1 DEF serverVars, SideTypes, ClientInv, ThreadInv
  <2> QED
    BY <2>1, <2>2, <2>3, <2>4, <2>5, <2>6
<1> QED
  BY <1>1, <1>3, TypesParts DEF LinkInv, Types, TypeOK, SideTypes, ByteTypes

(* A message is begun: nothing of it has been sent.                        *)
LEMMA WriteStartKeeps ==
  ASSUME LinkConstants, LinkInv, NEW m \in Messages, WriteStart(m)
  PROVE  ByteTypes' /\ Progress' /\ StreamInv'
<1>1. /\ HeaderSize \in Nat \ {0} /\ MaxRays \in Nat
  BY DEF LinkConstants, CommsAssumption, LinkAssumption
<1>2. /\ wpart = "none" /\ wpart' = "header" /\ out' = m /\ nsent' = 0
      /\ UNCHANGED <<connVars, readVars, wresult, written>>
  BY DEF WriteStart
<1>3. ByteTypes'
  BY <1>1, <1>2, TypesParts DEF LinkInv, ByteTypes, connVars, readVars
<1>4. Progress'
  BY <1>1, <1>2 DEF LinkInv, Progress, connVars, readVars
<1>5. SentOf(wpart', out', nsent') = SentOf(wpart, out, nsent)
  <2>1. SubSeq(HeaderOf(m), 1, 0) = <<>>
    BY SubSeqEmpty
  <2> QED
    BY <1>2, <2>1 DEF SentOf
<1>6. Rest' = Rest
  BY <1>2 DEF Rest, readVars
<1>7. StreamInv'
  BY <1>2, <1>5, <1>6 DEF LinkInv, StreamInv, connVars, readVars
<1> QED
  BY <1>3, <1>4, <1>7

(* What the invariant says of client and thread, with the constants.       *)
LEMMA SideFacts ==
  ASSUME LinkConstants, LinkInv
  PROVE  /\ SideTypes /\ ByteTypes /\ ClientInv /\ ThreadInv /\ Progress /\ StreamInv
         /\ HeaderSize \in Nat \ {0} /\ Capacity \in Nat \ {0}
         /\ MaxFrame \in Nat /\ MaxRays \in Nat /\ MaxDropped \in Nat
         /\ Len(written) \in Nat
<1>1. Len(written) \in Nat
  BY LenProperties DEF LinkInv, Types
<1> QED
  BY <1>1, TypesParts DEF LinkInv, LinkConstants, CommsAssumption, LinkAssumption

(* The parts of the invariant make up the invariant after a step.          *)
LEMMA LinkPartsNext ==
  ASSUME SideTypes', ByteTypes', ClientInv', ThreadInv', Progress', StreamInv'
  PROVE  LinkInv'
  BY DEF LinkInv, Types, TypeOK, SideTypes, ByteTypes

(* The client begins its introduction, or the message of a frame.          *)
LEMMA BeginsKeeps ==
  ASSUME LinkConstants, LinkInv,
         Introduce \/ \E d \in 0 .. MaxDropped, n \in 1 .. MaxRays : Capture(d, n)
  PROVE  LinkInv' /\ UNCHANGED <<written, received>>
<1>1. CASE Introduce
  <2>1. InitMessage \in Messages
    BY DEF LinkConstants, LinkMessages
  <2>2. ByteTypes' /\ Progress' /\ StreamInv'
    BY <1>1, <2>1, WriteStartKeeps DEF Introduce
  <2>3. /\ cpc = "init" /\ cpc' = "introducing" /\ wpart' = "header"
        /\ UNCHANGED <<connVars, readVars, written, frameId, frame, serverVars>>
    BY <1>1 DEF Introduce, WriteStart
  <2>4. written = <<>> /\ wpart = "none"
    BY <2>3, SideFacts DEF ClientInv
  <2>5. SideTypes' /\ ThreadInv'
    BY <2>3, SideFacts DEF SideTypes, ThreadInv, serverVars, connVars, readVars
  <2>6. ClientInv'
    <3>1. Len(written) = 0 /\ frame \in Nat
      BY <2>4, SideFacts DEF SideTypes
    <3> QED
      BY <2>3, <3>1, SideFacts DEF ClientInv
  <2> QED
    BY <2>2, <2>3, <2>5, <2>6, LinkPartsNext DEF readVars
<1>2. ASSUME NEW d \in 0 .. MaxDropped, NEW n \in 1 .. MaxRays, Capture(d, n)
      PROVE  LinkInv' /\ UNCHANGED <<written, received>>
  <2> DEFINE m == [type |-> "MSG_VISION_DATA", size |-> n, id |-> frameId', time |-> frame']
  <2>1. /\ cpc = "capture" /\ frame + 1 + d <= MaxFrame /\ frame' = frame + 1 + d
        /\ frameId' = frameId + d /\ cpc' = "sending" /\ WriteStart(m) /\ UNCHANGED serverVars
    <3>1. n # 0
      OBVIOUS
    <3> QED
      BY <1>2, <3>1 DEF Capture
  <2>2. /\ frame \in Nat /\ frameId \in Nat /\ d \in Nat /\ frameId <= frame /\ MaxFrame \in Nat
        /\ Len(written) \in Nat /\ wpart = "none" /\ Len(written) <= frame + 1
    <3>1. cpc = "capture"
      BY <2>1
    <3> QED
      BY <3>1, SideFacts DEF SideTypes, ClientInv
  <2>3. m \in Messages
    <3>1. frameId' \in 0 .. MaxFrame /\ frame' \in 1 .. MaxFrame
      BY <2>1, <2>2
    <3>2. m \in DataMessages
      BY <3>1 DEF DataMessages
    <3> QED
      BY <3>2 DEF LinkConstants, LinkMessages
  <2> HIDE DEF m
  <2>4. ByteTypes' /\ Progress' /\ StreamInv'
    BY <2>1, <2>3, WriteStartKeeps
  <2>5. wpart' = "header" /\ UNCHANGED <<connVars, readVars, written>>
    BY <2>1 DEF WriteStart
  <2>6. ThreadInv'
    BY <2>1, <2>5, SideFacts DEF ThreadInv, serverVars, connVars, readVars
  <2>7. SideTypes'
    BY <2>1, <2>2, SideFacts DEF SideTypes, serverVars
  <2>8. ClientInv'
    BY <2>1, <2>2, <2>5 DEF ClientInv, serverVars
  <2> QED
    BY <2>4, <2>5, <2>6, <2>7, <2>8, LinkPartsNext DEF readVars
<1> QED
  BY <1>1, <1>2

(* The client ends, and a write fails.                                     *)
LEMMA EndsKeeps ==
  ASSUME LinkConstants, LinkInv, GivesUp \/ Killed
  PROVE  LinkInv' /\ UNCHANGED <<written, received>>
<1>1. /\ cpc' = "exited" /\ writing' = FALSE
      /\ UNCHANGED <<link, wire, writeVars, readVars, frameId, frame, serverVars>>
  BY DEF GivesUp, Killed, Exits
<1>2. SideTypes' /\ ThreadInv' /\ ClientInv'
  BY <1>1, SideFacts DEF SideTypes, ThreadInv, ClientInv, serverVars, readVars, writeVars
<1>3. ByteTypes' /\ Progress'
  <2>1. Progress'
    BY <1>1, SideFacts DEF Progress, readVars, writeVars
  <2>2. writing' \in BOOLEAN
    BY <1>1
  <2>3. UNCHANGED <<link, wire, writeVars, readVars>> /\ ByteTypes
    BY <1>1, SideFacts
  <2> QED
    BY <2>1, <2>2, <2>3 DEF ByteTypes, readVars, writeVars
<1>4. StreamInv'
  BY <1>1, SideFacts DEF StreamInv, Rest, readVars, writeVars
<1> QED
  BY <1>1, <1>2, <1>3, <1>4, LinkPartsNext DEF readVars, writeVars

(* A write fails.                                                          *)
LEMMA WriteFailsKeeps ==
  ASSUME LinkConstants, LinkInv, WriteFails, UNCHANGED <<clientVars, serverVars>>
  PROVE  LinkInv' /\ UNCHANGED <<written, received>>
<1>1. /\ wpart # "none" /\ link = "down" /\ wpart' = "none" /\ nsent' = 0 /\ wresult' = -1
      /\ UNCHANGED <<connVars, out, readVars, written, clientVars, serverVars>>
  BY DEF WriteFails
<1>2. SideTypes' /\ ThreadInv'
  BY <1>1, SideFacts DEF SideTypes, ThreadInv, clientVars, serverVars, readVars, connVars
<1>3. ClientInv'
  BY <1>1, SideFacts DEF ClientInv, SideTypes, clientVars, serverVars
<1>4. ByteTypes' /\ Progress'
  BY <1>1, SideFacts DEF ByteTypes, Progress, readVars, connVars
<1>5. StreamInv'
  BY <1>1, SideFacts DEF StreamInv, readVars, connVars
<1> QED
  BY <1>1, <1>2, <1>3, <1>4, <1>5, LinkPartsNext DEF readVars

(* The connection breaks, is reset or is closed, or a thread is started.   *)
LEMMA ConnectionKeeps ==
  ASSUME LinkConstants, LinkInv, NetworkFails \/ ResetArrives \/ Accept \/ CloseSocket
  PROVE  LinkInv' /\ UNCHANGED <<written, received>>
<1>1. /\ UNCHANGED <<writing, writeVars, readVars, clientVars, initialized, origin, introduced,
                     rayIdx>>
      /\ \/ /\ link' = "down" /\ wire' = <<>> /\ UNCHANGED <<spc, serving>>
         \/ /\ link = "closed" /\ link' = "down" /\ UNCHANGED <<wire, spc, serving>>
         \/ /\ serving = "pending" /\ serving' = "served" /\ spc' = "check" /\ UNCHANGED <<link, wire>>
         \/ /\ serving = "pending" /\ serving' = "unserved" /\ UNCHANGED <<spc, link, wire>>
         \/ /\ serving = "pending" /\ serving' = "rejected" /\ UNCHANGED spc
            /\ link' = (IF link = "up" THEN "closed" ELSE link) /\ wire' = <<>>
         \/ /\ spc = "leaving" /\ spc' = "ended" /\ UNCHANGED serving
            /\ link' = (IF link = "up" THEN "closed" ELSE link) /\ wire' = <<>>
  BY DEF NetworkFails, ResetArrives, Accept, CloseSocket, serverVars
<1>2. Len(<<>>) = 0 /\ <<>> \in Seq(Bytes)
  OBVIOUS
<1> USE DEF writeVars, readVars, clientVars
<1>3. SideTypes' /\ ClientInv' /\ Progress'
  BY <1>1, SideFacts DEF SideTypes, ClientInv, Progress
<1>4. link' \in {"up", "closed", "down"} /\ wire' \in Seq(Bytes) /\ Len(wire') <= Capacity
  <2>1. /\ link \in {"up", "closed", "down"} /\ wire \in Seq(Bytes) /\ Len(wire) <= Capacity
        /\ 0 <= Capacity
    BY SideFacts DEF ByteTypes
  <2>2. link' = link \/ link' = "down" \/ link' = "closed"
    BY <1>1
  <2>3. wire' = wire \/ wire' = <<>>
    BY <1>1
  <2> QED
    BY <1>2, <2>1, <2>2, <2>3
<1>5. ByteTypes'
  BY <1>1, <1>4, SideFacts DEF ByteTypes
<1>6. ThreadInv'
  BY <1>1, SideFacts DEF ThreadInv, ByteTypes, SideTypes
<1>7. link' = "up" => link = "up" /\ wire' = wire
  BY <1>1
<1>8. StreamInv'
  BY <1>1, <1>7, SideFacts DEF StreamInv, Rest
<1> QED
  BY <1>1, <1>3, <1>5, <1>6, <1>8, LinkPartsNext

(* The thread begins to read, and read() fails.                            *)
LEMMA ReadStartKeeps ==
  ASSUME LinkConstants, LinkInv, NextMessage
  PROVE  LinkInv' /\ UNCHANGED <<written, received>>
<1>1. /\ spc = "check" /\ rpart = "none" /\ rpart' = "header" /\ nread' = 0 /\ spc' = "reading"
      /\ UNCHANGED <<connVars, writeVars, header, in, rresult, received, clientVars, serving,
                     initialized, origin, introduced, rayIdx>>
  BY DEF NextMessage, ReadStart
<1> USE DEF connVars, writeVars, clientVars
<1>2. SideTypes' /\ ClientInv' /\ ThreadInv'
  BY <1>1, SideFacts DEF SideTypes, ClientInv, ThreadInv
<1>3. ByteTypes' /\ Progress'
  BY <1>1, SideFacts DEF ByteTypes, Progress
<1>4. BegunOf(rpart', header', in'.data, nread') = BegunOf(rpart, header, in.data, nread)
  <2>1. SubSeq(header, 1, 0) = <<>>
    BY SubSeqEmpty
  <2> QED
    BY <1>1, <2>1 DEF BegunOf
<1>5. StreamInv'
  BY <1>1, <1>4, SideFacts DEF StreamInv, Rest
<1> QED
  BY <1>1, <1>2, <1>3, <1>5, LinkPartsNext

(* A read fails.                                                           *)
LEMMA ReadFailsKeeps ==
  ASSUME LinkConstants, LinkInv, spc = "reading", ReadFails, UNCHANGED <<clientVars, serverVars>>
  PROVE  LinkInv' /\ UNCHANGED <<written, received>>
<1>1. /\ rpart # "none" /\ rpart' = "none" /\ nread' = 0
      /\ rresult' \in {-1, 0}
      /\ UNCHANGED <<connVars, header, in, writeVars, received, clientVars, serverVars>>
  BY DEF ReadFails
<1> USE DEF connVars, writeVars, clientVars, serverVars
<1>2. SideTypes' /\ ClientInv' /\ ThreadInv'
  BY <1>1, SideFacts DEF SideTypes, ClientInv, ThreadInv
<1>3. ByteTypes' /\ Progress'
  BY <1>1, SideFacts DEF ByteTypes, Progress
<1>4. StreamInv'
  BY <1>1, SideFacts DEF StreamInv
<1> QED
  BY <1>1, <1>2, <1>3, <1>4, LinkPartsNext

(* What read() has received of a message, and how long it is.              *)
LEMMA BegunBytes ==
  ASSUME LinkConstants, LinkInv
  PROVE  /\ BegunOf(rpart, header, in.data, nread) \in Seq(Bytes)
         /\ header \in Seq(Bytes) /\ Len(header) = HeaderSize
         /\ wire \in Seq(Bytes) /\ in.data \in Seq(Bytes) /\ nread \in Nat
<1>1. /\ wire \in Seq(Bytes) /\ header \in [1 .. HeaderSize -> Bytes] /\ in.data \in Seq(Bytes)
      /\ HeaderSize \in Nat /\ nread \in Nat /\ (rpart = "header" => nread < HeaderSize)
  BY SideFacts DEF ByteTypes, Progress
<1>2. header \in Seq(Bytes) /\ Len(header) = HeaderSize
  BY <1>1
<1>3. CASE rpart = "header"
  <2>1. SubSeq(header, 1, nread) \in Seq(Bytes)
    BY <1>1, <1>2, <1>3
  <2> QED
    BY <1>1, <1>2, <1>3, <2>1 DEF BegunOf
<1>4. CASE rpart = "body"
  BY <1>1, <1>2, <1>4, BytesJoin DEF BegunOf
<1>5. CASE rpart \notin {"header", "body"}
  BY <1>1, <1>2, <1>5 DEF BegunOf
<1> QED
  BY <1>3, <1>4, <1>5

(* A send(): what it has taken follows what is on the wire, or is lost     *)
(* with the connection.  A message that has been sent in full is written.  *)
LEMMA SendKeeps ==
  ASSUME LinkConstants, LinkInv, cpc \in {"introducing", "sending"},
         NEW n \in 1 .. Capacity, Send(n), UNCHANGED <<clientVars, serverVars>>
  PROVE  /\ LinkInv' /\ UNCHANGED received
         /\ \/ UNCHANGED written
            \/ \E m \in Messages : written' = Append(written, Content(m))
<1> DEFINE x == SubSeq(Unsent, 1, n)
<1>1. /\ wpart # "none" /\ link # "down" /\ UNCHANGED <<link, writing, out, readVars>>
      /\ \/ link = "up" /\ Len(wire) + n <= Capacity /\ wire' = wire \o x
         \/ link = "closed" /\ UNCHANGED wire
  BY DEF Send
<1>2. /\ x \in Seq(Bytes) /\ Len(x) = n
      /\ \/ /\ wpart' = wpart /\ nsent' = nsent + n /\ UNCHANGED <<wresult, written>>
            /\ nsent' < IF wpart = "header" THEN HeaderSize ELSE out.size
            /\ SentOf(wpart', out, nsent') = SentOf(wpart, out, nsent) \o x
         \/ /\ wpart' = "body" /\ nsent' = 0 /\ UNCHANGED <<wresult, written>>
            /\ SentOf(wpart', out, nsent') = SentOf(wpart, out, nsent) \o x
         \/ /\ wpart' = "none" /\ nsent' = 0 /\ wresult' = 1
            /\ written' = Append(written, Content(out))
            /\ HeaderOf(out) \o BodyOf(out) = SentOf(wpart, out, nsent) \o x
  <2>1. n \in Nat
    BY SideFacts
  <2> QED
    BY <2>1, SendAdvances, SideFacts DEF LinkInv
<1> HIDE DEF x
<1>3. /\ out \in Messages /\ out.size \in Nat \ {0} /\ n \in Nat \ {0}
      /\ wpart \in {"header", "body"} /\ nsent \in Nat
      /\ out.size <= IF MaxRays = 0 THEN 1 ELSE MaxRays
  <2>1. out \in Messages /\ n \in Nat \ {0} /\ wpart \in {"header", "body"} /\ nsent \in Nat
    BY <1>1, SideFacts DEF ByteTypes, Progress
  <2>2. out = InitMessage \/ out \in DataMessages
    BY <2>1 DEF LinkConstants, LinkMessages
  <2>3. out.size = 1 \/ out.size \in 1 .. MaxRays
    BY <2>2 DEF InitMessage, DataMessages
  <2> QED
    BY <2>1, <2>3, SideFacts
<1>4. Content(out) \in Contents
  BY <1>3, ContentBytes
<1>5. /\ wire' \in Seq(Bytes) /\ Len(wire') <= Capacity
  <2>1. wire \in Seq(Bytes) /\ Len(wire) <= Capacity
    BY SideFacts DEF ByteTypes
  <2>2. wire \o x \in Seq(Bytes) /\ Len(wire \o x) = Len(wire) + n
    BY <1>2, <2>1, BytesJoin
  <2> QED
    BY <1>1, <2>1, <2>2
<1>6. /\ written' \in Seq(Contents) /\ wpart' \in {"none", "header", "body"}
      /\ wresult' \in {-1, 0, 1} /\ nsent' \in 0 .. HeaderSize + MaxRays
  <2>1. written \in Seq(Contents) /\ wresult \in {-1, 0, 1}
    BY SideFacts DEF ByteTypes
  <2>2. written' \in Seq(Contents)
    <3>1. Append(written, Content(out)) \in Seq(Contents)
      BY <1>4, <2>1, AppendProperties
    <3> QED
      BY <1>2, <2>1, <3>1
  <2>3. wpart' \in {"none", "header", "body"} /\ wresult' \in {-1, 0, 1}
    BY <1>2, <1>3, <2>1
  <2>4. nsent' \in 0 .. HeaderSize + MaxRays
    <3>1. HeaderSize \in Nat \ {0} /\ MaxRays \in Nat
      BY SideFacts
    <3>2. \/ nsent' = 0
          \/ nsent' = nsent + n /\ nsent' < IF wpart = "header" THEN HeaderSize ELSE out.size
      BY <1>2
    <3> QED
      BY <1>3, <3>1, <3>2
  <2> QED
    BY <2>2, <2>3, <2>4
<1>7. ByteTypes'
  BY <1>1, <1>3, <1>5, <1>6, SideFacts DEF ByteTypes, readVars
<1>8. Progress'
  <2>1. Progress /\ HeaderSize \in Nat
    BY SideFacts
  <2>2. /\ nsent' \in Nat /\ (wpart' = "none" => nsent' = 0)
        /\ (wpart' = "header" => nsent' < HeaderSize) /\ (wpart' = "body" => nsent' < out'.size)
    BY <1>1, <1>2, <1>3, <2>1 DEF Progress
  <2>3. UNCHANGED <<rpart, nread, header, in>>
    BY <1>1 DEF readVars
  <2> QED
    BY <2>1, <2>2, <2>3 DEF Progress
<1>9. SideTypes' /\ ThreadInv'
  BY <1>1, SideFacts DEF SideTypes, ThreadInv, clientVars, serverVars, readVars
<1>10. ClientInv'
  <2>1. /\ wpart # "none" /\ Len(written) + 1 <= frame + 1
        /\ cpc \notin {"open", "init", "capture"}
        /\ (cpc = "sending" => frameId < frame) /\ frameId <= frame
    BY <1>1, SideFacts DEF ClientInv
  <2>2. \/ written' = written
        \/ wpart' = "none" /\ Len(written') = Len(written) + 1
    <3>1. written \in Seq(Contents)
      BY SideFacts DEF ByteTypes
    <3> QED
      BY <1>2, <1>4, <3>1, AppendProperties
  <2>3. frame \in Nat /\ Len(written) \in Nat
    BY SideFacts DEF SideTypes
  <2> QED
    BY <2>1, <2>2, <2>3 DEF ClientInv, clientVars, serverVars
<1>11. StreamInv'
  <2> DEFINE g == BegunOf(rpart, header, in.data, nread)
             q == SentOf(wpart, out, nsent)
  <2>1. /\ Len(received) <= Len(written) /\ written \in Seq(Contents) /\ received \in Seq(Contents)
        /\ \A i \in 1 .. Len(received) : received[i] = written[i]
        /\ Len(received) \in Nat /\ Len(written) \in Nat
    BY SideFacts, LenProperties DEF StreamInv, ByteTypes
  <2>2. /\ received' = received /\ Len(received) <= Len(written')
        /\ \A i \in 1 .. Len(received) : received[i] = written'[i]
    <3>1. received' = received
      BY <1>1 DEF readVars
    <3>2. CASE written' = written
      BY <2>1, <3>1, <3>2
    <3>3. CASE written' = Append(written, Content(out))
      <4>1. /\ Len(written') = Len(written) + 1
            /\ \A i \in 1 .. Len(written) : written'[i] = written[i]
        BY <1>4, <2>1, <3>3, AppendProperties
      <4> QED
        BY <2>1, <3>1, <4>1
    <3> QED
      BY <1>2, <3>2, <3>3
  <2>3. /\ Rest \in Seq(Contents)
        /\ written' = Append(written, Content(out)) => Rest' = Append(Rest, Content(out))
    <3>1. Len(received) \in 0 .. Len(written)
      BY <2>1
    <3>2. /\ SubSeq(written, Len(received) + 1, Len(written)) \in Seq(Contents)
          /\ SubSeq(Append(written, Content(out)), Len(received) + 1, Len(Append(written, Content(out))))
                = Append(SubSeq(written, Len(received) + 1, Len(written)), Content(out))
      <4>1. Content(out) \in Contents /\ written \in Seq(Contents)
        BY <1>4, <2>1
      <4> QED
        BY <3>1, <4>1, ContentsGrow, Zenon
    <3>3. received' = received
      BY <2>2
    <3> QED
      BY <3>2, <3>3, Zenon DEF Rest
  <2>4. Stream(Rest) \in Seq(Bytes)
    BY <1>3, <2>3, StreamGrows
  <2>5. Stream(Rest') \o SentOf(wpart', out', nsent') = (Stream(Rest) \o q) \o x
    <3>1. q \in Seq(Bytes)
      BY <1>3, SentBytes, SideFacts DEF Progress
    <3> HIDE DEF q
    <3>2. (Stream(Rest) \o q) \o x = Stream(Rest) \o (q \o x)
      BY <1>2, <2>4, <3>1, BytesAssociate, ZenonT(30)
    <3>3. CASE written' = written /\ SentOf(wpart', out, nsent') = SentOf(wpart, out, nsent) \o x
      <4>1. Rest' = Rest
        BY <2>2, <3>3 DEF Rest
      <4> QED
        BY <1>1, <3>2, <3>3, <4>1, Zenon DEF q
    <3>4. CASE /\ wpart' = "none" /\ nsent' = 0 /\ written' = Append(written, Content(out))
               /\ HeaderOf(out) \o BodyOf(out) = SentOf(wpart, out, nsent) \o x
      <4>1. Rest' = Append(Rest, Content(out))
        BY <2>3, <3>4
      <4>2. Stream(Rest') = Stream(Rest) \o (HeaderOf(out) \o BodyOf(out))
        BY <1>3, <2>3, <4>1, StreamGrows
      <4>3. Stream(Rest') = Stream(Rest) \o (q \o x)
        BY <3>4, <4>2, Zenon DEF q
      <4>4. SentOf(wpart', out', nsent') = <<>>
        BY <3>4 DEF SentOf
      <4>5. Stream(Rest) \o (q \o x) \in Seq(Bytes)
        BY <1>2, <2>4, <3>1, BytesJoin, ZenonT(30)
      <4>6. (Stream(Rest) \o (q \o x)) \o <<>> = Stream(Rest) \o (q \o x)
        BY <4>5, ConcatEmptySeq
      <4> QED
        BY <3>2, <4>3, <4>4, <4>6, Zenon
    <3> QED
      BY <1>2, <3>3, <3>4
  <2>6. ASSUME link' = "up", rresult' = 1
        PROVE  BegunOf(rpart', header', in'.data, nread') \o wire'
                  = Stream(Rest') \o SentOf(wpart', out', nsent')
    <3>1. link = "up" /\ rresult = 1 /\ wire' = wire \o x
      BY <1>1, <2>6 DEF readVars
    <3>2. g \o wire = Stream(Rest) \o q
      BY <3>1, SideFacts DEF StreamInv
    <3>3. g \in Seq(Bytes) /\ wire \in Seq(Bytes)
      BY SideFacts, BegunBytes
    <3>4. BegunOf(rpart', header', in'.data, nread') = g
      BY <1>1 DEF readVars
    <3> HIDE DEF g, q
    <3>5. g \o (wire \o x) = (g \o wire) \o x
      BY <1>2, <3>3, BytesAssociate, ZenonT(30)
    <3> QED
      BY <2>5, <3>1, <3>2, <3>4, <3>5, Zenon
  <2> QED
    BY <2>2, <2>6 DEF StreamInv
<1> QED
  BY <1>1, <1>2, <1>3, <1>7, <1>8, <1>9, <1>10, <1>11, LinkPartsNext DEF readVars

(* What recv() takes from the wire is its beginning.                       *)
LEMMA TakenFromWire ==
  ASSUME NEW S, NEW w \in Seq(S), NEW n \in Nat, n <= Len(w)
  PROVE  /\ SubSeq(w, 1, n) \in Seq(S) /\ Len(SubSeq(w, 1, n)) = n
         /\ SubSeq(w, n + 1, Len(w)) \in Seq(S)
         /\ Len(SubSeq(w, n + 1, Len(w))) = Len(w) - n
         /\ SubSeq(w, 1, n) \o SubSeq(w, n + 1, Len(w)) = w
<1>1. Len(w) \in Nat
  OBVIOUS
<1>2. SubSeq(w, 1, n) \in Seq(S) /\ Len(SubSeq(w, 1, n)) = n
  BY <1>1
<1>3. SubSeq(w, n + 1, Len(w)) \in Seq(S) /\ Len(SubSeq(w, n + 1, Len(w))) = Len(w) - n
  BY <1>1
<1>4. SubSeq(w, 1, n) \o SubSeq(w, n + 1, Len(w)) = SubSeq(w, 1, Len(w))
  <2>1. 1 \in 1 .. Len(w) + 1 /\ n \in 1 - 1 .. Len(w) /\ Len(w) \in n .. Len(w)
    BY <1>1
  <2> QED
    BY <2>1, ConcatAdjacentSubSeq
<1>5. SubSeq(w, 1, Len(w)) = w
  BY SubSeqFull
<1> QED
  BY <1>2, <1>3, <1>4, <1>5

(* The bytes that recv() adds to header_buf follow those it holds.         *)
LEMMA HeaderContinues ==
  ASSUME NEW S, NEW b \in Seq(S), NEW w \in Seq(S), NEW d \in Nat, NEW n \in Nat,
         n <= Len(w), d + n <= Len(b), NEW buf,
         buf = [k \in 1 .. Len(b) |-> IF k \in d + 1 .. d + n THEN w[k - d] ELSE b[k]]
  PROVE  /\ buf \in Seq(S) /\ Len(buf) = Len(b)
         /\ SubSeq(buf, 1, d + n) = SubSeq(b, 1, d) \o SubSeq(w, 1, n)
<1>1. Len(b) \in Nat /\ Len(w) \in Nat
  OBVIOUS
<1>2. ASSUME NEW k \in 1 .. Len(b) PROVE (IF k \in d + 1 .. d + n THEN w[k - d] ELSE b[k]) \in S
  <2>1. CASE k \in d + 1 .. d + n
    BY <1>1, <2>1, ElementOfSeq
  <2>2. CASE k \notin d + 1 .. d + n
    BY <2>2, ElementOfSeq
  <2> QED
    BY <2>1, <2>2
<1>3. /\ buf \in [1 .. Len(b) -> S]
      /\ \A k \in 1 .. Len(b) : buf[k] = IF k \in d + 1 .. d + n THEN w[k - d] ELSE b[k]
  BY <1>2
<1>4. buf \in Seq(S) /\ Len(buf) = Len(b)
  BY <1>1, <1>3
<1>5. /\ SubSeq(buf, 1, d + n) \in Seq(S) /\ Len(SubSeq(buf, 1, d + n)) = d + n
      /\ \A k \in 1 .. d + n : SubSeq(buf, 1, d + n)[k] = buf[k]
  BY <1>1, <1>4
<1> DEFINE s == SubSeq(b, 1, d)  t == SubSeq(w, 1, n)  u == SubSeq(buf, 1, d + n)
<1>6. s \in Seq(S) /\ Len(s) = d /\ \A k \in 1 .. d : s[k] = b[k]
  BY <1>1
<1>7. t \in Seq(S) /\ Len(t) = n /\ \A k \in 1 .. n : t[k] = w[k]
  BY <1>1
<1> HIDE DEF s, t, u
<1>8. /\ s \o t \in Seq(S) /\ Len(s \o t) = d + n
      /\ \A k \in 1 .. d + n : (s \o t)[k] = IF k <= d THEN s[k] ELSE t[k - d]
  <2>1. /\ s \o t \in Seq(S) /\ Len(s \o t) = Len(s) + Len(t)
        /\ \A k \in 1 .. Len(s) + Len(t) : (s \o t)[k] = IF k <= Len(s) THEN s[k] ELSE t[k - Len(s)]
    BY <1>6, <1>7, ConcatProperties
  <2> QED
    BY <1>6, <1>7, <2>1
<1>9. ASSUME NEW k \in 1 .. d + n PROVE u[k] = (s \o t)[k]
  <2>1. u[k] = buf[k] /\ k \in 1 .. Len(b)
    BY <1>1, <1>5 DEF u
  <2>2. CASE k <= d
    BY <1>3, <1>6, <1>8, <2>1, <2>2
  <2>3. CASE ~(k <= d)
    <3>1. k - d \in 1 .. n /\ k \in d + 1 .. d + n
      BY <2>3
    <3> QED
      BY <1>3, <1>7, <1>8, <2>1, <2>3, <3>1
  <2> QED
    BY <2>2, <2>3
<1>10. u = s \o t
  BY <1>5, <1>8, <1>9, SeqEqual DEF u
<1> QED
  BY <1>4, <1>10 DEF s, t, u

(* While read() is at work its bytes are those that were sent.             *)
LEMMA ReaderConnected ==
  ASSUME LinkConstants, LinkInv, rpart # "none", link # "down"
  PROVE  /\ link = "up" /\ rresult = 1 /\ spc = "reading"
         /\ BegunOf(rpart, header, in.data, nread) \o wire
               = Stream(Rest) \o SentOf(wpart, out, nsent)
         /\ Rest \in Seq(Contents) /\ Len(received) \in 0 .. Len(written)
         /\ out \in Messages /\ nsent \in Nat /\ wpart \in {"none", "header", "body"}
         /\ (wpart = "header" => nsent < HeaderSize) /\ (wpart = "body" => nsent < out.size)
<1>1. spc = "reading" /\ rresult = 1
  BY SideFacts DEF ThreadInv
<1>2. link = "up"
  BY <1>1, SideFacts DEF ThreadInv, ByteTypes
<1>3. /\ written \in Seq(Contents) /\ Len(received) \in 0 .. Len(written)
  <2>1. written \in Seq(Contents) /\ received \in Seq(Contents) /\ Len(received) <= Len(written)
    BY SideFacts DEF ByteTypes, StreamInv
  <2> QED
    BY <2>1, LenProperties
<1>4. Rest \in Seq(Contents)
  <2>1. \A i \in Len(received) + 1 .. Len(written) : written[i] \in Contents
    BY <1>3, ElementOfSeq
  <2>2. Len(received) + 1 \in Int /\ Len(written) \in Int
    BY <1>3
  <2> QED
    BY <2>1, <2>2, SubSeqProperties DEF Rest
<1> QED
  BY <1>1, <1>2, <1>3, <1>4, SideFacts DEF StreamInv, ByteTypes, Progress

(* A recv() of header bytes: the header is still incomplete, or it is that *)
(* of a message, whose body is read next.                                  *)
LEMMA RecvHeaderKeeps ==
  ASSUME LinkConstants, LinkInv, NEW n \in 1 .. Capacity, RecvHeader(n),
         UNCHANGED <<clientVars, serverVars>>
  PROVE  LinkInv' /\ UNCHANGED <<written, received>>
<1> DEFINE taken == SubSeq(wire, 1, n)
           buf == [k \in 1 .. HeaderSize |->
                      IF k \in nread + 1 .. nread + n THEN wire[k - nread] ELSE header[k]]
           q == SentOf(wpart, out, nsent)
           h == SubSeq(header, 1, nread)
<1>1. /\ rpart = "header" /\ link # "down" /\ n \in 1 .. HeaderSize - nread /\ n <= Len(wire)
      /\ wire' = SubSeq(wire, n + 1, Len(wire)) /\ header' = buf
      /\ IF nread + n < HeaderSize
         THEN nread' = nread + n /\ UNCHANGED <<rpart, in, rresult, received>>
         ELSE HeaderComplete(buf)
      /\ UNCHANGED <<link, writing, writeVars>>
  BY DEF RecvHeader
<1>2. /\ link = "up" /\ rresult = 1 /\ spc = "reading"
      /\ BegunOf(rpart, header, in.data, nread) \o wire = Stream(Rest) \o q
      /\ Rest \in Seq(Contents) /\ out \in Messages /\ nsent \in Nat
      /\ wpart \in {"none", "header", "body"}
      /\ (wpart = "header" => nsent < HeaderSize) /\ (wpart = "body" => nsent < out.size)
  BY <1>1, ReaderConnected
<1>3. /\ header \in Seq(Bytes) /\ Len(header) = HeaderSize /\ wire \in Seq(Bytes)
      /\ nread \in Nat /\ n \in Nat \ {0} /\ HeaderSize \in Nat \ {0} /\ MaxRays \in Nat
      /\ nread + n <= HeaderSize
  BY <1>1, BegunBytes, SideFacts
<1>4. BegunOf(rpart, header, in.data, nread) = h
  BY <1>1 DEF BegunOf
<1>5. h \in Seq(Bytes)
  BY <1>1, <1>4, BegunBytes
<1>6. /\ taken \in Seq(Bytes) /\ Len(taken) = n /\ wire' \in Seq(Bytes)
      /\ Len(wire') = Len(wire) - n /\ taken \o wire' = wire
  BY <1>1, <1>3, TakenFromWire
<1>7. /\ buf \in Seq(Bytes) /\ Len(buf) = HeaderSize
      /\ SubSeq(buf, 1, nread + n) = h \o taken
  BY <1>1, <1>3, HeaderContinues
<1> HIDE DEF taken, buf, q, h
<1>8. (h \o taken) \o wire' = Stream(Rest) \o q
  <2>1. (h \o taken) \o wire' = h \o (taken \o wire')
    BY <1>5, <1>6, BytesAssociate, ZenonT(30)
  <2> QED
    BY <1>2, <1>4, <1>6, <2>1, Zenon
<1>9. /\ Len(wire') <= Capacity /\ header' \in [1 .. HeaderSize -> Bytes]
      /\ UNCHANGED <<link, writing, writeVars, clientVars, serverVars>>
  <2>1. Len(wire) <= Capacity /\ Len(wire) \in Nat
    BY <1>3, SideFacts, LenProperties DEF ByteTypes
  <2>2. header' \in [1 .. HeaderSize -> Bytes]
    BY <1>1, <1>7, LenProperties
  <2> QED
    BY <1>1, <1>3, <1>6, <2>1, <2>2, SideFacts
<1>10. CASE nread + n < HeaderSize
  <2>1. nread' = nread + n /\ UNCHANGED <<rpart, in, rresult, received>>
    BY <1>1, <1>10
  <2>2. SideTypes' /\ ClientInv' /\ ThreadInv'
    BY <1>1, <1>2, <1>9, <2>1, SideFacts
       DEF SideTypes, ClientInv, ThreadInv, writeVars, clientVars, serverVars
  <2>3. ByteTypes' /\ Progress'
    <3>1. nread' \in 0 .. HeaderSize + MaxRays /\ nread' \in Nat
      BY <1>3, <1>10, <2>1
    <3>2. ByteTypes'
      BY <1>6, <1>9, <2>1, <3>1, SideFacts DEF ByteTypes, writeVars
    <3>3. Progress'
      BY <1>1, <1>9, <1>10, <2>1, <3>1, SideFacts DEF Progress, writeVars
    <3> QED
      BY <3>2, <3>3
  <2>4. BegunOf(rpart', header', in'.data, nread') = h \o taken
    BY <1>1, <1>7, <2>1 DEF BegunOf
  <2>5. Rest' = Rest /\ SentOf(wpart', out', nsent') = q
    BY <1>9, <2>1 DEF Rest, writeVars, q
  <2>6. StreamInv'
    BY <1>8, <1>9, <2>1, <2>4, <2>5, SideFacts DEF StreamInv, writeVars
  <2> QED
    BY <1>9, <2>1, <2>2, <2>3, <2>6, LinkPartsNext DEF writeVars
<1>11. CASE nread + n = HeaderSize
  <2>1. buf = h \o taken
    BY <1>7, <1>11, SubSeqFull
  <2>2. PICK x \in Messages : buf = HeaderOf(x)
    <3>1. buf \o wire' = Stream(Rest) \o q
      BY <1>8, <2>1, Zenon
    <3>2. wpart = "body" => nsent <= out.size
      BY <1>2, MessageBytes
    <3>3. Continue(buf, wire', Rest, wpart, out, nsent)
      BY <3>1 DEF q, Continue
    <3>4. /\ out \in Messages /\ nsent \in Nat /\ wpart \in {"none", "header", "body"}
          /\ (wpart = "header" => nsent < HeaderSize) /\ Rest \in Seq(Contents)
      BY <1>2
    <3>5. buf \in Seq(Bytes) /\ Len(buf) = HeaderSize /\ wire' \in Seq(Bytes)
      BY <1>6, <1>7
    <3> QED
      BY <3>2, <3>3, <3>4, <3>5, HeaderFound
  <2>3. PICK y \in Messages :
            /\ HeaderOf(y) = buf
            /\ in' = [type |-> y.type, size |-> y.size, data |-> <<>>]
            /\ IF y.size = 0 THEN ReadDone(in')
               ELSE rpart' = "body" /\ nread' = 0 /\ UNCHANGED <<rresult, received>>
    <3>1. HeaderComplete(buf)
      BY <1>1, <1>3, <1>11
    <3>2. Decoded(buf) = {[type |-> y.type, size |-> y.size] : y \in {z \in Messages : HeaderOf(z) = buf}}
      BY <2>2 DEF Decoded
    <3>3. PICK g \in Decoded(buf) :
              /\ in' = [type |-> g.type, size |-> g.size, data |-> <<>>]
              /\ IF g.size = 0 THEN ReadDone(in')
                 ELSE rpart' = "body" /\ nread' = 0 /\ UNCHANGED <<rresult, received>>
      BY <3>1 DEF HeaderComplete
    <3>4. PICK y \in Messages : HeaderOf(y) = buf /\ g = [type |-> y.type, size |-> y.size]
      BY <3>2
    <3>5. g.type = y.type /\ g.size = y.size
      BY <3>4
    <3> QED
      BY <3>3, <3>4, <3>5, Zenon
  <2>4. /\ y.size \in Nat \ {0} /\ (y.type = "MSG_VISION_DATA" => y.size <= MaxRays)
        /\ rpart' = "body" /\ nread' = 0 /\ UNCHANGED <<rresult, received>>
        /\ in'.type = y.type /\ in'.size = y.size /\ in'.data = <<>>
        /\ in' = [type |-> in'.type, size |-> in'.size, data |-> in'.data]
    <3>1. y.size \in Nat \ {0}
      BY MessageBytes
    <3>2. y = InitMessage \/ y \in DataMessages
      BY DEF LinkConstants, LinkMessages
    <3>3. y.type = "MSG_VISION_DATA" => y.size <= MaxRays
      BY <1>3, <3>2 DEF InitMessage, DataMessages
    <3> QED
      BY <2>3, <3>1, <3>3
  <2>5. <<>> \in Seq(Bytes) /\ Len(<<>>) = 0
    OBVIOUS
  <2>6. SideTypes' /\ ClientInv' /\ ThreadInv'
    BY <1>1, <1>2, <1>9, <2>4, SideFacts
       DEF SideTypes, ClientInv, ThreadInv, writeVars, clientVars, serverVars
  <2>7. ByteTypes'
    <3>1. nread' \in 0 .. HeaderSize + MaxRays /\ in'.data \in Seq(Bytes) /\ in'.size \in Nat
      BY <1>3, <2>4, <2>5
    <3> QED
      BY <1>6, <1>9, <2>4, <3>1, SideFacts DEF ByteTypes, writeVars
  <2>8. Progress'
    <3>1. \E m \in Messages : m.type = in'.type /\ m.size = in'.size /\ header' = HeaderOf(m)
      BY <1>1, <2>3, <2>4
    <3>2. Len(in'.data) = 0
      BY <2>4, <2>5
    <3> QED
      BY <1>9, <2>4, <3>1, <3>2, SideFacts DEF Progress, writeVars
  <2>9. BegunOf(rpart', header', in'.data, nread') = h \o taken
    <3>1. BegunOf(rpart', header', in'.data, nread') = buf \o <<>>
      BY <1>1, <2>4 DEF BegunOf
    <3>2. buf \o <<>> = buf
      BY <1>7, ConcatEmptySeq
    <3> QED
      BY <2>1, <3>1, <3>2, Zenon
  <2>10. Rest' = Rest /\ SentOf(wpart', out', nsent') = q
    BY <1>9, <2>4 DEF Rest, writeVars, q
  <2>11. StreamInv'
    BY <1>8, <1>9, <2>4, <2>9, <2>10, SideFacts DEF StreamInv, writeVars
  <2> QED
    BY <1>9, <2>4, <2>6, <2>7, <2>8, <2>11, LinkPartsNext DEF writeVars
<1> QED
  BY <1>3, <1>10, <1>11

(* A recv() of bytes of the body: the body is still incomplete, or the     *)
(* message has been read; it is the next one of those written.             *)
LEMMA RecvBodyKeeps ==
  ASSUME LinkConstants, LinkInv, NEW n \in 1 .. Capacity, RecvBody(n),
         UNCHANGED <<clientVars, serverVars>>
  PROVE  /\ LinkInv' /\ UNCHANGED written
         /\ \/ UNCHANGED received
            \/ /\ Len(received) < Len(written)
               /\ received' = Append(received, written[Len(received) + 1])
<1> DEFINE taken == SubSeq(wire, 1, n)
           q == SentOf(wpart, out, nsent)
           d == in.data
<1>1. /\ rpart = "body" /\ link # "down" /\ n \in 1 .. in.size - nread /\ n <= Len(wire)
      /\ wire' = SubSeq(wire, n + 1, Len(wire))
      /\ in' = [in EXCEPT !.data = @ \o taken]
      /\ IF nread + n < in.size
         THEN nread' = nread + n /\ UNCHANGED <<rpart, rresult, received>>
         ELSE ReadDone(in')
      /\ UNCHANGED <<link, writing, header, writeVars>>
  BY DEF RecvBody
<1>2. /\ link = "up" /\ rresult = 1 /\ spc = "reading"
      /\ BegunOf(rpart, header, in.data, nread) \o wire = Stream(Rest) \o q
      /\ Rest \in Seq(Contents) /\ Len(received) \in 0 .. Len(written)
      /\ out \in Messages /\ nsent \in Nat /\ wpart \in {"none", "header", "body"}
      /\ (wpart = "header" => nsent < HeaderSize) /\ (wpart = "body" => nsent < out.size)
  BY <1>1, ReaderConnected
<1>3. /\ header \in Seq(Bytes) /\ Len(header) = HeaderSize /\ wire \in Seq(Bytes)
      /\ d \in Seq(Bytes) /\ Len(d) = nread
      /\ nread \in Nat /\ n \in Nat \ {0} /\ HeaderSize \in Nat \ {0} /\ MaxRays \in Nat
      /\ nread + n <= in.size /\ in.size \in Nat
      /\ in = [type |-> in.type, size |-> in.size, data |-> in.data]
  <2>1. /\ header \in Seq(Bytes) /\ Len(header) = HeaderSize /\ wire \in Seq(Bytes)
        /\ d \in Seq(Bytes) /\ nread \in Nat
    BY BegunBytes
  <2>2. /\ HeaderSize \in Nat \ {0} /\ MaxRays \in Nat /\ in.size \in Nat
        /\ in = [type |-> in.type, size |-> in.size, data |-> in.data]
    BY SideFacts DEF ByteTypes
  <2>3. Len(d) = nread
    BY <1>1, SideFacts DEF Progress
  <2>4. n \in Nat \ {0} /\ nread + n <= in.size
    <3>1. n \in 1 .. in.size - nread
      BY <1>1
    <3>2. nread \in Nat /\ in.size \in Nat
      BY <2>1, <2>2
    <3> QED
      BY <3>1, <3>2
  <2> QED
    BY <2>1, <2>2, <2>3, <2>4
<1>4. PICK x \in Messages : x.type = in.type /\ x.size = in.size /\ header = HeaderOf(x)
  BY <1>1, SideFacts DEF Progress
<1>5. BegunOf(rpart, header, in.data, nread) = header \o d
  BY <1>1 DEF BegunOf
<1>6. /\ taken \in Seq(Bytes) /\ Len(taken) = n /\ wire' \in Seq(Bytes)
      /\ Len(wire') = Len(wire) - n /\ taken \o wire' = wire
  <2>1. PICK w \in Seq(Bytes) : w = wire
    BY <1>3
  <2>2. n \in Nat /\ n <= Len(w)
    BY <1>1, <1>3, <2>1
  <2>3. /\ SubSeq(w, 1, n) \in Seq(Bytes) /\ Len(SubSeq(w, 1, n)) = n
        /\ SubSeq(w, n + 1, Len(w)) \in Seq(Bytes)
        /\ Len(SubSeq(w, n + 1, Len(w))) = Len(w) - n
        /\ SubSeq(w, 1, n) \o SubSeq(w, n + 1, Len(w)) = w
    BY <2>2, TakenFromWire
  <2> QED
    BY <1>1, <2>1, <2>3
<1>7. /\ in'.type = in.type /\ in'.size = in.size /\ in'.data = d \o taken
      /\ in' = [type |-> in'.type, size |-> in'.size, data |-> in'.data]
  BY <1>1, <1>3
<1> HIDE DEF taken, q, d
<1>8. d \o taken \in Seq(Bytes) /\ Len(d \o taken) = nread + n
  BY <1>3, <1>6, BytesJoin
<1>9. (header \o (d \o taken)) \o wire' = Stream(Rest) \o q
  <2>1. Join(Join(header, Join(d, taken)), wire') = Join(Join(header, d), Join(taken, wire'))
    BY <1>3, <1>6, MiddleParts
  <2>2. (header \o (d \o taken)) \o wire' = (header \o d) \o (taken \o wire')
    BY <2>1, Zenon DEF Join
  <2> QED
    BY <1>2, <1>5, <1>6, <2>2, Zenon
<1>10. /\ Len(wire') <= Capacity
       /\ UNCHANGED <<link, writing, header, writeVars, clientVars, serverVars>>
  <2>1. Len(wire) <= Capacity /\ Len(wire) \in Nat
    BY <1>3, SideFacts, LenProperties DEF ByteTypes
  <2> QED
    <3>1. Len(wire') = Len(wire) - n /\ n \in Nat /\ Capacity \in Nat
      BY <1>3, <1>6, SideFacts
    <3>2. Len(wire') <= Capacity
      BY <2>1, <3>1
    <3> QED
      BY <1>1, <3>2
<1>11. SentOf(wpart', out', nsent') = q /\ UNCHANGED written
  BY <1>10 DEF writeVars, q
<1>12. CASE nread + n < in.size
  <2>1. nread' = nread + n /\ UNCHANGED <<rpart, rresult, received>>
    BY <1>1, <1>12
  <2>2. SideTypes' /\ ClientInv' /\ ThreadInv'
    BY <1>1, <1>2, <1>7, <1>10, <2>1, SideFacts
       DEF SideTypes, ClientInv, ThreadInv, writeVars, clientVars, serverVars
  <2>3. ByteTypes'
    <3>1. nread' \in 0 .. HeaderSize + MaxRays /\ in'.data \in Seq(Bytes) /\ in'.size \in Nat
      <4>1. in.size = 1 \/ in.size \in 1 .. MaxRays
        <5>1. x = InitMessage \/ x \in DataMessages
          BY DEF LinkConstants, LinkMessages
        <5> QED
          BY <1>4, <5>1 DEF InitMessage, DataMessages
      <4> QED
        BY <1>3, <1>7, <1>8, <1>12, <2>1, <4>1
    <3> QED
      BY <1>6, <1>7, <1>10, <2>1, <3>1, SideFacts DEF ByteTypes, writeVars
  <2>4. Progress'
    <3>1. Len(in'.data) = nread' /\ nread' < in'.size /\ nread' \in Nat
      BY <1>3, <1>7, <1>8, <1>12, <2>1
    <3>2. \E m \in Messages : m.type = in'.type /\ m.size = in'.size /\ header' = HeaderOf(m)
      BY <1>4, <1>7, <1>10
    <3> QED
      BY <1>1, <1>7, <1>10, <2>1, <3>1, <3>2, SideFacts DEF Progress, writeVars
  <2>5. BegunOf(rpart', header', in'.data, nread') = header \o (d \o taken)
    BY <1>1, <1>7, <1>10, <2>1 DEF BegunOf
  <2>6. Rest' = Rest
    BY <1>11, <2>1 DEF Rest
  <2>7. StreamInv'
    BY <1>9, <1>10, <1>11, <2>1, <2>5, <2>6, SideFacts DEF StreamInv
  <2> QED
    BY <1>11, <2>1, <2>2, <2>3, <2>4, <2>7, LinkPartsNext
<1>13. CASE nread + n = in.size
  <2>1. /\ rpart' = "none" /\ nread' = 0 /\ rresult' = 1 /\ received' = Append(received, in')
    BY <1>1, <1>3, <1>13 DEF ReadDone
  <2>2. /\ Rest # <<>> /\ Rest[1] = in' /\ wire' = Stream(Tail(Rest)) \o q
    <3>1. Continue(HeaderOf(x) \o (d \o taken), wire', Rest, wpart, out, nsent)
      BY <1>4, <1>9 DEF Continue, q
    <3>2. Len(d \o taken) = x.size
      BY <1>4, <1>8, <1>13
    <3>3. /\ Rest # <<>> /\ Rest[1] = [type |-> x.type, size |-> x.size, data |-> d \o taken]
          /\ wire' = Stream(Tail(Rest)) \o SentOf(wpart, out, nsent)
      <4>1. /\ out \in Messages /\ nsent \in Nat /\ wpart \in {"none", "header", "body"}
            /\ (wpart = "header" => nsent < HeaderSize) /\ (wpart = "body" => nsent < out.size)
            /\ Rest \in Seq(Contents)
        BY <1>2
      <4>2. d \o taken \in Seq(Bytes) /\ wire' \in Seq(Bytes)
        BY <1>6, <1>8
      <4> DEFINE e == d \o taken
      <4>3. /\ e \in Seq(Bytes) /\ Len(e) = x.size
            /\ Continue(HeaderOf(x) \o e, wire', Rest, wpart, out, nsent)
        BY <3>1, <3>2, <4>2
      <4> HIDE DEF e
      <4>4. /\ Rest # <<>> /\ Rest[1] = [type |-> x.type, size |-> x.size, data |-> e]
            /\ wire' = Join(Stream(Tail(Rest)), SentOf(wpart, out, nsent))
        BY <4>1, <4>2, <4>3, BodyFound
      <4> QED
        BY <4>4, Zenon DEF e, Join
    <3>4. in' = [type |-> x.type, size |-> x.size, data |-> d \o taken]
      BY <1>4, <1>7
    <3> QED
      BY <3>3, <3>4, Zenon DEF q
  <2>3. /\ written \in Seq(Contents) /\ received \in Seq(Contents)
        /\ Len(received) \in Nat /\ Len(written) \in Nat /\ Len(received) <= Len(written)
        /\ \A i \in 1 .. Len(received) : received[i] = written[i]
    BY SideFacts, LenProperties DEF ByteTypes, StreamInv
  <2>4. Len(received) < Len(written)
    <3> SUFFICES ASSUME Len(received) = Len(written) PROVE FALSE
      BY <2>3
    <3>1. Len(written) < Len(received) + 1
      BY <2>3
    <3>2. Rest = <<>>
      BY <2>3, <3>1, SubSeqEmpty DEF Rest
    <3> QED
      BY <2>2, <3>2
  <2>5. Rest[1] = written[Len(received) + 1] /\ Tail(Rest) = SubSeq(written, Len(received) + 1 + 1, Len(written))
    BY <2>3, <2>4, RestShrinks DEF Rest
  <2>6. in' = written[Len(received) + 1] /\ in' \in Contents
    BY <2>2, <2>3, <2>4, <2>5, ElementOfSeq
  <2>7. /\ received' \in Seq(Contents) /\ Len(received') = Len(received) + 1
        /\ \A i \in 1 .. Len(received) : received'[i] = received[i]
        /\ received'[Len(received) + 1] = in'
    BY <2>1, <2>3, <2>6, AppendProperties
  <2>8. SideTypes' /\ ClientInv' /\ ThreadInv'
    BY <1>1, <1>2, <1>7, <1>10, <2>1, SideFacts
       DEF SideTypes, ClientInv, ThreadInv, writeVars, clientVars, serverVars
  <2>9. ByteTypes'
    <3>1. nread' \in 0 .. HeaderSize + MaxRays /\ in'.data \in Seq(Bytes) /\ in'.size \in Nat
      BY <1>3, <1>7, <1>8, <2>1
    <3>2. rpart' \in {"none", "header", "body"} /\ rresult' \in {-1, 0, 1}
      BY <2>1
    <3> QED
      BY <1>6, <1>7, <1>10, <2>7, <3>1, <3>2, SideFacts DEF ByteTypes, writeVars
  <2>10. Progress'
    BY <1>7, <1>10, <2>1, SideFacts DEF Progress, writeVars
  <2>11. BegunOf(rpart', header', in'.data, nread') \o wire'
            = Stream(Rest') \o SentOf(wpart', out', nsent')
    <3>1. BegunOf(rpart', header', in'.data, nread') = <<>>
      BY <2>1 DEF BegunOf
    <3>2. <<>> \o wire' = wire'
      BY <1>6, ConcatEmptySeq
    <3>3. Rest' = Tail(Rest)
      BY <1>11, <2>5, <2>7 DEF Rest
    <3> QED
      BY <1>11, <2>2, <3>1, <3>2, <3>3, Zenon
  <2>12. Len(received') <= Len(written') /\ \A i \in 1 .. Len(received') : received'[i] = written'[i]
    BY <1>11, <2>3, <2>4, <2>6, <2>7
  <2>13. StreamInv'
    BY <2>11, <2>12 DEF StreamInv
  <2> QED
    BY <1>11, <2>1, <2>4, <2>6, <2>8, <2>9, <2>10, <2>13, LinkPartsNext
<1>14. nread + n < in.size \/ nread + n = in.size
  <2>1. nread \in Nat /\ n \in Nat /\ in.size \in Nat /\ nread + n <= in.size
    BY <1>3, Zenon
  <2> QED
    BY <2>1
<1> QED
  BY <1>12, <1>13, <1>14, Zenon

-----------------------------------------------------------------------------
(* What a step does to the channel: it writes one message, reads the next  *)
(* of those written, or neither.                                           *)
ChannelStep ==
    \/ UNCHANGED <<written, received>>
    \/ UNCHANGED received /\ \E m \in Messages : written' = Append(written, Content(m))
    \/ /\ UNCHANGED written /\ Len(received) < Len(written)
       /\ received' = Append(received, written[Len(received) + 1])

(* Every step keeps the invariant and is a step of the channel.            *)
LEMMA LinkStep ==
  ASSUME LinkConstants, LinkInv, [Next]_vars
  PROVE  LinkInv' /\ ChannelStep
<1> USE DEF commsVars, writeVars, readVars
<1>1. CASE ClientStep
  <2>1. ASSUME NEW lookup \in {"ok", "failed"}, NEW outcomes \in AddressLists,
               Open(lookup, outcomes)
        PROVE  LinkInv' /\ UNCHANGED <<written, received>>
    <3>1. UNCHANGED commsVars
      BY <2>1 DEF Open
    <3> QED
      BY <2>1, <3>1, QuietStep
  <2>2. CASE Introduced \/ Sent
    <3>1. UNCHANGED commsVars
      BY <2>2 DEF Introduced, Sent
    <3> QED
      BY <2>2, <3>1, QuietStep DEF ChannelStep
  <2>3. CASE Introduce
    BY <2>3, BeginsKeeps DEF ChannelStep
  <2>4. CASE GivesUp
    BY <2>4, EndsKeeps DEF ChannelStep
  <2>5. CASE WriteStep
    <3>1. CASE WriteFails
      BY <2>5, <3>1, WriteFailsKeeps DEF WriteStep, ChannelStep
    <3>2. ASSUME NEW n \in 1 .. Capacity, Send(n) PROVE LinkInv' /\ ChannelStep
      BY <2>5, <3>2, SendKeeps DEF WriteStep, ChannelStep
    <3> QED
      BY <2>5, <3>1, <3>2 DEF WriteStep
  <2> QED
    BY <1>1, <2>1, <2>2, <2>3, <2>4, <2>5 DEF ClientStep, ChannelStep
<1>2. CASE CameraStep
  <2>1. PICK d \in 0 .. MaxDropped, n \in 0 .. MaxRays : Capture(d, n)
    BY <1>2 DEF CameraStep
  <2>2. CASE n = 0
    <3>1. Capture(d, 0) /\ UNCHANGED commsVars
      BY <2>1, <2>2 DEF Capture
    <3> QED
      BY <3>1, QuietStep DEF ChannelStep
  <2>3. CASE n # 0
    <3>1. n \in 1 .. MaxRays
      BY <2>3, SideFacts
    <3> QED
      BY <2>1, <3>1, BeginsKeeps DEF ChannelStep
  <2> QED
    BY <2>2, <2>3
<1>3. CASE Killed
  BY <1>3, EndsKeeps DEF ChannelStep
<1>4. CASE NetworkFails \/ ResetArrives \/ Accept \/ CloseSocket
  BY <1>4, ConnectionKeeps DEF ChannelStep
<1>5. CASE NextMessage
  BY <1>5, ReadStartKeeps DEF ChannelStep
<1>6. CASE ReadStep
  <2>1. spc = "reading" /\ UNCHANGED <<clientVars, serverVars>>
    BY <1>6 DEF ReadStep
  <2>2. CASE ReadFails
    BY <2>1, <2>2, ReadFailsKeeps DEF ChannelStep
  <2>3. ASSUME NEW n \in 1 .. Capacity, RecvHeader(n) PROVE LinkInv' /\ ChannelStep
    BY <2>1, <2>3, RecvHeaderKeeps DEF ChannelStep
  <2>4. ASSUME NEW n \in 1 .. Capacity, RecvBody(n) PROVE LinkInv' /\ ChannelStep
    BY <2>1, <2>4, RecvBodyKeeps DEF ChannelStep
  <2> QED
    BY <1>6, <2>2, <2>3, <2>4 DEF ReadStep
<1>7. CASE HandleInit \/ HandleData \/ HandleRay \/ Leave
  <2>1. UNCHANGED commsVars
    BY <1>7 DEF HandleInit, HandleData, HandleRay, Leave
  <2> QED
    BY <1>7, <2>1, QuietStep DEF ChannelStep
<1>8. CASE UNCHANGED vars
  <2>1. UNCHANGED commsVars
    BY <1>8 DEF vars
  <2> QED
    BY <1>8, <2>1, QuietStep DEF ChannelStep
<1> QED
  BY <1>1, <1>2, <1>3, <1>4, <1>5, <1>6, <1>7, <1>8 DEF Next, ThreadStep

(* The invariant of the link holds of every reachable state.               *)
LEMMA LinkInvariant == ASSUME LinkConstants PROVE Spec => []LinkInv
<1>1. Init => LinkInv
  BY InitLink
<1>2. LinkInv /\ [Next]_vars => LinkInv'
  BY LinkStep
<1> QED
  BY <1>1, <1>2, PTL DEF Spec

(* Client and thread, and all that lies between them, keep their types:    *)
(* no counter of bytes leaves its buffer, and no loop over the rays of a   *)
(* message its message.                                                    *)
THEOREM LinkTyped == ASSUME LinkConstants PROVE Spec => []TypeOK
<1>1. LinkInv => TypeOK
  BY DEF LinkInv, Types
<1> QED
  BY <1>1, LinkInvariant, PTL

(* InStep says of the stream what the invariant says.                      *)
LEMMA StepIsKept == ASSUME LinkInv PROVE InStep
<1> DEFINE rest == SubSeq(written, Len(received) + 1, Len(written))
<1>1. ASSUME link = "up", rresult = 1
      PROVE  /\ Len(received) <= Len(written)
             /\ BegunOf(rpart, header, in.data, nread) \o wire
                   = Stream(rest) \o SentOf(wpart, out, nsent)
  BY <1>1 DEF LinkInv, StreamInv, Rest
<1>2. Stream(rest) = FlattenSeq([i \in DOMAIN rest |->
          [k \in 1 .. HeaderSize |-> HeaderByte(rest[i], k)] \o rest[i].data])
  BY DEF Stream, Encoded
<1>3. SentOf(wpart, out, nsent) =
          IF wpart = "header" THEN SubSeq(HeaderOf(out), 1, nsent)
          ELSE IF wpart = "body" THEN HeaderOf(out) \o SubSeq(BodyOf(out), 1, nsent)
          ELSE <<>>
  BY DEF SentOf
<1>4. BegunOf(rpart, header, in.data, nread) =
          IF rpart = "header" THEN SubSeq(header, 1, nread)
          ELSE IF rpart = "body" THEN header \o in.data
          ELSE <<>>
  BY DEF BegunOf
<1> HIDE DEF rest
<1> QED
  BY <1>1, <1>2, <1>3, <1>4, Zenon DEF InStep, rest

(* ClusterComms::read() and write(): reader and writer never lose step.    *)
(* While the connection stands, the bytes that have been received of a     *)
(* message and those on the way are exactly the messages that were written *)
(* and not yet read, and what has been sent of the next.                   *)
THEOREM ReaderInStep == ASSUME LinkConstants PROVE Spec => []InStep
<1>1. LinkInv => InStep
  BY StepIsKept
<1> QED
  BY <1>1, LinkInvariant, PTL

(* Every step is one of the channel, or none.                              *)
LEMMA StepOfChannel ==
  ASSUME LinkConstants, LinkInv, LinkInv', [Next]_vars
  PROVE  [Channel!Next]_(Channel!fifoVars)
<1>1. ChannelStep
  BY LinkStep
<1>2. CASE UNCHANGED <<written, received>>
  BY <1>2 DEF Channel!fifoVars
<1>3. ASSUME NEW m \in Messages, written' = Append(written, Content(m)), UNCHANGED received
      PROVE  Channel!Next
  <2>1. written \in Seq(Contents) /\ Content(m) \in Contents
    BY ContentBytes DEF LinkInv, Types
  <2>2. Len(written') = Len(written) + 1 /\ Len(written) \in Nat
    BY <1>3, <2>1, AppendProperties, LenProperties
  <2>3. Len(written') <= MaxFrame + 1
    <3>1. Len(written') + (IF wpart' = "none" THEN 0 ELSE 1) <= frame' + 1 /\ frame' \in 0 .. MaxFrame
      BY DEF LinkInv, ClientInv, Types, TypeOK
    <3>2. MaxFrame \in Nat /\ Len(written') \in Nat
      BY <2>2 DEF LinkConstants, LinkAssumption
    <3> QED
      BY <3>1, <3>2
  <2>4. MaxFrame < MaxMessages /\ MaxFrame \in Nat /\ MaxMessages \in Nat
    BY DEF LinkConstants, LinkAssumption
  <2>5. Len(written) < MaxMessages
    BY <2>2, <2>3, <2>4
  <2>6. Content(m) \in {Content(x) : x \in Messages}
    OBVIOUS
  <2> QED
    BY <1>3, <2>5, <2>6 DEF Channel!Next, Channel!Send
<1>4. CASE /\ UNCHANGED written /\ Len(received) < Len(written)
           /\ received' = Append(received, written[Len(received) + 1])
  BY <1>4 DEF Channel!Next, Channel!Take
<1> QED
  BY <1>1, <1>2, <1>3, <1>4 DEF ChannelStep

(* The bytes implement a channel of messages: whatever send() and recv()   *)
(* take at a time and whenever the connection breaks, the messages that    *)
(* read() returns are those given to write(), complete, once each and in   *)
(* order.                                                                  *)
THEOREM ChannelRefinement == ASSUME LinkConstants PROVE Spec => MessageChannel
<1>1. Init => Channel!Init
  BY DEF Init, CommsInit, Channel!Init
<1>2. LinkInv /\ LinkInv' /\ [Next]_vars => [Channel!Next]_(Channel!fifoVars)
  BY StepOfChannel
<1> QED
  BY <1>1, <1>2, LinkInvariant, PTL DEF Spec, MessageChannel, Channel!SafeSpec

-----------------------------------------------------------------------------
(* Rays in order.  What a history holds of a message determines the        *)
(* message, and a message of vision data has as many rays as bytes.        *)
Message(c) == c.data[1].body
WithRays(sum, m) == IF m.type = "MSG_VISION_DATA" THEN sum + m.size ELSE sum
Rays(s) ==
    FoldLeft(LAMBDA sum, m : IF m.type = "MSG_VISION_DATA" THEN sum + m.size ELSE sum, 0, s)

(* Frame f with id i comes after message a: it differs in its id, by no    *)
(* more than the frames that lie between them.                             *)
Follows(a, i, f) == i > a.id /\ f - a.time >= i - a.id
Ahead(i, f) == Len(written) > 1 => Follows(Message(written[Len(written)]), i, f)

(* What the client has written: its introduction and then its frames.      *)
WrittenInv ==
    /\ written # <<>> => written[1] = Content(InitMessage)
    /\ \A k \in 2 .. Len(written) :
          LET m == Message(written[k]) IN m \in DataMessages /\ m.id < m.time
    /\ \A k \in 2 .. Len(written) - 1 :
          LET m == Message(written[k + 1]) IN Follows(Message(written[k]), m.id, m.time)

(* What it is about to write.                                              *)
SenderInv ==
    /\ cpc = "introducing" =>
          /\ wpart # "none" => out = InitMessage /\ written = <<>>
          /\ wpart = "none" /\ wresult = 1 => Len(written) = 1
    /\ cpc = "capture" => Len(written) > 0 /\ Ahead(frameId, frame + 1)
    /\ cpc = "sending" =>
          /\ Len(written) > 0
          /\ out \in DataMessages /\ out.id = frameId /\ out.time = frame
          /\ wpart # "none" => Ahead(frameId, frame)
          /\ wpart = "none" /\ wresult = 1 =>
                Len(written) > 1 /\ written[Len(written)] = Content(out)

(* The thread has a message to handle: it is the last it has received, and *)
(* unless it is the first, the client has been introduced.                 *)
Got == spc = "reading" /\ rpart = "none" /\ rresult = 1

ReceiverInv ==
    /\ Got \/ spc = "rays" => received # <<>> /\ in = received[Len(received)]
    /\ introduced \/ received = <<>> \/ (Got /\ Len(received) = 1)

(* The message whose rays were handed on last, if any were, and the rays   *)
(* received that are still to be handed on.                                *)
Current == IF Got \/ (spc = "rays" /\ rayIdx = 1) THEN Len(received) - 1 ELSE Len(received)
Remaining == IF Got THEN WithRays(0, in)
             ELSE IF spc = "rays" THEN in.size - (rayIdx - 1) ELSE 0

RayRecords == [id : Nat, time : Nat, n : Nat, origin : BOOLEAN]

NextRay(a, b) ==
    /\ \/ b.id = a.id /\ b.time = a.time /\ b.n = a.n + 1
       \/ b.n = 1 /\ b.id > a.id /\ b.time - a.time >= b.id - a.id
    /\ a.origin => b.origin

HandledInv ==
    /\ handled \in Seq(RayRecords)
    /\ spc = "rays" => rayIdx <= in.size + 1
    /\ Len(handled) + Remaining = Rays(received)
    /\ \A i \in 1 .. Len(handled) - 1 : NextRay(handled[i], handled[i + 1])
    /\ \A i \in 1 .. Len(handled) : handled[i].id < handled[i].time
    /\ handled # <<>> =>
          LET ray == handled[Len(handled)]  m == Message(received[Current])
          IN  /\ introduced /\ Current > 1 /\ ray.id = m.id /\ ray.time = m.time
              /\ ray.origin => origin
              /\ spc = "rays" /\ rayIdx > 1 => ray.n = rayIdx - 1

RaysInv == WrittenInv /\ SenderInv /\ ReceiverInv /\ HandledInv

(* The number of rays, message by message.                                 *)
LEMMA RaysFold ==
  ASSUME LinkConstants, NEW s \in Seq(Contents)
  PROVE  \E r \in [0 .. Len(s) -> Nat] :
            /\ r[0] = 0 /\ Rays(s) = r[Len(s)]
            /\ \A k \in 1 .. Len(s) : r[k] = WithRays(r[k - 1], s[k])
<1> DEFINE n == Len(s)
           h == [i \in 1 .. n |-> [v \in Nat |-> WithRays(v, s[i])]]
<1>1. n \in Nat /\ DOMAIN s = 1 .. n /\ \A i \in 1 .. n : s[i] \in Contents
  BY LenProperties, ElementOfSeq
<1>2. \A c \in Contents : c.size \in Nat
  <2>1. ASSUME NEW m \in Messages PROVE Content(m).size \in Nat
    BY MessageBytes DEF Content
  <2> QED
    BY <2>1 DEF Contents
<1>3. h \in [1 .. n -> [Nat -> Nat]]
  BY <1>1, <1>2 DEF WithRays
<1>4. \A i \in 1 .. n, v \in Nat : h[i][v] = WithRays(v, s[i])
  OBVIOUS
<1> HIDE DEF h, n
<1>5. PICK g \in [SUBSET (1 .. n) -> Nat] : IsFold(g, n, 0, h)
  BY <1>1, <1>3, FoldExists DEF HasFold
<1> DEFINE iter == CHOOSE f : f = [t \in SUBSET (1 .. n) |->
               IF t = {} THEN 0
               ELSE IF s[Max(t)].type = "MSG_VISION_DATA"
                    THEN f[t \ {Max(t)}] + s[Max(t)].size ELSE f[t \ {Max(t)}]]
<1>6. g = [t \in SUBSET (1 .. n) |->
               IF t = {} THEN 0
               ELSE IF s[Max(t)].type = "MSG_VISION_DATA"
                    THEN g[t \ {Max(t)}] + s[Max(t)].size ELSE g[t \ {Max(t)}]]
  <2>1. ASSUME NEW t \in SUBSET (1 .. n)
        PROVE  g[t] = IF t = {} THEN 0
                      ELSE IF s[Max(t)].type = "MSG_VISION_DATA"
                           THEN g[t \ {Max(t)}] + s[Max(t)].size ELSE g[t \ {Max(t)}]
    <3>1. CASE t = {}
      BY <1>5, <3>1 DEF IsFold
    <3>2. CASE t # {}
      <4>1. Max(t) \in 1 .. n
        BY <1>1, <3>2, GreatestNumber
      <4>2. g[t \ {Max(t)}] \in Nat
        BY <1>5
      <4>3. g[t] = h[Max(t)][g[t \ {Max(t)}]]
        BY <1>5, <3>2 DEF IsFold
      <4> QED
        BY <1>4, <3>2, <4>1, <4>2, <4>3 DEF WithRays
    <3> QED
      BY <3>1, <3>2
  <2> QED
    BY <2>1
<1>7. iter = [t \in SUBSET (1 .. n) |->
               IF t = {} THEN 0
               ELSE IF s[Max(t)].type = "MSG_VISION_DATA"
                    THEN iter[t \ {Max(t)}] + s[Max(t)].size ELSE iter[t \ {Max(t)}]]
  BY <1>6, Zenon
<1>8. Rays(s) = iter[1 .. n]
  BY <1>1, Zenon DEF Rays, FoldLeft, MapThenFoldSet
<1> HIDE DEF iter
<1> DEFINE r == [k \in 0 .. n |-> iter[1 .. k]]
<1>9. r[0] = 0 /\ Rays(s) = r[n]
  <2>1. iter[{}] = 0
    BY <1>7
  <2>2. 1 .. 0 = {} /\ 0 \in 0 .. n /\ n \in 0 .. n
    BY <1>1
  <2> QED
    BY <1>8, <2>1, <2>2
<1>10. ASSUME NEW k \in 1 .. n PROVE r[k] = WithRays(r[k - 1], s[k])
  <2>1. /\ 1 .. k \in SUBSET (1 .. n) /\ 1 .. k # {} /\ Max(1 .. k) = k
        /\ (1 .. k) \ {k} = 1 .. k - 1
    BY <1>1, FirstPositions
  <2>2. iter[1 .. k] = IF s[k].type = "MSG_VISION_DATA"
                       THEN iter[1 .. k - 1] + s[k].size ELSE iter[1 .. k - 1]
    BY <1>7, <2>1
  <2>3. k \in 0 .. n /\ k - 1 \in 0 .. n
    BY <1>1
  <2> QED
    BY <2>2, <2>3 DEF WithRays
<1> DEFINE T == {k \in Nat : k <= n => r[k] \in Nat}
<1>11. ASSUME NEW k \in Nat, k \in T PROVE k + 1 \in T
  <2> SUFFICES ASSUME k + 1 <= n PROVE r[k + 1] \in Nat
    OBVIOUS
  <2>1. k + 1 \in 1 .. n /\ (k + 1) - 1 = k /\ r[k] \in Nat
    BY <1>1, <1>11
  <2> HIDE DEF r
  <2>2. r[k + 1] = WithRays(r[k], s[k + 1]) /\ s[k + 1].size \in Nat
    BY <1>1, <1>2, <1>10, <2>1
  <2> QED
    BY <2>1, <2>2 DEF WithRays
<1>12. ASSUME NEW k \in 0 .. n PROVE r[k] \in Nat
  <2>1. 0 \in T
    BY <1>9
  <2> HIDE DEF T, r
  <2>2. k \in T
    BY <1>1, <1>11, <2>1, Induction
  <2>3. k <= n
    BY <1>1
  <2> QED
    BY <2>2, <2>3 DEF T
<1>13. r \in [0 .. n -> Nat]
  BY <1>12
<1> HIDE DEF r
<1> QED
  BY <1>9, <1>10, <1>13 DEF n

(* An empty history holds no rays, and a message adds its own.             *)
LEMMA RaysGrow ==
  ASSUME LinkConstants
  PROVE  /\ Rays(<<>>) = 0
         /\ \A s \in Seq(Contents), c \in Contents :
                Rays(s) \in Nat /\ Rays(Append(s, c)) = WithRays(Rays(s), c)
<1>1. Rays(<<>>) = 0
  <2>1. <<>> \in Seq(Contents) /\ Len(<<>>) = 0
    OBVIOUS
  <2> QED
    BY <2>1, RaysFold
<1>2. ASSUME NEW s \in Seq(Contents), NEW c \in Contents
      PROVE  Rays(s) \in Nat /\ Rays(Append(s, c)) = WithRays(Rays(s), c)
  <2> DEFINE u == Append(s, c)
  <2>1. PICK n \in Nat : n = Len(s)
    BY LenProperties
  <2>2. u \in Seq(Contents) /\ Len(u) = n + 1 /\ u[n + 1] = c /\ \A k \in 1 .. n : u[k] = s[k]
    BY <2>1, AppendProperties
  <2> HIDE DEF u
  <2>3. PICK r \in [0 .. n -> Nat] : /\ r[0] = 0 /\ Rays(s) = r[n]
                                    /\ \A k \in 1 .. n : r[k] = WithRays(r[k - 1], s[k])
    BY <2>1, RaysFold
  <2>a. PICK q \in [0 .. Len(u) -> Nat] :
            /\ q[0] = 0 /\ Rays(u) = q[Len(u)]
            /\ \A k \in 1 .. Len(u) : q[k] = WithRays(q[k - 1], u[k])
    BY <2>2, RaysFold
  <2>4. /\ q[0] = 0 /\ Rays(u) = q[n + 1]
        /\ \A k \in 1 .. n + 1 : q[k] = WithRays(q[k - 1], u[k])
    BY <2>2, <2>a
  <2> DEFINE T == {k \in Nat : k <= n => r[k] = q[k]}
  <2>5. ASSUME NEW k \in Nat, k \in T PROVE k + 1 \in T
    <3> SUFFICES ASSUME k + 1 <= n PROVE r[k + 1] = q[k + 1]
      OBVIOUS
    <3>1. k + 1 \in 1 .. n /\ k + 1 \in 1 .. n + 1 /\ (k + 1) - 1 = k /\ r[k] = q[k]
      BY <2>5
    <3>2. r[k + 1] = WithRays(r[k], s[k + 1]) /\ q[k + 1] = WithRays(q[k], u[k + 1])
      BY <2>3, <2>4, <3>1
    <3> QED
      BY <2>2, <3>1, <3>2
  <2>6. 0 \in T
    BY <2>3, <2>4
  <2>7. r[n] = q[n]
    <3> HIDE DEF T
    <3>1. n \in T
      BY <2>5, <2>6, Induction
    <3> QED
      BY <3>1 DEF T
  <2>8. n + 1 \in 1 .. n + 1 /\ (n + 1) - 1 = n /\ n \in 0 .. n
    OBVIOUS
  <2>9. q[n + 1] = WithRays(q[n], u[n + 1])
    BY <2>4, <2>8
  <2>10. Rays(u) = WithRays(Rays(s), c) /\ Rays(s) \in Nat
    BY <2>2, <2>3, <2>4, <2>7, <2>8, <2>9
  <2> QED
    BY <2>10 DEF u
<1> QED
  BY <1>1, <1>2

(* The messages that the link carries.                                     *)
LEMMA MessageFacts ==
  ASSUME LinkConstants
  PROVE  /\ InitMessage \in Messages /\ InitMessage.type = "MSG_CLIENT_INIT"
         /\ \A m \in Messages :
               /\ Message(Content(m)) = m /\ Content(m) \in Contents
               /\ Content(m).type = m.type /\ Content(m).size = m.size
               /\ m.size \in Nat \ {0}
               /\ m.type = "MSG_VISION_DATA" => m \in DataMessages
         /\ \A m \in DataMessages :
               m \in Messages /\ m.type = "MSG_VISION_DATA" /\ m.id \in Nat /\ m.time \in Nat
<1>1. InitMessage \in Messages /\ InitMessage.type = "MSG_CLIENT_INIT"
  BY DEF LinkConstants, LinkMessages, InitMessage
<1>2. ASSUME NEW m \in Messages
      PROVE  /\ Message(Content(m)) = m /\ Content(m) \in Contents
             /\ Content(m).type = m.type /\ Content(m).size = m.size
             /\ m.size \in Nat \ {0}
  <2>1. m.size \in Nat \ {0}
    BY MessageBytes
  <2>2. 1 \in 1 .. m.size
    BY <2>1
  <2>3. Content(m).data[1] = BodyByte(m, 1)
    BY <2>2 DEF Content, BodyOf
  <2>4. BodyByte(m, 1).body = m
    BY DEF BodyByte
  <2> QED
    BY <2>1, <2>3, <2>4 DEF Message, Content, Contents
<1>3. ASSUME NEW m \in Messages, m.type = "MSG_VISION_DATA" PROVE m \in DataMessages
  BY <1>3 DEF LinkConstants, LinkMessages, InitMessage
<1>4. ASSUME NEW m \in DataMessages
      PROVE  m \in Messages /\ m.type = "MSG_VISION_DATA" /\ m.id \in Nat /\ m.time \in Nat
  <2>1. m \in Messages
    BY DEF LinkConstants, LinkMessages
  <2>2. MaxFrame \in Nat /\ MaxRays \in Nat
    BY DEF LinkConstants, LinkAssumption
  <2>3. PICK n \in 1 .. MaxRays, i \in 0 .. MaxFrame, f \in 1 .. MaxFrame :
            m = [type |-> "MSG_VISION_DATA", size |-> n, id |-> i, time |-> f]
    BY DEF DataMessages
  <2> QED
    BY <2>1, <2>2, <2>3
<1> QED
  BY <1>1, <1>2, <1>3, <1>4

(* Nothing is written, and nothing new is about to be.                     *)
LEMMA WriterRests ==
  ASSUME WrittenInv, SenderInv, UNCHANGED <<written, frame, frameId, out>>,
         \/ cpc' = cpc /\ UNCHANGED <<wpart, wresult>>
         \/ cpc' = cpc /\ cpc # "capture" /\ wpart' = "none" /\ wresult' = -1
         \/ cpc' \notin {"introducing", "capture", "sending"}
  PROVE  WrittenInv' /\ SenderInv'
<1>1. WrittenInv'
  BY DEF WrittenInv, Message, Follows
<1>2. Ahead(frameId, frame)' = Ahead(frameId, frame)
  BY DEF Ahead, Message, Follows
<1>3. Ahead(frameId, frame + 1)' = Ahead(frameId, frame + 1)
  BY DEF Ahead, Message, Follows
<1>4. SenderInv'
  BY <1>2, <1>3 DEF SenderInv, Content, BodyOf, BodyByte
<1> QED
  BY <1>1, <1>4

(* The numbers of the last message of data, if there is one.               *)
LEMMA LastWritten ==
  ASSUME LinkConstants, LinkInv, WrittenInv, NEW k \in 2 .. Len(written)
  PROVE  /\ Message(written[k]) \in DataMessages
         /\ Message(written[k]).id \in Nat /\ Message(written[k]).time \in Nat
         /\ Message(written[k]).id < Message(written[k]).time
<1>1. Message(written[k]) \in DataMessages /\ Message(written[k]).id < Message(written[k]).time
  BY DEF WrittenInv
<1> QED
  BY <1>1, MessageFacts

(* A message has been written.                                             *)
LEMMA WrittenGrows ==
  ASSUME LinkConstants, LinkInv, WrittenInv, SenderInv, cpc \in {"introducing", "sending"},
         wpart # "none", wpart' = "none", wresult' = 1,
         UNCHANGED <<cpc, out, frame, frameId>>, written' = Append(written, Content(out))
  PROVE  WrittenInv' /\ SenderInv'
<1>1. PICK n \in Nat : n = Len(written)
  BY SideFacts
<1>2. out \in Messages /\ Content(out) \in Contents /\ Message(Content(out)) = out
  BY SideFacts, MessageFacts DEF ByteTypes
<1>3. written \in Seq(Contents)
  BY DEF LinkInv, Types
<1>4. /\ Len(written') = n + 1 /\ written'[n + 1] = Content(out)
      /\ \A k \in 1 .. n : written'[k] = written[k]
  BY <1>1, <1>2, <1>3, AppendProperties
<1>5. CASE cpc = "introducing"
  <2>1. out = InitMessage /\ n = 0
    <3>1. out = InitMessage /\ written = <<>>
      BY <1>5 DEF SenderInv
    <3> QED
      BY <1>1, <3>1
  <2>2. Len(written') = 1 /\ written'[1] = Content(InitMessage)
    BY <1>4, <2>1
  <2> QED
    BY <1>5, <2>2 DEF WrittenInv, SenderInv
<1>6. CASE cpc = "sending"
  <2>1. /\ n > 0 /\ out \in DataMessages /\ out.id = frameId /\ out.time = frame
        /\ n > 1 => Follows(Message(written[n]), frameId, frame)
    BY <1>1, <1>6 DEF SenderInv, Ahead
  <2>2. out.id < out.time
    BY <1>6, <2>1, SideFacts DEF ClientInv
  <2>3. written'[1] = Content(InitMessage)
    <3>1. written # <<>>
      BY <1>1, <2>1
    <3> QED
      BY <1>4, <2>1, <3>1 DEF WrittenInv
  <2>4. ASSUME NEW k \in 2 .. n + 1
        PROVE  Message(written'[k]) \in DataMessages /\ Message(written'[k]).id < Message(written'[k]).time
    <3>1. CASE k = n + 1
      BY <1>2, <1>4, <2>1, <2>2, <3>1
    <3>2. CASE k # n + 1
      <4>1. k \in 2 .. n /\ k \in 1 .. n
        BY <3>2
      <4> QED
        BY <1>1, <1>4, <4>1 DEF WrittenInv
    <3> QED
      BY <3>1, <3>2
  <2>5. ASSUME NEW k \in 2 .. n
        PROVE  Follows(Message(written'[k]), Message(written'[k + 1]).id, Message(written'[k + 1]).time)
    <3>1. CASE k = n
      <4>1. k \in 1 .. n /\ n > 1
        BY <3>1
      <4> QED
        BY <1>2, <1>4, <2>1, <3>1, <4>1
    <3>2. CASE k # n
      <4>1. k \in 2 .. n - 1 /\ k \in 1 .. n /\ k + 1 \in 1 .. n
        BY <3>2
      <4> QED
        BY <1>1, <1>4, <4>1 DEF WrittenInv
    <3> QED
      BY <3>1, <3>2
  <2>6. WrittenInv'
    <3>1. Len(written') = n + 1 /\ 2 .. Len(written') - 1 = 2 .. n
      BY <1>4
    <3> QED
      BY <2>3, <2>4, <2>5, <3>1 DEF WrittenInv
  <2>7. SenderInv'
    BY <1>4, <1>6, <2>1 DEF SenderInv, Content, BodyOf, BodyByte
  <2> QED
    BY <2>6, <2>7
<1> QED
  BY <1>5, <1>6

(* What the client does.                                                   *)
LEMMA ClientWrites ==
  ASSUME LinkConstants, LinkInv, WrittenInv, SenderInv, ClientStep \/ CameraStep \/ Killed
  PROVE  WrittenInv' /\ SenderInv'
<1> USE DEF commsVars, writeVars, readVars, connVars, clientVars, serverVars
<1>1. PICK n \in Nat : n = Len(written)
  BY SideFacts
<1>2. ASSUME NEW lookup \in {"ok", "failed"}, NEW outcomes \in AddressLists, Open(lookup, outcomes)
      PROVE  WrittenInv' /\ SenderInv'
  <2>1. /\ UNCHANGED <<written, frame, frameId, out>>
        /\ cpc' \notin {"introducing", "capture", "sending"}
    BY <1>2 DEF Open
  <2> QED
    BY <2>1, WriterRests
<1>3. CASE GivesUp \/ Killed
  BY <1>3, WriterRests DEF GivesUp, Killed, Exits
<1>4. CASE Introduce
  <2>1. /\ cpc' = "introducing" /\ wpart' = "header" /\ out' = InitMessage /\ written' = written
        /\ written = <<>>
    BY <1>4, SideFacts DEF Introduce, WriteStart, ClientInv
  <2> QED
    BY <2>1 DEF WrittenInv, SenderInv, Message, Follows
<1>5. CASE Introduced
  <2>1. cpc' = "capture" /\ UNCHANGED <<written, frame, frameId>> /\ Len(written) = 1
    BY <1>5 DEF Introduced, SenderInv
  <2>2. ~(Len(written) > 1) /\ Len(written) > 0
    BY <2>1
  <2> QED
    BY <2>1, <2>2 DEF WrittenInv, SenderInv, Ahead, Message, Follows
<1>6. CASE Sent
  <2>1. /\ cpc' = "capture" /\ UNCHANGED <<written, frame>> /\ frameId' = frameId + 1
        /\ n > 1 /\ written[n] = Content(out) /\ out \in DataMessages
        /\ out.id = frameId /\ out.time = frame
    BY <1>1, <1>6 DEF Sent, SenderInv
  <2>2. Message(written[n]) = out /\ frameId \in Nat /\ frame \in Nat
    BY <2>1, MessageFacts, SideFacts DEF SideTypes
  <2>3. Follows(Message(written[n]), frameId + 1, frame + 1)
    BY <2>1, <2>2 DEF Follows
  <2>4. WrittenInv'
    BY <2>1 DEF WrittenInv, Message, Follows
  <2>5. SenderInv'
    BY <1>1, <2>1, <2>3 DEF SenderInv, Ahead, Message, Follows
  <2> QED
    BY <2>4, <2>5
<1>7. ASSUME NEW d \in 0 .. MaxDropped, NEW r \in 0 .. MaxRays, Capture(d, r)
      PROVE  WrittenInv' /\ SenderInv'
  <2>1. /\ cpc = "capture" /\ frame' = frame + 1 + d /\ frameId' = frameId + d /\ written' = written
        /\ \/ r = 0 /\ cpc' = "capture"
           \/ /\ cpc' = "sending" /\ r \in 1 .. MaxRays /\ frame + 1 + d <= MaxFrame
              /\ wpart' = "header"
              /\ out' = [type |-> "MSG_VISION_DATA", size |-> r, id |-> frameId', time |-> frame']
    BY <1>7, SideFacts DEF Capture, WriteStart
  <2>2. /\ frameId \in Nat /\ frame \in Nat /\ d \in Nat /\ n > 0 /\ frameId <= frame /\ MaxFrame \in Nat
        /\ n > 1 => Follows(Message(written[n]), frameId, frame + 1)
    BY <1>1, <2>1, SideFacts DEF SideTypes, SenderInv, Ahead, ClientInv
  <2>3. n > 1 => Follows(Message(written[n]), frameId + d, frame + 1 + d)
    <3> SUFFICES ASSUME n > 1 PROVE Follows(Message(written[n]), frameId + d, frame + 1 + d)
      OBVIOUS
    <3>1. PICK i \in Nat, f \in Nat : i = Message(written[n]).id /\ f = Message(written[n]).time
      <4>1. n \in 2 .. Len(written)
        BY <1>1
      <4> QED
        BY <4>1, LastWritten
    <3>2. frameId > i /\ frame + 1 - f >= frameId - i
      BY <2>2, <3>1 DEF Follows
    <3>3. frameId + d > i /\ frame + 1 + d - f >= frameId + d - i
      BY <2>2, <3>2
    <3> QED
      BY <2>2, <3>1, <3>3 DEF Follows
  <2>4. n > 1 => Follows(Message(written[n]), frameId + d, frame + 1 + d + 1)
    <3> SUFFICES ASSUME n > 1 PROVE Follows(Message(written[n]), frameId + d, frame + 1 + d + 1)
      OBVIOUS
    <3>1. PICK i \in Nat, f \in Nat : i = Message(written[n]).id /\ f = Message(written[n]).time
      <4>1. n \in 2 .. Len(written)
        BY <1>1
      <4> QED
        BY <4>1, LastWritten
    <3> QED
      BY <2>2, <2>3, <3>1 DEF Follows
  <2>5. WrittenInv'
    BY <2>1 DEF WrittenInv, Message, Follows
  <2>6. CASE r = 0 /\ cpc' = "capture"
    BY <1>1, <2>1, <2>2, <2>4, <2>5, <2>6 DEF SenderInv, Ahead, Message, Follows
  <2>7. CASE cpc' = "sending" /\ r \in 1 .. MaxRays /\ wpart' = "header" /\ frame + 1 + d <= MaxFrame
    <3>1. out' = [type |-> "MSG_VISION_DATA", size |-> r, id |-> frameId', time |-> frame']
      BY <2>1, <2>7
    <3>2. frameId' \in 0 .. MaxFrame /\ frame' \in 1 .. MaxFrame
      BY <2>1, <2>2, <2>7
    <3>3. out' \in DataMessages /\ out'.id = frameId' /\ out'.time = frame'
      BY <2>7, <3>1, <3>2 DEF DataMessages
    <3> QED
      BY <1>1, <2>1, <2>2, <2>3, <2>5, <2>7, <3>3 DEF SenderInv, Ahead, Message, Follows
  <2> QED
    BY <2>1, <2>6, <2>7
<1>8. CASE WriteStep
  <2>1. cpc \in {"introducing", "sending"} /\ UNCHANGED clientVars
    BY <1>8 DEF WriteStep
  <2>2. CASE WriteFails
    BY <2>1, <2>2, WriterRests DEF WriteFails
  <2>3. ASSUME NEW s \in 1 .. Capacity, Send(s) PROVE WrittenInv' /\ SenderInv'
    <3>1. /\ wpart # "none" /\ out' = out
          /\ \/ wpart' # "none" /\ UNCHANGED <<wresult, written>>
             \/ wpart' = "none" /\ wresult' = 1 /\ written' = Append(written, Content(out))
      BY <2>3 DEF Send, WriteAdvances
    <3>2. CASE wpart' # "none" /\ UNCHANGED <<wresult, written>>
      <4>1. WrittenInv'
        BY <3>2 DEF WrittenInv, Message, Follows
      <4>2. Ahead(frameId, frame)' = Ahead(frameId, frame)
        BY <2>1, <3>2 DEF Ahead, Message, Follows
      <4>3. SenderInv'
        BY <2>1, <3>1, <3>2, <4>2 DEF SenderInv
      <4> QED
        BY <4>1, <4>3
    <3>3. CASE wpart' = "none" /\ wresult' = 1 /\ written' = Append(written, Content(out))
      BY <2>1, <3>1, <3>3, WrittenGrows
    <3> QED
      BY <3>1, <3>2, <3>3
  <2> QED
    BY <1>8, <2>2, <2>3 DEF WriteStep
<1> QED
  BY <1>2, <1>3, <1>4, <1>5, <1>6, <1>7, <1>8 DEF ClientStep, CameraStep

(* What the network and the server do has no part in it.                   *)
LEMMA OthersWriteNothing ==
  ASSUME LinkConstants, LinkInv, WrittenInv, SenderInv,
         NetworkFails \/ ResetArrives \/ Accept \/ ThreadStep \/ UNCHANGED vars
  PROVE  WrittenInv' /\ SenderInv'
<1>1. UNCHANGED <<written, frame, frameId, out, cpc, wpart, wresult>>
  <2> USE DEF commsVars, writeVars, connVars, clientVars
  <2>1. CASE NetworkFails \/ ResetArrives \/ Accept \/ UNCHANGED vars
    BY <2>1 DEF NetworkFails, ResetArrives, Accept, vars
  <2>2. CASE NextMessage \/ HandleInit \/ HandleData \/ HandleRay \/ Leave \/ CloseSocket
    BY <2>2 DEF NextMessage, ReadStart, HandleInit, HandleData, HandleRay, Leave, CloseSocket
  <2>3. CASE ReadStep
    BY <2>3 DEF ReadStep, ReadFails, RecvHeader, RecvBody
  <2> QED
    BY <2>1, <2>2, <2>3 DEF ThreadStep
<1> QED
  BY <1>1, WriterRests

(* Whoever moves, what was written stays a sequence of frames in order.    *)
LEMMA SenderStep ==
  ASSUME LinkConstants, LinkInv, WrittenInv, SenderInv, [Next]_vars
  PROVE  WrittenInv' /\ SenderInv'
  BY ClientWrites, OthersWriteNothing DEF Next

(* A message that the thread has is one of the client's, and all but the   *)
(* first are of vision data.                                               *)
LEMMA ReceivedMessages ==
  ASSUME LinkConstants, LinkInv, WrittenInv
  PROVE  /\ received \in Seq(Contents) /\ Len(received) \in Nat
         /\ received # <<>> => received[1] = Content(InitMessage)
         /\ \A k \in 2 .. Len(received) :
               /\ Message(received[k]) \in DataMessages /\ received[k] = Content(Message(received[k]))
               /\ Message(received[k]).id < Message(received[k]).time
         /\ \A k \in 2 .. Len(received) - 1 :
               Follows(Message(received[k]), Message(received[k + 1]).id, Message(received[k + 1]).time)
<1>1. /\ received \in Seq(Contents) /\ written \in Seq(Contents) /\ Len(received) <= Len(written)
      /\ Len(received) \in Nat /\ Len(written) \in Nat
      /\ \A k \in 1 .. Len(received) : received[k] = written[k]
  BY LenProperties DEF LinkInv, Types, StreamInv
<1>2. received # <<>> => received[1] = Content(InitMessage)
  <2> SUFFICES ASSUME received # <<>> PROVE received[1] = Content(InitMessage)
    OBVIOUS
  <2>1. Len(received) # 0
    BY <1>1, EmptySeq
  <2>2. 1 \in 1 .. Len(received) /\ Len(written) # 0
    BY <1>1, <2>1
  <2>3. written # <<>>
    BY <2>2
  <2> QED
    BY <1>1, <2>2, <2>3 DEF WrittenInv
<1>3. ASSUME NEW k \in 2 .. Len(received)
      PROVE  /\ Message(received[k]) \in DataMessages /\ received[k] = Content(Message(received[k]))
             /\ Message(received[k]).id < Message(received[k]).time
  <2>1. k \in 1 .. Len(received) /\ k \in 2 .. Len(written)
    BY <1>1
  <2>2. received[k] = written[k] /\ received[k] \in Contents
    BY <1>1, <2>1, ElementOfSeq
  <2>3. PICK m \in Messages : received[k] = Content(m)
    BY <2>2 DEF Contents
  <2>4. received[k] = Content(Message(received[k]))
    BY <2>3, MessageFacts
  <2> QED
    BY <2>1, <2>2, <2>4 DEF WrittenInv
<1>4. ASSUME NEW k \in 2 .. Len(received) - 1
      PROVE  Follows(Message(received[k]), Message(received[k + 1]).id, Message(received[k + 1]).time)
  <2>1. k \in 1 .. Len(received) /\ k + 1 \in 1 .. Len(received) /\ k \in 2 .. Len(written) - 1
    BY <1>1
  <2> QED
    BY <1>1, <2>1 DEF WrittenInv
<1> QED
  BY <1>1, <1>2, <1>3, <1>4

(* The message the thread is handling: its type tells whether it is the    *)
(* first.                                                                  *)
LEMMA InHand ==
  ASSUME LinkConstants, LinkInv, WrittenInv, ReceiverInv, Got \/ spc = "rays"
  PROVE  /\ Len(received) \in Nat \ {0} /\ in = received[Len(received)] /\ in.size \in Nat \ {0}
         /\ in.type = "MSG_CLIENT_INIT" => Len(received) = 1
         /\ in.type = "MSG_VISION_DATA" => Len(received) > 1
<1>1. PICK n \in Nat : n = Len(received)
  BY ReceivedMessages
<1>2. received # <<>> /\ in = received[n]
  BY <1>1 DEF ReceiverInv
<1>3. n # 0
  BY <1>1, <1>2, ReceivedMessages, EmptySeq
<1>4. CASE n = 1
  <2>1. in = Content(InitMessage)
    BY <1>1, <1>2, <1>4, ReceivedMessages
  <2> QED
    BY <1>1, <1>2, <1>4, <2>1, MessageFacts
<1>5. CASE n > 1
  <2>1. n \in 2 .. Len(received)
    BY <1>1, <1>5
  <2>2. Message(in) \in DataMessages /\ in = Content(Message(in))
    BY <1>2, <2>1, ReceivedMessages
  <2>3. PICK m \in DataMessages : in = Content(m)
    BY <2>2
  <2>4. in.type = "MSG_VISION_DATA" /\ in.size \in Nat \ {0}
    BY <2>3, MessageFacts
  <2> QED
    BY <1>1, <1>2, <1>5, <2>4
<1> QED
  BY <1>1, <1>3, <1>4, <1>5

(* The reader's part is as it was, and no message comes into hand.         *)
LEMMA ThreadRests ==
  ASSUME ReceiverInv, HandledInv, ~(Got \/ spc = "rays"), ~(Got \/ spc = "rays")',
         UNCHANGED <<received, introduced, origin, rayIdx, handled>>
  PROVE  ReceiverInv' /\ HandledInv'
<1>1. ReceiverInv'
  BY DEF ReceiverInv
<1>2. Current' = Current /\ Remaining' = Remaining
  BY DEF Current, Remaining
<1>3. Rays(received)' = Rays(received)
  OBVIOUS
<1>4. spc # "rays" /\ spc' # "rays"
  OBVIOUS
<1>5. HandledInv'
  BY <1>2, <1>3, <1>4 DEF HandledInv, Message, NextRay
<1> QED
  BY <1>1, <1>5

(* Neither does a step of the client or the network, or of an idle thread, *)
(* bring one, nor take it out of hand.                                     *)
LEMMA ThreadWaits ==
  ASSUME ReceiverInv, HandledInv,
         UNCHANGED <<received, introduced, origin, rayIdx, handled, in, spc, rpart, rresult>>
  PROVE  ReceiverInv' /\ HandledInv'
<1>1. Got' = Got
  BY DEF Got
<1>2. Current' = Current /\ Remaining' = Remaining
  BY <1>1 DEF Current, Remaining, WithRays
<1>3. Rays(received)' = Rays(received)
  OBVIOUS
<1>4. ReceiverInv'
  BY <1>1 DEF ReceiverInv
<1>5. HandledInv'
  BY <1>2, <1>3 DEF HandledInv, Message, NextRay
<1> QED
  BY <1>4, <1>5

(* read() has a message: it is in hand, and its rays are to be handed on.  *)
LEMMA ReadsMessage ==
  ASSUME LinkConstants, LinkInv', LinkInv, ReceiverInv, HandledInv, spc = "reading",
         rpart # "none", ReadDone(in'), UNCHANGED serverVars
  PROVE  ReceiverInv' /\ HandledInv'
<1>1. /\ rpart' = "none" /\ rresult' = 1 /\ received' = Append(received, in')
      /\ UNCHANGED <<spc, introduced, origin, rayIdx, handled>>
  BY DEF ReadDone, serverVars
<1>2. PICK n \in Nat : n = Len(received)
  BY LenProperties DEF LinkInv, Types
<1>3. received \in Seq(Contents) /\ received' \in Seq(Contents)
  BY DEF LinkInv, Types
<1>4. Len(received') = n + 1 /\ received'[n + 1] = in' /\ \A k \in 1 .. n : received'[k] = received[k]
  BY <1>1, <1>2, <1>3, AppendProperties
<1>5. in' \in Contents
  BY <1>2, <1>3, <1>4, ElementOfSeq
<1>6. Got' /\ ~Got /\ spc # "rays" /\ spc' # "rays"
  BY <1>1 DEF Got
<1>7. Current = n /\ Current' = n /\ Remaining = 0 /\ Remaining' = WithRays(0, in')
  BY <1>2, <1>4, <1>6 DEF Current, Remaining, WithRays
<1>8. ReceiverInv'
  <2>1. received' # <<>> /\ in' = received'[Len(received')]
    BY <1>2, <1>4
  <2>2. introduced \/ n = 0
    <3>1. introduced \/ received = <<>>
      BY <1>6 DEF ReceiverInv
    <3> QED
      BY <1>2, <3>1
  <2> QED
    BY <1>1, <1>2, <1>4, <1>6, <2>1, <2>2 DEF ReceiverInv
<1>9. Len(handled') + Remaining' = Rays(received')
  <2>1. Rays(received) \in Nat /\ Rays(received') = WithRays(Rays(received), in')
    BY <1>1, <1>3, <1>5, RaysGrow
  <2>2. Len(handled) = Rays(received)
    <3>1. Len(handled) + 0 = Rays(received) /\ Len(handled) \in Nat
      BY <1>7, LenProperties DEF HandledInv
    <3> QED
      BY <3>1
  <2>3. in'.size \in Nat
    BY DEF LinkInv, Types
  <2> QED
    BY <1>1, <1>7, <2>1, <2>2, <2>3 DEF WithRays
<1>10. HandledInv'
  <2>1. handled # <<>> => n > 1 /\ received'[n] = received[n]
    <3>1. handled # <<>> => n > 1
      BY <1>7 DEF HandledInv
    <3> QED
      BY <1>2, <1>4, <3>1
  <2> QED
    BY <1>1, <1>6, <1>7, <1>9, <2>1 DEF HandledInv, Message, NextRay
<1> QED
  BY <1>8, <1>10

(* An introduction is handled: it was the first message, and there are no  *)
(* rays.                                                                   *)
LEMMA IntroductionKeeps ==
  ASSUME LinkConstants, LinkInv, WrittenInv, ReceiverInv, HandledInv, HandleInit
  PROVE  ReceiverInv' /\ HandledInv'
<1>1. /\ Got /\ in.type = "MSG_CLIENT_INIT" /\ introduced' = TRUE /\ spc' = "check"
      /\ UNCHANGED <<commsVars, rayIdx, handled>>
  BY DEF HandleInit, Got
<1>2. Len(received) = 1 /\ UNCHANGED <<received, in, rpart, rresult>>
  BY <1>1, InHand DEF commsVars, readVars
<1>3. ~(Got \/ spc = "rays")' /\ spc # "rays" /\ spc' # "rays"
  BY <1>1 DEF Got
<1>4. Current = 0 /\ Remaining = 0 /\ Remaining' = 0
  BY <1>1, <1>2, <1>3 DEF Current, Remaining, WithRays
<1>5. handled = <<>>
  BY <1>4 DEF HandledInv
<1>6. ReceiverInv'
  BY <1>1, <1>3 DEF ReceiverInv
<1>7. Rays(received)' = Rays(received)
  BY <1>2
<1>8. HandledInv'
  BY <1>1, <1>3, <1>4, <1>5, <1>7 DEF HandledInv, NextRay
<1> QED
  BY <1>6, <1>8

(* The rays of a message come up.                                          *)
LEMMA DataKeeps ==
  ASSUME LinkConstants, LinkInv, WrittenInv, ReceiverInv, HandledInv, HandleData
  PROVE  ReceiverInv' /\ HandledInv'
<1>1. /\ Got /\ in.type = "MSG_VISION_DATA" /\ spc' = "rays" /\ rayIdx' = 1
      /\ UNCHANGED <<commsVars, handled, introduced, origin>>
  BY DEF HandleData, Got
<1>2. UNCHANGED <<received, in, rpart, rresult>>
  BY <1>1 DEF commsVars, readVars
<1>3. Len(received) > 1 /\ in.size \in Nat /\ Len(received) \in Nat
  BY <1>1, InHand
<1>4. ~Got' /\ spc # "rays"
  BY <1>1 DEF Got
<1>5. Current' = Current /\ Remaining' = Remaining
  BY <1>1, <1>2, <1>3, <1>4 DEF Current, Remaining, WithRays
<1>6. ReceiverInv'
  <2>1. introduced
    BY <1>1, <1>3 DEF ReceiverInv
  <2> QED
    BY <1>1, <1>2, <1>4, <2>1 DEF ReceiverInv
<1>7. Rays(received)' = Rays(received)
  BY <1>2
<1>8. HandledInv'
  BY <1>1, <1>2, <1>3, <1>4, <1>5, <1>7 DEF HandledInv, NextRay, Message
<1> QED
  BY <1>6, <1>8

(* A ray is handed on, or all of them have been.                           *)
LEMMA RayKeeps ==
  ASSUME LinkConstants, LinkInv, WrittenInv, ReceiverInv, HandledInv, HandleRay
  PROVE  ReceiverInv' /\ HandledInv'
<1> DEFINE m == Message(in)
<1>1. /\ spc = "rays" /\ ~Got /\ UNCHANGED <<received, in, rpart, rresult, introduced, origin>>
  BY DEF HandleRay, Got, commsVars, readVars
<1>2. PICK n \in Nat \ {0} : n = Len(received)
  BY <1>1, InHand
<1>3. /\ n > 1 /\ in = received[n] /\ in.size \in Nat \ {0} /\ in.type = "MSG_VISION_DATA"
  <2>1. in.type = "MSG_VISION_DATA"
    BY <1>1, SideFacts DEF ThreadInv
  <2> QED
    BY <1>1, <1>2, <2>1, InHand
<1>4. m \in DataMessages /\ in = Content(m) /\ m.id < m.time /\ m.id \in Nat /\ m.time \in Nat
  <2>1. n \in 2 .. Len(received)
    BY <1>2, <1>3
  <2>2. m \in DataMessages /\ in = Content(m) /\ m.id < m.time
    BY <1>3, <2>1, ReceivedMessages
  <2> QED
    BY <2>2, MessageFacts
<1>5. introduced
  <2>1. received # <<>>
    BY <1>1 DEF ReceiverInv
  <2> QED
    BY <1>1, <2>1 DEF ReceiverInv
<1>6. rayIdx \in Nat \ {0} /\ rayIdx <= in.size + 1 /\ origin \in BOOLEAN
  BY <1>1, SideFacts DEF HandledInv, SideTypes
<1> HIDE DEF m
<1>7. ReceiverInv'
  BY <1>1, <1>5 DEF ReceiverInv, HandleRay, Got
<1>8. PICK h \in Nat : h = Len(handled)
  BY LenProperties DEF HandledInv
<1>9. /\ Current = (IF rayIdx = 1 THEN n - 1 ELSE n) /\ Remaining = in.size - (rayIdx - 1)
      /\ handled \in Seq(RayRecords)
  BY <1>1, <1>2 DEF Current, Remaining, HandledInv
<1>10. Rays(received)' = Rays(received)
  BY <1>1
<1>11. CASE rayIdx <= in.size
  <2> DEFINE ray == [id |-> m.id, time |-> m.time, n |-> rayIdx, origin |-> origin]
  <2>1. handled' = Append(handled, ray) /\ rayIdx' = rayIdx + 1 /\ spc' = "rays"
    <3>1. PICK x \in Parsed : handled' =
              Append(handled, [id |-> x.id, time |-> x.time, n |-> rayIdx, origin |-> origin])
      BY <1>11 DEF HandleRay
    <3>2. x \in Messages /\ in = Content(x)
      BY <3>1 DEF Parsed
    <3>3. x = m
      BY <3>2, MessageFacts DEF m
    <3> QED
      BY <1>1, <1>11, <3>1, <3>3 DEF HandleRay
  <2>2. ray \in RayRecords
    BY <1>4, <1>6 DEF RayRecords
  <2>3. /\ ray.id = m.id /\ ray.time = m.time /\ ray.n = rayIdx /\ ray.origin = origin
    OBVIOUS
  <2> HIDE DEF ray
  <2>4. /\ handled' \in Seq(RayRecords) /\ Len(handled') = h + 1 /\ handled'[h + 1] = ray
        /\ \A i \in 1 .. h : handled'[i] = handled[i]
    BY <1>8, <1>9, <2>1, <2>2, AppendProperties
  <2>5. ~Got' /\ rayIdx' # 1 /\ rayIdx' > 1
    BY <1>6, <2>1 DEF Got
  <2>6. Current' = n /\ Remaining' = in.size - rayIdx
    BY <1>1, <1>2, <1>6, <2>1, <2>5 DEF Current, Remaining
  <2>7. Len(handled') + Remaining' = Rays(received')
    <3>1. h + (in.size - (rayIdx - 1)) = Rays(received)
      BY <1>8, <1>9 DEF HandledInv
    <3>2. (h + 1) + (in.size - rayIdx) = h + (in.size - (rayIdx - 1))
      BY <1>3, <1>6
    <3> QED
      BY <1>10, <2>4, <2>6, <3>1, <3>2
  <2>8. ASSUME NEW i \in 1 .. h + 1 PROVE handled'[i].id < handled'[i].time
    <3>1. CASE i = h + 1
      BY <1>4, <2>3, <2>4, <3>1
    <3>2. CASE i # h + 1
      <4>1. i \in 1 .. h
        BY <3>2
      <4> QED
        BY <1>8, <2>4, <4>1 DEF HandledInv
    <3> QED
      BY <3>1, <3>2
  <2>9. ASSUME h > 0 PROVE NextRay(handled[h], ray)
    <3>1. /\ Current > 1 /\ handled[h].id = Message(received[Current]).id
          /\ handled[h].time = Message(received[Current]).time
          /\ handled[h].origin => origin
          /\ rayIdx > 1 => handled[h].n = rayIdx - 1
      <4>1. handled # <<>>
        BY <1>8, <2>9
      <4> QED
        BY <1>1, <1>8, <4>1 DEF HandledInv
    <3>2. CASE rayIdx = 1
      <4>1. Current = n - 1 /\ n - 1 \in 2 .. Len(received) - 1 /\ n = (n - 1) + 1
        BY <1>2, <1>9, <3>1, <3>2
      <4>2. Follows(Message(received[n - 1]), m.id, m.time)
        BY <1>3, <4>1, ReceivedMessages DEF m
      <4> QED
        BY <2>3, <3>1, <3>2, <4>1, <4>2 DEF NextRay, Follows
    <3>3. CASE rayIdx # 1
      <4>1. Current = n /\ rayIdx > 1
        BY <1>6, <1>9, <3>3
      <4>2. handled[h].id = m.id /\ handled[h].time = m.time /\ handled[h].n = rayIdx - 1
        BY <1>3, <3>1, <4>1 DEF m
      <4> QED
        BY <1>6, <2>3, <3>1, <4>2 DEF NextRay
    <3> QED
      BY <3>2, <3>3
  <2>10. ASSUME NEW i \in 1 .. h PROVE NextRay(handled'[i], handled'[i + 1])
    <3>1. CASE i = h
      BY <2>4, <2>9, <3>1
    <3>2. CASE i # h
      <4>1. i \in 1 .. Len(handled) - 1 /\ i \in 1 .. h /\ i + 1 \in 1 .. h
        BY <1>8, <3>2
      <4> QED
        BY <2>4, <4>1 DEF HandledInv
    <3> QED
      BY <3>1, <3>2
  <2>11. /\ handled'[Len(handled')] = ray /\ Message(received'[Current']) = m /\ Current' > 1
         /\ Len(handled') - 1 = h
    BY <1>1, <1>3, <2>4, <2>6 DEF m
  <2>12. handled' # <<>> =>
            LET last == handled'[Len(handled')]  c == Message(received'[Current'])
            IN  /\ introduced' /\ Current' > 1 /\ last.id = c.id /\ last.time = c.time
                /\ last.origin => origin'
                /\ spc' = "rays" /\ rayIdx' > 1 => last.n = rayIdx' - 1
    BY <1>1, <1>5, <1>6, <2>1, <2>3, <2>11
  <2>13. rayIdx' <= in'.size + 1
    BY <1>1, <1>3, <1>6, <1>11, <2>1
  <2> QED
    BY <1>7, <2>4, <2>7, <2>8, <2>10, <2>11, <2>12, <2>13 DEF HandledInv, NextRay, Message
<1>12. CASE ~(rayIdx <= in.size)
  <2>1. spc' = "check" /\ UNCHANGED <<rayIdx, handled>>
    BY <1>1, <1>12 DEF HandleRay
  <2>2. rayIdx = in.size + 1 /\ rayIdx > 1
    BY <1>3, <1>6, <1>12
  <2>3. ~Got'
    BY <2>1 DEF Got
  <2>4. Current' = Current /\ Remaining' = 0 /\ Remaining = 0
    BY <1>1, <1>3, <1>9, <2>1, <2>2, <2>3, <1>2 DEF Current, Remaining
  <2>5. HandledInv'
    BY <1>1, <1>10, <2>1, <2>4 DEF HandledInv, NextRay, Message
  <2> QED
    BY <1>7, <2>5
<1> QED
  BY <1>11, <1>12

(* A step of read().                                                       *)
LEMMA ReadKeeps ==
  ASSUME LinkConstants, LinkInv, LinkInv', ReceiverInv, HandledInv, ReadStep
  PROVE  ReceiverInv' /\ HandledInv'
<1>1. spc = "reading" /\ spc' = "reading" /\ UNCHANGED serverVars
  BY DEF ReadStep, serverVars
<1>2. CASE rpart # "none" /\ ReadDone(in')
  BY <1>1, <1>2, ReadsMessage
<1>3. CASE /\ rpart # "none" /\ received' = received
           /\ rpart' # "none" \/ rresult' # 1
  <2>1. ~(Got \/ spc = "rays") /\ ~(Got \/ spc = "rays")'
    BY <1>1, <1>3 DEF Got
  <2> QED
    BY <1>1, <1>3, <2>1, ThreadRests DEF serverVars
<1>4. CASE ReadFails
  <2>1. rpart # "none" /\ received' = received /\ rresult' # 1
    BY <1>4 DEF ReadFails
  <2> QED
    BY <1>3, <2>1
<1>5. ASSUME NEW n \in 1 .. Capacity, RecvHeader(n) PROVE ReceiverInv' /\ HandledInv'
  <2>1. /\ rpart = "header"
        /\ \/ rpart' = rpart /\ received' = received
           \/ \E buf : HeaderComplete(buf)
    BY <1>5 DEF RecvHeader
  <2>2. ASSUME NEW buf, HeaderComplete(buf)
        PROVE  ReadDone(in') \/ (rpart' = "body" /\ received' = received)
    BY <2>2 DEF HeaderComplete
  <2> QED
    BY <1>2, <1>3, <2>1, <2>2
<1>6. ASSUME NEW n \in 1 .. Capacity, RecvBody(n) PROVE ReceiverInv' /\ HandledInv'
  <2>1. rpart = "body" /\ (ReadDone(in') \/ (rpart' = rpart /\ received' = received))
    BY <1>6 DEF RecvBody
  <2> QED
    BY <1>2, <1>3, <2>1
<1> QED
  BY <1>4, <1>5, <1>6 DEF ReadStep

(* What the client and the network do has no part in what is received.     *)
LEMMA OthersReceiveNothing ==
  ASSUME ReceiverInv, HandledInv,
         ClientStep \/ CameraStep \/ Killed \/ NetworkFails \/ ResetArrives \/ UNCHANGED vars
  PROVE  ReceiverInv' /\ HandledInv'
<1>1. UNCHANGED <<received, introduced, origin, rayIdx, handled, in, spc, rpart, rresult>>
  <2> USE DEF commsVars, readVars, connVars, serverVars
  <2>1. CASE NetworkFails \/ ResetArrives \/ UNCHANGED vars \/ GivesUp \/ Killed
    BY <2>1 DEF NetworkFails, ResetArrives, vars, GivesUp, Killed, Exits
  <2>2. CASE Introduce \/ Introduced \/ Sent
    BY <2>2 DEF Introduce, Introduced, Sent, WriteStart
  <2>3. CASE WriteStep
    BY <2>3 DEF WriteStep, WriteFails, Send
  <2>4. CASE CameraStep
    BY <2>4 DEF CameraStep, Capture, WriteStart
  <2>5. CASE \E lookup \in {"ok", "failed"}, outcomes \in AddressLists : Open(lookup, outcomes)
    BY <2>5 DEF Open
  <2> QED
    BY <2>1, <2>2, <2>3, <2>4, <2>5 DEF ClientStep
<1> QED
  BY <1>1, ThreadWaits

(* A step of the server's thread.                                          *)
LEMMA ThreadStepKeeps ==
  ASSUME LinkConstants, LinkInv, LinkInv', WrittenInv, ReceiverInv, HandledInv, Accept \/ ThreadStep
  PROVE  ReceiverInv' /\ HandledInv'
<1>1. CASE Accept \/ NextMessage \/ Leave \/ CloseSocket
  <2>1. UNCHANGED <<received, introduced, origin, rayIdx, handled>>
    BY <1>1 DEF Accept, NextMessage, ReadStart, Leave, CloseSocket, commsVars, readVars
  <2>2. ~(Got \/ spc = "rays") /\ ~(Got \/ spc = "rays")'
    <3>1. CASE Accept
      <4>1. spc = "off"
        BY <3>1, SideFacts DEF Accept, ThreadInv
      <4>2. spc' \in {"off", "check"}
        BY <3>1, <4>1 DEF Accept
      <4> QED
        BY <4>1, <4>2 DEF Got
    <3>2. CASE NextMessage \/ Leave \/ CloseSocket
      BY <3>2 DEF NextMessage, ReadStart, Leave, CloseSocket, Got
    <3> QED
      BY <1>1, <3>1, <3>2
  <2> QED
    BY <2>1, <2>2, ThreadRests
<1>2. CASE ReadStep
  BY <1>2, ReadKeeps
<1>3. CASE HandleInit
  BY <1>3, IntroductionKeeps
<1>4. CASE HandleData
  BY <1>4, DataKeeps
<1>5. CASE HandleRay
  BY <1>5, RayKeeps
<1> QED
  BY <1>1, <1>2, <1>3, <1>4, <1>5 DEF ThreadStep

(* Every step keeps the invariant of the rays.                             *)
LEMMA RaysStep ==
  ASSUME LinkConstants, LinkInv, LinkInv', RaysInv, [Next]_vars
  PROVE  RaysInv'
<1>1. WrittenInv' /\ SenderInv'
  BY SenderStep DEF RaysInv
<1>2. ReceiverInv' /\ HandledInv'
  BY ThreadStepKeeps, OthersReceiveNothing DEF RaysInv, Next
<1> QED
  BY <1>1, <1>2 DEF RaysInv

(* The invariant of the rays holds at the start.                           *)
LEMMA InitRays == ASSUME LinkConstants, Init PROVE RaysInv
<1>1. /\ written = <<>> /\ received = <<>> /\ handled = <<>> /\ cpc = "open" /\ spc = "off"
      /\ introduced = FALSE /\ wpart = "none"
  BY DEF Init, CommsInit
<1>2. Len(<<>>) = 0 /\ <<>> \in Seq(RayRecords) /\ 2 .. 0 = {} /\ 2 .. 0 - 1 = {} /\ 1 .. 0 - 1 = {} /\ 1 .. 0 = {}
  OBVIOUS
<1>3. WrittenInv /\ SenderInv /\ ReceiverInv
  <2>1. WrittenInv
    <3>1. Len(written) = 0 /\ 2 .. Len(written) = {} /\ 2 .. Len(written) - 1 = {}
      BY <1>1, <1>2
    <3> QED
      BY <1>1, <3>1, Zenon DEF WrittenInv
  <2>2. SenderInv
    BY <1>1 DEF SenderInv
  <2>3. ReceiverInv
    BY <1>1 DEF ReceiverInv, Got
  <2> QED
    BY <2>1, <2>2, <2>3
<1>4. Remaining = 0 /\ Rays(received) = 0
  BY <1>1, RaysGrow DEF Remaining, Got
<1> QED
  BY <1>1, <1>2, <1>3, <1>4 DEF RaysInv, HandledInv

(* The invariants of the link and of the rays hold of every state.         *)
LEMMA RaysInvariant == ASSUME LinkConstants PROVE Spec => [](LinkInv /\ RaysInv)
<1>1. Init => LinkInv /\ RaysInv
  BY InitLink, InitRays
<1>2. LinkInv /\ RaysInv /\ [Next]_vars => (LinkInv /\ RaysInv)'
  BY LinkStep, RaysStep
<1> QED
  BY <1>1, <1>2, PTL DEF Spec

(* What RaysInOrder says of the rays follows from the invariant.           *)
LEMMA RaysAreInOrder == ASSUME LinkInv, RaysInv PROVE RaysInOrder
<1>1. handled # <<>> => introduced
  BY DEF RaysInv, HandledInv
<1>2. \A i \in 1 .. Len(handled) - 1 : NextRay(handled[i], handled[i + 1])
  BY DEF RaysInv, HandledInv
<1>3. \A i \in DOMAIN handled : handled[i].id < handled[i].time
  <2>1. DOMAIN handled = 1 .. Len(handled)
    BY LenProperties DEF RaysInv, HandledInv
  <2> QED
    BY <2>1 DEF RaysInv, HandledInv
<1>4. spc \in {"check", "leaving", "ended"} => Len(handled) = Rays(received)
  <2> SUFFICES ASSUME spc \in {"check", "leaving", "ended"} PROVE Len(handled) = Rays(received)
    OBVIOUS
  <2>1. Remaining = 0
    BY DEF Remaining, Got
  <2>2. Len(handled) \in Nat /\ Len(handled) + 0 = Rays(received)
    BY <2>1, LenProperties DEF RaysInv, HandledInv
  <2> QED
    BY <2>2
<1> QED
  BY <1>1, <1>2, <1>3, <1>4, Zenon DEF RaysInOrder, NextRay, Rays

(* The client, ClusterServer::run_client_thread and the link between them: *)
(* however the stream is cut up and wherever the connection breaks, rays   *)
(* are handed on after the introduction, in the order of capture, message  *)
(* by message and none left out.                                           *)
THEOREM RaysReachInOrder == ASSUME LinkConstants PROVE Spec => []RaysInOrder
<1>1. LinkInv /\ RaysInv => RaysInOrder
  BY RaysAreInOrder
<1> QED
  BY <1>1, RaysInvariant, PTL
=============================================================================
