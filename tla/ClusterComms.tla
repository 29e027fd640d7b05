---------------------------- MODULE ClusterComms ----------------------------
(***************************************************************************)
(* ClusterComms of src/ClusterComms.cpp: messages over a stream of bytes.  *)
(* write() sends a header and a body, read() collects them, and either may *)
(* get through only a part of what is asked for with each system call.     *)
(* One end writes and the other reads, as vision client and server do.     *)
(***************************************************************************)
EXTENDS Integers, Sequences, SequencesExt

CONSTANTS
    HeaderSize,   \* MSG_HEADER_SIZE
    Capacity,     \* bytes the two sockets hold between them
    Messages,     \* what may be sent: records with fields type and size
    MaxMessages   \* bound: messages sent in a behaviour

CommsAssumption ==
    /\ HeaderSize \in Nat \ {0} /\ Capacity \in Nat \ {0}
    /\ \A m \in Messages : m.size \in Nat

VARIABLES
    link,     \* "up", "closed" by the reader's end, or "down": calls fail
    wire,     \* bytes sent and not yet received
    writing,  \* whether the writer's end is open
    wpart,    \* what write() is sending: "none", "header" or "body"
    out,      \* the message it is sending
    nsent,    \* `total' of write()
    wresult,  \* what write() returned last
    rpart,    \* what read() is receiving
    header,   \* header_buf of the reader
    in,       \* the message it is receiving: [type, size, data]
    nread,    \* `total' of read()
    rresult,  \* what read() returned last
    written,  \* history: what was sent in full
    received  \* history: what read() returned

connVars  == <<link, wire, writing>>
writeVars == <<wpart, out, nsent, wresult, written>>
readVars  == <<rpart, header, in, nread, rresult, received>>
commsVars == <<connVars, writeVars, readVars>>

(* A byte of a header depends on type and size, one of a body on all of    *)
(* the message.                                                            *)
HeaderByte(m, k) == [head |-> <<m.type, m.size>>, at |-> k]
BodyByte(m, k)   == [body |-> m, at |-> k]
HeaderOf(m)      == [k \in 1 .. HeaderSize |-> HeaderByte(m, k)]
BodyOf(m)        == [k \in 1 .. m.size |-> BodyByte(m, k)]

(* What the receiver holds after a message has arrived undamaged. *)
Content(m) == [type |-> m.type, size |-> m.size, data |-> BodyOf(m)]

(* What type and size header_buf is taken for: anything, if its bytes are  *)
(* not those of one header.                                                *)
Decoded(buf) ==
    LET known == {m \in Messages : HeaderOf(m) = buf}
        some  == IF known # {} THEN known ELSE Messages
    IN  {[type |-> m.type, size |-> m.size] : m \in some}

CommsInit ==
    /\ link = "up" /\ wire = <<>> /\ writing = TRUE
    /\ wpart = "none" /\ out = (CHOOSE m \in Messages : TRUE) /\ nsent = 0
    /\ wresult = 1 /\ written = <<>>
    /\ rpart = "none" /\ header = [k \in 1 .. HeaderSize |-> [head |-> <<"", 0>>, at |-> 0]]
    /\ in = [type |-> "", size |-> 0, data |-> <<>>]
    /\ nread = 0 /\ rresult = 1 /\ received = <<>>

-----------------------------------------------------------------------------
(* write() *)

WriteStart(m) ==
    /\ wpart = "none" /\ writing
    /\ wpart' = "header" /\ out' = m /\ nsent' = 0
    /\ UNCHANGED <<connVars, readVars, wresult, written>>

(* What is left of the header or the body that is being sent. *)
Unsent == SubSeq(IF wpart = "header" THEN HeaderOf(out) ELSE BodyOf(out),
                 nsent + 1, IF wpart = "header" THEN HeaderSize ELSE out.size)

(* A loop of write() ends: the header is followed by the body, and a       *)
(* message without a body is complete at once.                             *)
WriteAdvances(total) ==
    IF wpart = "header" /\ total = HeaderSize /\ out.size > 0
    THEN wpart' = "body" /\ nsent' = 0 /\ UNCHANGED <<wresult, written>>
    ELSE IF total = (IF wpart = "header" THEN HeaderSize ELSE out.size)
    THEN /\ wpart' = "none" /\ nsent' = 0 /\ wresult' = 1
         /\ written' = Append(written, Content(out))
    ELSE nsent' = total /\ UNCHANGED <<wpart, wresult, written>>

(* Defect: each call starts from the beginning of the buffer again. *)
SendFromStart(n) ==
    /\ wpart # "none" /\ link # "down"
    /\ n \in 1 .. Len(Unsent)
    /\ \/ link = "up" /\ Len(wire) + n <= Capacity
          /\ wire' = wire \o SubSeq(IF wpart = "header" THEN HeaderOf(out) ELSE BodyOf(out), 1, n)
       \/ link = "closed" /\ UNCHANGED wire
    /\ WriteAdvances(nsent + n)
    /\ UNCHANGED <<link, writing, out, readVars>>

(* send() takes some of the bytes, as many as there is room for; it blocks *)
(* while there is none.  Until the reset of a peer that has closed its end *)
(* arrives, what is sent is lost.                                          *)
Send(n) ==
    /\ wpart # "none" /\ link # "down"
    /\ n \in 1 .. Len(Unsent)
    /\ \/ link = "up" /\ Len(wire) + n <= Capacity /\ wire' = wire \o SubSeq(Unsent, 1, n)
       \/ link = "closed" /\ UNCHANGED wire
    /\ WriteAdvances(nsent + n)
    /\ UNCHANGED <<link, writing, out, readVars>>

(* send() fails, and write() returns. *)
WriteFails ==
    /\ wpart # "none" /\ link = "down"
    /\ wpart' = "none" /\ nsent' = 0 /\ wresult' = -1
    /\ UNCHANGED <<connVars, out, readVars, written>>

-----------------------------------------------------------------------------
(* read() *)

ReadStart ==
    /\ rpart = "none"
    /\ rpart' = "header" /\ nread' = 0
    /\ UNCHANGED <<connVars, writeVars, header, in, rresult, received>>

(* read() has what it wanted. *)
ReadDone(m) ==
    /\ rpart' = "none" /\ nread' = 0 /\ rresult' = 1
    /\ received' = Append(received, m)

(* The header gives type and size; without a body the message is there. *)
HeaderComplete(buf) ==
    \E h \in Decoded(buf) :
        /\ in' = [type |-> h.type, size |-> h.size, data |-> <<>>]
        /\ IF h.size = 0
           THEN ReadDone(in')
           ELSE rpart' = "body" /\ nread' = 0 /\ UNCHANGED <<rresult, received>>

(* Defect: recv() is asked for a whole header however much is there. *)
RecvHeaderTooMuch(n) ==
    /\ rpart = "header" /\ link # "down"
    /\ n \in 1 .. HeaderSize /\ n <= Len(wire)
    /\ wire' = SubSeq(wire, n + 1, Len(wire))
    /\ LET buf == [k \in 1 .. HeaderSize |->
                      IF k \in nread + 1 .. nread + n THEN wire[k - nread] ELSE header[k]]
       IN  /\ header' = buf
           /\ IF nread + n < HeaderSize
              THEN nread' = nread + n /\ UNCHANGED <<rpart, in, rresult, received>>
              ELSE HeaderComplete(buf)
    /\ UNCHANGED <<link, writing, writeVars>>

(* recv() returns some of the bytes that have arrived, at most what is     *)
(* missing; the complete header gives type and size.                       *)
RecvHeader(n) ==
    /\ rpart = "header" /\ link # "down"
    /\ n \in 1 .. HeaderSize - nread /\ n <= Len(wire)
    /\ wire' = SubSeq(wire, n + 1, Len(wire))
    /\ LET buf == [k \in 1 .. HeaderSize |->
                      IF k \in nread + 1 .. nread + n THEN wire[k - nread] ELSE header[k]]
       IN  /\ header' = buf
           /\ IF nread + n < HeaderSize
              THEN nread' = nread + n /\ UNCHANGED <<rpart, in, rresult, received>>
              ELSE HeaderComplete(buf)
    /\ UNCHANGED <<link, writing, writeVars>>

RecvBody(n) ==
    /\ rpart = "body" /\ link # "down"
    /\ n \in 1 .. in.size - nread /\ n <= Len(wire)
    /\ wire' = SubSeq(wire, n + 1, Len(wire))
    /\ in' = [in EXCEPT !.data = @ \o SubSeq(wire, 1, n)]
    /\ IF nread + n < in.size
       THEN nread' = nread + n /\ UNCHANGED <<rpart, rresult, received>>
       ELSE ReadDone(in')
    /\ UNCHANGED <<link, writing, header, writeVars>>

(* Defect: the end of the stream is taken for a short read. *)
ReadFailsOnErrorOnly ==
    /\ rpart # "none"
    /\ link = "down"
    /\ rpart' = "none" /\ nread' = 0 /\ rresult' = -1
    /\ UNCHANGED <<connVars, header, in, writeVars, received>>

(* recv() returns 0 at the end of the stream, or fails; read() returns.    *)
(* The buffer of a body that was begun stays with the message.             *)
ReadFails ==
    /\ rpart # "none"
    /\ link = "down" \/ (~writing /\ wire = <<>>)
    /\ rpart' = "none" /\ nread' = 0
    /\ rresult' = IF link = "down" THEN -1 ELSE 0
    /\ UNCHANGED <<connVars, header, in, writeVars, received>>

-----------------------------------------------------------------------------
(* Every byte sent and not yet read of a message is on the wire, in order: *)
(* the reader knows where a header starts, however the stream was cut.     *)
InStep ==
    link = "up" /\ rresult = 1 =>
        LET sentBytes == IF wpart = "header" THEN SubSeq(HeaderOf(out), 1, nsent)
                         ELSE IF wpart = "body" THEN HeaderOf(out) \o SubSeq(BodyOf(out), 1, nsent)
                         ELSE <<>>
            begun == IF rpart = "header" THEN SubSeq(header, 1, nread)
                     ELSE IF rpart = "body" THEN header \o in.data
                     ELSE <<>>
            rest  == SubSeq(written, Len(received) + 1, Len(written))
            bytes == FlattenSeq([i \in DOMAIN rest |->
                        [k \in 1 .. HeaderSize |-> HeaderByte(rest[i], k)] \o rest[i].data])
        IN  Len(received) <= Len(written) /\ begun \o wire = bytes \o sentBytes

(* Complete messages arrive complete, once, and in order, or not at all:   *)
(* the bytes implement a channel of messages.                              *)
Channel == INSTANCE FifoChannel WITH
    sent <- written, taken <- received,
    Values <- {Content(m) : m \in Messages}, MaxPushes <- MaxMessages
=============================================================================
