------------------------------ MODULE Framing ------------------------------
(***************************************************************************)
(* One direction of src/src/orchestration/unix_socket_transport.hpp: send   *)
(* and receive of encoded batches over a byte stream that takes and gives   *)
(* as many bytes at a time as it likes, and whose ends may close or be      *)
(* killed at any moment.  write and read are the steps; one that EINTR      *)
(* interrupts changes nothing and is tried again.                           *)
(***************************************************************************)
EXTENDS Serialization

CONSTANTS HeaderSize,     \* bytes of the length header (8 in the code)
          Batches,        \* what is sent: [kind, items]; "raw" is not encoded
          SocketBuffer,   \* bytes that the socket holds
          MaxMessages     \* bound: calls of send

Encode(b) == IF b.kind = "raw" THEN b.items ELSE EncodeBatch(b.kind, b.items)

ASSUME FramingAssumption ==
    /\ {HeaderSize, SocketBuffer} \subseteq Nat \ {0} /\ MaxMessages \in Nat

\* Messages are bytes or batches, and a size_t holds their lengths.
ASSUME BatchesAssumption ==
    \A b \in Batches :
        /\ IF b.kind = "raw" THEN b.items \in Seq(Byte) ELSE IsBatch(b.kind, b.items)
        /\ Fits(Len(Encode(b)), HeaderSize)

VARIABLES sender,     \* idle, sending, threw, done, cut, reset
          out,        \* what send has still to write: header and payload
          begun,      \* history: the batches given to send, less one cut off
          wire,       \* the bytes in the socket
          receiver,   \* idle, header, payload, closed, failed, gone
          len, buf,   \* bytes that read_all wants and has got
          received    \* history: what receive returned

vars == <<sender, out, begun, wire, receiver, len, buf, received>>

Init ==
    /\ sender = "idle" /\ out = << >> /\ begun = << >> /\ wire = << >>
    /\ receiver = "idle" /\ len = 0 /\ buf = << >> /\ received = << >>

-----------------------------------------------------------------------------
(* send *)

\* Big-endian.
encode_length(n) == Reverse(Put(n, HeaderSize))

decode_length(h) == Number(h)

SendBegin(b) ==
    /\ sender = "idle" /\ Len(begun) < MaxMessages
    /\ begun' = Append(begun, b)
    /\ out' = <<encode_length(Len(Encode(b))), Encode(b)>>
    /\ sender' = "sending"
    /\ UNCHANGED <<wire, receiver, len, buf, received>>

\* write takes n bytes of the header or of the payload.
Write(n) ==
    /\ sender = "sending" /\ out # << >> /\ receiver # "gone"
    /\ n <= Len(Head(out)) /\ n <= SocketBuffer - Len(wire)
    /\ wire' = wire \o SubSeq(Head(out), 1, n)
    /\ out' = [out EXCEPT ![1] = SubSeq(@, n + 1, Len(@))]
    /\ UNCHANGED <<sender, begun, receiver, len, buf, received>>

\* write_all returns; send returns after the second one.
WriteAllDone ==
    /\ sender = "sending" /\ Head(out) = << >>
    /\ out' = Tail(out)
    /\ sender' = IF Len(out) = 1 THEN "idle" ELSE "sending"
    /\ UNCHANGED <<begun, wire, receiver, len, buf, received>>

\* write fails with EPIPE; SIGPIPE is ignored.
SendThrows ==
    /\ sender = "sending" /\ Head(out) # << >> /\ receiver = "gone"
    /\ sender' = "threw" /\ out' = << >>
    /\ UNCHANGED <<begun, wire, receiver, len, buf, received>>

\* What send has still to write, and how much that is.
Unsent == FlattenSeq(out)
Unwritten == Len(Unsent)

\* The sending process closes its transport or is killed, anywhere in send;
\* unread says whether it leaves bytes of the other direction unread.
SenderEnds(unread) ==
    /\ sender \in {"idle", "sending", "threw"}
    /\ LET total == HeaderSize + Len(Encode(begun[Len(begun)]))
       IN  sender' = IF unread THEN "reset"
                     ELSE IF Unwritten = 0 \/ Unwritten = total THEN "done" ELSE "cut"
    /\ begun' = IF Unwritten = 0 THEN begun ELSE SubSeq(begun, 1, Len(begun) - 1)
    /\ out' = << >>
    /\ UNCHANGED <<wire, receiver, len, buf, received>>

-----------------------------------------------------------------------------
(* receive *)

ReceiveBegin ==
    /\ receiver = "idle"
    /\ receiver' = "header" /\ len' = HeaderSize /\ buf' = << >>
    /\ UNCHANGED <<sender, out, begun, wire, received>>

\* read gives n bytes.
Read(n) ==
    /\ receiver \in {"header", "payload"}
    /\ n <= len - Len(buf) /\ n <= Len(wire)
    /\ buf' = buf \o SubSeq(wire, 1, n)
    /\ wire' = SubSeq(wire, n + 1, Len(wire))
    /\ UNCHANGED <<sender, out, begun, receiver, len, received>>

HeaderDone ==
    /\ receiver = "header" /\ Len(buf) = len
    /\ receiver' = "payload" /\ len' = decode_length(buf) /\ buf' = << >>
    /\ UNCHANGED <<sender, out, begun, wire, received>>

ReceiveReturn ==
    /\ receiver = "payload" /\ Len(buf) = len
    /\ receiver' = "idle" /\ received' = Append(received, buf)
    /\ len' = 0 /\ buf' = << >>
    /\ UNCHANGED <<sender, out, begun, wire>>

\* Mutants of ReadEnds: every end of file counts as a clean close; an end of
\* file is taken for "nothing yet" once a message has begun.
ReadEndsCleanly ==
    /\ receiver \in {"header", "payload"} /\ Len(buf) < len
    /\ wire = << >> /\ sender \in {"done", "cut", "reset"}
    /\ receiver' = "closed"
    /\ UNCHANGED <<sender, out, begun, wire, len, buf, received>>
ReadEndsAtStart ==
    /\ receiver = "header" /\ buf = << >>
    /\ wire = << >> /\ sender \in {"done", "cut", "reset"}
    /\ receiver' = IF sender = "reset" THEN "failed" ELSE "closed"
    /\ UNCHANGED <<sender, out, begun, wire, len, buf, received>>

\* read returns 0, or fails because of a reset, with bytes still missing.
ReadEnds ==
    /\ receiver \in {"header", "payload"} /\ Len(buf) < len
    /\ wire = << >> /\ sender \in {"done", "cut", "reset"}
    /\ receiver' = IF receiver = "header" /\ buf = << >> /\ sender # "reset"
                   THEN "closed" ELSE "failed"
    /\ UNCHANGED <<sender, out, begun, wire, len, buf, received>>

\* The receiving process closes its transport or is killed.
ReceiverEnds ==
    /\ receiver # "gone"
    /\ receiver' = "gone" /\ wire' = << >> /\ len' = 0 /\ buf' = << >>
    /\ UNCHANGED <<sender, out, begun, received>>

-----------------------------------------------------------------------------
Amount == 1..SocketBuffer

SendStep == WriteAllDone \/ SendThrows \/ \E n \in Amount : Write(n)

ReceiveStep ==
    \/ ReceiveBegin \/ HeaderDone \/ ReceiveReturn \/ ReadEnds
    \/ \E n \in Amount : Read(n)

Next ==
    \/ \E b \in Batches : SendBegin(b)
    \/ SendStep \/ ReceiveStep
    \/ \E unread \in BOOLEAN : SenderEnds(unread)
    \/ ReceiverEnds

Spec == Init /\ [][Next]_vars

\* Calls keep running, and the receiver calls receive again as run_worker_loop
\* does.  Nobody has to send or to end.
FairSpec == Spec /\ WF_vars(SendStep) /\ WF_vars(ReceiveStep)

-----------------------------------------------------------------------------
(* Properties *)

\* Type invariant; the socket and read_all hold no more than they have room for.
TypeOK ==
    /\ sender \in {"idle", "sending", "threw", "done", "cut", "reset"}
    /\ receiver \in {"idle", "header", "payload", "closed", "failed", "gone"}
    /\ out \in Seq(Seq(Byte)) /\ begun \in Seq(Batches)
    /\ wire \in Seq(Byte) /\ Len(wire) <= SocketBuffer
    /\ len \in Nat /\ buf \in Seq(Byte) /\ Len(buf) <= len
    /\ received \in Seq(Seq(Byte))

\* The messages under way, for the channel.
Queue ==
    IF receiver = "gone" THEN << >>
    ELSE [i \in 1..(Len(begun) - Len(received)) |-> Encode(begun[Len(received) + i])]

Channel == INSTANCE MessageChannel WITH
    Messages <- {Encode(b) : b \in Batches},
    queue <- Queue,
    receiver <- IF receiver \in {"header", "payload"} THEN "receiving" ELSE receiver

\* "Silently truncating a partial message would be far worse than failing
\* loudly": however writes and reads are split and whenever an end dies,
\* receive returns whole messages in order, PeerClosedError means that the
\* peer ended between messages, and anything else is an error.
ImplementsChannel == Channel!Spec

\* A batch that arrives decodes to the batch that was encoded, and what has
\* been read of a message that is still incomplete decodes to no batch at all.
BatchesIntact ==
    /\ \A i \in DOMAIN received : \A b \in Batches :
          b.kind # "raw" /\ Encode(b) = Encode(begun[i]) =>
              Decodes(b.kind, received[i], b.items)
    /\ receiver = "payload" /\ Len(buf) < len /\ Len(begun) > Len(received)
          => LET b == begun[Len(received) + 1]
             IN  b.kind # "raw" => ~ DecodeBatch(b.kind, buf).ok

\* Messages whose send has returned.
Completed == Len(begun) - (IF sender = "sending" THEN 1 ELSE 0)

\* A message that was sent completely is received, also if the sender dies
\* right after it, unless the receiver goes away.  Neither call hangs: send
\* returns or throws while the receiver receives or is gone, and a receive ends
\* after the sender has ended.
SentIsReceived ==
    /\ \A n \in 1..MaxMessages :
          (Completed >= n /\ sender # "threw")
              ~> (Len(received) >= n \/ receiver = "gone")
    /\ sender = "sending" ~> sender # "sending"
    /\ sender \in {"done", "cut", "reset"} ~> receiver \in {"closed", "failed", "gone"}

-----------------------------------------------------------------------------
(* The inductive invariant *)

Live == receiver \in {"idle", "header", "payload"}
Ended == sender \in {"done", "cut", "reset"}

\* A message on the wire.
Framed(m) == encode_length(Len(m)) \o m

\* The bytes of the messages that are not received yet: read by the receive
\* under way (its header, which it keeps as a number), in the socket, or still
\* to be written.
Taken == IF receiver = "payload" THEN encode_length(len) \o buf ELSE buf
Stream == Taken \o wire \o Unsent

\* What these bytes should be.
Row == FlattenSeq([i \in DOMAIN Queue |-> Framed(Queue[i])])

Whole == Stream = Row /\ sender # "cut"

\* The sender has ended in the middle of a message.
CutOff ==
    /\ sender \in {"cut", "reset"}
    /\ \E b \in Batches : \E n \in 1..(HeaderSize + Len(Encode(b)) - 1) :
          Stream = Row \o SubSeq(Framed(Encode(b)), 1, n)

StreamInv ==
    /\ Live => Whole \/ CutOff
    /\ receiver = "idle" => buf = << >>
    /\ receiver = "header" => len = HeaderSize
    /\ receiver = "payload" => Fits(len, HeaderSize)

\* Nothing is received before it is written, and what is received was sent.
HistoryInv ==
    /\ Len(received) <= Len(begun)
    /\ Unwritten > 0 => Len(received) < Len(begun)
    /\ \A i \in DOMAIN received : received[i] = Encode(begun[i])

SendInv ==
    /\ sender = "sending" <=> out # << >>
    /\ sender = "sending" =>
          /\ Len(begun) > 0
          /\ Unwritten <= HeaderSize + Len(Encode(begun[Len(begun)]))

EndInv ==
    /\ receiver \in {"closed", "failed"} => Ended
    /\ sender = "threw" => receiver = "gone"

IInv == TypeOK /\ StreamInv /\ HistoryInv /\ SendInv /\ EndInv
=============================================================================
