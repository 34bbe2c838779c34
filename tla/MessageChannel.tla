--------------------------- MODULE MessageChannel ---------------------------
(***************************************************************************)
(* What ICollectiveTransport promises about one direction of a connection,  *)
(* as Router uses it: whole messages, in order, each once.  The sending     *)
(* side ends cleanly at a message boundary ("done"), with its last message  *)
(* cut short ("cut"), or without having read what it was sent ("reset");    *)
(* what was sent before is received first in any case.                      *)
(***************************************************************************)
EXTENDS Integers, Sequences

CONSTANTS Messages

VARIABLES queue,      \* messages sent, the last perhaps in part, not received
          sender,     \* idle, sending, threw, done, cut, reset
          receiver,   \* idle, receiving, closed (PeerClosedError), failed, gone
          received    \* history

vars == <<queue, sender, receiver, received>>

Init == queue = << >> /\ sender = "idle" /\ receiver = "idle" /\ received = << >>

SendBegin(m) ==
    /\ sender = "idle" /\ sender' = "sending"
    /\ queue' = IF receiver = "gone" THEN << >> ELSE Append(queue, m)
    /\ UNCHANGED <<receiver, received>>

SendReturn ==
    /\ sender = "sending" /\ sender' = "idle"
    /\ UNCHANGED <<queue, receiver, received>>

\* The receiving side is gone.
SendThrows ==
    /\ sender = "sending" /\ receiver = "gone"
    /\ sender' = "threw"
    /\ UNCHANGED <<queue, receiver, received>>

\* The sending side closes or dies; a message that is being sent is complete,
\* has left no trace or is cut short.
SenderEnds ==
    /\ sender \in {"idle", "sending", "threw"}
    /\ \/ sender' \in {"done", "reset"} /\ UNCHANGED queue
       \/ /\ sender = "sending" /\ (queue # << >> \/ receiver = "gone")
          /\ sender' \in {"done", "cut", "reset"}
          /\ queue' = SubSeq(queue, 1, Len(queue) - 1)
    /\ UNCHANGED <<receiver, received>>

ReceiveBegin ==
    /\ receiver = "idle" /\ receiver' = "receiving"
    /\ UNCHANGED <<queue, sender, received>>

ReceiveReturn ==
    /\ receiver = "receiving" /\ queue # << >>
    /\ receiver' = "idle"
    /\ received' = Append(received, Head(queue)) /\ queue' = Tail(queue)
    /\ UNCHANGED sender

ReceiveThrows ==
    /\ receiver = "receiving" /\ queue = << >>
    /\ \/ sender = "done" /\ receiver' = "closed"
       \/ sender \in {"cut", "reset"} /\ receiver' = "failed"
    /\ UNCHANGED <<queue, sender, received>>

ReceiverEnds ==
    /\ receiver # "gone" /\ receiver' = "gone"
    /\ queue' = << >>
    /\ UNCHANGED <<sender, received>>

Next ==
    \/ \E m \in Messages : SendBegin(m)
    \/ SendReturn \/ SendThrows \/ SenderEnds
    \/ ReceiveBegin \/ ReceiveReturn \/ ReceiveThrows \/ ReceiverEnds

Spec == Init /\ [][Next]_vars
=============================================================================
