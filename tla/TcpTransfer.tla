----------------------------- MODULE TcpTransfer -----------------------------
(***************************************************************************)
(* One direction of an established TCP session: the sending window of one  *)
(* TCP process, the receiving window of the other, and the two directions  *)
(* of the cable between them (the packet sending queues of the computers   *)
(* feed it in order, and are part of it here).                             *)
(***************************************************************************)
EXTENDS TcpReceivingWindow

CONSTANTS
    Segments,    \* how many segments the application sends: a bound
    WindowSize,  \* SendingWindow.window_size (20 in the code)
    MaxCopies,   \* copies of one segment under way at a time: a bound
    MaxAcks,     \* ACKs under way at a time: a bound
    MaxHeld,     \* segments the receiving window holds, repeated ones too: a bound
    Lossy,       \* the cable has a packet loss
    Reorders     \* the cable has a latency

ASSUME SegmentsAssumption == Segments \in Nat
ASSUME WindowAssumption == WindowSize \in Nat \ {0}
ASSUME BoundsAssumption == MaxCopies \in Nat /\ MaxAcks \in Nat /\ MaxHeld \in Nat
ASSUME CableAssumption == Lossy \in BOOLEAN /\ Reorders \in BOOLEAN

VARIABLES
    sequenceNumber,     \* the number of the segment the sender creates next
    waitingForSending,  \* SendingWindow.waiting_for_sending
    window,             \* SendingWindow.window: the NotAckedPackets
    dataCable,          \* segments under way
    receiver,           \* the ReceivingWindow
    received,           \* what the application has got
    ackCable,           \* ACKs under way
    crashed             \* an exception has left the main loop

senderVars == <<sequenceNumber, waitingForSending, window>>
receiverVars == <<receiver, received>>
vars == <<senderVars, receiverVars, dataCable, ackCable, crashed>>

NotAcked(n) == [seq |-> n, isSent |-> FALSE]
SeqNumbers(entries) == [i \in DOMAIN entries |-> entries[i].seq]
Copies(n) == Cardinality({i \in DOMAIN dataCable : dataCable[i] = n})

-----------------------------------------------------------------------------
(* The sender. *)

\* TCPProcess.send: the segment waits for room in the window.
Send ==
    /\ sequenceNumber <= Segments
    /\ waitingForSending' = Append(waitingForSending, sequenceNumber)
    /\ sequenceNumber' = sequenceNumber + 1
    /\ UNCHANGED <<window, receiverVars, dataCable, ackCable, crashed>>

\* fill_window: how many waiting segments a window w has room for.
Room(w, q) == IF Len(w) >= WindowSize THEN 0
              ELSE IF Len(q) <= WindowSize - Len(w) THEN Len(q) ELSE WindowSize - Len(w)

Filled(w, q) == w \o [i \in 1 .. Room(w, q) |-> NotAcked(q[i])]
StillWaiting(w, q) == SubSeq(q, Room(w, q) + 1, Len(q))

Unsent(entries) == {e \in ToSet(entries) : ~e.isSent}

\* Mutant: nothing is retransmitted.
SendWindowOnce(w, q) ==
    LET filled == Filled(w, q)
    IN  /\ waitingForSending' = StillWaiting(w, q)
        /\ window' = [i \in DOMAIN filled |-> [filled[i] EXCEPT !.isSent = TRUE]]
        /\ dataCable' = dataCable \o SeqNumbers(Only(filled, Unsent(filled)))

(* The end of handle_tcp_and_receive: fill_window, send_window and         *)
(* retransmit_unacked.  Time is abstract: any of the segments sent in an   *)
(* earlier tick may have waited for longer than RESEND_TIME.               *)
SendWindow(w, q) ==
    \E filled \in {Filled(w, q)} :
        \E late \in SUBSET (ToSet(filled) \ Unsent(filled)) :
            /\ \A e \in late : Copies(e.seq) < MaxCopies
            /\ waitingForSending' = StillWaiting(w, q)
            /\ window' = [i \in DOMAIN filled |-> [filled[i] EXCEPT !.isSent = TRUE]]
            /\ dataCable' = dataCable \o SeqNumbers(Only(filled, Unsent(filled)))
                            \o SeqNumbers(Only(filled, late))

\* A tick of the sender in which no packet has arrived.
SenderTick ==
    /\ SendWindow(window, waitingForSending)
    /\ UNCHANGED <<sequenceNumber, receiverVars, ackCable, crashed>>

\* Mutant: the segment the ACK asks for is taken for acknowledged.
SlidOneTooFar(w, ack) == Only(w, {e \in ToSet(w) : ~Acks(ack + 1, e.seq)})

\* The loop over the window stops at the first segment that is not acked.
Slid(w, ack) ==
    LET acked == {k \in 0 .. Len(w) : \A i \in 1 .. k : Acks(ack, w[i].seq)}
    IN  SubSeq(w, (CHOOSE k \in acked : \A j \in acked : j <= k) + 1, Len(w))

\* How many SACK blocks cover an entry of the window.  The code removes the
\* entry once for each of them (ValueError the second time).
Covers(sack, e) ==
    Cardinality({i \in DOMAIN sack : sack[i].left <= e.seq /\ Acks(sack[i].right, e.seq)})

(* _acknowledge_with_packet, and the tick it is part of. *)
Arrives(cable, i) == i \in DOMAIN cable /\ (i = 1 \/ Reorders)

ReceiveAck(i) ==
    /\ Arrives(ackCable, i)
    /\ LET packet == ackCable[i]
       IN  \E slid \in {Slid(window, packet.ack)} :
           \E filled \in {Filled(slid, waitingForSending)} :
           \E kept \in {Only(filled, {e \in ToSet(filled) : Covers(packet.sack, e) = 0})} :
             IF \E k \in DOMAIN filled : Covers(packet.sack, filled[k]) > 1
               THEN crashed' = TRUE /\ UNCHANGED <<waitingForSending, window, dataCable>>
               ELSE SendWindow(kept, StillWaiting(slid, waitingForSending)) /\ UNCHANGED crashed
    /\ ackCable' = RemoveAt(ackCable, i)
    /\ UNCHANGED <<sequenceNumber, receiverVars>>

-----------------------------------------------------------------------------
(* The receiver. *)

(* _handle_packet for a PSH segment, and the rest of its tick.             *)
ReceiveData(i) ==
    /\ Arrives(dataCable, i)
    /\ Len(ackCable) < MaxAcks /\ Len(receiver.window) <= MaxHeld
    /\ LET n     == dataCable[i]
           added == AddPacket(receiver, n)
           acked == Acknowledge(added, n)
       IN  IF AcknowledgeFails(added, n)
             THEN crashed' = TRUE /\ UNCHANGED <<receiverVars, ackCable>>
             ELSE /\ ackCable' = Append(ackCable, [ack |-> acked.ack, sack |-> acked.sack])
                  /\ received' = received \o InOrderPart(acked)
                  /\ receiver' = RemoveInOrder(acked)
                  /\ UNCHANGED crashed
    /\ dataCable' = RemoveAt(dataCable, i)
    /\ UNCHANGED senderVars

-----------------------------------------------------------------------------
(* The cable drops packets on their way. *)

LoseData(i) ==
    /\ Lossy /\ i \in DOMAIN dataCable
    /\ dataCable' = RemoveAt(dataCable, i)
    /\ UNCHANGED <<senderVars, receiverVars, ackCable, crashed>>

LoseAck(i) ==
    /\ Lossy /\ i \in DOMAIN ackCable
    /\ ackCable' = RemoveAt(ackCable, i)
    /\ UNCHANGED <<senderVars, receiverVars, dataCable, crashed>>

-----------------------------------------------------------------------------

\* The handshake is over: each side has counted the SYN of the other.
Init ==
    /\ sequenceNumber = 1
    /\ waitingForSending = <<>>
    /\ window = <<>>
    /\ dataCable = <<>>
    /\ receiver = EmptyReceiver
    /\ received = <<>>
    /\ ackCable = <<>>
    /\ crashed = FALSE

Lose == (\E i \in DOMAIN dataCable : LoseData(i)) \/ \E i \in DOMAIN ackCable : LoseAck(i)

Next ==
    /\ ~crashed
    /\ \/ Send
       \/ SenderTick
       \/ \E i \in DOMAIN ackCable : ReceiveAck(i)
       \/ \E i \in DOMAIN dataCable : ReceiveData(i)
       \/ Lose

Spec == Init /\ [][Next]_vars

(* Ticks go on, so that every segment in the window is resent again and    *)
(* again, and a cable that loses packets does not lose every one.          *)
Resend(n) == SenderTick /\ Copies(n)' > Copies(n)
DeliverData(n) == \E i \in DOMAIN dataCable : dataCable[i] = n /\ ReceiveData(i)
DeliverAck(n) == \E i \in DOMAIN ackCable : ackCable[i].ack = n /\ ReceiveAck(i)

Fairness ==
    /\ WF_vars(~crashed /\ SenderTick)
    /\ \A n \in 1 .. Segments :
          /\ WF_vars(~crashed /\ Resend(n))
          /\ SF_vars(~crashed /\ DeliverData(n))
          /\ SF_vars(~crashed /\ DeliverAck(n + 1))

FairSpec == Spec /\ Fairness

-----------------------------------------------------------------------------
(* Properties. *)

Edges == 1 .. Segments + 1
Sent == 1 .. sequenceNumber - 1
Held == {e.seq : e \in ToSet(window)} \cup ToSet(waitingForSending)
Arrived == ToSet(received) \cup ToSet(receiver.window)

TypeOK ==
    /\ sequenceNumber \in Edges
    /\ waitingForSending \in Seq(1 .. Segments)
    /\ window \in Seq([seq : 1 .. Segments, isSent : BOOLEAN])
    /\ dataCable \in Seq(1 .. Segments)
    /\ receiver \in [window : Seq(1 .. Segments), ack : Edges, sack : Seq([left : Edges, right : Edges])]
    /\ received \in Seq(1 .. Segments)
    /\ ackCable \in Seq([ack : Edges, sack : Seq([left : Edges, right : Edges])])
    /\ crashed \in BOOLEAN

(* Data never overtakes data: whatever the cable loses, repeats or         *)
(* reorders, the application gets segments in the order they were sent.    *)
InOrder == \A i, j \in DOMAIN received : i < j => received[i] <= received[j]

(* The session is a reliable stream.  It is one on a cable that keeps the  *)
(* order and loses nothing, and on every cable as long as there is never   *)
(* more than one segment under way.                                        *)
Stream == INSTANCE ReliableStream WITH written <- sequenceNumber - 1, read <- received

IsReliableStream == Stream!Spec
IsLiveStream == Stream!FairSpec

(* No segment reaches the application twice.                               *)
ReceivedOnce == \A i, j \in DOMAIN received : i # j => received[i] # received[j]

(* The sender releases a segment only when it has arrived.                 *)
ReleasedHasArrived == Sent \subseteq Held \cup Arrived

(* It releases a segment only when the application has read it: with no    *)
(* hole in what arrives, acknowledged is delivered.                        *)
ReleasedWasRead == Sent \subseteq Held \cup ToSet(received)

(* When the sender is_done_transmitting, and nothing is under way, the     *)
(* other side has got everything.                                          *)
DoneMeansDelivered == Held = {} /\ dataCable = <<>> => Sent \subseteq ToSet(received)

(* No packet makes a handler raise (the exception would end the program).  *)
NeverCrashes == ~crashed

(* All that is sent is received some day.                                  *)
AllReceived == \A n \in 1 .. Segments : (n \in Sent) ~> (n \in ToSet(received))

=============================================================================
