-------------------------- MODULE TcpReceivingWindow --------------------------
(***************************************************************************)
(* The receiving window of a TCP process: what arrived and was not handed  *)
(* to the application yet, the ACK number, and the SACK blocks.            *)
(*                                                                         *)
(* Sequence numbers count segments: the code compares only the ends of     *)
(* segments with each other, so segment n stands for its bytes and covers  *)
(* the numbers from n to n + 1.                                            *)
(***************************************************************************)
EXTENDS Naturals, Sequences, FiniteSets, SequencesExt, Selection

\* The receiving window before anything has arrived; the SYN was number 0.
EmptyReceiver == [window |-> <<>>, ack |-> 1, sack |-> <<>>]

SackEdges(l, r) == [left |-> l, right |-> r]

\* is_number_acking_packet(ack, segment n).
Acks(ack, n) == n + 1 <= ack

\* insort: behind the entries with the same key (the list is sorted).
InsortSegment(s, n) == InsertAt(s, Cardinality({i \in DOMAIN s : s[i] <= n}) + 1, n)
InsortBlock(s, b) == InsertAt(s, Cardinality({i \in DOMAIN s : s[i].left <= b.left}) + 1, b)

\* Mutant: an acknowledged segment is added, too.
AddPacketAgain(r, n) == [r EXCEPT !.window = InsortSegment(@, n)]

\* ReceivingWindow.add_packet, for a segment that was not acknowledged yet.
AddPacket(r, n) ==
    IF Acks(r.ack, n) THEN r ELSE [r EXCEPT !.window = InsortSegment(@, n)]

(* add_to_sack: the first block that touches the segment is extended; a    *)
(* segment that touches none becomes a block, even if it lies in one.      *)
Touches(b, n) == b.left = n + 1 \/ b.right = n

AddToSack(sack, n) ==
    LET touched == {i \in DOMAIN sack : Touches(sack[i], n)}
        first   == CHOOSE i \in touched : \A j \in touched : i <= j
    IN  IF touched = {} THEN InsortBlock(sack, SackEdges(n, n + 1))
        ELSE IF sack[first].left = n + 1 THEN [sack EXCEPT ![first].left = n]
        ELSE [sack EXCEPT ![first].right = n + 1]

(* merge_sack_blocks, first loop: the ACK number moves over the blocks     *)
(* that begin where it is.                                                 *)
MergeIntoAck(r) ==
    FoldLeft(LAMBDA acc, b : IF b.left = acc.ack
                               THEN [acc EXCEPT !.ack = b.right]
                               ELSE [acc EXCEPT !.sack = Append(@, b)],
             [r EXCEPT !.sack = <<>>], r.sack)

(* Second loop.  It removes a block that touches the next one, and moves   *)
(* the left edge of every block to that of the one before it, whether they *)
(* touch or not.  It runs over a copy of the list and indexes the list     *)
(* itself: after a removal the last index is out of range (IndexError).    *)
Joined(sack, i) == sack[i].right = sack[i+1].left

MergeFails(sack) == \E i \in 1 .. Len(sack) - 2 : Joined(sack, i)

MergeBlocks(sack) ==
    LET n     == Len(sack)
        moved == [i \in 1 .. n |-> SackEdges(sack[1].left, sack[i].right)]
    IN  IF n >= 2 /\ Joined(sack, n - 1) THEN RemoveFirst(moved, moved[n - 1]) ELSE moved

(* The change _send_ack_for makes before it builds the ACK.  Blocks are    *)
(* merged only when a segment arrives out of order: one that fills a hole  *)
(* moves the ACK number over itself alone.                                 *)
Acknowledge(r, n) ==
    IF n = r.ack THEN [r EXCEPT !.ack = n + 1]
    ELSE IF n < r.ack THEN r
    ELSE LET merged == MergeIntoAck([r EXCEPT !.sack = AddToSack(@, n)])
         IN  [merged EXCEPT !.sack = MergeBlocks(@)]

AcknowledgeFails(r, n) ==
    n > r.ack /\ MergeFails(MergeIntoAck([r EXCEPT !.sack = AddToSack(@, n)]).sack)

\* Mutant: everything in the window is handed over.
WholeWindow(r) == r.window

(* add_data_and_remove_from_window: the acknowledged segments at the head  *)
(* of the window go to the application.                                    *)
Acknowledged(r) == {n \in ToSet(r.window) : Acks(r.ack, n)}
InOrderPart(r) == Only(r.window, Acknowledged(r))
RemoveInOrder(r) == [r EXCEPT !.window = Only(@, ToSet(@) \ Acknowledged(r))]

=============================================================================
