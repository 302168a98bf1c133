--------------------------- MODULE TcpTransferProofs ---------------------------
(***************************************************************************)
(* Theorems about the data transfer of a TCP session.                      *)
(*                                                                         *)
(* On every cable, one that loses, repeats and reorders packets included,  *)
(* the application reads the segments in the order they were sent.  What   *)
(* makes it true is that the receiving window is sorted and lies at or     *)
(* above the ACK number, and everything read below it, and that the ACK    *)
(* number never goes back: the blocks of the SACK it moves over end        *)
(* behind their beginning.                                                 *)
(*                                                                         *)
(* On a cable that keeps the order and loses nothing, and on every cable   *)
(* with a window of one, nothing is ever held back: the session is a       *)
(* reliable stream, and never crashes.                                     *)
(***************************************************************************)
EXTENDS TcpTransfer, SequenceLemmas

Block == [left : Edges, right : Edges]
Receivers == [window : Seq(1 .. Segments), ack : Edges, sack : Seq(Block)]

Sorted(s) == \A i, j \in 1 .. Len(s) : i < j => s[i] <= s[j]

\* The blocks go forwards and are sorted by where they begin.
Forwards(sack) == \A i \in 1 .. Len(sack) : sack[i].left < sack[i].right
SortedBlocks(sack) == \A i, j \in 1 .. Len(sack) : i < j => sack[i].left <= sack[j].left
GoodBlocks(sack) == sack \in Seq(Block) /\ Forwards(sack) /\ SortedBlocks(sack)

\* What waits in the window has not been acknowledged.
GoodWindow(r) == Sorted(r.window) /\ \A i \in 1 .. Len(r.window) : r.ack <= r.window[i]
GoodReceiver(r) == r \in Receivers /\ GoodWindow(r) /\ GoodBlocks(r.sack)

-----------------------------------------------------------------------------
(* The receiving window. *)

LEMMA Numbers ==
  /\ Segments \in Nat /\ Edges \subseteq Nat /\ 1 .. Segments \subseteq Edges
  /\ \A n \in 1 .. Segments : n \in Nat /\ n + 1 \in Edges
  /\ 1 \in Edges
BY SegmentsAssumption DEF Edges

\* insort keeps the window sorted.
LEMMA InsortSegmentIsSorted ==
  ASSUME NEW s \in Seq(1 .. Segments), Sorted(s), NEW n \in 1 .. Segments
  PROVE  /\ InsortSegment(s, n) \in Seq(1 .. Segments) /\ Sorted(InsortSegment(s, n))
         /\ \A i \in 1 .. Len(InsortSegment(s, n)) :
               InsortSegment(s, n)[i] = n \/ \E j \in 1 .. Len(s) : InsortSegment(s, n)[i] = s[j]
<1>1. /\ Len(s) \in Nat /\ DOMAIN s = 1 .. Len(s) /\ s \in [1 .. Len(s) -> Nat] /\ n \in Nat
      /\ Segments \in Nat
  BY Numbers
<1>2. PICK c \in 0 .. Len(s) :
           /\ Cardinality({i \in 1 .. Len(s) : s[i] <= n}) = c
           /\ \A i \in 1 .. Len(s) : s[i] <= n <=> i <= c
  BY <1>1, CountBelow DEF Sorted
<1> DEFINE r == InsertAt(s, c + 1, n)
<1>3. InsortSegment(s, n) = r
  <2>1. InsortSegment(s, n) = InsertAt(s, Cardinality({i \in DOMAIN s : s[i] <= n}) + 1, n)
    BY Zenon DEF InsortSegment
  <2>2. {i \in DOMAIN s : s[i] <= n} = {i \in 1 .. Len(s) : s[i] <= n}
    BY <1>1
  <2>3. Cardinality({i \in DOMAIN s : s[i] <= n}) = c
    BY <2>2, <1>2
  <2>4. QED BY <2>1, <2>3, Zenon
<1>4. /\ r \in Seq(1 .. Segments) /\ Len(r) = Len(s) + 1
      /\ \A i \in 1 .. c : r[i] = s[i]
      /\ r[c + 1] = n
      /\ \A i \in (c + 2) .. (Len(s) + 1) : r[i] = s[i - 1]
  <2>1. r \in Seq(1 .. Segments) /\ HasInserted(r, s, c, n)
    BY InsertPlaces
  <2> HIDE DEF r
  <2>2. QED BY <2>1 DEF HasInserted
<1> HIDE DEF r
<1>5. \A i \in 1 .. Len(r) : i \in 1 .. c \/ i = c + 1 \/ i \in (c + 2) .. (Len(s) + 1)
  BY <1>1, <1>4
<1>6. /\ \A i \in 1 .. c : i \in 1 .. Len(s)
      /\ \A i \in (c + 2) .. (Len(s) + 1) : i - 1 \in 1 .. Len(s) /\ c < i - 1
  BY <1>1
<1>7. \A i \in 1 .. c : r[i] = s[i] /\ s[i] <= n /\ s[i] \in Nat
  BY SMTT(30), <1>1, <1>2, <1>4, <1>6
<1>8. \A i \in (c + 2) .. (Len(s) + 1) : r[i] = s[i - 1] /\ n < s[i - 1] /\ s[i - 1] \in Nat
  <2> SUFFICES ASSUME NEW i \in (c + 2) .. (Len(s) + 1)
               PROVE  r[i] = s[i - 1] /\ n < s[i - 1] /\ s[i - 1] \in Nat
    OBVIOUS
  <2>1. i - 1 \in 1 .. Len(s) /\ ~(i - 1 <= c)
    BY <1>1, <1>6
  <2>2. ~(s[i - 1] <= n) /\ s[i - 1] \in Nat
    BY <2>1, <1>1, <1>2
  <2>3. QED BY SMTT(30), <2>2, <1>1, <1>4
<1>9. ASSUME NEW i \in 1 .. Len(r), NEW j \in 1 .. Len(r), i < j PROVE r[i] <= r[j]
  <2>1. CASE i \in 1 .. c /\ j \in 1 .. c
    BY <2>1, <1>6, <1>7, <1>9 DEF Sorted
  <2>2. CASE i \in 1 .. c /\ j = c + 1
    BY <2>2, <1>4, <1>7
  <2>3. CASE i \in 1 .. c /\ j \in (c + 2) .. (Len(s) + 1)
    BY <2>3, <1>1, <1>7, <1>8
  <2>4. CASE i = c + 1 /\ j \in (c + 2) .. (Len(s) + 1)
    BY SMTT(30), <2>4, <1>1, <1>4, <1>8
  <2>5. CASE i \in (c + 2) .. (Len(s) + 1) /\ j \in (c + 2) .. (Len(s) + 1)
    <3>1. i - 1 \in 1 .. Len(s) /\ j - 1 \in 1 .. Len(s) /\ i - 1 < j - 1
      BY <2>5, <1>6, <1>9
    <3>2. s[i - 1] <= s[j - 1]
      BY <3>1 DEF Sorted
    <3>3. QED BY <2>5, <3>2, <1>8
  <2>6. QED BY <2>1, <2>2, <2>3, <2>4, <2>5, <1>1, <1>5, <1>9
<1>10. \A i \in 1 .. Len(r) : r[i] = n \/ \E j \in 1 .. Len(s) : r[i] = s[j]
  BY <1>4, <1>5, <1>6
<1>11. QED BY <1>3, <1>4, <1>9, <1>10 DEF Sorted

LEMMA AddPacketIsGood ==
  ASSUME NEW r, GoodReceiver(r), NEW n \in 1 .. Segments
  PROVE  GoodReceiver(AddPacket(r, n)) /\ AddPacket(r, n).ack = r.ack
<1>1. CASE Acks(r.ack, n)
  BY <1>1 DEF AddPacket
<1>2. CASE ~Acks(r.ack, n)
  <2> DEFINE w == InsortSegment(r.window, n)
             a == AddPacket(r, n)
  <2>1. r \in Receivers /\ r.window \in Seq(1 .. Segments) /\ r.ack \in Nat /\ n \in Nat
    BY Numbers DEF GoodReceiver, Receivers
  <2>2. a = [r EXCEPT !.window = w]
    BY <1>2 DEF AddPacket
  <2>3. /\ w \in Seq(1 .. Segments) /\ Sorted(w)
        /\ \A i \in 1 .. Len(w) : w[i] = n \/ \E j \in 1 .. Len(r.window) : w[i] = r.window[j]
    BY <2>1, InsortSegmentIsSorted DEF GoodReceiver, GoodWindow
  <2> HIDE DEF w, a
  <2>4. a \in Receivers /\ a.window = w /\ a.ack = r.ack /\ a.sack = r.sack
    BY <2>1, <2>2, <2>3 DEF Receivers
  <2>5. r.ack <= n
    BY <1>2, <2>1 DEF Acks
  <2>6. \A i \in 1 .. Len(w) : r.ack <= w[i]
    BY <2>3, <2>5 DEF GoodReceiver, GoodWindow
  <2>7. GoodReceiver(a) /\ a.ack = r.ack
    BY <2>3, <2>4, <2>6 DEF GoodReceiver, GoodWindow
  <2>8. QED BY <2>7 DEF a
<1>3. QED BY <1>1, <1>2

LEMMA BlockTypes ==
  /\ \A b \in Block : b.left \in Nat /\ b.right \in Nat /\ b.left \in Edges /\ b.right \in Edges
  /\ \A sack \in Seq(Block) :
        /\ Len(sack) \in Nat /\ DOMAIN sack = 1 .. Len(sack)
        /\ \A i \in 1 .. Len(sack) :
              sack[i] \in Block /\ sack[i].left \in Nat /\ sack[i].right \in Nat
<1>1. ASSUME NEW b \in Block
      PROVE  b.left \in Nat /\ b.right \in Nat /\ b.left \in Edges /\ b.right \in Edges
  BY Numbers DEF Block
<1>2. ASSUME NEW sack \in Seq(Block)
      PROVE  /\ Len(sack) \in Nat /\ DOMAIN sack = 1 .. Len(sack)
             /\ \A i \in 1 .. Len(sack) : sack[i] \in Block
  OBVIOUS
<1>3. QED BY <1>1, <1>2

LEMMA ReceiverTypes ==
  \A r \in Receivers :
     /\ r.window \in Seq(1 .. Segments) /\ Len(r.window) \in Nat
     /\ r.ack \in Edges /\ r.ack \in Nat
     /\ r.sack \in Seq(Block) /\ Len(r.sack) \in Nat
     /\ \A s \in Seq(Block) : [r EXCEPT !.sack = s] \in Receivers
     /\ \A w \in Seq(1 .. Segments) : [r EXCEPT !.window = w] \in Receivers
     /\ \A k \in Edges : [r EXCEPT !.ack = k] \in Receivers
<1> TAKE r \in Receivers
<1>1. r.window \in Seq(1 .. Segments) /\ r.ack \in Edges /\ r.sack \in Seq(Block)
  BY DEF Receivers
<1>2. /\ \A s \in Seq(Block) : [r EXCEPT !.sack = s] \in Receivers
      /\ \A w \in Seq(1 .. Segments) : [r EXCEPT !.window = w] \in Receivers
      /\ \A k \in Edges : [r EXCEPT !.ack = k] \in Receivers
  BY DEF Receivers
<1>3. Len(r.window) \in Nat /\ Len(r.sack) \in Nat
  BY <1>1
<1>4. r.ack \in Nat
  BY <1>1, Numbers
<1>5. QED BY <1>1, <1>2, <1>3, <1>4

\* insort keeps the blocks sorted.
LEMMA InsortBlockIsGood ==
  ASSUME NEW sack, GoodBlocks(sack), NEW b \in Block, b.left < b.right
  PROVE  GoodBlocks(InsortBlock(sack, b))
<1> DEFINE key == [i \in 1 .. Len(sack) |-> sack[i].left]
<1>1. /\ sack \in Seq(Block) /\ Len(sack) \in Nat /\ DOMAIN sack = 1 .. Len(sack)
      /\ \A i \in 1 .. Len(sack) : sack[i] \in Block /\ sack[i].left \in Nat
      /\ b.left \in Nat
  BY BlockTypes DEF GoodBlocks
<1>2. key \in [1 .. Len(sack) -> Nat] /\ \A i, j \in 1 .. Len(sack) : i < j => key[i] <= key[j]
  BY <1>1 DEF GoodBlocks, SortedBlocks
<1>3. PICK c \in 0 .. Len(sack) :
           /\ Cardinality({i \in 1 .. Len(sack) : key[i] <= b.left}) = c
           /\ \A i \in 1 .. Len(sack) : key[i] <= b.left <=> i <= c
  <2> HIDE DEF key
  <2>1. QED BY <1>1, <1>2, CountBelow
<1> DEFINE r == InsertAt(sack, c + 1, b)
<1>4. InsortBlock(sack, b) = r
  <2>1. InsortBlock(sack, b) =
          InsertAt(sack, Cardinality({i \in DOMAIN sack : sack[i].left <= b.left}) + 1, b)
    BY Zenon DEF InsortBlock
  <2>2. {i \in DOMAIN sack : sack[i].left <= b.left} = {i \in 1 .. Len(sack) : key[i] <= b.left}
    BY <1>1
  <2>3. Cardinality({i \in DOMAIN sack : sack[i].left <= b.left}) = c
    BY <2>2, <1>3
  <2>4. QED BY <2>1, <2>3, Zenon
<1>5. /\ r \in Seq(Block) /\ Len(r) = Len(sack) + 1
      /\ \A i \in 1 .. c : r[i] = sack[i]
      /\ r[c + 1] = b
      /\ \A i \in (c + 2) .. (Len(sack) + 1) : r[i] = sack[i - 1]
  <2>1. r \in Seq(Block) /\ HasInserted(r, sack, c, b)
    BY <1>1, InsertPlaces
  <2> HIDE DEF r
  <2>2. QED BY <2>1 DEF HasInserted
<1>6. \A i \in 1 .. Len(sack) : sack[i].left <= b.left <=> i <= c
  BY <1>3
<1> HIDE DEF r, key
<1>7. \A i \in 1 .. Len(r) : i \in 1 .. c \/ i = c + 1 \/ i \in (c + 2) .. (Len(sack) + 1)
  BY <1>1, <1>5
<1>8. /\ \A i \in 1 .. c : i \in 1 .. Len(sack)
      /\ \A i \in (c + 2) .. (Len(sack) + 1) : i - 1 \in 1 .. Len(sack) /\ c < i - 1
  BY <1>1
<1>9. \A i \in 1 .. c : r[i] = sack[i] /\ sack[i].left <= b.left /\ sack[i].left \in Nat
  BY <1>1, <1>5, <1>6, <1>8
<1>10. \A i \in (c + 2) .. (Len(sack) + 1) :
          r[i] = sack[i - 1] /\ b.left < sack[i - 1].left /\ sack[i - 1].left \in Nat
  <2> SUFFICES ASSUME NEW i \in (c + 2) .. (Len(sack) + 1)
               PROVE  r[i] = sack[i - 1] /\ b.left < sack[i - 1].left /\ sack[i - 1].left \in Nat
    OBVIOUS
  <2>1. i - 1 \in 1 .. Len(sack) /\ ~(i - 1 <= c)
    BY <1>1, <1>8
  <2>2. ~(sack[i - 1].left <= b.left) /\ sack[i - 1].left \in Nat
    BY <2>1, <1>1, <1>6
  <2>3. QED BY <2>2, <1>1, <1>5
<1>11. ASSUME NEW i \in 1 .. Len(r), NEW j \in 1 .. Len(r), i < j PROVE r[i].left <= r[j].left
  <2>1. CASE i \in 1 .. c /\ j \in 1 .. c
    BY <2>1, <1>8, <1>9, <1>11 DEF GoodBlocks, SortedBlocks
  <2>2. CASE i \in 1 .. c /\ j = c + 1
    BY <2>2, <1>5, <1>9
  <2>3. CASE i \in 1 .. c /\ j \in (c + 2) .. (Len(sack) + 1)
    <3>1. r[i].left <= b.left /\ b.left < r[j].left /\ r[i].left \in Nat /\ r[j].left \in Nat
      BY <2>3, <1>9, <1>10
    <3>2. QED BY <3>1, <1>1
  <2>4. CASE i = c + 1 /\ j \in (c + 2) .. (Len(sack) + 1)
    BY <2>4, <1>1, <1>5, <1>10
  <2>5. CASE i \in (c + 2) .. (Len(sack) + 1) /\ j \in (c + 2) .. (Len(sack) + 1)
    <3>1. i - 1 \in 1 .. Len(sack) /\ j - 1 \in 1 .. Len(sack) /\ i - 1 < j - 1
      BY <2>5, <1>8, <1>11
    <3>2. sack[i - 1].left <= sack[j - 1].left
      BY <3>1 DEF GoodBlocks, SortedBlocks
    <3>3. QED BY <2>5, <3>2, <1>10
  <2>6. QED BY <2>1, <2>2, <2>3, <2>4, <2>5, <1>1, <1>7, <1>11
<1>12. \A i \in 1 .. Len(r) : r[i].left < r[i].right
  <2>1. \A i \in 1 .. Len(r) : r[i] = b \/ \E j \in 1 .. Len(sack) : r[i] = sack[j]
    BY <1>5, <1>7, <1>8
  <2>2. QED BY <2>1 DEF GoodBlocks, Forwards
<1>13. QED BY <1>4, <1>5, <1>11, <1>12 DEF GoodBlocks, Forwards, SortedBlocks

\* add_to_sack: a block extended to the left stays behind those before it, as
\* it is the first one that touches the segment.
LEMMA AddToSackIsGood ==
  ASSUME NEW sack, GoodBlocks(sack), NEW n \in 1 .. Segments
  PROVE  GoodBlocks(AddToSack(sack, n))
<1> DEFINE touched == {i \in DOMAIN sack : Touches(sack[i], n)}
           first   == CHOOSE i \in touched : \A j \in touched : i <= j
           new     == AddToSack(sack, n)
<1>1. /\ sack \in Seq(Block) /\ Len(sack) \in Nat /\ DOMAIN sack = 1 .. Len(sack)
      /\ \A i \in 1 .. Len(sack) : /\ sack[i] \in Block
                                   /\ sack[i].left \in Nat /\ sack[i].right \in Nat
      /\ n \in Nat /\ n \in Edges /\ n + 1 \in Edges
  BY Numbers, BlockTypes DEF GoodBlocks
<1>2. CASE touched = {}
  <2>1. new = InsortBlock(sack, SackEdges(n, n + 1))
    BY <1>2 DEF AddToSack
  <2>2. SackEdges(n, n + 1) \in Block /\ SackEdges(n, n + 1).left < SackEdges(n, n + 1).right
    BY <1>1 DEF SackEdges, Block
  <2>3. GoodBlocks(new)
    BY <2>1, <2>2, InsortBlockIsGood
  <2>4. QED BY <2>3
<1>3. CASE touched # {}
  <2>1. touched \subseteq Nat
    BY <1>1
  <2>2. \E i \in touched : \A j \in touched : i <= j
    <3> HIDE DEF touched
    <3>1. QED BY <2>1, <1>3, LeastNumber
  <2>3. first \in touched /\ \A j \in touched : first <= j
    <3> HIDE DEF touched
    <3>1. QED BY <2>2
  <2>4. new = IF sack[first].left = n + 1 THEN [sack EXCEPT ![first].left = n]
              ELSE [sack EXCEPT ![first].right = n + 1]
    BY <1>3 DEF AddToSack
  <2>5. first \in 1 .. Len(sack) /\ Touches(sack[first], n)
    BY <2>3, <1>1
  <2>6. ASSUME NEW j \in 1 .. Len(sack), j < first PROVE ~Touches(sack[j], n)
    <3>1. j \notin touched
      <4> HIDE DEF touched, first
      <4>1. QED BY <2>1, <2>3, <2>5, <2>6
    <3>2. QED BY <3>1, <1>1
  <2> HIDE DEF first, touched, new
  <2> DEFINE old == sack[first]
  <2>7. old \in Block /\ old.left \in Nat /\ old.right \in Nat /\ old.left < old.right
    BY <2>5, <1>1 DEF GoodBlocks, Forwards
  <2>8. CASE old.left = n + 1
    <3> DEFINE b == [old EXCEPT !.left = n]
    <3>1. b \in Block /\ b.left = n /\ b.right = old.right
      BY <2>7, <1>1 DEF Block
    <3>2. new = [sack EXCEPT ![first] = b]
      BY <2>4, <2>8
    <3> HIDE DEF b
    <3>3. /\ new \in Seq(Block) /\ Len(new) = Len(sack)
          /\ \A j \in 1 .. Len(sack) : new[j] = IF j = first THEN b ELSE sack[j]
      BY <3>1, <3>2, <2>5, <1>1, ExceptSeq
    <3>4. Forwards(new)
      <4>1. b.left < b.right
        BY <3>1, <2>7, <2>8, <1>1
      <4>2. QED BY <4>1, <3>3 DEF GoodBlocks, Forwards
    <3>5. ASSUME NEW i \in 1 .. Len(sack), NEW j \in 1 .. Len(sack), i < j
          PROVE  new[i].left <= new[j].left
      <4>1. sack[i].left <= sack[j].left
        BY <3>5 DEF GoodBlocks, SortedBlocks
      <4>2. CASE i = first
        <5>1. new[i].left = n /\ new[j] = sack[j] /\ sack[i].left = n + 1
          BY <4>2, <3>1, <3>3, <3>5, <2>8
        <5>2. QED BY <5>1, <4>1, <1>1
      <4>3. CASE j = first
        <5>1. new[j].left = n /\ new[i] = sack[i] /\ sack[j].left = n + 1
          BY <4>3, <3>1, <3>3, <3>5, <2>8
        <5>2. ~Touches(sack[i], n)
          BY <4>3, <3>5, <2>6
        <5>3. sack[i].left # n + 1
          BY <5>2 DEF Touches
        <5>4. QED BY <5>1, <5>3, <4>1, <1>1
      <4>4. CASE i # first /\ j # first
        BY <4>1, <4>4, <3>3
      <4>5. QED BY <4>2, <4>3, <4>4
    <3>6. GoodBlocks(new)
      BY <3>3, <3>4, <3>5 DEF GoodBlocks, SortedBlocks
    <3>7. QED BY <3>6 DEF new
  <2>9. CASE old.left # n + 1
    <3> DEFINE b == [old EXCEPT !.right = n + 1]
    <3>1. b \in Block /\ b.left = old.left /\ b.right = n + 1
      BY <2>7, <1>1 DEF Block
    <3>2. new = [sack EXCEPT ![first] = b]
      BY <2>4, <2>9
    <3> HIDE DEF b
    <3>3. /\ new \in Seq(Block) /\ Len(new) = Len(sack)
          /\ \A j \in 1 .. Len(sack) : new[j] = IF j = first THEN b ELSE sack[j]
      BY <3>1, <3>2, <2>5, <1>1, ExceptSeq
    <3>4. Forwards(new)
      <4>1. old.right = n
        BY <2>5, <2>9 DEF Touches
      <4>2. b.left < b.right
        BY <4>1, <3>1, <2>7, <1>1
      <4>3. QED BY <4>2, <3>3 DEF GoodBlocks, Forwards
    <3>5. \A j \in 1 .. Len(sack) : new[j].left = sack[j].left
      BY <3>1, <3>3
    <3>6. GoodBlocks(new)
      BY <3>3, <3>4, <3>5 DEF GoodBlocks, SortedBlocks
    <3>7. QED BY <3>6 DEF new
  <2>10. QED BY <2>8, <2>9
<1>4. QED BY <1>2, <1>3

\* One round of the loop that moves the ACK number.
Overtaken(acc, b) == IF b.left = acc.ack THEN [acc EXCEPT !.ack = b.right]
                     ELSE [acc EXCEPT !.sack = Append(@, b)]

\* The values the loop goes through.
MergedBy(h, r) ==
  /\ h[0] = [r EXCEPT !.sack = <<>>] /\ h[Len(r.sack)] = MergeIntoAck(r)
  /\ \A i \in 1 .. Len(r.sack) : h[i] = Overtaken(h[i-1], r.sack[i])

LEMMA MergeTrace ==
  ASSUME NEW r \in Receivers
  PROVE  \E h \in [0 .. Len(r.sack) -> Receivers] : MergedBy(h, r)
<1> DEFINE q == r.sack
           base == [r EXCEPT !.sack = <<>>]
           f == [x \in Receivers \X Block |-> Overtaken(x[1], x[2])]
           Op(acc, b) == IF b.left = acc.ack THEN [acc EXCEPT !.ack = b.right]
                         ELSE [acc EXCEPT !.sack = Append(@, b)]
           Steps(it) == [s \in SUBSET (DOMAIN q) |->
                           IF s = {} THEN base ELSE Op(it[s \ {Max(s)}], q[Max(s)])]
           Iter == CHOOSE it : it = Steps(it)
<1>1. ASSUME NEW a \in Receivers, NEW b \in Block PROVE Overtaken(a, b) \in Receivers
  <2>1. a.sack \in Seq(Block) /\ Append(a.sack, b) \in Seq(Block) /\ b.right \in Edges
    BY BlockTypes DEF Receivers
  <2>2. QED BY <2>1 DEF Overtaken, Receivers
<1>2. f \in [Receivers \X Block -> Receivers]
  BY <1>1
<1>3. q \in Seq(Block) /\ base \in Receivers
  <2>1. <<>> \in Seq(Block)
    OBVIOUS
  <2>2. QED BY <2>1, ReceiverTypes
<1>4. MergeIntoAck(r) = Iter[DOMAIN q]
  BY DEF MergeIntoAck, FoldLeft, MapThenFoldSet
<1>5. \A a \in Receivers, b \in Block : f[<<a, b>>] = Overtaken(a, b)
  OBVIOUS
<1>6. \A a, b : Op(a, b) = Overtaken(a, b)
  BY DEF Overtaken
<1> HIDE DEF f, Op, base
<1>7. PICK it \in [SUBSET (DOMAIN q) -> Receivers] : IsFold(it, f, base, q)
  BY <1>2, <1>3, FoldExists
<1>8. \A s \in SUBSET (DOMAIN q) : s # {} =>
        q[Max(s)] \in Block /\ s \ {Max(s)} \in SUBSET (DOMAIN q)
  BY <1>3, InitialIntervals
<1> HIDE DEF q
<1>9. \A s \in SUBSET (DOMAIN q) :
        it[s] = IF s = {} THEN base ELSE Op(it[s \ {Max(s)}], q[Max(s)])
  BY <1>5, <1>6, <1>7, <1>8 DEF IsFold
<1>10. it = Steps(it)
  BY <1>9
<1>11. Iter = Steps(Iter)
  BY <1>10
<1> HIDE DEF Iter
<1>12. Iter[{}] = base
  BY <1>11
<1>13. \A s \in SUBSET (DOMAIN q) : (s # {} /\ Iter[s \ {Max(s)}] \in Receivers) =>
          Iter[s] = f[<<Iter[s \ {Max(s)}], q[Max(s)]>>]
  BY SMTT(30), ZenonT(60), <1>5, <1>6, <1>8, <1>11
<1>14. PICK h \in [0 .. Len(q) -> Receivers] : FoldedBy(h, f, base, q, Iter[DOMAIN q])
  BY <1>2, <1>3, <1>12, <1>13, FoldHistory
<1>15. /\ h[0] = base /\ h[Len(q)] = Iter[DOMAIN q]
       /\ \A i \in 1 .. Len(q) : h[i] = f[<<h[i-1], q[i]>>]
  BY <1>14 DEF FoldedBy
<1>16. ASSUME NEW i \in 1 .. Len(q) PROVE h[i] = Overtaken(h[i-1], q[i])
  <2>1. Len(q) \in Nat /\ q[i] \in Block
    BY <1>3
  <2>2. h[i-1] \in Receivers
    BY <2>1
  <2>3. QED BY <2>1, <2>2, <1>5, <1>15
<1>17. MergedBy(h, r)
  BY <1>4, <1>15, <1>16 DEF MergedBy, q, base
<1>18. QED BY <1>14, <1>17 DEF q

\* The ACK number only grows, and the blocks that stay are good ones.
LEMMA MergeIntoAckIsGood ==
  ASSUME NEW r \in Receivers, GoodBlocks(r.sack)
  PROVE  /\ MergeIntoAck(r) \in Receivers /\ MergeIntoAck(r).window = r.window
         /\ r.ack <= MergeIntoAck(r).ack /\ GoodBlocks(MergeIntoAck(r).sack)
<1> DEFINE q == r.sack
           Behind(s, k) == \A i \in 1 .. Len(s), j \in k + 1 .. Len(q) : s[i].left <= q[j].left
           Good(a, k) == /\ a.window = r.window /\ r.ack <= a.ack
                         /\ GoodBlocks(a.sack) /\ Behind(a.sack, k)
<1>1. PICK h \in [0 .. Len(q) -> Receivers] : MergedBy(h, r)
  BY MergeTrace
<1>2. /\ h[0] = [r EXCEPT !.sack = <<>>] /\ h[Len(q)] = MergeIntoAck(r)
      /\ \A i \in 1 .. Len(q) : h[i] = Overtaken(h[i-1], q[i])
  BY <1>1 DEF MergedBy
<1>3. /\ q \in Seq(Block) /\ Len(q) \in Nat
      /\ \A i \in 1 .. Len(q) : /\ q[i] \in Block /\ q[i].left \in Nat /\ q[i].right \in Nat
                                /\ q[i].left < q[i].right /\ q[i].right \in Edges
      /\ \A i, j \in 1 .. Len(q) : i < j => q[i].left <= q[j].left
      /\ r.ack \in Nat
  BY BlockTypes, Numbers DEF GoodBlocks, Forwards, SortedBlocks, Receivers
<1> HIDE DEF q
<1>4. Good(h[0], 0)
  <2>1. h[0].window = r.window /\ h[0].ack = r.ack /\ h[0].sack = <<>>
    BY <1>2 DEF Receivers
  <2>2. GoodBlocks(<<>>) /\ Behind(<<>>, 0)
    BY DEF GoodBlocks, Forwards, SortedBlocks
  <2> HIDE DEF Behind
  <2>3. QED BY <2>1, <2>2, <1>3
<1>5. ASSUME NEW k \in 1 .. Len(q), Good(h[k-1], k-1) PROVE Good(h[k], k)
  <2> DEFINE a == h[k-1]
             b == q[k]
  <2>1. k - 1 \in 0 .. Len(q) /\ k \in 0 .. Len(q)
    BY <1>3
  <2>2. a \in Receivers /\ h[k] = Overtaken(a, b) /\ b \in Block
    BY <2>1, <1>2, <1>3
  <2>3. a.ack \in Nat /\ a.sack \in Seq(Block) /\ Len(a.sack) \in Nat
    BY <2>2, ReceiverTypes
  <2>4. b.left \in Nat /\ b.right \in Nat /\ b.left < b.right
    BY <1>3
  <2>5. Good(a, k - 1)
    BY <1>5
  <2>6. Behind(a.sack, k)
    <3>1. \A j \in k + 1 .. Len(q) : j \in (k - 1) + 1 .. Len(q)
      BY <1>3
    <3>2. QED BY <2>5, <3>1
  <2> HIDE DEF a, b, Behind
  <2>7. CASE b.left = a.ack
    <3>1. h[k] = [a EXCEPT !.ack = b.right]
      BY <2>2, <2>7 DEF Overtaken
    <3>2. h[k].window = a.window /\ h[k].ack = b.right /\ h[k].sack = a.sack
      BY <3>1, <2>2 DEF Receivers
    <3>3. r.ack <= b.right
      BY <2>3, <2>4, <2>5, <2>7, <1>3
    <3>4. QED BY <3>2, <3>3, <2>5, <2>6
  <2>8. CASE b.left # a.ack
    <3> DEFINE s == Append(a.sack, b)
    <3>1. h[k] = [a EXCEPT !.sack = s]
      BY <2>2, <2>8 DEF Overtaken
    <3>2. h[k].window = a.window /\ h[k].ack = a.ack /\ h[k].sack = s
      BY <3>1, <2>2 DEF Receivers
    <3>3. /\ s \in Seq(Block) /\ Len(s) = Len(a.sack) + 1
          /\ \A i \in 1 .. Len(a.sack) : s[i] = a.sack[i]
          /\ s[Len(a.sack) + 1] = b
      BY <2>2, <2>3, AppendProperties
    <3> HIDE DEF s
    <3>4. \A i \in 1 .. Len(s) : i \in 1 .. Len(a.sack) \/ i = Len(a.sack) + 1
      BY <3>3, <2>3
    <3>5. Forwards(s)
      BY <3>3, <3>4, <2>4, <2>5 DEF GoodBlocks, Forwards
    <3>6. \A i \in 1 .. Len(a.sack) : a.sack[i].left <= b.left
      <4>1. k \in (k - 1) + 1 .. Len(q)
        BY <1>3
      <4>2. QED BY <4>1, <2>5 DEF Behind, b
    <3>7. SortedBlocks(s)
      <4> SUFFICES ASSUME NEW i \in 1 .. Len(s), NEW j \in 1 .. Len(s), i < j
                   PROVE  s[i].left <= s[j].left
        BY DEF SortedBlocks
      <4>1. i \in 1 .. Len(a.sack)
        BY <3>3, <3>4, <2>3
      <4>2. CASE j \in 1 .. Len(a.sack)
        BY <4>1, <4>2, <3>3, <2>5 DEF GoodBlocks, SortedBlocks
      <4>3. CASE j = Len(a.sack) + 1
        BY <4>1, <4>3, <3>3, <3>6
      <4>4. QED BY <4>2, <4>3, <3>4
    <3>8. Behind(s, k)
      <4> SUFFICES ASSUME NEW i \in 1 .. Len(s), NEW j \in k + 1 .. Len(q)
                   PROVE  s[i].left <= q[j].left
        BY DEF Behind
      <4>1. CASE i \in 1 .. Len(a.sack)
        BY <4>1, <3>3, <2>6 DEF Behind
      <4>2. CASE i = Len(a.sack) + 1
        <5>1. j \in 1 .. Len(q) /\ k < j
          BY <1>3
        <5>2. b.left <= q[j].left
          BY <5>1, <1>3 DEF b
        <5>3. QED BY <4>2, <5>2, <3>3
      <4>3. QED BY <4>1, <4>2, <3>4
    <3>9. QED BY <3>2, <3>3, <3>5, <3>7, <3>8, <2>5 DEF GoodBlocks
  <2>9. QED BY <2>7, <2>8
<1> DEFINE G == {k \in 0 .. Len(q) : Good(h[k], k)}
<1>6. Len(q) \in G
  <2> HIDE DEF Good
  <2>1. 0 \in G
    BY <1>3, <1>4
  <2>2. ASSUME NEW k \in 1 .. Len(q), k - 1 \in G PROVE k \in G
    <3>1. k \in 0 .. Len(q) /\ Good(h[k-1], k-1)
      BY <2>2, <1>3
    <3>2. QED BY <3>1, <1>5
  <2> HIDE DEF G
  <2>3. \A k \in 0 .. Len(q) : k \in G
    BY <2>1, <2>2, <1>3, Induction
  <2>4. QED BY <2>3, <1>3
<1>7. Good(MergeIntoAck(r), Len(q)) /\ MergeIntoAck(r) \in Receivers
  BY <1>2, <1>3, <1>6
<1>8. QED BY <1>7

\* The blocks keep their right edges, and all begin where the first one began.
LEMMA MergeBlocksIsGood ==
  ASSUME NEW sack, GoodBlocks(sack)
  PROVE  GoodBlocks(MergeBlocks(sack))
<1> DEFINE n == Len(sack)
           moved == [i \in 1 .. n |-> SackEdges(sack[1].left, sack[i].right)]
           All(s) == /\ s \in Seq(Block)
                     /\ \A i \in 1 .. Len(s) : s[i].left < s[i].right
                     /\ \A i \in 1 .. Len(s) : s[i].left = sack[1].left
<1>1. /\ n \in Nat /\ sack \in Seq(Block)
      /\ \A i \in 1 .. n : sack[i] \in Block /\ sack[i].left \in Nat /\ sack[i].right \in Nat
      /\ \A i \in 1 .. n : sack[i].left < sack[i].right
      /\ \A i, j \in 1 .. n : i < j => sack[i].left <= sack[j].left
  BY BlockTypes DEF GoodBlocks, Forwards, SortedBlocks
<1>2. ASSUME NEW i \in 1 .. n
      PROVE  /\ SackEdges(sack[1].left, sack[i].right) \in Block
             /\ sack[1].left < sack[i].right
  <2>1. 1 \in 1 .. n /\ (i = 1 \/ 1 < i)
    BY <1>1
  <2>2. sack[1].left <= sack[i].left
    BY <2>1, <1>1
  <2>3. sack[1].left < sack[i].right
    BY <2>1, <2>2, <1>1
  <2>4. sack[1].left \in Edges /\ sack[i].right \in Edges
    BY <2>1, <1>1, BlockTypes
  <2>5. QED BY <2>3, <2>4 DEF SackEdges, Block
<1>3. All(moved) /\ Len(moved) = n
  <2>1. moved \in [1 .. n -> Block]
    BY <1>2
  <2>2. moved \in Seq(Block) /\ Len(moved) = n
    BY <1>1, <2>1
  <2>3. \A i \in 1 .. n : moved[i] = SackEdges(sack[1].left, sack[i].right)
    OBVIOUS
  <2> HIDE DEF moved, n
  <2>4. \A i \in 1 .. n : moved[i].left < moved[i].right /\ moved[i].left = sack[1].left
    <3> SUFFICES ASSUME NEW i \in 1 .. n
                 PROVE  moved[i].left < moved[i].right /\ moved[i].left = sack[1].left
      OBVIOUS
    <3>1. moved[i].left = sack[1].left /\ moved[i].right = sack[i].right
      <4>1. moved[i] = SackEdges(sack[1].left, sack[i].right)
        BY <2>3
      <4>2. \A l, x : SackEdges(l, x).left = l /\ SackEdges(l, x).right = x
        BY DEF SackEdges
      <4> HIDE DEF moved
      <4>3. QED BY <4>1, <4>2
    <3>2. sack[1].left < sack[i].right
      BY <1>2
    <3>3. QED BY <3>1, <3>2
  <2>5. QED BY <2>2, <2>4
<1>4. ASSUME NEW s, All(s) PROVE GoodBlocks(s)
  <2>1. \A i \in 1 .. Len(s) : s[i].left \in Nat
    BY <1>4, BlockTypes
  <2>2. QED BY <1>4, <2>1 DEF GoodBlocks, Forwards, SortedBlocks
<1>5. CASE ~(n >= 2 /\ Joined(sack, n - 1))
  BY <1>3, <1>4, <1>5 DEF MergeBlocks
<1>6. CASE n >= 2 /\ Joined(sack, n - 1)
  <2> DEFINE e == moved[n - 1]
             I == {i \in 1 .. Len(moved) : moved[i] = e}
             s == RemoveAt(moved, Min(I))
  <2>1. MergeBlocks(sack) = RemoveFirst(moved, e)
    BY <1>6 DEF MergeBlocks
  <2>2. n - 1 \in I
    BY <1>1, <1>3, <1>6
  <2>3. RemoveFirst(moved, e) = s
    <3> HIDE DEF e, moved
    <3>1. I # {} /\ \E i \in 1 .. Len(moved) : moved[i] = e
      BY <2>2
    <3>2. QED BY <3>1 DEF RemoveFirst, SelectInSeq
  <2>4. Min(I) \in 1 .. n
    <3>1. I \subseteq 1 .. n /\ I \subseteq Nat
      BY <1>3
    <3> HIDE DEF I
    <3>2. \E m \in I : \A k \in I : m <= k
      BY <2>2, <3>1, LeastNumber
    <3>3. Min(I) \in I
      BY <3>2 DEF Min
    <3>4. QED BY <3>1, <3>3
  <2> HIDE DEF moved, I, e
  <2> DEFINE k == Min(I)
  <2>5. /\ s \in Seq(Block) /\ Len(s) = n - 1
        /\ \A i \in 1 .. (n - 1) : s[i] = IF i < k THEN moved[i] ELSE moved[i + 1]
    <3> HIDE DEF n
    <3>1. moved \in Seq(Block) /\ k \in 1 .. Len(moved)
      BY <2>4, <1>3
    <3>2. QED BY <3>1, <1>3, RemovePlaces
  <2> HIDE DEF s, k
  <2>6. \A i \in 1 .. (n - 1) : \E j \in 1 .. n : s[i] = moved[j]
    <3>1. \A i \in 1 .. (n - 1) : i \in 1 .. n /\ i + 1 \in 1 .. n
      BY <1>1
    <3>2. QED BY <3>1, <2>5
  <2>7. All(s)
    BY SMTT(30), <2>5, <2>6, <1>3
  <2>8. GoodBlocks(s)
    BY <2>7, <1>4
  <2>9. QED BY <2>1, <2>3, <2>8 DEF s
<1>7. QED BY <1>5, <1>6

\* What _send_ack_for makes of a receiving window.
LEMMA AcknowledgeIsGood ==
  ASSUME NEW r, r \in Receivers, GoodBlocks(r.sack), NEW n \in 1 .. Segments
  PROVE  /\ Acknowledge(r, n) \in Receivers /\ Acknowledge(r, n).window = r.window
         /\ r.ack <= Acknowledge(r, n).ack /\ GoodBlocks(Acknowledge(r, n).sack)
<1>0. r.ack \in Nat /\ n \in Nat /\ n + 1 \in Edges
  BY ReceiverTypes, Numbers
<1>1. CASE n = r.ack
  <2>1. Acknowledge(r, n) = [r EXCEPT !.ack = n + 1]
    BY <1>1 DEF Acknowledge
  <2>2. [r EXCEPT !.ack = n + 1] \in Receivers
    BY <1>0, ReceiverTypes
  <2>3. /\ [r EXCEPT !.ack = n + 1].window = r.window /\ [r EXCEPT !.ack = n + 1].ack = n + 1
        /\ [r EXCEPT !.ack = n + 1].sack = r.sack
    BY DEF Receivers
  <2>4. QED BY <2>1, <2>2, <2>3, <1>0, <1>1
<1>2. CASE n < r.ack
  <2>1. Acknowledge(r, n) = r
    BY <1>0, <1>2 DEF Acknowledge
  <2>2. QED BY <2>1, <1>0
<1>3. CASE r.ack < n
  <2> DEFINE added == [r EXCEPT !.sack = AddToSack(@, n)]
             merged == MergeIntoAck(added)
             all == [merged EXCEPT !.sack = MergeBlocks(@)]
  <2>1. Acknowledge(r, n) = all
    <3>1. ~(n = r.ack) /\ ~(n < r.ack)
      BY <1>0, <1>3
    <3>2. QED BY <3>1 DEF Acknowledge
  <2>2. GoodBlocks(AddToSack(r.sack, n)) /\ AddToSack(r.sack, n) \in Seq(Block)
    BY AddToSackIsGood DEF GoodBlocks
  <2>3. added \in Receivers
    BY <2>2, ReceiverTypes
  <2>4. added.window = r.window /\ added.ack = r.ack /\ GoodBlocks(added.sack)
    BY <2>2 DEF Receivers
  <2> HIDE DEF added
  <2>5. /\ merged \in Receivers /\ merged.window = r.window /\ r.ack <= merged.ack
        /\ GoodBlocks(merged.sack)
    BY <2>3, <2>4, MergeIntoAckIsGood
  <2> HIDE DEF merged
  <2>6. GoodBlocks(MergeBlocks(merged.sack)) /\ MergeBlocks(merged.sack) \in Seq(Block)
    BY <2>5, MergeBlocksIsGood DEF GoodBlocks
  <2>7. all \in Receivers
    BY <2>5, <2>6, ReceiverTypes
  <2>8. all.window = merged.window /\ all.ack = merged.ack /\ GoodBlocks(all.sack)
    BY <2>5, <2>6 DEF Receivers
  <2>9. QED BY <2>1, <2>5, <2>7, <2>8
<1>4. QED BY <1>0, <1>1, <1>2, <1>3

\* What the application gets, and what stays in the window: the segments below
\* the ACK number, and the others.
LEMMA DeliveredInOrder ==
  ASSUME NEW r, r \in Receivers, Sorted(r.window)
  PROVE  /\ InOrderPart(r) \in Seq(1 .. Segments) /\ Sorted(InOrderPart(r))
         /\ \A i \in 1 .. Len(InOrderPart(r)) :
               InOrderPart(r)[i] < r.ack /\ \E j \in 1 .. Len(r.window) : InOrderPart(r)[i] = r.window[j]
         /\ RemoveInOrder(r) \in Receivers /\ GoodWindow(RemoveInOrder(r))
         /\ RemoveInOrder(r).ack = r.ack /\ RemoveInOrder(r).sack = r.sack
<1> DEFINE w == r.window
           low == Acknowledged(r)
           high == ToSet(w) \ low
           Kept(q, s) == /\ q \in Seq(1 .. Segments) /\ Sorted(q)
                         /\ \A i \in 1 .. Len(q) :
                               q[i] \in s /\ \E j \in 1 .. Len(w) : q[i] = w[j]
<1>1. w \in Seq(1 .. Segments) /\ Len(w) \in Nat /\ DOMAIN w = 1 .. Len(w) /\ r.ack \in Nat
  BY ReceiverTypes
<1>2. \A i \in 1 .. Len(w) : w[i] \in Nat
  BY <1>1, Numbers
<1>3. \A n \in low : n \in Nat /\ n < r.ack
  BY <1>1, <1>2 DEF Acknowledged, Acks, ToSet
<1>4. \A n \in high : n \in Nat /\ r.ack <= n
  BY <1>1, <1>2 DEF Acknowledged, Acks, ToSet
<1> HIDE DEF w, low, high
<1>5. ASSUME NEW s PROVE Kept(Only(w, s), s)
  <2> DEFINE q == Only(w, s)
  <2>1. q \in Seq(1 .. Segments)
    BY <1>1, OnlyPlaces
  <2>2. PICK m \in [1 .. Len(q) -> 1 .. Len(w)] : Selects(m, w, s, q)
    BY <1>1, OnlyPlaces
  <2> HIDE DEF q
  <2> USE DEF Selects
  <2>3. Sorted(q)
    <3> SUFFICES ASSUME NEW i \in 1 .. Len(q), NEW j \in 1 .. Len(q), i < j PROVE q[i] <= q[j]
      BY DEF Sorted
    <3>1. m[i] < m[j] /\ m[i] \in 1 .. Len(w) /\ m[j] \in 1 .. Len(w)
      BY <2>2
    <3>2. w[m[i]] <= w[m[j]]
      BY <3>1 DEF Sorted, w
    <3>3. QED BY <3>2, <2>2
  <2>4. \A i \in 1 .. Len(q) : q[i] \in s /\ \E j \in 1 .. Len(w) : q[i] = w[j]
    BY <2>2
  <2>5. QED BY <2>1, <2>3, <2>4 DEF q
<1>6. InOrderPart(r) = Only(w, low)
  BY DEF InOrderPart, low, w
<1>7. RemoveInOrder(r) = [r EXCEPT !.window = Only(w, high)]
  BY DEF RemoveInOrder, low, high, w
<1>8. Kept(InOrderPart(r), low) /\ Kept(Only(w, high), high)
  BY <1>5, <1>6
<1>9. /\ RemoveInOrder(r) \in Receivers
      /\ RemoveInOrder(r).window = Only(w, high)
      /\ RemoveInOrder(r).ack = r.ack /\ RemoveInOrder(r).sack = r.sack
  <2>1. RemoveInOrder(r) \in Receivers
    BY <1>7, <1>8, ReceiverTypes
  <2>2. QED BY <2>1, <1>7 DEF Receivers
<1>10. GoodWindow(RemoveInOrder(r))
  BY <1>4, <1>8, <1>9 DEF GoodWindow
<1>11. \A i \in 1 .. Len(InOrderPart(r)) :
          InOrderPart(r)[i] < r.ack /\ \E j \in 1 .. Len(r.window) : InOrderPart(r)[i] = r.window[j]
  BY <1>3, <1>8 DEF w
<1>12. QED BY <1>8, <1>9, <1>10, <1>11

-----------------------------------------------------------------------------
(* The sender: types. *)

Entries == [seq : 1 .. Segments, isSent : BOOLEAN]

LEMMA SeqNumbersType ==
  \A q \in Seq(Entries) : /\ SeqNumbers(q) \in Seq(1 .. Segments) /\ Len(SeqNumbers(q)) = Len(q)
                          /\ \A i \in 1 .. Len(q) : SeqNumbers(q)[i] = q[i].seq
<1> TAKE q \in Seq(Entries)
<1>1. DOMAIN q = 1 .. Len(q) /\ Len(q) \in Nat /\ \A i \in 1 .. Len(q) : q[i] \in Entries
  OBVIOUS
<1>2. \A i \in 1 .. Len(q) : q[i].seq \in 1 .. Segments
  BY <1>1 DEF Entries
<1>3. SeqNumbers(q) = [i \in 1 .. Len(q) |-> q[i].seq]
  BY <1>1 DEF SeqNumbers
<1>4. SeqNumbers(q) \in [1 .. Len(q) -> 1 .. Segments]
  BY <1>2, <1>3
<1>5. SeqNumbers(q) \in Seq(1 .. Segments) /\ Len(SeqNumbers(q)) = Len(q)
  BY <1>1, <1>4, FunctionIsSequence
<1>6. QED BY <1>3, <1>5

\* The window has room for as many of the waiting segments as it lacks.
LEMMA RoomIsPlace ==
  \A w \in Seq(Entries), q \in Seq(1 .. Segments) : Room(w, q) \in 0 .. Len(q)
<1> TAKE w \in Seq(Entries), q \in Seq(1 .. Segments)
<1>1. Len(w) \in Nat /\ Len(q) \in Nat /\ WindowSize \in Nat
  BY WindowAssumption
<1>2. QED BY <1>1 DEF Room

LEMMA FilledType ==
  \A w \in Seq(Entries), q \in Seq(1 .. Segments) :
     /\ Filled(w, q) \in Seq(Entries) /\ Len(Filled(w, q)) = Len(w) + Room(w, q)
     /\ \A i \in 1 .. Len(w) : Filled(w, q)[i] = w[i]
     /\ \A i \in 1 .. Room(w, q) : Filled(w, q)[Len(w) + i] = NotAcked(q[i])
     /\ StillWaiting(w, q) \in Seq(1 .. Segments)
     /\ Len(StillWaiting(w, q)) = Len(q) - Room(w, q)
     /\ \A i \in 1 .. Len(q) - Room(w, q) : StillWaiting(w, q)[i] = q[Room(w, q) + i]
<1> TAKE w \in Seq(Entries), q \in Seq(1 .. Segments)
<1> DEFINE n == Room(w, q)
           new == [i \in 1 .. n |-> NotAcked(q[i])]
<1>1. n \in 0 .. Len(q) /\ n \in Nat /\ Len(q) \in Nat /\ Len(w) \in Nat
  BY RoomIsPlace
<1>2. Filled(w, q) = w \o new
  BY DEF Filled
<1>3. StillWaiting(w, q) = SubSeq(q, n + 1, Len(q))
  BY DEF StillWaiting
<1> HIDE DEF n
<1>4. \A i \in 1 .. n : NotAcked(q[i]) \in Entries
  <2>0. \A i \in 1 .. n : i \in 1 .. Len(q)
    BY <1>1
  <2>1. \A i \in 1 .. n : q[i] \in 1 .. Segments
    BY <2>0, ElementOfSeq
  <2>2. \A x \in 1 .. Segments : NotAcked(x) \in Entries
    BY DEF NotAcked, Entries
  <2>3. QED BY <2>1, <2>2
<1>5. /\ new \in Seq(Entries) /\ Len(new) = n
      /\ \A i \in 1 .. n : new[i] = NotAcked(q[i])
  BY <1>1, <1>4
<1> HIDE DEF new
<1>6. /\ w \o new \in Seq(Entries) /\ Len(w \o new) = Len(w) + n
      /\ \A i \in 1 .. Len(w) + n : (w \o new)[i] = IF i <= Len(w) THEN w[i] ELSE new[i - Len(w)]
  BY <1>1, <1>5, ConcatProperties
<1>7. \A i \in 1 .. Len(w) : (w \o new)[i] = w[i]
  BY <1>1, <1>6
<1>8. ASSUME NEW i \in 1 .. n PROVE (w \o new)[Len(w) + i] = NotAcked(q[i])
  <2>1. Len(w) + i \in 1 .. Len(w) + n /\ ~(Len(w) + i <= Len(w)) /\ (Len(w) + i) - Len(w) = i
    BY <1>1
  <2>2. (w \o new)[Len(w) + i] = new[i]
    BY <2>1, <1>6
  <2>3. QED BY <2>2, <1>5
<1>9. /\ SubSeq(q, n + 1, Len(q)) \in Seq(1 .. Segments)
      /\ Len(SubSeq(q, n + 1, Len(q))) = Len(q) - n
      /\ \A i \in 1 .. Len(q) - n : SubSeq(q, n + 1, Len(q))[i] = q[n + i]
  BY <1>1, SuffixPlaces
<1>10. QED BY <1>2, <1>3, <1>6, <1>7, <1>8, <1>9 DEF n

LEMMA FilledLengths ==
  \A w \in Seq(Entries), q \in Seq(1 .. Segments) :
     /\ Len(w) \in Nat /\ Len(q) \in Nat /\ Room(w, q) \in Nat /\ Room(w, q) <= Len(q)
     /\ Len(Filled(w, q)) = Len(w) + Room(w, q)
     /\ Len(StillWaiting(w, q)) = Len(q) - Room(w, q)
     /\ Len(Filled(w, q)) + Len(StillWaiting(w, q)) = Len(w) + Len(q)
<1> TAKE w \in Seq(Entries), q \in Seq(1 .. Segments)
<1>1. Room(w, q) \in 0 .. Len(q)
  BY RoomIsPlace
<1>2. Len(w) \in Nat /\ Len(q) \in Nat /\ Room(w, q) \in Nat /\ Room(w, q) <= Len(q)
  BY <1>1
<1>3. Len(Filled(w, q)) = Len(w) + Room(w, q) /\ Len(StillWaiting(w, q)) = Len(q) - Room(w, q)
  BY FilledType
<1>4. QED BY <1>2, <1>3

\* The window slides over its first k entries, all of them acknowledged, to
\* the first one that is not.
LEMMA SlidPlaces ==
  ASSUME NEW w \in Seq(Entries), NEW ack \in Nat
  PROVE  \E k \in 0 .. Len(w) :
           /\ Slid(w, ack) = SubSeq(w, k + 1, Len(w))
           /\ Slid(w, ack) \in Seq(Entries) /\ Len(Slid(w, ack)) = Len(w) - k
           /\ \A i \in 1 .. Len(w) - k : Slid(w, ack)[i] = w[k + i]
           /\ \A i \in 1 .. k : Acks(ack, w[i].seq)
           /\ k < Len(w) => ~Acks(ack, w[k + 1].seq)
<1> DEFINE acked == {k \in 0 .. Len(w) : \A i \in 1 .. k : Acks(ack, w[i].seq)}
           k == CHOOSE k \in acked : \A j \in acked : j <= k
<1>1. Len(w) \in Nat /\ acked \subseteq 0 .. Len(w) /\ 0 \in acked
  OBVIOUS
<1>2. k \in acked /\ \A j \in acked : j <= k
  <2> HIDE DEF acked
  <2>1. \E m \in acked : \A j \in acked : j <= m
    BY <1>1, GreatestNumber
  <2>2. QED BY <2>1
<1>3. Slid(w, ack) = SubSeq(w, k + 1, Len(w))
  BY DEF Slid
<1> HIDE DEF k
<1>4. k \in 0 .. Len(w) /\ k \in Nat /\ \A i \in 1 .. k : Acks(ack, w[i].seq)
  BY <1>1, <1>2
<1>5. ASSUME k < Len(w), Acks(ack, w[k + 1].seq) PROVE FALSE
  <2>1. k + 1 \in 0 .. Len(w) /\ \A i \in 1 .. k + 1 : i \in 1 .. k \/ i = k + 1
    BY <1>1, <1>4, <1>5
  <2>2. k + 1 \in acked
    BY <2>1, <1>4, <1>5
  <2>3. k + 1 <= k
    BY <2>2, <1>2
  <2>4. QED BY <2>3, <1>4
<1> HIDE DEF acked
<1>6. /\ SubSeq(w, k + 1, Len(w)) \in Seq(Entries) /\ Len(SubSeq(w, k + 1, Len(w))) = Len(w) - k
      /\ \A i \in 1 .. Len(w) - k : SubSeq(w, k + 1, Len(w))[i] = w[k + i]
  BY <1>4, SuffixPlaces
<1>7. QED BY <1>3, <1>4, <1>5, <1>6

\* What the end of a tick of the sender leaves behind.
LEMMA SendWindowType ==
  ASSUME NEW w \in Seq(Entries), NEW q \in Seq(1 .. Segments),
         dataCable \in Seq(1 .. Segments), SendWindow(w, q)
  PROVE  /\ waitingForSending' \in Seq(1 .. Segments) /\ window' \in Seq(Entries)
         /\ dataCable' \in Seq(1 .. Segments)
<1> DEFINE filled == Filled(w, q)
           unsent == SeqNumbers(Only(filled, Unsent(filled)))
<1>1. PICK late \in SUBSET (ToSet(filled) \ Unsent(filled)) :
         /\ waitingForSending' = StillWaiting(w, q)
         /\ window' = [i \in DOMAIN filled |-> [filled[i] EXCEPT !.isSent = TRUE]]
         /\ dataCable' = dataCable \o SeqNumbers(Only(filled, Unsent(filled)))
                         \o SeqNumbers(Only(filled, late))
  BY DEF SendWindow
<1> DEFINE again == SeqNumbers(Only(filled, late))
<1>2. filled \in Seq(Entries) /\ StillWaiting(w, q) \in Seq(1 .. Segments)
  BY FilledType
<1> HIDE DEF filled
<1>3. unsent \in Seq(1 .. Segments) /\ again \in Seq(1 .. Segments)
  BY <1>2, OnlyPlaces, SeqNumbersType
<1>4. dataCable' \in Seq(1 .. Segments)
  <2> HIDE DEF unsent, again
  <2>1. dataCable' = dataCable \o unsent \o again
    BY <1>1 DEF unsent, again
  <2>2. dataCable \o unsent \in Seq(1 .. Segments)
    BY <1>3
  <2>3. (dataCable \o unsent) \o again \in Seq(1 .. Segments)
    BY <1>3, <2>2
  <2>4. QED BY <2>1, <2>3
<1>5. window' \in Seq(Entries)
  <2>1. DOMAIN filled = 1 .. Len(filled) /\ Len(filled) \in Nat
    BY <1>2
  <2>2. \A e \in Entries : [e EXCEPT !.isSent = TRUE] \in Entries
    BY DEF Entries
  <2>3. \A i \in 1 .. Len(filled) : [filled[i] EXCEPT !.isSent = TRUE] \in Entries
    BY <1>2, <2>2, ElementOfSeq
  <2>4. window' = [i \in 1 .. Len(filled) |-> [filled[i] EXCEPT !.isSent = TRUE]]
    BY <1>1, <2>1
  <2>5. window' \in [1 .. Len(filled) -> Entries]
    BY <2>3, <2>4
  <2>6. QED BY <2>1, <2>5, FunctionIsSequence
<1>6. QED BY <1>1, <1>2, <1>4, <1>5

-----------------------------------------------------------------------------
(* On every cable. *)

AckPackets == [ack : Edges, sack : Seq(Block)]

\* The inductive invariant: what has been read is sorted and lies below the ACK
\* number, what waits in the sorted window does not.
IInv == /\ TypeOK
        /\ GoodReceiver(receiver)
        /\ InOrder
        /\ \A i \in 1 .. Len(received) : received[i] < receiver.ack

LEMMA Types ==
  TypeOK <=> /\ sequenceNumber \in Edges
             /\ waitingForSending \in Seq(1 .. Segments)
             /\ window \in Seq(Entries)
             /\ dataCable \in Seq(1 .. Segments)
             /\ receiver \in Receivers
             /\ received \in Seq(1 .. Segments)
             /\ ackCable \in Seq(AckPackets)
             /\ crashed \in BOOLEAN
BY DEF TypeOK, Entries, Receivers, AckPackets, Block

LEMMA InvInit == Init => IInv
<1> SUFFICES ASSUME Init PROVE IInv
  OBVIOUS
<1>1. receiver = [window |-> <<>>, ack |-> 1, sack |-> <<>>] /\ received = <<>>
  BY DEF Init, EmptyReceiver
<1>2. receiver \in Receivers
  BY <1>1, Numbers DEF Receivers
<1>3. TypeOK
  <2>1. sequenceNumber \in Edges /\ crashed \in BOOLEAN
    BY Numbers DEF Init
  <2>2. /\ waitingForSending \in Seq(1 .. Segments) /\ window \in Seq(Entries)
        /\ dataCable \in Seq(1 .. Segments) /\ received \in Seq(1 .. Segments)
        /\ ackCable \in Seq(AckPackets)
    BY DEF Init
  <2>3. QED BY <1>2, <2>1, <2>2, Types
<1>4. GoodWindow(receiver) /\ GoodBlocks(receiver.sack)
  BY <1>1 DEF GoodWindow, Sorted, GoodBlocks, Forwards, SortedBlocks
<1>5. InOrder /\ \A i \in 1 .. Len(received) : received[i] < receiver.ack
  BY <1>1 DEF InOrder
<1>6. QED BY <1>2, <1>3, <1>4, <1>5 DEF IInv, GoodReceiver

\* A segment arrives: the application gets it, and what it makes room for.
LEMMA ReceiveDataInv ==
  ASSUME IInv, NEW i \in DOMAIN dataCable, ReceiveData(i)
  PROVE  IInv'
<1> DEFINE n     == dataCable[i]
           added == AddPacket(receiver, n)
           acked == Acknowledge(added, n)
           part  == InOrderPart(acked)
<1>1. /\ dataCable \in Seq(1 .. Segments) /\ i \in 1 .. Len(dataCable) /\ n \in 1 .. Segments
      /\ received \in Seq(1 .. Segments) /\ ackCable \in Seq(AckPackets)
      /\ GoodReceiver(receiver) /\ crashed \in BOOLEAN
  <2>1. /\ dataCable \in Seq(1 .. Segments)
        /\ received \in Seq(1 .. Segments) /\ ackCable \in Seq(AckPackets)
        /\ GoodReceiver(receiver) /\ crashed \in BOOLEAN
    BY Types DEF IInv
  <2>2. i \in 1 .. Len(dataCable)
    BY <2>1
  <2>3. n \in 1 .. Segments
    BY <2>1, <2>2, ElementOfSeq
  <2>4. QED BY <2>1, <2>2, <2>3
<1>2. dataCable' \in Seq(1 .. Segments)
  <2>1. dataCable' = RemoveAt(dataCable, i)
    BY DEF ReceiveData
  <2>2. QED BY <1>1, <2>1, RemovePlaces
<1>3. UNCHANGED <<sequenceNumber, waitingForSending, window>>
  BY DEF ReceiveData, senderVars
<1>4. CASE AcknowledgeFails(added, n)
  <2>1. crashed' = TRUE /\ UNCHANGED <<receiver, received, ackCable>>
    BY <1>4 DEF ReceiveData, receiverVars
  <2>2. TypeOK'
    BY <1>2, <1>3, <2>1, Types DEF IInv, TypeOK
  <2>3. QED BY <2>1, <2>2 DEF IInv, InOrder
<1>5. CASE ~AcknowledgeFails(added, n)
  <2>1. /\ ackCable' = Append(ackCable, [ack |-> acked.ack, sack |-> acked.sack])
        /\ received' = received \o part
        /\ receiver' = RemoveInOrder(acked)
        /\ crashed' = crashed
    BY <1>5 DEF ReceiveData
  <2>2. GoodReceiver(added) /\ added.ack = receiver.ack
    BY <1>1, AddPacketIsGood
  <2> HIDE DEF added
  <2>3. /\ acked \in Receivers /\ acked.window = added.window
        /\ added.ack <= acked.ack /\ GoodBlocks(acked.sack)
    BY <1>1, <2>2, AcknowledgeIsGood DEF GoodReceiver
  <2>4. Sorted(acked.window) /\ \A j \in 1 .. Len(acked.window) : receiver.ack <= acked.window[j]
    BY <2>2, <2>3 DEF GoodReceiver, GoodWindow
  <2> HIDE DEF acked
  <2>5. /\ part \in Seq(1 .. Segments) /\ Sorted(part)
        /\ \A k \in 1 .. Len(part) :
              part[k] < acked.ack /\ \E j \in 1 .. Len(acked.window) : part[k] = acked.window[j]
        /\ RemoveInOrder(acked) \in Receivers /\ GoodWindow(RemoveInOrder(acked))
        /\ RemoveInOrder(acked).ack = acked.ack /\ RemoveInOrder(acked).sack = acked.sack
    BY <2>3, <2>4, DeliveredInOrder
  <2> HIDE DEF part
  <2>6. \A k \in 1 .. Len(part) : part[k] < acked.ack /\ receiver.ack <= part[k]
    BY <2>4, <2>5
  <2>7. GoodReceiver(receiver') /\ receiver'.ack = acked.ack
    BY <2>1, <2>3, <2>5 DEF GoodReceiver
  <2>8. /\ received' \in Seq(1 .. Segments)
        /\ Len(received') = Len(received) + Len(part)
        /\ \A k \in 1 .. Len(received) + Len(part) :
              received'[k] = IF k <= Len(received) THEN received[k] ELSE part[k - Len(received)]
    BY <1>1, <2>1, <2>5, ConcatProperties
  <2>9. /\ Len(received) \in Nat /\ Len(part) \in Nat
        /\ receiver.ack \in Nat /\ acked.ack \in Nat /\ receiver.ack <= acked.ack
        /\ \A k \in 1 .. Len(received) : received[k] \in Nat
        /\ \A k \in 1 .. Len(part) : part[k] \in Nat
    <3>1. receiver.ack \in Nat /\ acked.ack \in Nat
      BY <1>1, <2>3, ReceiverTypes DEF GoodReceiver
    <3>2. \A k \in 1 .. Len(received) : received[k] \in Nat
      BY <1>1, Numbers
    <3>3. \A k \in 1 .. Len(part) : part[k] \in Nat
      BY <2>5, Numbers
    <3>4. QED BY <1>1, <2>2, <2>3, <2>5, <3>1, <3>2, <3>3
  <2>10. \A k \in 1 .. Len(received) : received[k] < receiver.ack
    BY DEF IInv
  <2>11. \A k \in 1 .. Len(received') :
            \/ k \in 1 .. Len(received) /\ received'[k] = received[k]
            \/ k - Len(received) \in 1 .. Len(part) /\ received'[k] = part[k - Len(received)]
               /\ ~(k <= Len(received))
    BY <2>8, <2>9
  <2>12. \A k \in 1 .. Len(received') : received'[k] < receiver'.ack
    BY <2>6, <2>7, <2>9, <2>10, <2>11
  <2>13. ASSUME NEW j \in 1 .. Len(received'), NEW k \in 1 .. Len(received'), j < k
         PROVE  received'[j] <= received'[k]
    <3>1. CASE j \in 1 .. Len(received) /\ k \in 1 .. Len(received)
      <4>1. received[j] <= received[k]
        BY <1>1, <3>1, <2>13 DEF IInv, InOrder
      <4>2. received'[j] = received[j] /\ received'[k] = received[k]
        BY <3>1, <2>11, <2>9
      <4>3. QED BY <4>1, <4>2
    <3>2. CASE j \in 1 .. Len(received) /\ k \notin 1 .. Len(received)
      <4>1. k - Len(received) \in 1 .. Len(part) /\ received'[k] = part[k - Len(received)]
        BY <3>2, <2>11
      <4>2. received'[j] = received[j]
        BY <3>2, <2>11, <2>9
      <4>3. received[j] < receiver.ack /\ receiver.ack <= part[k - Len(received)]
        BY <3>2, <4>1, <2>6, <2>10
      <4>4. QED BY SMTT(30), <3>2, <4>1, <4>2, <4>3, <2>9
    <3>3. CASE j \notin 1 .. Len(received)
      <4>1. k \notin 1 .. Len(received)
        BY <3>3, <2>9, <2>13, <2>8
      <4>2. /\ j - Len(received) \in 1 .. Len(part) /\ received'[j] = part[j - Len(received)]
            /\ k - Len(received) \in 1 .. Len(part) /\ received'[k] = part[k - Len(received)]
        BY <3>3, <4>1, <2>11
      <4>3. j - Len(received) < k - Len(received)
        BY <2>9, <2>13, <2>8
      <4>4. QED BY <4>2, <4>3, <2>5 DEF Sorted
    <3>4. QED BY <3>1, <3>2, <3>3
  <2>14. InOrder'
    <3>1. DOMAIN received' = 1 .. Len(received')
      BY <2>8
    <3>2. QED BY <2>13, <3>1 DEF InOrder
  <2>15. ackCable' \in Seq(AckPackets)
    <3>1. acked.ack \in Edges /\ acked.sack \in Seq(Block)
      BY <2>3, ReceiverTypes
    <3>2. [ack |-> acked.ack, sack |-> acked.sack] \in AckPackets
      BY <3>1 DEF AckPackets
    <3>3. QED BY <1>1, <2>1, <3>2
  <2>16. TypeOK'
    <3>1. receiver' \in Receivers
      BY <2>7 DEF GoodReceiver
    <3>2. QED BY <1>1, <1>2, <1>3, <2>1, <2>8, <2>15, <3>1, Types DEF IInv, TypeOK, Entries, Receivers, Block, AckPackets
  <2>17. QED BY <2>7, <2>12, <2>14, <2>16 DEF IInv
<1>6. QED BY <1>4, <1>5

\* The sender and the losses leave the receiver alone.
LEMMA ReceiverIdle ==
  ASSUME IInv, TypeOK', UNCHANGED receiverVars
  PROVE  IInv'
BY DEF IInv, InOrder, receiverVars

LEMMA InvNext == IInv /\ [Next]_vars => IInv'
<1> SUFFICES ASSUME IInv, [Next]_vars PROVE IInv'
  OBVIOUS
<1>1. /\ sequenceNumber \in Edges
      /\ waitingForSending \in Seq(1 .. Segments)
      /\ window \in Seq(Entries)
      /\ dataCable \in Seq(1 .. Segments)
      /\ receiver \in Receivers
      /\ received \in Seq(1 .. Segments)
      /\ ackCable \in Seq(AckPackets)
      /\ crashed \in BOOLEAN
  BY Types DEF IInv
<1> DEFINE TypesPrime == /\ sequenceNumber' \in Edges
                         /\ waitingForSending' \in Seq(1 .. Segments)
                         /\ window' \in Seq(Entries)
                         /\ dataCable' \in Seq(1 .. Segments)
                         /\ receiver' \in Receivers
                         /\ received' \in Seq(1 .. Segments)
                         /\ ackCable' \in Seq(AckPackets)
                         /\ crashed' \in BOOLEAN
<1>2. TypesPrime => TypeOK'
  BY DEF TypeOK, Entries, Receivers, AckPackets, Block
<1>3. CASE Send
  <2>1. /\ sequenceNumber <= Segments /\ sequenceNumber' = sequenceNumber + 1
        /\ waitingForSending' = Append(waitingForSending, sequenceNumber)
        /\ UNCHANGED <<window, receiver, received, dataCable, ackCable, crashed>>
    BY <1>3 DEF Send, receiverVars
  <2>2. sequenceNumber \in 1 .. Segments /\ sequenceNumber' \in Edges
    BY <1>1, <2>1, SegmentsAssumption DEF Edges
  <2>3. waitingForSending' \in Seq(1 .. Segments)
    BY <1>1, <2>1, <2>2
  <2>4. TypeOK'
    BY <1>1, <1>2, <2>1, <2>2, <2>3
  <2>5. QED BY <2>1, <2>4, ReceiverIdle DEF receiverVars
<1>4. CASE SenderTick
  <2>1. /\ SendWindow(window, waitingForSending)
        /\ UNCHANGED <<sequenceNumber, receiver, received, ackCable, crashed>>
    BY <1>4 DEF SenderTick, receiverVars
  <2>2. /\ waitingForSending' \in Seq(1 .. Segments) /\ window' \in Seq(Entries)
        /\ dataCable' \in Seq(1 .. Segments)
    BY <1>1, <2>1, SendWindowType
  <2>3. TypeOK'
    BY <1>1, <1>2, <2>1, <2>2
  <2>4. QED BY <2>1, <2>3, ReceiverIdle DEF receiverVars
<1>5. ASSUME NEW i \in DOMAIN ackCable, ReceiveAck(i) PROVE IInv'
  <2> DEFINE packet == ackCable[i]
             slid == Slid(window, packet.ack)
             filled == Filled(slid, waitingForSending)
             kept == Only(filled, {e \in ToSet(filled) : Covers(packet.sack, e) = 0})
  <2>1. /\ \/ crashed' = TRUE /\ UNCHANGED <<waitingForSending, window, dataCable>>
           \/ SendWindow(kept, StillWaiting(slid, waitingForSending)) /\ UNCHANGED crashed
        /\ ackCable' = RemoveAt(ackCable, i)
        /\ UNCHANGED <<sequenceNumber, receiver, received>>
    BY <1>5 DEF ReceiveAck, receiverVars
  <2>2. i \in 1 .. Len(ackCable)
    BY <1>1
  <2>3. packet \in AckPackets
    BY <1>1, <2>2, ElementOfSeq
  <2>4. packet.ack \in Nat
    BY <2>3, Numbers DEF AckPackets
  <2> HIDE DEF packet
  <2>5. slid \in Seq(Entries)
    BY <1>1, <2>4, SlidPlaces
  <2> HIDE DEF slid
  <2>6. filled \in Seq(Entries) /\ StillWaiting(slid, waitingForSending) \in Seq(1 .. Segments)
    BY <1>1, <2>5, FilledType
  <2> HIDE DEF filled
  <2>7. kept \in Seq(Entries)
    BY <2>6, OnlyPlaces
  <2> HIDE DEF kept
  <2>8. ackCable' \in Seq(AckPackets)
    BY <1>1, <2>1, <2>2, RemovePlaces
  <2>9. CASE crashed' = TRUE /\ UNCHANGED <<waitingForSending, window, dataCable>>
    <3>1. TypeOK'
      BY <1>1, <1>2, <2>1, <2>8, <2>9
    <3>2. QED BY <2>1, <3>1, ReceiverIdle DEF receiverVars
  <2>10. CASE SendWindow(kept, StillWaiting(slid, waitingForSending)) /\ UNCHANGED crashed
    <3>1. /\ waitingForSending' \in Seq(1 .. Segments) /\ window' \in Seq(Entries)
          /\ dataCable' \in Seq(1 .. Segments)
      BY <1>1, <2>6, <2>7, <2>10, SendWindowType
    <3>2. TypeOK'
      BY <1>1, <1>2, <2>1, <2>8, <2>10, <3>1
    <3>3. QED BY <2>1, <3>2, ReceiverIdle DEF receiverVars
  <2>11. QED BY <2>1, <2>9, <2>10
<1>6. ASSUME NEW i \in DOMAIN dataCable, ReceiveData(i) PROVE IInv'
  BY <1>6, ReceiveDataInv
<1>7. ASSUME NEW i \in DOMAIN dataCable, LoseData(i) PROVE IInv'
  <2>1. /\ dataCable' = RemoveAt(dataCable, i)
        /\ UNCHANGED <<sequenceNumber, waitingForSending, window, receiver, received, ackCable, crashed>>
    BY <1>7 DEF LoseData, senderVars, receiverVars
  <2>2. i \in 1 .. Len(dataCable)
    BY <1>1
  <2>3. dataCable' \in Seq(1 .. Segments)
    BY <1>1, <2>1, <2>2, RemovePlaces
  <2>4. TypeOK'
    BY <1>1, <1>2, <2>1, <2>3
  <2>5. QED BY <2>1, <2>4, ReceiverIdle DEF receiverVars
<1>8. ASSUME NEW i \in DOMAIN ackCable, LoseAck(i) PROVE IInv'
  <2>1. /\ ackCable' = RemoveAt(ackCable, i)
        /\ UNCHANGED <<sequenceNumber, waitingForSending, window, receiver, received, dataCable, crashed>>
    BY <1>8 DEF LoseAck, senderVars, receiverVars
  <2>2. i \in 1 .. Len(ackCable)
    BY <1>1
  <2>3. ackCable' \in Seq(AckPackets)
    BY <1>1, <2>1, <2>2, RemovePlaces
  <2>4. TypeOK'
    BY <1>1, <1>2, <2>1, <2>3
  <2>5. QED BY <2>1, <2>4, ReceiverIdle DEF receiverVars
<1>9. CASE UNCHANGED vars
  <2>1. UNCHANGED <<sequenceNumber, waitingForSending, window, receiver, received, dataCable, ackCable, crashed>>
    BY <1>9 DEF vars, senderVars, receiverVars
  <2>2. TypeOK'
    BY <1>1, <1>2, <2>1
  <2>3. QED BY <2>1, <2>2, ReceiverIdle DEF receiverVars
<1>10. QED BY <1>3, <1>4, <1>5, <1>6, <1>7, <1>8, <1>9 DEF Next, Lose

\* Whatever the cable does, the invariant holds.
THEOREM TransferInvariant == Spec => []IInv
<1>1. Init => IInv
  BY InvInit
<1>2. IInv /\ [Next]_vars => IInv'
  BY InvNext
<1>3. QED BY <1>1, <1>2, PTL DEF Spec

\* Type correctness of the data transfer.
THEOREM TransferTypes == Spec => []TypeOK
<1>1. IInv => TypeOK
  BY DEF IInv
<1>2. QED BY <1>1, TransferInvariant, PTL

\* Data never overtakes data: on a cable that loses, repeats and reorders, with
\* any window and any number of segments, the application reads the segments in
\* the order they were sent.
THEOREM ReadInOrder == Spec => []InOrder
<1>1. IInv => InOrder
  BY DEF IInv
<1>2. QED BY <1>1, TransferInvariant, PTL

-----------------------------------------------------------------------------
(* On a cable that keeps the order and loses nothing. *)

Reliable == ~Lossy /\ ~Reorders

\* On a reliable cable, and on every cable when one segment at a time is under
\* way, nothing arrives before what the receiver lacks.
Orderly == Reliable \/ WindowSize = 1

\* The first segment that has not entered the window, and the first in it.
FirstWaiting == sequenceNumber - Len(waitingForSending)
Lowest == FirstWaiting - Len(window)

\* The data under way, when the segments below f have been sent and the
\* receiver asks for a: the segments it lacks are among them, and none comes
\* before its predecessor.
DataFits(d, f, a) ==
  /\ \A m \in a .. f - 1 : \E i \in 1 .. Len(d) : d[i] = m
  /\ \A i \in 1 .. Len(d) :
       /\ d[i] < f
       /\ d[i] <= a \/ \E j \in 1 .. i - 1 : d[j] = d[i] - 1

\* Nothing is held back.
OrderlyReceiver ==
  /\ receiver.window = <<>> /\ receiver.sack = <<>>
  /\ received = [i \in 1 .. receiver.ack - 1 |-> i]
OrderlyAcks ==
  \A i \in 1 .. Len(ackCable) : ackCable[i].sack = <<>> /\ ackCable[i].ack <= receiver.ack

\* The window and what waits for it are the segments from Lowest on.
OrderlySender ==
  /\ Lowest \in 1 .. receiver.ack /\ receiver.ack <= FirstWaiting
  /\ \A i \in 1 .. Len(window) : window[i].isSent /\ window[i].seq = Lowest + (i - 1)
  /\ \A i \in 1 .. Len(waitingForSending) : waitingForSending[i] = FirstWaiting + (i - 1)

SentBelow(d, f) == \A i \in 1 .. Len(d) : d[i] < f

\* The inductive invariant when nothing overtakes.
OrderlyInv ==
  /\ TypeOK /\ ~crashed
  /\ OrderlyReceiver /\ OrderlyAcks /\ OrderlySender
  /\ Len(window) <= WindowSize
  /\ SentBelow(dataCable, FirstWaiting)
  /\ Reliable => DataFits(dataCable, FirstWaiting, receiver.ack)

LEMMA ConcatBelow ==
  ASSUME NEW d \in Seq(1 .. Segments), NEW e \in Seq(1 .. Segments), NEW f \in Nat,
         SentBelow(d, f), SentBelow(e, f)
  PROVE  d \o e \in Seq(1 .. Segments) /\ SentBelow(d \o e, f)
<1> DEFINE c == d \o e
<1>1. /\ c \in Seq(1 .. Segments) /\ Len(c) = Len(d) + Len(e)
      /\ \A i \in 1 .. Len(d) + Len(e) : c[i] = IF i <= Len(d) THEN d[i] ELSE e[i - Len(d)]
  BY ConcatProperties
<1>2. Len(d) \in Nat /\ Len(e) \in Nat
  OBVIOUS
<1> HIDE DEF c
<1>3. ASSUME NEW i \in 1 .. Len(c) PROVE c[i] < f
  <2>1. CASE i <= Len(d)
    <3>1. i \in 1 .. Len(d) /\ c[i] = d[i]
      BY <1>1, <1>2, <2>1
    <3>2. QED BY <3>1 DEF SentBelow
  <2>2. CASE ~(i <= Len(d))
    <3>1. i - Len(d) \in 1 .. Len(e) /\ c[i] = e[i - Len(d)]
      BY <1>1, <1>2, <2>2
    <3>2. QED BY <3>1 DEF SentBelow
  <2>3. QED BY <2>1, <2>2
<1>4. QED BY <1>1, <1>3 DEF c, SentBelow

LEMMA RemoveBelow ==
  ASSUME NEW d \in Seq(1 .. Segments), NEW i \in 1 .. Len(d), NEW f, SentBelow(d, f)
  PROVE  SentBelow(RemoveAt(d, i), f)
<1> DEFINE r == RemoveAt(d, i)
<1>1. /\ Len(r) = Len(d) - 1 /\ Len(d) \in Nat
      /\ \A j \in 1 .. (Len(d) - 1) : r[j] = IF j < i THEN d[j] ELSE d[j + 1]
  BY RemovePlaces
<1> HIDE DEF r
<1>2. \A j \in 1 .. (Len(d) - 1) : j \in 1 .. Len(d) /\ j + 1 \in 1 .. Len(d)
  BY <1>1
<1>3. \A j \in 1 .. Len(r) : r[j] < f
  BY <1>1, <1>2 DEF SentBelow
<1>4. QED BY <1>3 DEF r, SentBelow

\* Segments sent behind those under way fit, when each of them follows one
\* that the receiver has got, one that was sent, or one sent with it.
LEMMA ConcatFits ==
  ASSUME NEW d \in Seq(1 .. Segments), NEW e \in Seq(1 .. Segments),
         NEW f \in Nat, NEW g \in Nat, NEW a \in Nat, f <= g,
         DataFits(d, f, a),
         \A k \in 1 .. Len(e) :
            /\ e[k] < g
            /\ \/ e[k] <= a
               \/ e[k] - 1 \in a .. f - 1
               \/ \E j \in 1 .. k - 1 : e[j] = e[k] - 1,
         \A m \in f .. g - 1 : \E k \in 1 .. Len(e) : e[k] = m
  PROVE  d \o e \in Seq(1 .. Segments) /\ DataFits(d \o e, g, a)
<1> DEFINE c == d \o e
<1>1. /\ c \in Seq(1 .. Segments) /\ Len(c) = Len(d) + Len(e)
      /\ \A i \in 1 .. Len(d) + Len(e) : c[i] = IF i <= Len(d) THEN d[i] ELSE e[i - Len(d)]
  BY ConcatProperties
<1> HIDE DEF c
<1>2. Len(d) \in Nat /\ Len(e) \in Nat
  OBVIOUS
<1>3. \A i \in 1 .. Len(d) : i \in 1 .. Len(c) /\ c[i] = d[i]
  BY <1>1, <1>2
<1>4. ASSUME NEW k \in 1 .. Len(e) PROVE Len(d) + k \in 1 .. Len(c) /\ c[Len(d) + k] = e[k]
  <2>1. Len(d) + k \in 1 .. Len(d) + Len(e) /\ ~(Len(d) + k <= Len(d)) /\ (Len(d) + k) - Len(d) = k
    BY <1>2
  <2>2. QED BY <2>1, <1>1
<1>5. \A k \in 1 .. Len(e) : e[k] \in Nat
  BY Numbers, ElementOfSeq
<1>6. \A i \in 1 .. Len(d) : d[i] \in Nat
  BY Numbers, ElementOfSeq
<1>7. ASSUME NEW m \in a .. g - 1 PROVE \E i \in 1 .. Len(c) : c[i] = m
  <2>1. CASE m \in a .. f - 1
    <3>1. PICK i \in 1 .. Len(d) : d[i] = m
      BY <2>1 DEF DataFits
    <3>2. QED BY <3>1, <1>3
  <2>2. CASE m \in f .. g - 1
    <3>1. PICK k \in 1 .. Len(e) : e[k] = m
      BY <2>2
    <3>2. QED BY <3>1, <1>4
  <2>3. QED BY <2>1, <2>2
<1>8. ASSUME NEW i \in 1 .. Len(c)
      PROVE  c[i] < g /\ (c[i] <= a \/ \E j \in 1 .. i - 1 : c[j] = c[i] - 1)
  <2>1. CASE i \in 1 .. Len(d)
    <3>1. c[i] = d[i] /\ d[i] < f /\ d[i] \in Nat
      BY <2>1, <1>3, <1>6 DEF DataFits
    <3>2. CASE d[i] <= a
      BY <3>1, <3>2
    <3>3. CASE \E j \in 1 .. i - 1 : d[j] = d[i] - 1
      <4>1. PICK j \in 1 .. i - 1 : d[j] = d[i] - 1
        BY <3>3
      <4>2. j \in 1 .. Len(d) /\ c[j] = d[j]
        BY <2>1, <1>2, <1>3
      <4>3. QED BY <3>1, <4>1, <4>2
    <3>4. QED BY <2>1, <3>2, <3>3 DEF DataFits
  <2>2. CASE i \notin 1 .. Len(d)
    <3> DEFINE k == i - Len(d)
    <3>1. k \in 1 .. Len(e) /\ i = Len(d) + k
      BY <2>2, <1>1, <1>2
    <3> HIDE DEF k
    <3>2. c[i] = e[k] /\ e[k] \in Nat /\ e[k] < g
      BY <3>1, <1>4, <1>5
    <3>3. CASE e[k] <= a
      BY <3>2, <3>3
    <3>4. CASE e[k] - 1 \in a .. f - 1
      <4>1. PICK j \in 1 .. Len(d) : d[j] = e[k] - 1
        BY <3>4 DEF DataFits
      <4>2. j \in 1 .. i - 1 /\ c[j] = d[j]
        BY <3>1, <1>2, <1>3
      <4>3. QED BY <3>2, <4>1, <4>2
    <3>5. CASE \E j \in 1 .. k - 1 : e[j] = e[k] - 1
      <4>1. PICK j \in 1 .. k - 1 : e[j] = e[k] - 1
        BY <3>5
      <4>2. j \in 1 .. Len(e)
        BY <3>1, <1>2
      <4>3. Len(d) + j \in 1 .. i - 1 /\ c[Len(d) + j] = e[j]
        BY <3>1, <4>2, <1>2, <1>4
      <4>4. QED BY <3>2, <4>1, <4>3
    <3>6. QED BY <3>1, <3>3, <3>4, <3>5
  <2>3. QED BY <2>1, <2>2
<1>9. QED BY <1>1, <1>7, <1>8 DEF c, DataFits

\* The first segment under way is the one the receiver asks for, or an old one.
LEMMA HeadFits ==
  ASSUME NEW d \in Seq(1 .. Segments), 1 \in 1 .. Len(d), NEW f \in Nat, NEW a \in Nat,
         DataFits(d, f, a)
  PROVE  /\ d[1] <= a
         /\ RemoveAt(d, 1) \in Seq(1 .. Segments)
         /\ DataFits(RemoveAt(d, 1), f, IF d[1] = a THEN a + 1 ELSE a)
<1> DEFINE r == RemoveAt(d, 1)
           b == IF d[1] = a THEN a + 1 ELSE a
<1>1. Len(d) \in Nat /\ \A i \in 1 .. Len(d) : d[i] \in Nat
  BY Numbers, ElementOfSeq
<1>2. /\ r \in Seq(1 .. Segments) /\ Len(r) = Len(d) - 1
      /\ \A i \in 1 .. (Len(d) - 1) : r[i] = IF i < 1 THEN d[i] ELSE d[i + 1]
  BY RemovePlaces
<1> HIDE DEF r
<1>3. \A i \in 1 .. Len(r) : r[i] = d[i + 1] /\ i + 1 \in 1 .. Len(d) /\ d[i + 1] \in Nat
  BY <1>1, <1>2
<1>4. d[1] <= a
  <2>1. d[1] <= a \/ \E j \in 1 .. 1 - 1 : d[j] = d[1] - 1
    BY DEF DataFits
  <2>2. QED BY <2>1
<1>5. b \in Nat /\ a <= b /\ d[1] < b /\ (b = a \/ (b = a + 1 /\ d[1] = a))
  <2>1. d[1] \in Nat
    BY <1>1
  <2>2. QED BY <2>1, <1>4
<1> HIDE DEF b
<1>6. ASSUME NEW m \in b .. f - 1 PROVE \E i \in 1 .. Len(r) : r[i] = m
  <2>1. m \in a .. f - 1 /\ m # d[1]
    BY <1>1, <1>5
  <2>2. PICK i \in 1 .. Len(d) : d[i] = m
    BY <2>1 DEF DataFits
  <2>3. i # 1 /\ i - 1 \in 1 .. Len(r) /\ (i - 1) + 1 = i
    BY <2>1, <2>2, <1>1, <1>2
  <2>4. r[i - 1] = d[i]
    BY <2>3, <1>3
  <2>5. QED BY <2>2, <2>3, <2>4
<1>7. ASSUME NEW i \in 1 .. Len(r)
      PROVE  r[i] < f /\ (r[i] <= b \/ \E j \in 1 .. i - 1 : r[j] = r[i] - 1)
  <2>1. r[i] = d[i + 1] /\ i + 1 \in 1 .. Len(d) /\ d[i + 1] \in Nat /\ d[i + 1] < f
    BY <1>3 DEF DataFits
  <2>2. CASE d[i + 1] <= a
    BY <2>1, <2>2, <1>5
  <2>3. CASE \E j \in 1 .. (i + 1) - 1 : d[j] = d[i + 1] - 1
    <3>1. PICK j \in 1 .. (i + 1) - 1 : d[j] = d[i + 1] - 1
      BY <2>3
    <3>2. CASE j = 1
      <4>1. d[i + 1] <= b
        BY <2>1, <3>1, <3>2, <1>1, <1>5
      <4>2. QED BY <4>1, <2>1
    <3>3. CASE j # 1
      <4>1. j - 1 \in 1 .. i - 1 /\ j - 1 \in 1 .. Len(r) /\ (j - 1) + 1 = j
        BY <3>1, <3>3, <1>1, <1>2
      <4>2. r[j - 1] = d[j]
        BY <4>1, <1>3
      <4>3. QED BY <2>1, <3>1, <4>1, <4>2
    <3>4. QED BY <3>2, <3>3
  <2>4. QED BY <2>1, <2>2, <2>3 DEF DataFits
<1>8. QED BY <1>2, <1>4, <1>6, <1>7 DEF r, b, DataFits

\* A window whose entries are the segments from lo on, the first k of them sent.
Consecutive(w, lo, k) ==
  \A i \in 1 .. Len(w) : w[i].seq = lo + (i - 1) /\ (w[i].isSent <=> i <= k)
Follows(q, f) == \A i \in 1 .. Len(q) : q[i] = f + (i - 1)

\* The segments that wait enter the window in their order.
LEMMA FilledConsecutive ==
  ASSUME NEW w \in Seq(Entries), NEW q \in Seq(1 .. Segments), NEW lo \in Nat,
         NEW k \in 0 .. Len(w), Consecutive(w, lo, k), Follows(q, lo + Len(w))
  PROVE  /\ Consecutive(Filled(w, q), lo, k)
         /\ Follows(StillWaiting(w, q), lo + Len(Filled(w, q)))
<1> DEFINE n == Room(w, q)
           filled == Filled(w, q)
           still == StillWaiting(w, q)
<1>1. n \in 0 .. Len(q) /\ Len(q) \in Nat /\ Len(w) \in Nat /\ k \in Nat
  BY RoomIsPlace
<1>2. /\ filled \in Seq(Entries) /\ Len(filled) = Len(w) + n
      /\ \A i \in 1 .. Len(w) : filled[i] = w[i]
      /\ \A i \in 1 .. n : filled[Len(w) + i] = NotAcked(q[i])
      /\ still \in Seq(1 .. Segments)
      /\ Len(still) = Len(q) - n
      /\ \A i \in 1 .. Len(q) - n : still[i] = q[n + i]
  BY FilledType
<1> HIDE DEF filled, still, n
<1>3. ASSUME NEW i \in 1 .. Len(filled)
      PROVE  filled[i].seq = lo + (i - 1) /\ (filled[i].isSent <=> i <= k)
  <2>1. CASE i \in 1 .. Len(w)
    <3>1. filled[i] = w[i]
      BY <2>1, <1>2
    <3>2. w[i].seq = lo + (i - 1) /\ (w[i].isSent <=> i <= k)
      BY <2>1 DEF Consecutive
    <3>3. QED BY <3>1, <3>2
  <2>2. CASE i \notin 1 .. Len(w)
    <3> DEFINE j == i - Len(w)
    <3>1. j \in 1 .. n /\ j \in 1 .. Len(q) /\ Len(w) + j = i
      BY <2>2, <1>1, <1>2
    <3>2. q[j] = (lo + Len(w)) + (j - 1) /\ (lo + Len(w)) + (j - 1) = lo + (i - 1)
      BY <3>1, <1>1 DEF Follows
    <3>3. filled[i] = NotAcked(q[j])
      <4> HIDE DEF j
      <4>1. QED BY <3>1, <1>2
    <3>4. filled[i].seq = q[j] /\ filled[i].isSent = FALSE
      <4>1. \A x : NotAcked(x).seq = x /\ NotAcked(x).isSent = FALSE
        BY DEF NotAcked
      <4> HIDE DEF j
      <4>2. QED BY <3>3, <4>1
    <3>5. ~(i <= k)
      BY <2>2, <1>1
    <3>6. filled[i].seq = lo + (i - 1)
      BY <3>2, <3>4
    <3>7. QED BY <3>4, <3>5, <3>6
  <2>3. QED BY <2>1, <2>2
<1>4. ASSUME NEW i \in 1 .. Len(still) PROVE still[i] = (lo + Len(filled)) + (i - 1)
  <2>1. n + i \in 1 .. Len(q) /\ i \in 1 .. Len(q) - n
    BY <1>1, <1>2
  <2>2. q[n + i] = (lo + Len(w)) + ((n + i) - 1)
    BY <2>1 DEF Follows
  <2>3. (lo + Len(w)) + ((n + i) - 1) = (lo + Len(filled)) + (i - 1)
    BY <1>1, <1>2
  <2>4. QED BY <2>1, <2>2, <2>3, <1>2
<1>5. QED BY <1>3, <1>4 DEF Consecutive, Follows, filled, still

\* The end of a tick of the sender sends nothing of what still waits, and keeps
\* the data in order: what is sent first follows what was sent, and what is sent
\* again was sent before.
LEMMA SendWindowFits ==
  ASSUME NEW w \in Seq(Entries), NEW q \in Seq(1 .. Segments), NEW lo \in Nat, NEW a \in Nat,
         NEW k \in 0 .. Len(w), Consecutive(w, lo, k), Follows(q, lo + Len(w)),
         dataCable \in Seq(1 .. Segments), SentBelow(dataCable, lo + k), a <= lo + k,
         SendWindow(w, q)
  PROVE  /\ Consecutive(window', lo, Len(window'))
         /\ Len(window') = Len(Filled(w, q))
         /\ waitingForSending' = StillWaiting(w, q)
         /\ Follows(waitingForSending', lo + Len(window'))
         /\ SentBelow(dataCable', lo + Len(window'))
         /\ DataFits(dataCable, lo + k, a) => DataFits(dataCable', lo + Len(window'), a)
<1> DEFINE filled == Filled(w, q)
           fresh == Only(filled, Unsent(filled))
           unsent == SeqNumbers(fresh)
           f == lo + k
           g == lo + Len(filled)
<1>1. PICK late \in SUBSET (ToSet(filled) \ Unsent(filled)) :
         /\ waitingForSending' = StillWaiting(w, q)
         /\ window' = [i \in DOMAIN filled |-> [filled[i] EXCEPT !.isSent = TRUE]]
         /\ dataCable' = dataCable \o SeqNumbers(Only(filled, Unsent(filled)))
                         \o SeqNumbers(Only(filled, late))
  BY DEF SendWindow
<1> DEFINE old == Only(filled, late)
           again == SeqNumbers(old)
<1>2. /\ filled \in Seq(Entries) /\ Len(filled) \in Nat /\ DOMAIN filled = 1 .. Len(filled)
      /\ Len(w) \in Nat /\ Len(w) <= Len(filled) /\ k \in Nat /\ k <= Len(w)
  <2>1. filled \in Seq(Entries) /\ Len(filled) = Len(w) + Room(w, q) /\ Room(w, q) \in 0 .. Len(q)
    BY FilledType, RoomIsPlace
  <2> HIDE DEF filled
  <2>2. Len(w) \in Nat /\ Len(q) \in Nat /\ k \in Nat /\ k <= Len(w)
    OBVIOUS
  <2>3. Room(w, q) \in Nat
    BY <2>1, <2>2
  <2>4. DOMAIN filled = 1 .. Len(filled)
    BY <2>1
  <2>5. QED BY <2>1, <2>2, <2>3, <2>4
<1>3. /\ \A i \in 1 .. Len(filled) : filled[i].seq = lo + (i - 1) /\ (filled[i].isSent <=> i <= k)
      /\ Follows(StillWaiting(w, q), g)
  BY FilledConsecutive DEF Consecutive
<1> HIDE DEF filled
<1>4. \A i \in 1 .. Len(filled) : filled[i] \in Unsent(filled) <=> k < i
  <2> SUFFICES ASSUME NEW i \in 1 .. Len(filled)
               PROVE  filled[i] \in Unsent(filled) <=> k < i
    OBVIOUS
  <2>1. filled[i] \in ToSet(filled)
    BY <1>2 DEF ToSet
  <2>2. filled[i] \in Unsent(filled) <=> ~filled[i].isSent
    BY <2>1 DEF Unsent
  <2>3. filled[i].isSent <=> i <= k
    BY <1>3
  <2>4. i <= k <=> ~(k < i)
    BY <1>2
  <2>5. QED BY <2>2, <2>3, <2>4
<1>5. \A i \in 1 .. Len(filled) : filled[i] \in late => i <= k
  <2> SUFFICES ASSUME NEW i \in 1 .. Len(filled), filled[i] \in late PROVE i <= k
    OBVIOUS
  <2>1. filled[i] \notin Unsent(filled)
    BY <1>1
  <2>2. QED BY <2>1, <1>2, <1>4
<1>6. fresh \in Seq(Entries) /\ old \in Seq(Entries)
  BY <1>2, OnlyPlaces
<1>7. PICK m \in [1 .. Len(fresh) -> 1 .. Len(filled)] : Selects(m, filled, Unsent(filled), fresh)
  BY <1>2, OnlyPlaces
<1>8. PICK p \in [1 .. Len(old) -> 1 .. Len(filled)] : Selects(p, filled, late, old)
  BY <1>2, OnlyPlaces
<1> HIDE DEF fresh, old
<1>9. /\ unsent \in Seq(1 .. Segments) /\ Len(unsent) = Len(fresh) /\ Len(fresh) \in Nat
      /\ \A j \in 1 .. Len(fresh) : unsent[j] = fresh[j].seq
  BY <1>6, SeqNumbersType
<1>10. /\ again \in Seq(1 .. Segments) /\ Len(again) = Len(old) /\ Len(old) \in Nat
       /\ \A j \in 1 .. Len(old) : again[j] = old[j].seq
  BY <1>6, SeqNumbersType
<1> HIDE DEF unsent, again
<1>11. \A j \in 1 .. Len(unsent) : k < m[j] /\ m[j] \in 1 .. Len(filled) /\ unsent[j] = lo + (m[j] - 1)
  <2> SUFFICES ASSUME NEW j \in 1 .. Len(unsent)
               PROVE  k < m[j] /\ m[j] \in 1 .. Len(filled) /\ unsent[j] = lo + (m[j] - 1)
    OBVIOUS
  <2>1. j \in 1 .. Len(fresh) /\ m[j] \in 1 .. Len(filled)
    BY <1>9
  <2>2. fresh[j] = filled[m[j]] /\ filled[m[j]] \in Unsent(filled)
    BY <2>1, <1>7 DEF Selects
  <2>3. unsent[j] = filled[m[j]].seq
    BY <2>1, <2>2, <1>9
  <2>4. QED BY <2>1, <2>2, <2>3, <1>3, <1>4
<1>12. \A j, l \in 1 .. Len(unsent) : j < l => m[j] < m[l]
  BY <1>7, <1>9 DEF Selects
<1>13. \A i \in 1 .. Len(filled) : k < i => \E j \in 1 .. Len(unsent) : m[j] = i
  BY <1>4, <1>7, <1>9 DEF Selects
<1>14. f \in Nat /\ g \in Nat /\ f <= g /\ a <= f
  BY <1>2
<1>15. ASSUME NEW j \in 1 .. Len(unsent)
       PROVE  /\ unsent[j] < g
              /\ \/ unsent[j] <= a
                 \/ unsent[j] - 1 \in a .. f - 1
                 \/ \E l \in 1 .. j - 1 : unsent[l] = unsent[j] - 1
  <2>1. k < m[j] /\ m[j] \in 1 .. Len(filled) /\ unsent[j] = lo + (m[j] - 1)
    BY <1>11
  <2>2. unsent[j] < g
    BY SMTT(30), <2>1, <1>2
  <2>3. CASE m[j] = k + 1
    <3>1. unsent[j] = f
      BY <2>1, <2>3, <1>2
    <3>2. f <= a \/ f - 1 \in a .. f - 1
      BY <1>14
    <3>3. QED BY <2>2, <3>1, <3>2
  <2>4. CASE m[j] # k + 1
    <3>0. k \in Nat /\ Len(filled) \in Nat
      BY <1>2
    <3>1. m[j] - 1 \in 1 .. Len(filled) /\ k < m[j] - 1
      <4> DEFINE x == m[j]
      <4>1. x \in 1 .. Len(filled) /\ k < x /\ x # k + 1
        BY <2>1, <2>4
      <4> HIDE DEF x
      <4>2. x - 1 \in 1 .. Len(filled) /\ k < x - 1
        BY <4>1, <3>0
      <4>3. QED BY <4>2 DEF x
    <3>2. PICK l \in 1 .. Len(unsent) : m[l] = m[j] - 1
      BY <3>1, <1>13
    <3>3. m[l] \in Nat /\ m[j] \in Nat /\ Len(unsent) \in Nat
      BY SMTT(30), <2>1, <3>1, <3>2, <1>9
    <3>4. l < j
      <4>1. m[l] # m[j] /\ ~(m[j] < m[l])
        BY SMTT(30), <3>2, <3>3
      <4>2. l # j
        BY <4>1
      <4>3. ~(j < l)
        BY <4>1, <1>12
      <4>4. j \in Nat /\ l \in Nat
        BY <3>3
      <4>5. QED BY <4>2, <4>3, <4>4
    <3>5. unsent[l] = lo + (m[l] - 1)
      BY <1>11
    <3>6. unsent[l] = unsent[j] - 1
      BY SMTT(30), <2>1, <3>2, <3>3, <3>5
    <3>7. l \in 1 .. j - 1
      BY <3>3, <3>4
    <3>8. QED BY <2>2, <3>6, <3>7
  <2>5. QED BY <2>3, <2>4
<1>16. ASSUME NEW x \in f .. g - 1 PROVE \E j \in 1 .. Len(unsent) : unsent[j] = x
  <2>1. (x - lo) + 1 \in 1 .. Len(filled) /\ k < (x - lo) + 1 /\ x \in Nat
    BY <1>2, <1>14
  <2>2. PICK j \in 1 .. Len(unsent) : m[j] = (x - lo) + 1
    BY <2>1, <1>13
  <2>3. unsent[j] = lo + (m[j] - 1)
    BY <1>11
  <2>4. QED BY <2>1, <2>2, <2>3
<1>17. ASSUME DataFits(dataCable, lo + k, a)
       PROVE  dataCable \o unsent \in Seq(1 .. Segments) /\ DataFits(dataCable \o unsent, g, a)
  <2> HIDE DEF f, g
  <2>1. DataFits(dataCable, f, a)
    BY <1>17 DEF f
  <2>2. QED BY <1>9, <1>14, <1>15, <1>16, <2>1, ConcatFits
<1>18. ASSUME NEW j \in 1 .. Len(again)
       PROVE  again[j] < g /\ (again[j] <= a \/ again[j] - 1 \in a .. g - 1)
  <2>1. j \in 1 .. Len(old) /\ p[j] \in 1 .. Len(filled)
    BY <1>10
  <2>2. old[j] = filled[p[j]] /\ filled[p[j]] \in late
    BY <2>1, <1>8 DEF Selects
  <2>3. again[j] = lo + (p[j] - 1) /\ p[j] <= k
    BY <2>1, <2>2, <1>3, <1>5, <1>10
  <2>4. again[j] \in Nat /\ again[j] < f
    BY SMTT(30), <2>1, <2>3, <1>2
  <2> HIDE DEF f, g
  <2>5. again[j] < g
    BY <2>4, <1>14
  <2>6. again[j] <= a \/ again[j] - 1 \in a .. g - 1
    <3> DEFINE x == again[j]
    <3>1. x \in Nat /\ x < f
      BY <2>4
    <3> HIDE DEF x
    <3>2. x <= a \/ x - 1 \in a .. g - 1
      BY ONLY <3>1, <1>14, a \in Nat
    <3>3. QED BY <3>2 DEF x
  <2>7. QED BY <2>5, <2>6
<1>19. ASSUME DataFits(dataCable, lo + k, a)
       PROVE  DataFits((dataCable \o unsent) \o again, g, a)
  <2> DEFINE sent == dataCable \o unsent
  <2>1. sent \in Seq(1 .. Segments) /\ DataFits(sent, g, a)
    BY <1>17, <1>19
  <2>2. \A x \in g .. g - 1 : \E j \in 1 .. Len(again) : again[j] = x
    BY <1>14
  <2> HIDE DEF f, g, sent
  <2>3. \A j \in 1 .. Len(again) :
           /\ again[j] < g
           /\ \/ again[j] <= a
              \/ again[j] - 1 \in a .. g - 1
              \/ \E l \in 1 .. j - 1 : again[l] = again[j] - 1
    BY <1>18
  <2>4. g <= g
    BY <1>14
  <2>5. DataFits(sent \o again, g, a)
    BY <1>10, <1>14, <2>1, <2>2, <2>3, <2>4, ConcatFits
  <2>6. QED BY <2>5 DEF sent
<1>20. dataCable' = (dataCable \o unsent) \o again
  BY <1>1 DEF unsent, again, fresh, old
<1>21. /\ window' \in Seq(Entries) /\ Len(window') = Len(filled)
       /\ \A i \in 1 .. Len(filled) : window'[i].seq = filled[i].seq /\ window'[i].isSent
  <2>1. \A e \in Entries : /\ [e EXCEPT !.isSent = TRUE] \in Entries
                           /\ [e EXCEPT !.isSent = TRUE].seq = e.seq
                           /\ [e EXCEPT !.isSent = TRUE].isSent
    BY DEF Entries
  <2>2. \A i \in 1 .. Len(filled) : filled[i] \in Entries
    BY <1>2, ElementOfSeq
  <2>3. window' = [i \in 1 .. Len(filled) |-> [filled[i] EXCEPT !.isSent = TRUE]]
    BY <1>1, <1>2
  <2>4. window' \in [1 .. Len(filled) -> Entries]
    BY <2>1, <2>2, <2>3
  <2>5. window' \in Seq(Entries) /\ Len(window') = Len(filled)
    BY <2>4, <1>2, FunctionIsSequence
  <2>6. \A i \in 1 .. Len(filled) : window'[i] = [filled[i] EXCEPT !.isSent = TRUE]
    BY <2>3
  <2>7. QED BY <2>1, <2>2, <2>5, <2>6
<1>22. Consecutive(window', lo, Len(window'))
  <2> SUFFICES ASSUME NEW i \in 1 .. Len(window')
               PROVE  window'[i].seq = lo + (i - 1) /\ (window'[i].isSent <=> i <= Len(window'))
    BY DEF Consecutive
  <2>1. i \in 1 .. Len(filled) /\ i <= Len(window')
    BY <1>2, <1>21
  <2>2. window'[i].seq = lo + (i - 1) /\ window'[i].isSent
    BY <2>1, <1>3, <1>21
  <2>3. QED BY <2>1, <2>2
<1>23. waitingForSending' = StillWaiting(w, q) /\ Follows(waitingForSending', lo + Len(window'))
  BY <1>1, <1>3, <1>21
<1>24. DataFits(dataCable, lo + k, a) => DataFits(dataCable', lo + Len(window'), a)
  <2> HIDE DEF g
  <2>1. g = lo + Len(window')
    BY <1>21 DEF g
  <2>2. QED BY <1>19, <1>20, <2>1
<1>25. SentBelow(dataCable', lo + Len(window'))
  <2>1. SentBelow(dataCable, g)
    <3>1. \A i \in 1 .. Len(dataCable) : dataCable[i] \in Nat
      BY Numbers, ElementOfSeq
    <3>2. \A i \in 1 .. Len(dataCable) : dataCable[i] < f
      BY DEF SentBelow
    <3> HIDE DEF f, g
    <3>3. QED BY <1>14, <3>1, <3>2 DEF SentBelow
  <2>2. SentBelow(unsent, g)
    BY <1>15 DEF SentBelow
  <2>3. SentBelow(again, g)
    BY <1>18 DEF SentBelow
  <2>4. g = lo + Len(window')
    BY <1>21
  <2> HIDE DEF g
  <2>5. dataCable \o unsent \in Seq(1 .. Segments) /\ SentBelow(dataCable \o unsent, g)
    BY <1>9, <1>14, <2>1, <2>2, ConcatBelow
  <2>6. SentBelow((dataCable \o unsent) \o again, g)
    BY <1>10, <1>14, <2>3, <2>5, ConcatBelow
  <2>7. QED BY <1>20, <2>4, <2>6
<1>26. QED BY <1>21, <1>22, <1>23, <1>24, <1>25 DEF filled

LEMMA OrderlyTypes ==
  ASSUME OrderlyInv
  PROVE  /\ sequenceNumber \in Nat /\ waitingForSending \in Seq(1 .. Segments)
         /\ window \in Seq(Entries) /\ dataCable \in Seq(1 .. Segments)
         /\ receiver \in Receivers /\ receiver.ack \in Nat /\ receiver.ack \in Edges
         /\ ackCable \in Seq(AckPackets)
         /\ Len(waitingForSending) \in Nat /\ Len(window) \in Nat
         /\ Lowest \in Nat /\ FirstWaiting \in Nat
         /\ FirstWaiting = Lowest + Len(window)
         /\ sequenceNumber = FirstWaiting + Len(waitingForSending)
         /\ Consecutive(window, Lowest, Len(window))
         /\ Follows(waitingForSending, Lowest + Len(window))
<1>1. TypeOK /\ Lowest \in 1 .. receiver.ack /\ receiver.ack <= FirstWaiting
  BY DEF OrderlyInv, OrderlySender
<1>2. /\ sequenceNumber \in Edges /\ waitingForSending \in Seq(1 .. Segments)
      /\ window \in Seq(Entries) /\ dataCable \in Seq(1 .. Segments)
      /\ receiver \in Receivers /\ ackCable \in Seq(AckPackets)
  BY <1>1, Types
<1>3. receiver.ack \in Nat /\ receiver.ack \in Edges /\ sequenceNumber \in Nat
  BY <1>2, ReceiverTypes, Numbers
<1>4. Len(waitingForSending) \in Nat /\ Len(window) \in Nat
  BY <1>2
<1>5. FirstWaiting \in Int /\ sequenceNumber = FirstWaiting + Len(waitingForSending)
  BY <1>3, <1>4 DEF FirstWaiting
<1>6. Lowest \in Nat /\ FirstWaiting = Lowest + Len(window)
  BY <1>1, <1>3, <1>4, <1>5 DEF Lowest
<1>7. FirstWaiting \in Nat
  BY <1>4, <1>6
<1>8. Consecutive(window, Lowest, Len(window))
  <2>1. \A i \in 1 .. Len(window) : window[i].isSent /\ window[i].seq = Lowest + (i - 1)
    BY DEF OrderlyInv, OrderlySender
  <2>2. \A i \in 1 .. Len(window) : i <= Len(window)
    BY <1>4
  <2>3. QED BY <2>1, <2>2 DEF Consecutive
<1>9. Follows(waitingForSending, Lowest + Len(window))
  BY <1>6 DEF OrderlyInv, OrderlySender, Follows
<1>10. QED BY <1>2, <1>3, <1>4, <1>5, <1>6, <1>7, <1>8, <1>9

LEMMA OrderlyInit == Init => OrderlyInv
<1> SUFFICES ASSUME Init PROVE OrderlyInv
  OBVIOUS
<1>1. TypeOK
  BY InvInit DEF IInv
<1>2. /\ sequenceNumber = 1 /\ waitingForSending = <<>> /\ window = <<>> /\ dataCable = <<>>
      /\ receiver = [window |-> <<>>, ack |-> 1, sack |-> <<>>]
      /\ received = <<>> /\ ackCable = <<>> /\ crashed = FALSE
  BY DEF Init, EmptyReceiver
<1>3. FirstWaiting = 1 /\ Lowest = 1 /\ receiver.ack = 1
  BY <1>2 DEF FirstWaiting, Lowest
<1>4. OrderlyReceiver
  BY <1>2 DEF OrderlyReceiver
<1>5. OrderlyAcks /\ OrderlySender
  BY <1>2, <1>3 DEF OrderlyAcks, OrderlySender
<1>6. DataFits(dataCable, FirstWaiting, receiver.ack) /\ SentBelow(dataCable, FirstWaiting)
  BY <1>2, <1>3 DEF DataFits, SentBelow
<1>7. Len(window) <= WindowSize
  BY <1>2, WindowAssumption
<1>8. QED BY <1>1, <1>2, <1>4, <1>5, <1>6, <1>7 DEF OrderlyInv

\* The sender's part after SendWindow with the segments from lo on.
LEMMA SendsOrderly ==
  ASSUME OrderlyInv, TypeOK', NEW lo \in 1 .. receiver.ack,
         NEW w \in Seq(Entries), NEW q \in Seq(1 .. Segments), NEW k \in 0 .. Len(w),
         Consecutive(w, lo, k), Follows(q, lo + Len(w)), lo + k = FirstWaiting,
         sequenceNumber = (lo + Len(w)) + Len(q), Len(w) <= WindowSize,
         SendWindow(w, q), UNCHANGED <<sequenceNumber, receiver, received, crashed>>,
         OrderlyAcks'
  PROVE  OrderlyInv'
<1>1. /\ lo \in Nat /\ receiver.ack \in Nat /\ receiver.ack <= FirstWaiting
      /\ dataCable \in Seq(1 .. Segments) /\ SentBelow(dataCable, FirstWaiting)
      /\ Reliable => DataFits(dataCable, FirstWaiting, receiver.ack)
      /\ sequenceNumber \in Nat
  BY SMTT(30), OrderlyTypes DEF OrderlyInv, OrderlySender
<1>2. /\ Consecutive(window', lo, Len(window'))
      /\ Len(window') = Len(Filled(w, q))
      /\ waitingForSending' = StillWaiting(w, q)
      /\ Follows(waitingForSending', lo + Len(window'))
      /\ SentBelow(dataCable', lo + Len(window'))
      /\ Reliable => DataFits(dataCable', lo + Len(window'), receiver.ack)
  BY <1>1, SendWindowFits
<1>3. /\ Len(w) \in Nat /\ Len(q) \in Nat /\ Room(w, q) \in Nat /\ Room(w, q) <= Len(q)
      /\ Len(Filled(w, q)) = Len(w) + Room(w, q)
      /\ Len(StillWaiting(w, q)) = Len(q) - Room(w, q)
  BY FilledLengths
<1>4. /\ FirstWaiting' = sequenceNumber - Len(waitingForSending')
      /\ Lowest' = FirstWaiting' - Len(window')
  BY DEF FirstWaiting, Lowest
<1>5. FirstWaiting' = lo + Len(window') /\ Len(window') \in Nat
  <2>1. Len(window') = Len(w) + Room(w, q) /\ Len(waitingForSending') = Len(q) - Room(w, q)
    BY <1>2, <1>3
  <2>2. FirstWaiting' = ((lo + Len(w)) + Len(q)) - (Len(q) - Room(w, q))
    BY <1>4, <2>1
  <2>3. QED BY SMTT(30), <1>1, <1>3, <2>1, <2>2
<1>6. Lowest' = lo /\ FirstWaiting <= FirstWaiting'
  <2>1. k <= Len(w) /\ k \in Nat /\ FirstWaiting = lo + k
    BY <1>3
  <2>2. Len(window') = Len(w) + Room(w, q)
    BY <1>2, <1>3
  <2>3. Lowest' = (lo + Len(window')) - Len(window')
    BY <1>4, <1>5
  <2>4. Lowest' = lo
    BY <1>1, <1>5, <2>3
  <2>5. lo + k <= lo + (Len(w) + Room(w, q))
    BY SMTT(30), <1>1, <1>3, <2>1
  <2>6. QED BY <1>5, <2>1, <2>2, <2>4, <2>5
<1>7. receiver' = receiver /\ crashed' = crashed
  OBVIOUS
<1>8. OrderlySender'
  <2>1. Lowest' \in 1 .. receiver'.ack /\ receiver'.ack <= FirstWaiting'
    <3>1. FirstWaiting \in Nat /\ FirstWaiting' \in Nat
      BY <1>1, <1>5, OrderlyTypes
    <3>2. QED BY <1>1, <1>6, <1>7, <3>1
  <2>2. \A i \in 1 .. Len(window') : window'[i].isSent /\ window'[i].seq = Lowest' + (i - 1)
    <3>1. \A i \in 1 .. Len(window') : i <= Len(window')
      BY <1>5
    <3>2. QED BY <1>2, <1>6, <3>1 DEF Consecutive
  <2>3. \A i \in 1 .. Len(waitingForSending') : waitingForSending'[i] = FirstWaiting' + (i - 1)
    BY <1>2, <1>5 DEF Follows
  <2>4. QED BY <2>1, <2>2, <2>3 DEF OrderlySender
<1>9. OrderlyReceiver'
  BY DEF OrderlyInv, OrderlyReceiver
<1>10. /\ SentBelow(dataCable', FirstWaiting')
       /\ Reliable => DataFits(dataCable', FirstWaiting', receiver'.ack)
  BY <1>2, <1>5, <1>7
<1>11. ~crashed'
  BY <1>7 DEF OrderlyInv
<1>12. Len(window') <= WindowSize
  <2>1. Len(w) + Room(w, q) <= WindowSize
    BY <1>3, WindowAssumption DEF Room
  <2>2. QED BY <1>2, <1>3, <2>1
<1>13. QED BY <1>8, <1>9, <1>10, <1>11, <1>12 DEF OrderlyInv, Reliable

\* An ACK without SACK blocks covers nothing.
LEMMA CoversNothing == \A e : Covers(<<>>, e) = 0
<1> TAKE e
<1>1. {i \in DOMAIN <<>> : <<>>[i].left <= e.seq /\ Acks(<<>>[i].right, e.seq)} = {}
  OBVIOUS
<1>2. QED BY <1>1, FS_EmptySet DEF Covers

LEMMA ReceiveAckOrderly ==
  ASSUME OrderlyInv, TypeOK', NEW i \in DOMAIN ackCable, ReceiveAck(i)
  PROVE  OrderlyInv'
<1> DEFINE packet == ackCable[i]
           slid == Slid(window, packet.ack)
           filled == Filled(slid, waitingForSending)
           still == StillWaiting(slid, waitingForSending)
           kept == Only(filled, {e \in ToSet(filled) : Covers(packet.sack, e) = 0})
<1>1. /\ sequenceNumber \in Nat /\ waitingForSending \in Seq(1 .. Segments)
      /\ window \in Seq(Entries) /\ receiver.ack \in Nat
      /\ ackCable \in Seq(AckPackets)
      /\ Len(waitingForSending) \in Nat /\ Len(window) \in Nat
      /\ Lowest \in Nat /\ FirstWaiting \in Nat
      /\ FirstWaiting = Lowest + Len(window)
      /\ sequenceNumber = FirstWaiting + Len(waitingForSending)
      /\ Consecutive(window, Lowest, Len(window))
      /\ Follows(waitingForSending, Lowest + Len(window))
      /\ Lowest \in 1 .. receiver.ack
  BY OrderlyTypes DEF OrderlyInv, OrderlySender
<1>2. i \in 1 .. Len(ackCable) /\ packet \in AckPackets
  <2>1. i \in 1 .. Len(ackCable)
    BY <1>1
  <2>2. QED BY <1>1, <2>1, ElementOfSeq
<1>3. packet.sack = <<>> /\ packet.ack <= receiver.ack /\ packet.ack \in Nat
  BY <1>2, Numbers DEF OrderlyInv, OrderlyAcks, AckPackets
<1>4. /\ IF \E k \in DOMAIN filled : Covers(packet.sack, filled[k]) > 1
           THEN crashed' = TRUE /\ UNCHANGED <<waitingForSending, window, dataCable>>
           ELSE SendWindow(kept, still) /\ UNCHANGED crashed
      /\ ackCable' = RemoveAt(ackCable, i)
      /\ UNCHANGED <<sequenceNumber, receiver, received>>
  BY DEF ReceiveAck, receiverVars
<1> HIDE DEF packet
<1>5. PICK k \in 0 .. Len(window) :
           /\ Slid(window, packet.ack) = SubSeq(window, k + 1, Len(window))
           /\ Slid(window, packet.ack) \in Seq(Entries)
           /\ Len(Slid(window, packet.ack)) = Len(window) - k
           /\ \A j \in 1 .. Len(window) - k : Slid(window, packet.ack)[j] = window[k + j]
           /\ \A j \in 1 .. k : Acks(packet.ack, window[j].seq)
           /\ k < Len(window) => ~Acks(packet.ack, window[k + 1].seq)
  BY <1>1, <1>3, SlidPlaces
<1>6. /\ slid \in Seq(Entries) /\ Len(slid) = Len(window) - k /\ k \in Nat /\ k <= Len(window)
      /\ \A j \in 1 .. Len(window) - k : slid[j] = window[k + j]
  BY SMTT(30), <1>1, <1>5
<1> DEFINE lo == Lowest + k
<1>7. lo \in 1 .. receiver.ack
  <2>1. CASE k = 0
    BY <1>1, <2>1
  <2>2. CASE k # 0
    <3>1. k \in 1 .. k /\ k \in 1 .. Len(window)
      BY SMTT(30), <1>1, <1>6, <2>2
    <3>2. window[k].seq = Lowest + (k - 1) /\ Acks(packet.ack, window[k].seq)
      BY <1>1, <1>5, <3>1 DEF Consecutive
    <3>3. (Lowest + (k - 1)) + 1 <= packet.ack
      BY ONLY <3>2 DEF Acks
    <3>4. /\ Lowest \in Nat /\ 1 <= Lowest /\ k \in Nat
          /\ packet.ack \in Nat /\ receiver.ack \in Nat /\ packet.ack <= receiver.ack
      BY <1>1, <1>3, <1>6
    <3>5. QED BY ONLY <3>3, <3>4
  <2>3. QED BY <2>1, <2>2
<1> HIDE DEF slid
<1>8. Consecutive(slid, lo, Len(slid))
  <2> SUFFICES ASSUME NEW j \in 1 .. Len(slid)
               PROVE  slid[j].seq = lo + (j - 1) /\ (slid[j].isSent <=> j <= Len(slid))
    BY DEF Consecutive
  <2>1. k + j \in 1 .. Len(window) /\ j \in 1 .. Len(window) - k
    BY SMTT(30), <1>1, <1>6
  <2>2. window[k + j].seq = Lowest + ((k + j) - 1) /\ window[k + j].isSent
    <3>1. k + j <= Len(window)
      BY <2>1, <1>1
    <3>2. QED BY <1>1, <2>1, <3>1 DEF Consecutive
  <2>3. Lowest + ((k + j) - 1) = lo + (j - 1) /\ j <= Len(slid)
    BY SMTT(30), <1>1, <1>6
  <2>4. QED BY <2>1, <2>2, <2>3, <1>6
<1>9. lo + Len(slid) = FirstWaiting /\ Lowest + Len(window) = lo + Len(slid) /\ lo \in Nat /\ Len(slid) \in Nat
  BY <1>1, <1>6
<1>10. /\ Consecutive(filled, lo, Len(slid)) /\ Follows(still, lo + Len(filled))
       /\ filled \in Seq(Entries) /\ still \in Seq(1 .. Segments)
       /\ Len(filled) \in Nat /\ Len(slid) <= Len(filled)
       /\ Len(filled) + Len(still) = Len(slid) + Len(waitingForSending)
  <2>1. filled \in Seq(Entries) /\ still \in Seq(1 .. Segments)
    BY <1>1, <1>6, FilledType
  <2>2. Len(slid) \in 0 .. Len(slid) /\ Follows(waitingForSending, lo + Len(slid))
    BY <1>1, <1>9
  <2> HIDE DEF lo
  <2>3. Consecutive(filled, lo, Len(slid)) /\ Follows(still, lo + Len(filled))
    BY <1>1, <1>6, <1>8, <1>9, <2>2, FilledConsecutive
  <2>4. /\ Len(slid) \in Nat /\ Room(slid, waitingForSending) \in Nat
        /\ Len(filled) = Len(slid) + Room(slid, waitingForSending)
        /\ Len(filled) + Len(still) = Len(slid) + Len(waitingForSending)
    BY <1>1, <1>6, FilledLengths
  <2>5. Len(filled) \in Nat /\ Len(slid) <= Len(filled)
    BY <2>4
  <2>6. QED BY <2>1, <2>3, <2>4, <2>5
<1> HIDE DEF filled, still
<1>11. kept = filled
  <2> DEFINE all == {e \in ToSet(filled) : Covers(packet.sack, e) = 0}
  <2>1. \A j \in 1 .. Len(filled) : filled[j] \in ToSet(filled)
    <3>1. DOMAIN filled = 1 .. Len(filled)
      BY <1>10
    <3>2. QED BY <3>1 DEF ToSet
  <2>2. \A j \in 1 .. Len(filled) : filled[j] \in all
    BY <1>3, <2>1, CoversNothing
  <2> HIDE DEF all
  <2>3. Only(filled, all) = filled
    BY <1>10, <2>2, OnlyAll
  <2>4. QED BY <2>3 DEF all
<1> HIDE DEF kept
<1>12. SendWindow(filled, still) /\ UNCHANGED crashed
  <2>1. \A j : Covers(packet.sack, filled[j]) = 0
    BY <1>3, CoversNothing
  <2>2. ~\E j \in DOMAIN filled : Covers(packet.sack, filled[j]) > 1
    BY <2>1
  <2>3. QED BY <1>4, <1>11, <2>2
<1>13. OrderlyAcks'
  <2>1. \A j \in 1 .. Len(ackCable) : ackCable[j].sack = <<>> /\ ackCable[j].ack <= receiver.ack
    BY DEF OrderlyInv, OrderlyAcks
  <2>2. /\ Len(ackCable') = Len(ackCable) - 1
        /\ \A j \in 1 .. (Len(ackCable) - 1) :
              ackCable'[j] = IF j < i THEN ackCable[j] ELSE ackCable[j + 1]
    BY <1>1, <1>2, <1>4, RemovePlaces
  <2>3. \A j \in 1 .. (Len(ackCable) - 1) : j \in 1 .. Len(ackCable) /\ j + 1 \in 1 .. Len(ackCable)
    BY <1>1
  <2>4. \A j \in 1 .. Len(ackCable') : ackCable'[j].sack = <<>> /\ ackCable'[j].ack <= receiver.ack
    BY <2>1, <2>2, <2>3
  <2>5. receiver' = receiver
    BY <1>4
  <2>6. QED BY <2>4, <2>5 DEF OrderlyAcks
<1>14. sequenceNumber = (lo + Len(filled)) + Len(still) /\ Len(slid) \in 0 .. Len(filled)
  <2>1. sequenceNumber = (lo + Len(slid)) + Len(waitingForSending)
    BY <1>1, <1>9
  <2>2. Len(still) \in Nat
    BY <1>10
  <2> HIDE DEF lo
  <2>3. (lo + Len(filled)) + Len(still) = (lo + Len(slid)) + Len(waitingForSending)
    <3>1. Len(filled) + Len(still) = Len(slid) + Len(waitingForSending)
      BY <1>10
    <3>2. /\ lo \in Nat /\ Len(filled) \in Nat /\ Len(still) \in Nat
          /\ Len(slid) \in Nat /\ Len(waitingForSending) \in Nat
      BY <1>1, <1>9, <1>10, <2>2
    <3>3. QED BY <3>1, <3>2
  <2>4. Len(slid) \in 0 .. Len(filled)
    BY <1>9, <1>10
  <2>5. QED BY <2>1, <2>3, <2>4
<1>15. Len(filled) <= WindowSize
  <2>1. Len(window) <= WindowSize
    BY DEF OrderlyInv
  <2>2. Len(slid) <= WindowSize
    BY <1>1, <1>6, <2>1, WindowAssumption
  <2>3. Len(slid) \in Nat /\ Len(waitingForSending) \in Nat
    BY <1>1, <1>9
  <2>4. Len(filled) = Len(slid) + Room(slid, waitingForSending)
    BY <1>1, <1>6, FilledLengths DEF filled
  <2>5. QED BY <2>2, <2>3, <2>4, WindowAssumption DEF Room
<1> HIDE DEF lo
<1>16. QED BY <1>4, <1>7, <1>9, <1>10, <1>12, <1>13, <1>14, <1>15, SendsOrderly

\* With an empty window the segment the receiver asks for goes through it at
\* once, and an old one leaves nothing.
LEMMA EmptyWindowReceives ==
  ASSUME NEW r, r \in Receivers, r.window = <<>>, r.sack = <<>>,
         NEW n \in 1 .. Segments, n <= r.ack
  PROVE  LET added == AddPacket(r, n)
             acked == Acknowledge(added, n)
             ack   == IF n = r.ack THEN n + 1 ELSE r.ack
         IN  /\ ~AcknowledgeFails(added, n)
             /\ acked.ack = ack /\ acked.sack = <<>>
             /\ InOrderPart(acked) = IF n = r.ack THEN <<n>> ELSE <<>>
             /\ RemoveInOrder(acked).window = <<>> /\ RemoveInOrder(acked).sack = <<>>
             /\ RemoveInOrder(acked).ack = ack
<1> DEFINE added == AddPacket(r, n)
           acked == Acknowledge(added, n)
<1>1. r.ack \in Nat /\ n \in Nat
  BY ReceiverTypes, Numbers
<1>2. \A s : Only(<<>>, s) = <<>>
  <2> TAKE s
  <2>1. <<>> \in Seq({0}) /\ \A i \in 1 .. Len(<<>>) : <<>>[i] \notin s
    OBVIOUS
  <2>2. QED BY <2>1, OnlyNone
<1>3. CASE n < r.ack
  <2>1. added = r
    BY <1>1, <1>3 DEF AddPacket, Acks
  <2>2. acked = r
    BY <1>1, <1>3, <2>1 DEF Acknowledge
  <2>3. ~AcknowledgeFails(added, n)
    BY <1>1, <1>3, <2>1 DEF AcknowledgeFails
  <2>4. InOrderPart(r) = <<>>
    BY <1>2 DEF InOrderPart
  <2>5. RemoveInOrder(r) = [r EXCEPT !.window = <<>>]
    BY <1>2 DEF RemoveInOrder
  <2>6. RemoveInOrder(r).window = <<>> /\ RemoveInOrder(r).sack = r.sack /\ RemoveInOrder(r).ack = r.ack
    BY <2>5 DEF Receivers
  <2> HIDE DEF added, acked
  <2>7. n # r.ack
    BY <1>1, <1>3
  <2>8. QED BY <2>2, <2>3, <2>4, <2>6, <2>7 DEF added, acked
<1>4. CASE n = r.ack
  <2> DEFINE w == InsortSegment(<<>>, n)
  <2>1. w = <<n>>
    <3>1. Cardinality({i \in DOMAIN <<>> : <<>>[i] <= n}) = 0
      <4>1. {i \in DOMAIN <<>> : <<>>[i] <= n} = {}
        OBVIOUS
      <4>2. QED BY <4>1, FS_EmptySet
    <3>2. w = InsertAt(<<>>, 0 + 1, n)
      <4>1. w = InsertAt(<<>>, Cardinality({i \in DOMAIN <<>> : <<>>[i] <= n}) + 1, n)
        BY Zenon DEF InsortSegment
      <4>2. QED BY <3>1, <4>1, Zenon
    <3> DEFINE x == InsertAt(<<>>, 0 + 1, n)
    <3>3. x \in Seq({n}) /\ HasInserted(x, <<>>, 0, n)
      <4>1. <<>> \in Seq({n}) /\ 0 \in 0 .. Len(<<>>)
        OBVIOUS
      <4>2. QED BY <4>1, InsertPlaces
    <3> HIDE DEF x
    <3>4. Len(x) = 1 /\ x[1] = n
      BY <3>3 DEF HasInserted
    <3>5. x = <<n>>
      BY <3>3, <3>4
    <3>6. QED BY <3>2, <3>5 DEF x
  <2>2. added = [r EXCEPT !.window = <<n>>]
    <3>1. ~Acks(r.ack, n)
      BY <1>1, <1>4 DEF Acks
    <3>2. added = [r EXCEPT !.window = w]
      BY <3>1 DEF AddPacket
    <3> HIDE DEF w, added
    <3>3. QED BY <2>1, <3>2
  <2>3. added \in Receivers /\ added.window = <<n>> /\ added.sack = <<>> /\ added.ack = r.ack
    <3>1. <<n>> \in Seq(1 .. Segments)
      OBVIOUS
    <3> HIDE DEF added
    <3>2. added \in Receivers
      BY <2>2, <3>1, ReceiverTypes
    <3>3. QED BY <2>2, <3>2 DEF Receivers
  <2> HIDE DEF added, w
  <2>4. acked = [added EXCEPT !.ack = n + 1]
    BY <1>4, <2>3 DEF Acknowledge
  <2>5. ~AcknowledgeFails(added, n)
    BY <1>1, <1>4, <2>3 DEF AcknowledgeFails
  <2>6. acked.window = <<n>> /\ acked.sack = <<>> /\ acked.ack = n + 1
    BY <2>3, <2>4 DEF Receivers
  <2>7. acked \in Receivers
    BY <2>3, <2>4, Numbers, ReceiverTypes
  <2> HIDE DEF acked
  <2>8. <<n>> \in Seq({n}) /\ Len(<<n>>) = 1 /\ \A i \in 1 .. Len(<<n>>) : <<n>>[i] = n
    OBVIOUS
  <2>9. Acknowledged(acked) = {n} /\ ToSet(acked.window) = {n}
    <3>1. ToSet(<<n>>) = {n}
      BY DEF ToSet
    <3>2. Acks(n + 1, n)
      BY <1>1 DEF Acks
    <3>3. QED BY <2>6, <3>1, <3>2 DEF Acknowledged
  <2>10. InOrderPart(acked) = <<n>>
    <3>1. Only(<<n>>, {n}) = <<n>>
      BY <2>8, OnlyAll
    <3>2. QED BY <2>6, <2>9, <3>1 DEF InOrderPart
  <2>11. RemoveInOrder(acked) = [acked EXCEPT !.window = <<>>]
    <3>1. \A i \in 1 .. Len(<<n>>) : <<n>>[i] \notin {}
      OBVIOUS
    <3>2. Only(<<n>>, {}) = <<>>
      BY <2>8, <3>1, OnlyNone
    <3>3. {n} \ {n} = {}
      OBVIOUS
    <3>4. QED BY <2>6, <2>9, <3>2, <3>3 DEF RemoveInOrder
  <2>12. /\ RemoveInOrder(acked).window = <<>> /\ RemoveInOrder(acked).sack = <<>>
         /\ RemoveInOrder(acked).ack = n + 1
    BY <2>6, <2>7, <2>11 DEF Receivers
  <2>13. QED BY <1>4, <2>5, <2>6, <2>10, <2>12 DEF added, acked
<1>5. QED BY <1>1, <1>3, <1>4

LEMMA ReceiveDataOrderly ==
  ASSUME Orderly, OrderlyInv, TypeOK', NEW i \in DOMAIN dataCable, ReceiveData(i)
  PROVE  /\ OrderlyInv'
         /\ \/ received' = received
            \/ /\ received' = [j \in 1 .. receiver.ack |-> j]
               /\ receiver.ack < FirstWaiting
         /\ UNCHANGED sequenceNumber
<1> DEFINE n     == dataCable[i]
           added == AddPacket(receiver, n)
           acked == Acknowledge(added, n)
           a     == receiver.ack
           b     == IF n = a THEN n + 1 ELSE a
<1>1. /\ dataCable \in Seq(1 .. Segments) /\ receiver \in Receivers /\ a \in Nat
      /\ ackCable \in Seq(AckPackets) /\ Len(ackCable) \in Nat /\ FirstWaiting \in Nat
      /\ receiver.window = <<>> /\ receiver.sack = <<>>
      /\ received = [j \in 1 .. a - 1 |-> j]
      /\ SentBelow(dataCable, FirstWaiting)
      /\ Reliable => DataFits(dataCable, FirstWaiting, a)
      /\ Lowest \in 1 .. a /\ a <= FirstWaiting
  BY OrderlyTypes DEF OrderlyInv, OrderlyReceiver, OrderlySender
<1>2. i \in 1 .. Len(dataCable) /\ (Reliable => i = 1)
  BY <1>1 DEF Reliable, ReceiveData, Arrives
<1>3. n \in 1 .. Segments /\ n \in Nat /\ n < FirstWaiting
  <2>1. n \in 1 .. Segments
    BY <1>1, <1>2, ElementOfSeq
  <2>2. QED BY <1>1, <1>2, <2>1, Numbers DEF SentBelow
<1>4. /\ n <= a
      /\ SentBelow(RemoveAt(dataCable, i), FirstWaiting)
      /\ Reliable => DataFits(RemoveAt(dataCable, i), FirstWaiting, b)
  <2>1. SentBelow(RemoveAt(dataCable, i), FirstWaiting)
    BY <1>1, <1>2, RemoveBelow
  <2>2. CASE Reliable
    BY <1>1, <1>2, <2>1, <2>2, HeadFits
  <2>3. CASE ~Reliable
    <3>1. Len(window) <= 1 /\ Len(window) \in Nat /\ FirstWaiting = Lowest + Len(window)
      BY <2>3, OrderlyTypes DEF Orderly, OrderlyInv
    <3>2. n <= a
      BY <1>1, <1>3, <3>1
    <3>3. QED BY <2>1, <2>3, <3>2
  <2>4. QED BY <2>2, <2>3
<1>5. /\ ~AcknowledgeFails(added, n)
      /\ acked.ack = b /\ acked.sack = <<>>
      /\ InOrderPart(acked) = IF n = a THEN <<n>> ELSE <<>>
      /\ RemoveInOrder(acked).window = <<>> /\ RemoveInOrder(acked).sack = <<>>
      /\ RemoveInOrder(acked).ack = b
  BY <1>1, <1>3, <1>4, EmptyWindowReceives
<1>6. /\ ackCable' = Append(ackCable, [ack |-> acked.ack, sack |-> acked.sack])
      /\ received' = received \o InOrderPart(acked)
      /\ receiver' = RemoveInOrder(acked)
      /\ crashed' = crashed
      /\ dataCable' = RemoveAt(dataCable, i)
      /\ UNCHANGED <<sequenceNumber, waitingForSending, window>>
  BY <1>5 DEF ReceiveData, senderVars
<1> HIDE DEF acked, added, n
<1>7. b \in Nat /\ a <= b /\ b <= FirstWaiting /\ (b = a \/ (n = a /\ b = a + 1))
  BY <1>1, <1>3
<1>8. ASSUME n # a
      PROVE  received' = received /\ received' = [j \in 1 .. b - 1 |-> j]
  <2>1. b = a
    BY <1>8
  <2>2. received' = received
    <3>1. received' = received \o <<>>
      BY <1>5, <1>6, <1>8
    <3>2. received \in Seq(1 .. Segments)
      BY Types DEF OrderlyInv
    <3>3. QED BY <3>1, <3>2
  <2>3. received' = [j \in 1 .. b - 1 |-> j]
    BY <1>1, <2>1, <2>2
  <2>4. QED BY <2>2, <2>3
<1>9. ASSUME n = a
      PROVE  /\ received' = [j \in 1 .. a |-> j] /\ received' = [j \in 1 .. b - 1 |-> j]
             /\ a < FirstWaiting
  <2>1. b = a + 1 /\ a + 1 - 1 = a /\ 1 <= a
    BY <1>1, <1>9
  <2>2. received' = received \o <<a>>
    BY <1>5, <1>6, <1>9
  <2>3. received \in Seq(Nat) /\ Len(received) = a - 1 /\ \A j \in 1 .. a - 1 : received[j] = j
    <3>1. received \in [1 .. a - 1 -> Nat] /\ a - 1 \in Nat
      BY <1>1, <2>1
    <3>2. QED BY <1>1, <3>1, FunctionIsSequence
  <2>4. /\ received' \in Seq(Nat) /\ Len(received') = a
        /\ \A j \in 1 .. a : received'[j] = j
    <3>1. /\ received \o <<a>> \in Seq(Nat) /\ Len(received \o <<a>>) = (a - 1) + 1
          /\ (\A j \in 1 .. a - 1 : (received \o <<a>>)[j] = j)
          /\ (received \o <<a>>)[(a - 1) + 1] = a
      <4> DEFINE one == <<a>>
      <4>1. one \in Seq(Nat) /\ Len(one) = 1 /\ one[1] = a
        BY <1>1
      <4> HIDE DEF one, a
      <4>2. /\ received \o one \in Seq(Nat) /\ Len(received \o one) = Len(received) + Len(one)
            /\ \A j \in 1 .. Len(received) + Len(one) :
                  (received \o one)[j] = IF j <= Len(received) THEN received[j]
                                          ELSE one[j - Len(received)]
        BY <2>3, <4>1, ConcatProperties
      <4>3. a - 1 \in Nat /\ ((a - 1) + 1) - (a - 1) = 1 /\ ~((a - 1) + 1 <= a - 1)
        BY <1>1, <2>1
      <4>4. (received \o one)[(a - 1) + 1] = a
        <5> DEFINE k == (a - 1) + 1
        <5>1. k \in 1 .. Len(received) + Len(one) /\ ~(k <= Len(received)) /\ k - Len(received) = 1
          BY <2>3, <4>1, <4>3
        <5> HIDE DEF k
        <5>2. (received \o one)[k] = one[k - Len(received)]
          BY <4>2, <5>1
        <5>3. (received \o one)[k] = a
          BY <4>1, <5>1, <5>2
        <5>4. QED BY <5>3 DEF k
      <4>5. \A j \in 1 .. a - 1 : (received \o one)[j] = j
        BY <2>3, <4>1, <4>2, <4>3
      <4>6. QED BY <2>3, <4>1, <4>2, <4>4, <4>5 DEF one
    <3>2. (a - 1) + 1 = a /\ \A j \in 1 .. a : j \in 1 .. a - 1 \/ j = a
      BY <1>1
    <3>3. QED BY <2>2, <3>1, <3>2
  <2>5. received' = [j \in 1 .. a |-> j]
    <3>1. received' = [j \in 1 .. Len(received') |-> received'[j]]
      BY <2>4
    <3>2. QED BY <2>4, <3>1
  <2>6. received' = [j \in 1 .. b - 1 |-> j]
    <3>1. b - 1 = a
      BY <1>1, <2>1
    <3>2. QED BY <2>5, <3>1
  <2>7. a < FirstWaiting
    BY <1>3, <1>9
  <2>8. QED BY <2>5, <2>6, <2>7
<1>10. received' = [j \in 1 .. b - 1 |-> j]
  BY <1>8, <1>9
<1>11. receiver'.ack = b /\ receiver'.window = <<>> /\ receiver'.sack = <<>>
  BY <1>5, <1>6
<1>12. OrderlyReceiver'
  BY <1>10, <1>11 DEF OrderlyReceiver
<1> HIDE DEF b
<1>13. OrderlyAcks'
  <2> DEFINE new == [ack |-> b, sack |-> <<>>]
  <2>1. ackCable' = Append(ackCable, new)
    BY <1>5, <1>6
  <2>2. \A j \in 1 .. Len(ackCable) : ackCable[j].sack = <<>> /\ ackCable[j].ack <= a /\ ackCable[j].ack \in Nat
    <3>1. \A j \in 1 .. Len(ackCable) : ackCable[j] \in AckPackets
      BY <1>1, ElementOfSeq
    <3>2. \A x \in AckPackets : x.ack \in Nat
      BY Numbers DEF AckPackets
    <3>3. QED BY <3>1, <3>2 DEF OrderlyInv, OrderlyAcks
  <2>3. \A j \in 1 .. Len(ackCable) : ackCable[j].sack = <<>> /\ ackCable[j].ack <= b
    BY SMTT(30), <1>1, <1>7, <2>2
  <2>4. new.sack = <<>> /\ new.ack <= b
    BY <1>7
  <2> HIDE DEF new
  <2>5. /\ Len(Append(ackCable, new)) = Len(ackCable) + 1
        /\ \A j \in 1 .. Len(ackCable) : Append(ackCable, new)[j] = ackCable[j]
        /\ Append(ackCable, new)[Len(ackCable) + 1] = new
    BY <1>1
  <2>6. \A j \in 1 .. Len(ackCable) + 1 : j \in 1 .. Len(ackCable) \/ j = Len(ackCable) + 1
    BY <1>1
  <2>7. \A j \in 1 .. Len(ackCable') : ackCable'[j].sack = <<>> /\ ackCable'[j].ack <= b
    BY <2>1, <2>3, <2>4, <2>5, <2>6
  <2>8. QED BY <1>11, <2>7 DEF OrderlyAcks
<1>14. FirstWaiting' = FirstWaiting /\ Lowest' = Lowest
  BY <1>6 DEF FirstWaiting, Lowest
<1>15. OrderlySender'
  <2>1. Lowest' \in 1 .. receiver'.ack /\ receiver'.ack <= FirstWaiting'
    BY <1>1, <1>7, <1>11, <1>14
  <2>2. QED BY <1>6, <1>14, <2>1 DEF OrderlyInv, OrderlySender
<1>16. /\ SentBelow(dataCable', FirstWaiting')
       /\ Reliable => DataFits(dataCable', FirstWaiting', receiver'.ack)
  BY <1>4, <1>6, <1>11, <1>14
<1>17. OrderlyInv'
  BY <1>6, <1>12, <1>13, <1>15, <1>16 DEF OrderlyInv, Reliable
<1>18. QED BY <1>6, <1>8, <1>9, <1>17

\* Where a step leads when nothing overtakes: to the invariant again, and to a
\* step of the stream it is to be.
LEMMA OrderlyNext ==
  ASSUME Orderly, OrderlyInv, TypeOK', [Next]_vars
  PROVE  /\ OrderlyInv'
         /\ \/ UNCHANGED <<sequenceNumber, received>>
            \/ /\ sequenceNumber <= Segments /\ sequenceNumber' = sequenceNumber + 1
               /\ received' = received
            \/ /\ received' = [j \in 1 .. receiver.ack |-> j]
               /\ receiver.ack < FirstWaiting /\ sequenceNumber' = sequenceNumber
<1>1. /\ sequenceNumber \in Nat /\ waitingForSending \in Seq(1 .. Segments)
      /\ window \in Seq(Entries) /\ receiver.ack \in Nat
      /\ Len(waitingForSending) \in Nat /\ Len(window) \in Nat
      /\ Lowest \in Nat /\ FirstWaiting \in Nat
      /\ FirstWaiting = Lowest + Len(window)
      /\ sequenceNumber = FirstWaiting + Len(waitingForSending)
      /\ Consecutive(window, Lowest, Len(window))
      /\ Follows(waitingForSending, Lowest + Len(window))
      /\ Lowest \in 1 .. receiver.ack
  BY OrderlyTypes DEF OrderlyInv, OrderlySender
<1>2. ASSUME Send
      PROVE  /\ OrderlyInv' /\ received' = received
             /\ sequenceNumber <= Segments /\ sequenceNumber' = sequenceNumber + 1
  <2>1. /\ sequenceNumber <= Segments /\ sequenceNumber' = sequenceNumber + 1
        /\ waitingForSending' = Append(waitingForSending, sequenceNumber)
        /\ UNCHANGED <<window, receiver, received, dataCable, ackCable, crashed>>
    BY <1>2 DEF Send, receiverVars
  <2>2. sequenceNumber \in 1 .. Segments
    BY <2>1, Types, SegmentsAssumption DEF OrderlyInv, Edges
  <2>3. /\ Len(waitingForSending') = Len(waitingForSending) + 1
        /\ \A j \in 1 .. Len(waitingForSending) : waitingForSending'[j] = waitingForSending[j]
        /\ waitingForSending'[Len(waitingForSending) + 1] = sequenceNumber
    BY <1>1, <2>1, <2>2, AppendProperties
  <2>4. FirstWaiting' = FirstWaiting /\ Lowest' = Lowest
    <3>1. FirstWaiting' = (sequenceNumber + 1) - (Len(waitingForSending) + 1)
      BY <2>1, <2>3 DEF FirstWaiting
    <3>2. FirstWaiting' = FirstWaiting
      BY <1>1, <3>1
    <3>3. QED BY <2>1, <3>2 DEF Lowest
  <2>5. \A j \in 1 .. Len(waitingForSending') : waitingForSending'[j] = FirstWaiting + (j - 1)
    <3>1. \A j \in 1 .. Len(waitingForSending) : waitingForSending'[j] = FirstWaiting + (j - 1)
      BY <1>1, <2>3 DEF Follows
    <3>2. sequenceNumber = FirstWaiting + ((Len(waitingForSending) + 1) - 1)
      BY <1>1
    <3>3. \A j \in 1 .. Len(waitingForSending') :
             j \in 1 .. Len(waitingForSending) \/ j = Len(waitingForSending) + 1
      BY <1>1, <2>3
    <3>4. QED BY <2>3, <3>1, <3>2, <3>3
  <2>6. OrderlySender'
    BY <2>1, <2>4, <2>5 DEF OrderlyInv, OrderlySender
  <2>7. OrderlyReceiver' /\ OrderlyAcks'
    BY <2>1 DEF OrderlyInv, OrderlyReceiver, OrderlyAcks
  <2>8. /\ SentBelow(dataCable', FirstWaiting') /\ Len(window') <= WindowSize /\ ~crashed'
        /\ Reliable => DataFits(dataCable', FirstWaiting', receiver'.ack)
    BY <2>1, <2>4 DEF OrderlyInv
  <2>9. QED BY <2>1, <2>6, <2>7, <2>8 DEF OrderlyInv, Reliable
<1>3. ASSUME SenderTick PROVE OrderlyInv' /\ UNCHANGED <<sequenceNumber, received>>
  <2>1. /\ SendWindow(window, waitingForSending)
        /\ UNCHANGED <<sequenceNumber, receiver, received, ackCable, crashed>>
    BY <1>3 DEF SenderTick, receiverVars
  <2>2. OrderlyAcks'
    BY <2>1 DEF OrderlyInv, OrderlyAcks
  <2>3. Len(window) \in 0 .. Len(window) /\ Lowest + Len(window) = FirstWaiting
        /\ sequenceNumber = (Lowest + Len(window)) + Len(waitingForSending)
        /\ Len(window) <= WindowSize
    BY <1>1 DEF OrderlyInv
  <2>4. OrderlyInv'
    BY <1>1, <2>1, <2>2, <2>3, SendsOrderly
  <2>5. QED BY <2>1, <2>4
<1>4. ASSUME NEW i \in DOMAIN ackCable, ReceiveAck(i)
      PROVE  OrderlyInv' /\ UNCHANGED <<sequenceNumber, received>>
  <2>1. OrderlyInv'
    BY <1>4, ReceiveAckOrderly
  <2>2. UNCHANGED <<sequenceNumber, received>>
    BY <1>4 DEF ReceiveAck, receiverVars
  <2>3. QED BY <2>1, <2>2
<1>5. ASSUME NEW i \in DOMAIN dataCable, ReceiveData(i)
      PROVE  /\ OrderlyInv'
             /\ \/ received' = received
                \/ /\ received' = [j \in 1 .. receiver.ack |-> j]
                   /\ receiver.ack < FirstWaiting
             /\ UNCHANGED sequenceNumber
  BY <1>5, ReceiveDataOrderly
<1>6. ASSUME Lose PROVE OrderlyInv' /\ UNCHANGED <<sequenceNumber, received>>
  <2>1. /\ ~Reliable
        /\ UNCHANGED <<sequenceNumber, waitingForSending, window, receiver, received, crashed>>
    BY <1>6 DEF Reliable, Lose, LoseData, LoseAck, senderVars, receiverVars
  <2>2. FirstWaiting' = FirstWaiting /\ Lowest' = Lowest
    BY <2>1 DEF FirstWaiting, Lowest
  <2>3. OrderlyReceiver' /\ OrderlySender'
    BY <2>1, <2>2 DEF OrderlyInv, OrderlyReceiver, OrderlySender
  <2>4. OrderlyAcks'
    <3>1. CASE ackCable' = ackCable
      BY <2>1, <3>1 DEF OrderlyInv, OrderlyAcks
    <3>2. ASSUME NEW i \in DOMAIN ackCable, ackCable' = RemoveAt(ackCable, i)
          PROVE  OrderlyAcks'
      <4>1. i \in 1 .. Len(ackCable) /\ Len(ackCable) \in Nat /\ ackCable \in Seq(AckPackets)
        BY OrderlyTypes
      <4>2. /\ Len(ackCable') = Len(ackCable) - 1
            /\ \A j \in 1 .. (Len(ackCable) - 1) :
                  ackCable'[j] = IF j < i THEN ackCable[j] ELSE ackCable[j + 1]
        BY <3>2, <4>1, RemovePlaces
      <4>3. \A j \in 1 .. (Len(ackCable) - 1) : j \in 1 .. Len(ackCable) /\ j + 1 \in 1 .. Len(ackCable)
        BY <4>1
      <4>4. QED BY <2>1, <4>2, <4>3 DEF OrderlyInv, OrderlyAcks
    <3>3. QED BY <1>6, <3>1, <3>2 DEF Lose, LoseData, LoseAck
  <2>5. SentBelow(dataCable', FirstWaiting')
    <3>1. CASE dataCable' = dataCable
      BY <2>2, <3>1 DEF OrderlyInv
    <3>2. ASSUME NEW i \in DOMAIN dataCable, dataCable' = RemoveAt(dataCable, i)
          PROVE  SentBelow(dataCable', FirstWaiting')
      <4>1. i \in 1 .. Len(dataCable) /\ dataCable \in Seq(1 .. Segments)
        BY OrderlyTypes
      <4>2. SentBelow(dataCable, FirstWaiting)
        BY DEF OrderlyInv
      <4>3. QED BY <2>2, <3>2, <4>1, <4>2, RemoveBelow
    <3>3. QED BY <1>6, <3>1, <3>2 DEF Lose, LoseData, LoseAck
  <2>6. QED BY <2>1, <2>3, <2>4, <2>5 DEF OrderlyInv, Reliable
<1>7. ASSUME UNCHANGED vars PROVE OrderlyInv' /\ UNCHANGED <<sequenceNumber, received>>
  <2>1. UNCHANGED <<sequenceNumber, waitingForSending, window, receiver, received, dataCable, ackCable, crashed>>
    BY <1>7 DEF vars, senderVars, receiverVars
  <2>2. FirstWaiting' = FirstWaiting /\ Lowest' = Lowest
    BY <2>1 DEF FirstWaiting, Lowest
  <2>3. OrderlyReceiver' /\ OrderlyAcks' /\ OrderlySender'
    BY <2>1, <2>2 DEF OrderlyInv, OrderlyReceiver, OrderlyAcks, OrderlySender
  <2>4. QED BY <2>1, <2>2, <2>3 DEF OrderlyInv, Reliable
<1>8. QED BY <1>2, <1>3, <1>4, <1>5, <1>6, <1>7 DEF Next

LEMMA OrderlyInvariant == Orderly /\ Spec => []OrderlyInv
<1>1. Init => OrderlyInv
  BY OrderlyInit
<1>2. Orderly /\ OrderlyInv /\ TypeOK' /\ [Next]_vars => OrderlyInv'
  BY OrderlyNext
<1>3. Spec => []TypeOK
  BY TransferTypes
<1>4. CASE Orderly
  <2>1. OrderlyInv /\ TypeOK' /\ [Next]_vars => OrderlyInv'
    BY <1>2, <1>4
  <2>2. QED BY <1>1, <1>3, <2>1, PTL DEF Spec
<1>5. QED BY <1>4

\* When nothing overtakes (on a cable that keeps the order and loses nothing, or
\* with one segment at a time on any cable), acknowledged means delivered: a
\* segment that is not held for another try has been read.
THEOREM ReleasedOnlyWhenRead == Orderly /\ Spec => []ReleasedWasRead
<1>1. OrderlyInv => ReleasedWasRead
  <2> SUFFICES ASSUME OrderlyInv, NEW m \in 1 .. sequenceNumber - 1
               PROVE  m \in Held \cup ToSet(received)
    BY DEF ReleasedWasRead, Sent
  <2>1. /\ sequenceNumber \in Nat /\ waitingForSending \in Seq(1 .. Segments)
        /\ window \in Seq(Entries) /\ receiver.ack \in Nat
        /\ Len(waitingForSending) \in Nat /\ Len(window) \in Nat
        /\ Lowest \in Nat /\ FirstWaiting \in Nat
        /\ FirstWaiting = Lowest + Len(window)
        /\ sequenceNumber = FirstWaiting + Len(waitingForSending)
        /\ Lowest <= receiver.ack
        /\ received = [j \in 1 .. receiver.ack - 1 |-> j]
    BY OrderlyTypes DEF OrderlyInv, OrderlySender, OrderlyReceiver
  <2>2. CASE m < receiver.ack
    <3>1. m \in 1 .. receiver.ack - 1
      BY <2>1, <2>2
    <3>2. m \in DOMAIN received /\ received[m] = m
      BY <2>1, <3>1
    <3>3. QED BY <3>2 DEF ToSet
  <2>3. CASE receiver.ack <= m /\ m < FirstWaiting
    <3> DEFINE i == (m - Lowest) + 1
    <3>1. i \in 1 .. Len(window) /\ Lowest + (i - 1) = m
      BY <2>1, <2>3
    <3> HIDE DEF i
    <3>2. window[i].seq = m /\ window[i] \in ToSet(window)
      <4>1. i \in DOMAIN window
        BY <2>1, <3>1
      <4>2. QED BY <3>1, <4>1 DEF ToSet, OrderlyInv, OrderlySender
    <3>3. QED BY <3>2 DEF Held
  <2>4. CASE FirstWaiting <= m
    <3> DEFINE i == (m - FirstWaiting) + 1
    <3>1. i \in 1 .. Len(waitingForSending) /\ FirstWaiting + (i - 1) = m
      BY <2>1, <2>4
    <3> HIDE DEF i
    <3>2. i \in DOMAIN waitingForSending /\ waitingForSending[i] = m
      <4>1. \A j \in 1 .. Len(waitingForSending) : waitingForSending[j] = FirstWaiting + (j - 1)
        BY ONLY OrderlyInv DEF OrderlyInv, OrderlySender
      <4>2. DOMAIN waitingForSending = 1 .. Len(waitingForSending)
        BY <2>1
      <4>3. QED BY ONLY <3>1, <4>1, <4>2
    <3>3. QED BY <3>2 DEF Held, ToSet
  <2>5. QED BY <2>1, <2>2, <2>3, <2>4
<1>2. QED BY <1>1, OrderlyInvariant, PTL

\* And no packet makes a handler raise: the indices of the loop over the SACK
\* blocks never run out, and no entry is removed twice.
THEOREM OrderlyCableNeverCrashes == Orderly /\ Spec => []NeverCrashes
<1>1. OrderlyInv => NeverCrashes
  BY DEF OrderlyInv, NeverCrashes
<1>2. QED BY <1>1, OrderlyInvariant, PTL

\* And the session implements the reliable stream: a Send is a Write, an arrival
\* that is read is a Read, and every other step, a loss too, a stutter.
THEOREM ImplementsReliableStream == Orderly /\ Spec => IsReliableStream
<1>1. Init => Stream!Init
  BY DEF Init, Stream!Init
<1>2. ASSUME Orderly, OrderlyInv, TypeOK', [Next]_vars
      PROVE  [Stream!Write \/ Stream!Read]_(Stream!streamVars)
  <2>1. \/ UNCHANGED <<sequenceNumber, received>>
        \/ /\ sequenceNumber <= Segments /\ sequenceNumber' = sequenceNumber + 1
           /\ received' = received
        \/ /\ received' = [j \in 1 .. receiver.ack |-> j]
           /\ receiver.ack < FirstWaiting /\ sequenceNumber' = sequenceNumber
    BY <1>2, OrderlyNext
  <2>2. /\ sequenceNumber \in Nat /\ receiver.ack \in Nat
        /\ Len(waitingForSending) \in Nat /\ FirstWaiting \in Nat
        /\ sequenceNumber = FirstWaiting + Len(waitingForSending)
        /\ received = [j \in 1 .. receiver.ack - 1 |-> j] /\ 1 <= receiver.ack
    BY <1>2, OrderlyTypes DEF OrderlyInv, OrderlySender, OrderlyReceiver
  <2>3. CASE UNCHANGED <<sequenceNumber, received>>
    BY <2>3 DEF Stream!streamVars
  <2>4. CASE /\ sequenceNumber <= Segments /\ sequenceNumber' = sequenceNumber + 1
             /\ received' = received
    <3>1. /\ sequenceNumber - 1 < Segments
          /\ sequenceNumber' - 1 = (sequenceNumber - 1) + 1
      BY <2>2, <2>4, SegmentsAssumption
    <3>2. QED BY <2>4, <3>1 DEF Stream!Write
  <2>5. CASE /\ received' = [j \in 1 .. receiver.ack |-> j]
             /\ receiver.ack < FirstWaiting /\ sequenceNumber' = sequenceNumber
    <3>1. Len(received) = receiver.ack - 1
      <4>1. received \in [1 .. receiver.ack - 1 -> Nat] /\ receiver.ack - 1 \in Nat
        BY <2>2
      <4>2. QED BY <4>1, FunctionIsSequence
    <3>2. receiver.ack \in Len(received) + 1 .. sequenceNumber - 1
      BY <2>2, <2>5, <3>1
    <3>3. QED BY <2>5, <3>2 DEF Stream!Read
  <2>6. QED BY <2>1, <2>3, <2>4, <2>5
<1>3. CASE Orderly
  <2>1. OrderlyInv /\ TypeOK' /\ [Next]_vars => [Stream!Write \/ Stream!Read]_(Stream!streamVars)
    BY <1>2, <1>3
  <2>2. QED BY <1>1, <1>3, <2>1, OrderlyInvariant, TransferTypes, PTL DEF Spec, IsReliableStream, Stream!Spec
<1>4. QED BY <1>3

=============================================================================
