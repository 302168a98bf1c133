--------------------------- MODULE TcpSessionProofs ---------------------------
(***************************************************************************)
(* Proofs about the TCP sessions, for any clients and sockets, however     *)
(* often the port is opened and closed, and whatever is lost.              *)
(***************************************************************************)
EXTENDS TcpSession, SequenceLemmas, TLAPS

-----------------------------------------------------------------------------
(* The inductive invariant. *)

(* A sequence of packets with these flags. *)
Packets(q, flags) == q \in Seq(ToSet(q)) /\ \A p \in ToSet(q) : p.flags \in flags

Syn == Segment("SYN", 0, NewEndpoint)
IsSynAck(p) == p.flags = "SYNACK" /\ p.seq = 0 /\ p.ack = 1

EndpointFields ==
  {"pc", "peer", "seq", "r", "window", "toSend", "received", "thrown", "connected", "closing",
   "closed", "registered", "app", "got", "resent", "out", "failed"}
IsEndpoint(e) == e = [f \in EndpointFields |-> e[f]]

(* A client that waits for the answer to its SYN, and one that had it.     *)
SaysHello(e) ==
  /\ IsEndpoint(e) /\ e.pc = "hello" /\ e.app = "connecting" /\ e.window = <<Syn>> /\ e.toSend = 0
  /\ e.registered = TRUE /\ e.connected = FALSE /\ e.closing = FALSE /\ e.closed = FALSE /\ e.failed = FALSE

WasAnswered(e) ==
  /\ IsEndpoint(e) /\ e.pc \in {"open", "goodbye", "ended", "reset"}
  /\ e.app \in {"waits", "reads", "finishing", "done", "refused"}
  /\ e.failed = FALSE /\ e.toSend \in Nat
  /\ e.pc \in {"open", "goodbye"} => Packets(e.window, {"PSH", "FINACK"})

(* A socket of the server that waits for a SYN, for the ACK of its own, and *)
(* one that had it; and one that was reset before.                         *)
WaitsForSyn(e) ==
  e.registered \in BOOLEAN /\ e = [NewEndpoint EXCEPT !.pc = "listen", !.registered = e.registered]

WaitsForAck(e) ==
  /\ IsEndpoint(e) /\ e.pc = "accepting" /\ e.peer \in Clients /\ e.app = "none" /\ e.toSend = 0
  /\ e.window = <<e.window[1]>> /\ IsSynAck(e.window[1])
  /\ e.registered \in BOOLEAN
  /\ e.connected = FALSE /\ e.closing = FALSE /\ e.closed = FALSE /\ e.failed = FALSE

(* While its session process is not done, a socket says no good bye: it is *)
(* open, or a RST has ended it.                                            *)
InUse(e) ==
  e.app # "done" => \/ e.pc = "open" /\ e.closing = FALSE /\ Packets(e.window, {"PSH"})
                    \/ e.pc = "reset"

HasSession(e) ==
  /\ IsEndpoint(e) /\ e.pc \in {"open", "fin", "stuck", "ended", "reset"} /\ e.peer \in Clients
  /\ e.app \in {"waits", "sends", "done"} /\ e.connected = TRUE /\ e.failed = FALSE
  /\ e.registered \in BOOLEAN /\ e.toSend \in Nat /\ Packets(e.window, {"PSH", "FIN"})
  /\ InUse(e)

WasReset(e) ==
  /\ IsEndpoint(e) /\ e.pc = "reset" /\ e.peer \in Clients /\ e.app = "none"
  /\ e.connected = FALSE /\ e.failed = FALSE

SocketState(e) ==
  \/ e = NewEndpoint \/ WaitsForSyn(e) \/ WaitsForAck(e) \/ HasSession(e) \/ WasReset(e)

(* What is on the cables between a client and the server: a SYN, and then  *)
(* what answers it, before the client has sent anything else.              *)
BeforeHello(ends, c, up, down) ==
  ends[c] = NewEndpoint /\ up = <<>> /\ down = <<>> /\ \A s \in Sockets : ends[s].peer # c

DuringHello(ends, c, up, down) ==
  /\ SaysHello(ends[c])
  /\ up \in {<<>>, <<Syn>>} /\ (up = <<>> \/ down = <<>>)
  /\ Packets(down, {"SYNACK", "RST"}) /\ \A p \in ToSet(down) : p.flags = "SYNACK" => IsSynAck(p)
  /\ \A s \in Sockets : ends[s].peer = c => WaitsForAck(ends[s])

AfterHello(ends, c, up, down) ==
  /\ WasAnswered(ends[c])
  /\ Packets(up, {"ACK", "PSH", "FINACK", "RST"})
  /\ Packets(down, {"SYNACK", "ACK", "PSH", "FIN", "RST"})

ClientState(ends, c, up, down) ==
  BeforeHello(ends, c, up, down) \/ DuringHello(ends, c, up, down) \/ AfterHello(ends, c, up, down)

(* Two sockets hear the same client only while it says hello, or if it     *)
(* reset both.                                                             *)
Apart(ends) ==
  \A s, t \in Sockets : s # t /\ ends[s].peer = ends[t].peer /\ ends[s].peer # Nobody =>
    \/ WaitsForAck(ends[s]) /\ WaitsForAck(ends[t])
    \/ WasReset(ends[s]) /\ WasReset(ends[t])

(* The socket that the server accepts on is the one that is registered and *)
(* waits; the others that wait were removed when the port was closed.      *)
Waiting(e) == WaitsForSyn(e) \/ WaitsForAck(e)
ListenerState(ends, l, opened) ==
  /\ l # 0 => l \in Sockets /\ opened >= 1 /\ Waiting(ends[l]) /\ ends[l].registered = TRUE
  /\ \A s \in Sockets : Waiting(ends[s]) => s = l \/ (ends[s].registered = FALSE /\ opened > 1)

(* So were the sockets of a session that are not registered.               *)
Removed(ends, opened) ==
  \A s \in Sockets : HasSession(ends[s]) => ends[s].registered = TRUE \/ opened > 1

(* The client of a registered socket that waits for its ACK, or has a      *)
(* session that is not done, has sent no RST, and has no reason to.        *)
InSession(e) == e.pc = "open" /\ e.app # "done"
Faces(e, c) == e.registered = TRUE /\ e.peer = c /\ (e.pc = "accepting" \/ InSession(e))

Attends(e, up, down) ==
  /\ e.pc \in {"hello", "open"} /\ e.registered = TRUE /\ e.closing = FALSE /\ e.closed = FALSE
  /\ \A p \in ToSet(up) : p.flags # "RST"
  /\ \A p \in ToSet(down) : p.flags \notin {"RST", "FIN"}

Attended(ends, up, down) ==
  \A c \in Clients : \A s \in Sockets : Faces(ends[s], c) => Attends(ends[c], up[c], down[c])

Sessions(ends, up, down, l, opened) ==
  /\ ends = [x \in Endpoints |-> ends[x]] /\ \A x \in Endpoints : ends[x].out = <<>>
  /\ up = [c \in Clients |-> up[c]] /\ down = [c \in Clients |-> down[c]]
  /\ \A c \in Clients : ClientState(ends, c, up[c], down[c])
  /\ \A s \in Sockets : SocketState(ends[s])
  /\ Apart(ends)
  /\ ListenerState(ends, l, opened) /\ opened \in Nat
  /\ Removed(ends, opened) /\ Attended(ends, up, down)

IInv ==
  /\ crashed \in BOOLEAN
  /\ crashed = FALSE => Sessions(end, toServer, toClient, listener, toggles)
  /\ CrashesOnlyWhenClosed

-----------------------------------------------------------------------------
(* Sequences of packets. *)

(* The empty sequence. *)
LEMMA NoPackets ==
  ASSUME NEW F
  PROVE  Packets(<<>>, F) /\ ToSet(<<>>) = {}
BY DEF Packets, ToSet

(* A sequence of one element. *)
LEMMA OneOfIt ==
  ASSUME NEW p
  PROVE  <<p>> \in Seq({p}) /\ ToSet(<<p>>) = {p}
<1>1. <<p>> \in Seq({p})
  OBVIOUS
<1>2. ToSet(<<p>>) = {p}
  <2>1. ToSet(<<p>>) \subseteq {p}
    BY <1>1, ElementsByPlace
  <2>2. p \in ToSet(<<p>>)
    <3>1. 1 \in 1 .. Len(<<p>>) /\ <<p>>[1] = p
      OBVIOUS
    <3>2. QED BY <1>1, <3>1, ElementsByPlace
  <2>3. QED BY <2>1, <2>2
<1>3. QED BY <1>1, <1>2

(* A sequence of one packet. *)
LEMMA OnePacket ==
  ASSUME NEW F, NEW p, p.flags \in F
  PROVE  Packets(<<p>>, F) /\ ToSet(<<p>>) = {p}
BY OneOfIt DEF Packets

(* Packets behind others, as `out + packets` on a cable. *)
LEMMA JoinedPackets ==
  ASSUME NEW F, NEW q, NEW r, Packets(q, F), Packets(r, F)
  PROVE  Packets(q \o r, F) /\ ToSet(q \o r) = ToSet(q) \cup ToSet(r)
<1> DEFINE S == ToSet(q) \cup ToSet(r)
<1>1. q \in Seq(ToSet(q)) /\ r \in Seq(ToSet(r))
  BY DEF Packets
<1>2. q \in Seq(S) /\ r \in Seq(S)
  <2>1. ToSet(q) \subseteq S /\ ToSet(r) \subseteq S
    OBVIOUS
  <2> HIDE DEF S
  <2>2. QED BY <1>1, <2>1, WiderSequence
<1> HIDE DEF S
<1>3. q \o r \in Seq(S) /\ ToSet(q \o r) = ToSet(q) \cup ToSet(r)
  BY <1>2, JoinedInjective
<1>4. ToSet(q \o r) = S
  BY <1>3 DEF S
<1>5. \A p \in S : p.flags \in F
  BY DEF S, Packets
<1>6. QED BY <1>3, <1>4, <1>5 DEF Packets

(* Three parts of what goes onto a cable in a tick. *)
LEMMA ThreeJoined ==
  ASSUME NEW F, NEW q, NEW r, NEW s, Packets(q, F), Packets(r, F), Packets(s, F)
  PROVE  /\ Packets(q \o r \o s, F)
         /\ \A p : p \in ToSet(q \o r \o s) <=> (p \in ToSet(q) \/ p \in ToSet(r) \/ p \in ToSet(s))
<1> DEFINE S == ToSet(q) \cup ToSet(r) \cup ToSet(s)
<1>1. q \in Seq(S) /\ r \in Seq(S) /\ s \in Seq(S)
  <2>1. q \in Seq(ToSet(q)) /\ r \in Seq(ToSet(r)) /\ s \in Seq(ToSet(s))
    BY DEF Packets
  <2>2. ToSet(q) \subseteq S /\ ToSet(r) \subseteq S /\ ToSet(s) \subseteq S
    OBVIOUS
  <2> HIDE DEF S
  <2>3. QED BY <2>1, <2>2, WiderSequence
<1> HIDE DEF S
<1>2. q \o r \in Seq(S) /\ ToSet(q \o r) = ToSet(q) \cup ToSet(r)
  BY <1>1, JoinedInjective
<1>3. PICK t : t = q \o r
  OBVIOUS
<1>4. t \o s \in Seq(S) /\ ToSet(t \o s) = ToSet(t) \cup ToSet(s)
  <2>1. t \in Seq(S) /\ s \in Seq(S)
    BY <1>1, <1>2, <1>3
  <2>2. QED BY ONLY <2>1, JoinedInjective
<1>5. Packets(t, F)
  BY <1>3, JoinedPackets
<1>6. Packets(t \o s, F)
  BY <1>5, JoinedPackets
<1>7. QED BY <1>2, <1>3, <1>4, <1>6

(* One packet more. *)
LEMMA AppendedPacket ==
  ASSUME NEW F, NEW q, NEW p, Packets(q, F), p.flags \in F
  PROVE  Packets(Append(q, p), F) /\ ToSet(Append(q, p)) = ToSet(q) \cup {p}
<1> DEFINE r == <<p>>
<1>1. Packets(r, F) /\ ToSet(r) = {p}
  BY OnePacket
<1> HIDE DEF r
<1>2. Packets(q \o r, F) /\ ToSet(q \o r) = ToSet(q) \cup {p}
  <2>1. Packets(q, F) /\ Packets(r, F)
    BY <1>1
  <2>2. Packets(q \o r, F) /\ ToSet(q \o r) = ToSet(q) \cup ToSet(r)
    BY <2>1, JoinedPackets
  <2>3. QED BY <1>1, <2>2
<1>3. Append(q, p) = q \o <<p>>
  <2>1. q \in Seq(ToSet(q) \cup {p}) /\ p \in ToSet(q) \cup {p}
    BY WiderSequence DEF Packets
  <2>2. QED BY <2>1, AppendIsConcat
<1>4. QED BY <1>2, <1>3 DEF r

(* The packet that is taken from a cable, and those that stay. *)
LEMMA FirstPacket ==
  ASSUME NEW F, NEW q, Packets(q, F), q # <<>>
  PROVE  /\ Packets(Tail(q), F) /\ ToSet(Tail(q)) \subseteq ToSet(q)
         /\ Head(q) \in ToSet(q) /\ Head(q).flags \in F
<1> DEFINE S == ToSet(q)
<1>1. q \in Seq(S) /\ \A p \in S : p.flags \in F
  BY DEF Packets
<1> HIDE DEF S
<1>2. Tail(q) \in Seq(S) /\ Head(q) \in S
  BY <1>1
<1>3. ToSet(Tail(q)) \subseteq S /\ Tail(q) \in Seq(ToSet(Tail(q)))
  BY <1>2, ElementsByPlace, OfItsElements
<1>4. QED BY <1>1, <1>2, <1>3 DEF Packets, S

(* Some of the packets, as in a window after an ACK. *)
LEMMA SelectedPackets ==
  ASSUME NEW F, NEW q, NEW S, Packets(q, F)
  PROVE  Packets(Only(q, S), F) /\ ToSet(Only(q, S)) = ToSet(q) \cap S
<1>1. q \in Seq(ToSet(q))
  BY DEF Packets
<1>2. Only(q, S) \in Seq(ToSet(q)) /\ ToSet(Only(q, S)) = ToSet(q) \cap S
  BY <1>1, OnlyElements
<1>3. Only(q, S) \in Seq(ToSet(Only(q, S)))
  BY <1>2, OfItsElements
<1>4. QED BY <1>2, <1>3 DEF Packets

(* Packets with some of the flags. *)
LEMMA WiderPackets ==
  ASSUME NEW F, NEW G, F \subseteq G, NEW q, Packets(q, F)
  PROVE  Packets(q, G)
BY DEF Packets

(* The packets that add_waiting sends in one tick. *)
LEMMA ManyPackets ==
  ASSUME NEW F, NEW n \in Nat, NEW q, q = [k \in 1 .. n |-> q[k]], \A k \in 1 .. n : q[k].flags \in F
  PROVE  Packets(q, F)
<1> DEFINE S == {q[k] : k \in 1 .. n}
<1>1. q \in [1 .. n -> S]
  OBVIOUS
<1>2. \A p \in S : p.flags \in F
  OBVIOUS
<1> HIDE DEF S
<1>3. q \in Seq(S)
  BY <1>1, FunctionIsSequence
<1>4. q \in Seq(ToSet(q)) /\ ToSet(q) \subseteq S
  BY <1>3, OfItsElements, ElementsByPlace
<1>5. QED BY <1>2, <1>4 DEF Packets

-----------------------------------------------------------------------------
(* What the operations of an endpoint change. *)

(* All but the windows and lists is as it was.                             *)
SameControl(f, e) ==
  /\ f.pc = e.pc /\ f.peer = e.peer /\ f.toSend = e.toSend /\ f.connected = e.connected
  /\ f.closing = e.closing /\ f.closed = e.closed /\ f.registered = e.registered /\ f.app = e.app
  /\ f.failed = e.failed

(* add_waiting: only the window and what is sent are other than before. *)
LEMMA AddWaitingEffect ==
  ASSUME NEW e, IsEndpoint(e), NEW flags,
         NEW f, f = AddWaiting(e, flags), NEW p, p = Segment(flags, e.seq, e)
  PROVE  /\ IsEndpoint(f) /\ SameControl(f, e)
         /\ f.window = Append(e.window, p) /\ f.out = Append(e.out, p)
<1> DEFINE W == Append(e.window, p)
           O == Append(e.out, p)
           n == e.seq + 1
<1>1. f = [e EXCEPT !.window = W, !.out = O, !.seq = n]
  BY DEF AddWaiting
<1> HIDE DEF W, O, n
<1>2. IsEndpoint(f) /\ SameControl(f, e) /\ f.window = W /\ f.out = O
  <2>1. IsEndpoint(f)
    BY <1>1, Zenon DEF IsEndpoint
  <2>2. SameControl(f, e) /\ f.window = W /\ f.out = O
    BY ONLY <1>1, IsEndpoint(e), SMT DEF IsEndpoint, EndpointFields, SameControl
  <2>3. QED BY <2>1, <2>2
<1>3. QED BY <1>2 DEF W, O

(* What the receiver remembers. *)
LEMMA ReceiverEffect ==
  ASSUME NEW e, IsEndpoint(e), NEW r, NEW f, f = [e EXCEPT !.r = r]
  PROVE  /\ IsEndpoint(f) /\ SameControl(f, e)
         /\ f.window = e.window /\ f.out = e.out /\ f.r = r /\ f.seq = e.seq
<1>1. IsEndpoint(f)
  BY Zenon DEF IsEndpoint
<1>2. SameControl(f, e) /\ f.window = e.window /\ f.out = e.out /\ f.r = r /\ f.seq = e.seq
  BY SMT DEF IsEndpoint, EndpointFields, SameControl
<1>3. QED BY <1>1, <1>2

(* Acknowledging, with an ACK, or with a FIN-ACK or SYN-ACK. *)
LEMMA SendAckEffect ==
  ASSUME NEW e, IsEndpoint(e), NEW p, NEW f, f = SendAckFor(e, p, "ACK")
  PROVE  /\ IsEndpoint(f) /\ SameControl(f, e) /\ f.window = e.window
         /\ \E a : f.out = Append(e.out, a) /\ a.flags = "ACK"
<1> DEFINE g == [e EXCEPT !.r = Acknowledge(@, p.seq)]
           a == Segment("ACK", e.seq, g)
<1>1. IsEndpoint(g) /\ SameControl(g, e) /\ g.window = e.window /\ g.out = e.out
  BY ReceiverEffect
<1>2. f = [g EXCEPT !.out = Append(@, a)] /\ a.flags = "ACK"
  BY DEF SendAckFor, Segment
<1> HIDE DEF g, a
<1>3. IsEndpoint(f)
  BY <1>1, <1>2, Zenon DEF IsEndpoint
<1>4. SameControl(f, g) /\ f.window = g.window /\ f.out = Append(g.out, a)
  BY SMTT(30), <1>1, <1>2 DEF IsEndpoint, EndpointFields, SameControl
<1>5. QED BY <1>1, <1>2, <1>3, <1>4 DEF SameControl

(* The answer to a SYN or FIN waits for its own ACK. *)
LEMMA AnswerEffect ==
  ASSUME NEW e, IsEndpoint(e), NEW p, NEW flags, flags # "ACK", NEW f, f = SendAckFor(e, p, flags)
  PROVE  /\ IsEndpoint(f) /\ SameControl(f, e)
         /\ \E a : /\ f.window = Append(e.window, a) /\ f.out = Append(e.out, a)
                   /\ a.flags = flags /\ a.seq = e.seq /\ a.ack = Acknowledge(e.r, p.seq).ack
<1> DEFINE g == [e EXCEPT !.r = Acknowledge(@, p.seq)]
           a == Segment(flags, g.seq, g)
<1>1. /\ IsEndpoint(g) /\ SameControl(g, e) /\ g.window = e.window /\ g.out = e.out
      /\ g.seq = e.seq /\ g.r = Acknowledge(e.r, p.seq)
  BY ReceiverEffect
<1>2. f = AddWaiting(g, flags)
  BY DEF SendAckFor
<1>3. a.flags = flags /\ a.seq = e.seq /\ a.ack = Acknowledge(e.r, p.seq).ack
  BY <1>1 DEF Segment
<1> HIDE DEF g
<1>4. IsEndpoint(f) /\ SameControl(f, g) /\ f.window = Append(g.window, a) /\ f.out = Append(g.out, a)
  BY <1>1, <1>2, AddWaitingEffect
<1> HIDE DEF a
<1>5. QED BY <1>1, <1>3, <1>4 DEF SameControl

(* What is left of a window. *)
Unacked(q, p) == Only(q, {w \in ToSet(q) : ~Covers(p, w.seq)})

(* What is acknowledged leaves the window, and nothing else is changed. *)
LEMMA AcknowledgeEffect ==
  ASSUME NEW e, IsEndpoint(e), NEW p, NEW f, f = AcknowledgeWithPacket(e, p)
  PROVE  /\ IsEndpoint(f) /\ SameControl(f, e) /\ f.out = e.out
         /\ f.window = Unacked(e.window, p)
<1> DEFINE W == Unacked(e.window, p)
<1>1. f = [e EXCEPT !.window = W]
  BY DEF AcknowledgeWithPacket, Unacked
<1> HIDE DEF W
<1>2. IsEndpoint(f)
  BY <1>1, Zenon DEF IsEndpoint
<1>3. SameControl(f, e) /\ f.out = e.out /\ f.window = W
  BY ONLY <1>1, IsEndpoint(e), SMT DEF IsEndpoint, EndpointFields, SameControl
<1>4. QED BY <1>2, <1>3 DEF W

(* A window of one packet. *)
LEMMA AcknowledgeOne ==
  ASSUME NEW p, NEW w, NEW W, W = Unacked(<<w>>, p)
  PROVE  W = IF Covers(p, w.seq) THEN <<>> ELSE <<w>>
<1> DEFINE q == <<w>>
           S == {v \in ToSet(q) : ~Covers(p, v.seq)}
<1>1. q \in Seq({w}) /\ ToSet(q) = {w} /\ \A i \in 1 .. Len(q) : q[i] = w
  <2>1. q \in Seq({w}) /\ ToSet(q) = {w}
    BY OneOfIt
  <2>2. QED BY <2>1
<1>2. W = Only(q, S)
  BY DEF Unacked
<1>3. CASE Covers(p, w.seq)
  <2>1. w \notin S
    BY <1>3
  <2> HIDE DEF q, S
  <2>2. Only(q, S) = <<>>
    BY <1>1, <2>1, OnlyNone
  <2>3. QED BY <1>2, <1>3, <2>2
<1>4. CASE ~Covers(p, w.seq)
  <2>1. w \in S
    BY <1>1, <1>4
  <2>2. q = <<w>>
    OBVIOUS
  <2> HIDE DEF q, S
  <2>3. Only(q, S) = q
    BY <1>1, <2>1, OnlyAll
  <2>4. QED BY <1>2, <1>4, <2>2, <2>3
<1>5. QED BY <1>3, <1>4

(* _end_session closes the socket and empties the window. *)
LEMMA EndSessionEffect ==
  ASSUME NEW e, IsEndpoint(e), NEW f, f = EndSession(e)
  PROVE  /\ IsEndpoint(f) /\ f.pc = "ended" /\ f.window = <<>> /\ f.out = e.out
         /\ f.closed = TRUE /\ f.closing = TRUE
         /\ f.peer = e.peer /\ f.toSend = e.toSend /\ f.connected = e.connected
         /\ f.registered = e.registered /\ f.app = e.app /\ f.failed = e.failed
<1> DEFINE r == NewEndpoint.r
<1>1. f = [e EXCEPT !.pc = "ended", !.window = <<>>, !.r = r, !.seq = 0, !.closed = TRUE, !.closing = TRUE]
  BY DEF EndSession
<1> HIDE DEF r
<1>2. IsEndpoint(f)
  BY <1>1, Zenon DEF IsEndpoint
<1>3. f.pc = "ended" /\ f.window = <<>> /\ f.out = e.out
  BY ONLY <1>1, IsEndpoint(e), SMT DEF IsEndpoint, EndpointFields
<1>4. f.closed = TRUE /\ f.closing = TRUE
  BY ONLY <1>1, IsEndpoint(e), SMT DEF IsEndpoint, EndpointFields
<1>5. f.peer = e.peer /\ f.toSend = e.toSend /\ f.connected = e.connected
  BY ONLY <1>1, IsEndpoint(e), SMT DEF IsEndpoint, EndpointFields
<1>6. f.registered = e.registered /\ f.app = e.app /\ f.failed = e.failed
  BY ONLY <1>1, IsEndpoint(e), SMT DEF IsEndpoint, EndpointFields
<1>7. QED BY <1>2, <1>3, <1>4, <1>5, <1>6

(* Only the program counter changes. *)
LEMMA PcEffect ==
  ASSUME NEW e, IsEndpoint(e), NEW pc, NEW f, f = [e EXCEPT !.pc = pc]
  PROVE  /\ IsEndpoint(f) /\ f.pc = pc /\ f.window = e.window /\ f.out = e.out
         /\ f.peer = e.peer /\ f.toSend = e.toSend /\ f.connected = e.connected
         /\ f.closing = e.closing /\ f.closed = e.closed /\ f.registered = e.registered
         /\ f.app = e.app /\ f.failed = e.failed
<1>1. IsEndpoint(f)
  BY Zenon DEF IsEndpoint
<1>2. /\ f.pc = pc /\ f.window = e.window /\ f.out = e.out
      /\ f.peer = e.peer /\ f.toSend = e.toSend /\ f.connected = e.connected
      /\ f.closing = e.closing /\ f.closed = e.closed /\ f.registered = e.registered
      /\ f.app = e.app /\ f.failed = e.failed
  BY SMT DEF IsEndpoint, EndpointFields
<1>3. QED BY <1>1, <1>2

(* Only the state of the usermode process changes. *)
LEMMA AppEffect ==
  ASSUME NEW e, IsEndpoint(e), NEW app, NEW f, f = [e EXCEPT !.app = app]
  PROVE  /\ IsEndpoint(f) /\ f.app = app /\ f.window = e.window /\ f.out = e.out
         /\ f.pc = e.pc /\ f.peer = e.peer /\ f.toSend = e.toSend /\ f.connected = e.connected
         /\ f.closing = e.closing /\ f.closed = e.closed /\ f.registered = e.registered
         /\ f.failed = e.failed
<1>1. IsEndpoint(f)
  BY Zenon DEF IsEndpoint
<1>2. /\ f.app = app /\ f.window = e.window /\ f.out = e.out
      /\ f.pc = e.pc /\ f.peer = e.peer /\ f.toSend = e.toSend /\ f.connected = e.connected
      /\ f.closing = e.closing /\ f.closed = e.closed /\ f.registered = e.registered
      /\ f.failed = e.failed
  BY SMT DEF IsEndpoint, EndpointFields
<1>3. QED BY <1>1, <1>2

(* The usermode process takes what it received. *)
LEMMA TakesEffect ==
  ASSUME NEW e, IsEndpoint(e), NEW f, f = Takes(e)
  PROVE  IsEndpoint(f) /\ SameControl(f, e) /\ f.window = e.window /\ f.out = e.out
<1> DEFINE got == e.got \o e.received
<1>1. f = [e EXCEPT !.got = got, !.received = <<>>]
  BY DEF Takes
<1> HIDE DEF got
<1>2. IsEndpoint(f)
  BY ONLY <1>1, IsEndpoint(e), Zenon DEF IsEndpoint
<1>3. SameControl(f, e) /\ f.window = e.window /\ f.out = e.out
  BY ONLY <1>1, IsEndpoint(e), SMT DEF IsEndpoint, EndpointFields, SameControl
<1>4. QED BY <1>2, <1>3

(* The loop sends what there is to send. *)
LEMMA AddAllEffect ==
  ASSUME NEW e, IsEndpoint(e), e.toSend \in Nat,
         NEW f, f = AddAllWaiting([e EXCEPT !.toSend = 0], e.toSend, "PSH")
  PROVE  /\ IsEndpoint(f) /\ f.toSend = 0
         /\ f.pc = e.pc /\ f.peer = e.peer /\ f.connected = e.connected /\ f.app = e.app
         /\ f.closing = e.closing /\ f.closed = e.closed /\ f.registered = e.registered
         /\ f.failed = e.failed
         /\ \E ps : Packets(ps, {"PSH"}) /\ f.window = e.window \o ps /\ f.out = e.out \o ps
<1> DEFINE g == [e EXCEPT !.toSend = 0]
           ps == [k \in 1 .. e.toSend |-> Segment("PSH", g.seq + (k - 1), g)]
           W == e.window \o ps
           O == e.out \o ps
           n == g.seq + e.toSend
<1>1. IsEndpoint(g)
  BY Zenon DEF IsEndpoint
<1>2. /\ g.toSend = 0 /\ g.window = e.window /\ g.out = e.out
      /\ g.pc = e.pc /\ g.peer = e.peer /\ g.connected = e.connected /\ g.app = e.app
      /\ g.closing = e.closing /\ g.closed = e.closed /\ g.registered = e.registered
      /\ g.failed = e.failed
  BY ONLY IsEndpoint(e), SMT DEF IsEndpoint, EndpointFields
<1>3. f = [g EXCEPT !.window = W, !.out = O, !.seq = n]
  <2>1. f = [g EXCEPT !.window = @ \o ps, !.out = @ \o ps, !.seq = @ + e.toSend]
    BY DEF AddAllWaiting
  <2> HIDE DEF g, ps
  <2>2. QED BY <1>2, <2>1
<1>4. Packets(ps, {"PSH"})
  <2>1. \A k \in 1 .. e.toSend : ps[k].flags \in {"PSH"}
    BY DEF Segment
  <2>2. ps = [k \in 1 .. e.toSend |-> ps[k]]
    OBVIOUS
  <2> HIDE DEF ps
  <2>3. QED BY <2>1, <2>2, ManyPackets
<1> HIDE DEF g, ps, W, O, n
<1>5. IsEndpoint(f)
  BY ONLY <1>1, <1>3, Zenon DEF IsEndpoint
<1>6. /\ f.toSend = g.toSend /\ f.window = W /\ f.out = O
      /\ f.pc = g.pc /\ f.peer = g.peer /\ f.connected = g.connected /\ f.app = g.app
      /\ f.closing = g.closing /\ f.closed = g.closed /\ f.registered = g.registered
      /\ f.failed = g.failed
  BY ONLY <1>1, <1>3, SMT DEF IsEndpoint, EndpointFields
<1>7. QED BY <1>2, <1>4, <1>5, <1>6 DEF W, O

GoesOn(e) == IsEndpoint(e) /\ e.toSend \in Nat /\ e.pc = "open" /\ ~(e.closing /\ IsDoneTransmitting(e))

HasGoneOn(f, e) ==
  /\ IsEndpoint(f) /\ f.toSend = 0
  /\ f.pc = e.pc /\ f.peer = e.peer /\ f.connected = e.connected /\ f.app = e.app
  /\ f.closing = e.closing /\ f.closed = e.closed /\ f.registered = e.registered
  /\ f.failed = e.failed
  /\ \E ps : Packets(ps, {"PSH"}) /\ f.window = e.window \o ps /\ f.out = e.out \o ps

(* The main loop sends all that it is given to send. *)
LEMMA LoopSends ==
  ASSUME NEW e, GoesOn(e), NEW f, f = Loop(e, TRUE)
  PROVE  HasGoneOn(f, e)
<1>1. f = AddAllWaiting([e EXCEPT !.toSend = 0], e.toSend, "PSH") /\ IsEndpoint(e) /\ e.toSend \in Nat
  BY DEF Loop, GoesOn
<1>2. /\ IsEndpoint(f) /\ f.toSend = 0
      /\ f.pc = e.pc /\ f.peer = e.peer /\ f.connected = e.connected /\ f.app = e.app
      /\ f.closing = e.closing /\ f.closed = e.closed /\ f.registered = e.registered
      /\ f.failed = e.failed
      /\ \E ps : Packets(ps, {"PSH"}) /\ f.window = e.window \o ps /\ f.out = e.out \o ps
  BY ZenonT(60), <1>1, AddAllEffect
<1>3. QED BY <1>2 DEF HasGoneOn

-----------------------------------------------------------------------------
(* A packet in the kernel. *)

(* _handle_packet for data: an ACK goes back. *)
LEMMA HandleData ==
  ASSUME NEW e, IsEndpoint(e), NEW p, p.flags = "PSH", NEW f, f = HandlePacket(e, p)
  PROVE  /\ IsEndpoint(f) /\ SameControl(f, e) /\ f.window = e.window
         /\ \E a : f.out = Append(e.out, a) /\ a.flags = "ACK"
<1> DEFINE g == [e EXCEPT !.r = AddPacket(@, p.seq)]
<1>1. f = SendAckFor(g, p, "ACK")
  BY DEF HandlePacket
<1>2. IsEndpoint(g) /\ SameControl(g, e) /\ g.window = e.window /\ g.out = e.out
  BY ReceiverEffect
<1> HIDE DEF g
<1>3. /\ IsEndpoint(f) /\ SameControl(f, g) /\ f.window = g.window
      /\ \E a : f.out = Append(g.out, a) /\ a.flags = "ACK"
  BY <1>1, <1>2, SendAckEffect
<1>4. QED BY <1>2, <1>3 DEF SameControl

(* For a SYN-ACK: an ACK goes back, and the SYN leaves the window. *)
LEMMA HandleSynAck ==
  ASSUME NEW e, IsEndpoint(e), NEW p, p.flags = "SYNACK", NEW f, f = HandlePacket(e, p)
  PROVE  /\ IsEndpoint(f) /\ SameControl(f, e)
         /\ f.window = Unacked(e.window, p)
         /\ \E a : f.out = Append(e.out, a) /\ a.flags = "ACK"
<1> DEFINE g == SendAckFor(e, p, "ACK")
<1>1. f = AcknowledgeWithPacket(g, p)
  BY DEF HandlePacket
<1>2. /\ IsEndpoint(g) /\ SameControl(g, e) /\ g.window = e.window
      /\ \E a : g.out = Append(e.out, a) /\ a.flags = "ACK"
  BY SendAckEffect
<1> HIDE DEF g
<1>3. /\ IsEndpoint(f) /\ SameControl(f, g) /\ f.out = g.out
      /\ f.window = Unacked(g.window, p)
  BY <1>1, <1>2, AcknowledgeEffect
<1>4. QED BY <1>2, <1>3 DEF SameControl

(* For an ACK: what it acknowledges leaves the window. *)
LEMMA HandleAck ==
  ASSUME NEW e, IsEndpoint(e), NEW p, p.flags \in {"ACK", "FINACK"}, NEW f, f = HandlePacket(e, p)
  PROVE  /\ IsEndpoint(f) /\ SameControl(f, e) /\ f.out = e.out
         /\ f.window = Unacked(e.window, p)
<1>1. f = AcknowledgeWithPacket(e, p)
  BY DEF HandlePacket
<1>2. QED BY <1>1, AcknowledgeEffect

(* For a RST: the socket is closed, whatever it was doing. *)
LEMMA HandleReset ==
  ASSUME NEW e, IsEndpoint(e), NEW p, p.flags = "RST", NEW f, f = HandlePacket(e, p)
  PROVE  /\ IsEndpoint(f) /\ f.pc = "reset" /\ f.closed = TRUE /\ f.closing = TRUE
         /\ f.window = e.window /\ f.out = e.out
         /\ f.peer = e.peer /\ f.toSend = e.toSend /\ f.connected = e.connected
         /\ f.registered = e.registered /\ f.app = e.app /\ f.failed = e.failed
<1>1. f = [e EXCEPT !.pc = "reset", !.closed = TRUE, !.closing = TRUE]
  BY DEF HandlePacket
<1>2. IsEndpoint(f)
  BY ONLY <1>1, IsEndpoint(e), Zenon DEF IsEndpoint
<1>3. /\ f.pc = "reset" /\ f.closed = TRUE /\ f.closing = TRUE
      /\ f.window = e.window /\ f.out = e.out
      /\ f.peer = e.peer /\ f.toSend = e.toSend /\ f.connected = e.connected
      /\ f.registered = e.registered /\ f.app = e.app /\ f.failed = e.failed
  BY ONLY <1>1, IsEndpoint(e), SMT DEF IsEndpoint, EndpointFields
<1>4. QED BY <1>2, <1>3

(* For a FIN: it is answered when the connection is open. *)
LEMMA HandleFin ==
  ASSUME NEW e, IsEndpoint(e), NEW p, p.flags = "FIN", e.pc = "open", NEW f, f = HandlePacket(e, p)
  PROVE  /\ IsEndpoint(f) /\ f.pc = "goodbye" /\ f.closed = e.closed /\ f.closing = e.closing
         /\ f.peer = e.peer /\ f.toSend = e.toSend /\ f.connected = e.connected
         /\ f.registered = e.registered /\ f.app = e.app /\ f.failed = e.failed
         /\ \E a : f.window = Append(e.window, a) /\ f.out = Append(e.out, a) /\ a.flags = "FINACK"
<1> DEFINE g == SendAckFor(e, p, "FINACK")
<1>1. f = [g EXCEPT !.pc = "goodbye"]
  BY DEF HandlePacket, InsertsFlags
<1>2. /\ IsEndpoint(g) /\ SameControl(g, e)
      /\ \E a : g.window = Append(e.window, a) /\ g.out = Append(e.out, a) /\ a.flags = "FINACK"
  <2>1. "FINACK" # "ACK"
    OBVIOUS
  <2>2. /\ IsEndpoint(g) /\ SameControl(g, e)
        /\ \E a : /\ g.window = Append(e.window, a) /\ g.out = Append(e.out, a)
                  /\ a.flags = "FINACK" /\ a.seq = e.seq /\ a.ack = Acknowledge(e.r, p.seq).ack
    BY <2>1, AnswerEffect
  <2> HIDE DEF g
  <2>3. QED BY <2>2
<1> HIDE DEF g
<1>3. /\ IsEndpoint(f) /\ f.pc = "goodbye" /\ f.window = g.window /\ f.out = g.out
      /\ f.peer = g.peer /\ f.toSend = g.toSend /\ f.connected = g.connected
      /\ f.closing = g.closing /\ f.closed = g.closed /\ f.registered = g.registered
      /\ f.app = g.app /\ f.failed = g.failed
  <2>1. IsEndpoint(g)
    BY <1>2
  <2>2. QED BY ONLY <1>1, <2>1, PcEffect
<1>4. QED BY <1>2, <1>3 DEF SameControl

(* Data comes out of the receiving window; the handshake for a FIN may be stuck. *)
LEMMA DeliverEffect ==
  ASSUME NEW e, IsEndpoint(e), NEW f, f = Deliver(e)
  PROVE  /\ IsEndpoint(f) /\ f.window = e.window /\ f.out = e.out
         /\ f.pc = e.pc \/ (e.pc = "fin" /\ f.pc = "stuck")
         /\ f.peer = e.peer /\ f.toSend = e.toSend /\ f.connected = e.connected
         /\ f.closing = e.closing /\ f.closed = e.closed /\ f.registered = e.registered
         /\ f.app = e.app /\ f.failed = e.failed
<1> DEFINE data == InOrderPart(e.r)
           g == [e EXCEPT !.r = RemoveInOrder(@)]
           received == g.received \o data
           thrown == g.thrown \/ data # <<>>
           pc == IF g.pc = "fin" /\ data # <<>> THEN "stuck" ELSE g.pc
<1>1. IsEndpoint(g) /\ SameControl(g, e) /\ g.window = e.window /\ g.out = e.out
  BY ReceiverEffect
<1>2. f = IF e.pc = "open" THEN [g EXCEPT !.received = received]
          ELSE [g EXCEPT !.thrown = thrown, !.pc = pc]
  BY DEF Deliver
<1>3. pc = g.pc \/ (g.pc = "fin" /\ pc = "stuck")
  OBVIOUS
<1> HIDE DEF data, g, received, thrown, pc
<1>4. CASE e.pc = "open"
  <2>1. f = [g EXCEPT !.received = received]
    BY <1>2, <1>4
  <2>2. IsEndpoint(f)
    BY ONLY <1>1, <2>1, Zenon DEF IsEndpoint
  <2>3. SameControl(f, g) /\ f.window = g.window /\ f.out = g.out
    BY ONLY <1>1, <2>1, SMT DEF IsEndpoint, EndpointFields, SameControl
  <2>4. QED BY <1>1, <2>2, <2>3 DEF SameControl
<1>5. CASE e.pc # "open"
  <2>1. f = [g EXCEPT !.thrown = thrown, !.pc = pc]
    BY <1>2, <1>5
  <2>2. IsEndpoint(f)
    BY ONLY <1>1, <2>1, Zenon DEF IsEndpoint
  <2>3. /\ f.pc = pc /\ f.window = g.window /\ f.out = g.out
        /\ f.peer = g.peer /\ f.toSend = g.toSend /\ f.connected = g.connected
        /\ f.closing = g.closing /\ f.closed = g.closed /\ f.registered = g.registered
        /\ f.app = g.app /\ f.failed = g.failed
    BY ONLY <1>1, <2>1, SMT DEF IsEndpoint, EndpointFields
  <2>4. QED BY <1>1, <1>3, <2>2, <2>3 DEF SameControl
<1>6. QED BY <1>4, <1>5

(* _set_socket_connected raises when the socket is not registered. *)
LEMMA SetConnectedEffect ==
  ASSUME NEW e, IsEndpoint(e), e.registered \in BOOLEAN, NEW f, f = SetConnected(e)
  PROVE  /\ IsEndpoint(f) /\ f.pc = "open" /\ f.connected = TRUE /\ f.failed = ~e.registered
         /\ f.window = e.window /\ f.out = e.out
         /\ f.peer = e.peer /\ f.toSend = e.toSend /\ f.closing = e.closing /\ f.closed = e.closed
         /\ f.registered = e.registered /\ f.app = e.app
<1> DEFINE b == ~e.registered
<1>1. f = [e EXCEPT !.pc = "open", !.connected = TRUE, !.failed = b]
  BY DEF SetConnected
<1> HIDE DEF b
<1>2. IsEndpoint(f)
  BY ONLY <1>1, IsEndpoint(e), Zenon DEF IsEndpoint
<1>3. /\ f.pc = "open" /\ f.connected = TRUE /\ f.failed = b
      /\ f.window = e.window /\ f.out = e.out
      /\ f.peer = e.peer /\ f.toSend = e.toSend /\ f.closing = e.closing /\ f.closed = e.closed
      /\ f.registered = e.registered /\ f.app = e.app
  BY ONLY <1>1, IsEndpoint(e), SMT DEF IsEndpoint, EndpointFields
<1>4. QED BY <1>2, <1>3 DEF b

-----------------------------------------------------------------------------
(* A client that was answered. *)

ClientFlags == {"ACK", "PSH", "FINACK"}
ServerFlags == {"SYNACK", "ACK", "PSH", "FIN", "RST"}

Talking(e) == WasAnswered(e) /\ Packets(e.out, ClientFlags)

(* It goes on: it has no reason to send a RST.                             *)
Engaged(e) == e.pc = "open" /\ e.registered = TRUE /\ e.closing = FALSE /\ e.closed = FALSE

(* What it does that leaves the control as it is.                          *)
LEMMA TalkingOn ==
  ASSUME NEW e, Talking(e), NEW f, IsEndpoint(f), SameControl(f, e), Packets(f.out, ClientFlags),
         e.pc \in {"open", "goodbye"} => Packets(f.window, {"PSH", "FINACK"})
  PROVE  Talking(f) /\ (Engaged(e) => Engaged(f))
BY DEF Talking, WasAnswered, SameControl, Engaged

(* A client that was answered stays one in _handle_packet. *)
LEMMA TalkingHandles ==
  ASSUME NEW e, Talking(e), e.pc \in {"open", "goodbye"}, NEW p, p.flags \in ServerFlags,
         NEW f, f = HandlePacket(e, p)
  PROVE  Talking(f) /\ ((Engaged(e) /\ p.flags \notin {"RST", "FIN"}) => Engaged(f))
<1>1. IsEndpoint(e) /\ Packets(e.out, ClientFlags) /\ Packets(e.window, {"PSH", "FINACK"})
  BY DEF Talking, WasAnswered
<1>2. \A a : a.flags = "ACK" => Packets(Append(e.out, a), ClientFlags)
  <2>1. ASSUME NEW a, a.flags = "ACK" PROVE Packets(Append(e.out, a), ClientFlags)
    <3>1. a.flags \in ClientFlags
      BY <2>1 DEF ClientFlags
    <3>2. QED BY <1>1, <3>1, AppendedPacket
  <2>2. QED BY <2>1
<1>3. Packets(Unacked(e.window, p), {"PSH", "FINACK"})
  BY <1>1, SelectedPackets DEF Unacked
<1>4. CASE p.flags = "PSH"
  <2>1. /\ IsEndpoint(f) /\ SameControl(f, e) /\ f.window = e.window
        /\ \E a : f.out = Append(e.out, a) /\ a.flags = "ACK"
    BY <1>1, <1>4, HandleData
  <2>2. QED BY <1>1, <1>2, <2>1, TalkingOn
<1>5. CASE p.flags = "SYNACK"
  <2>1. /\ IsEndpoint(f) /\ SameControl(f, e)
        /\ f.window = Unacked(e.window, p)
        /\ \E a : f.out = Append(e.out, a) /\ a.flags = "ACK"
    BY <1>1, <1>5, HandleSynAck
  <2>2. Packets(f.window, {"PSH", "FINACK"}) /\ Packets(f.out, ClientFlags)
    BY <1>2, <1>3, <2>1
  <2>3. QED BY <2>1, <2>2, TalkingOn
<1>6. CASE p.flags = "ACK"
  <2>1. /\ IsEndpoint(f) /\ SameControl(f, e) /\ f.out = e.out
        /\ f.window = Unacked(e.window, p)
    BY <1>1, <1>6, HandleAck
  <2>2. Packets(f.window, {"PSH", "FINACK"}) /\ Packets(f.out, ClientFlags)
    BY <1>1, <1>3, <2>1
  <2>3. QED BY <2>1, <2>2, TalkingOn
<1>7. CASE p.flags = "RST"
  <2>1. /\ IsEndpoint(f) /\ f.pc = "reset" /\ f.out = e.out /\ f.toSend = e.toSend
        /\ f.app = e.app /\ f.failed = e.failed
    BY ZenonT(60), <1>1, <1>7, HandleReset
  <2>2. QED BY <1>1, <1>7, <2>1 DEF Talking, WasAnswered
<1>8. CASE p.flags = "FIN" /\ e.pc = "open"
  <2>1. /\ IsEndpoint(f) /\ f.pc = "goodbye" /\ f.toSend = e.toSend /\ f.app = e.app /\ f.failed = e.failed
        /\ \E a : f.window = Append(e.window, a) /\ f.out = Append(e.out, a) /\ a.flags = "FINACK"
    BY <1>1, <1>8, HandleFin
  <2>2. PICK a : f.window = Append(e.window, a) /\ f.out = Append(e.out, a) /\ a.flags = "FINACK"
    BY <2>1
  <2>3. Packets(f.window, {"PSH", "FINACK"})
    <3>1. a.flags \in {"PSH", "FINACK"}
      BY <2>2
    <3>2. Packets(Append(e.window, a), {"PSH", "FINACK"})
      BY <1>1, <3>1, AppendedPacket
    <3>3. QED BY <2>2, <3>2
  <2>4. Packets(f.out, ClientFlags)
    <3>1. a.flags \in ClientFlags
      BY <2>2 DEF ClientFlags
    <3>2. Packets(Append(e.out, a), ClientFlags)
      BY <1>1, <3>1, AppendedPacket
    <3>3. QED BY <2>2, <3>2
  <2>5. QED BY <1>8, <2>1, <2>3, <2>4 DEF Talking, WasAnswered
<1>9. CASE p.flags = "FIN" /\ e.pc # "open"
  <2>1. f = e
    BY <1>9 DEF HandlePacket, InsertsFlags
  <2>2. QED BY <1>9, <2>1
<1>10. QED BY <1>4, <1>5, <1>6, <1>7, <1>8, <1>9 DEF ServerFlags

(* It stays one in what its process does next. *)
LEMMA TalkingContinues ==
  ASSUME NEW e, Talking(e), NEW p, NEW f, f = Continue(Deliver(e), p)
  PROVE  Talking(f) /\ (Engaged(e) => Engaged(f))
<1> DEFINE d == Deliver(e)
<1>1. IsEndpoint(e) /\ e.pc \in {"open", "goodbye", "ended", "reset"}
  BY DEF Talking, WasAnswered
<1>2. /\ IsEndpoint(d) /\ d.window = e.window /\ d.out = e.out
      /\ d.pc = e.pc \/ (e.pc = "fin" /\ d.pc = "stuck")
      /\ d.peer = e.peer /\ d.toSend = e.toSend /\ d.connected = e.connected
      /\ d.closing = e.closing /\ d.closed = e.closed /\ d.registered = e.registered
      /\ d.app = e.app /\ d.failed = e.failed
  BY <1>1, DeliverEffect
<1>3. f = Continue(d, p)
  OBVIOUS
<1> HIDE DEF d
<1>4. Talking(d) /\ (Engaged(e) => Engaged(d)) /\ d.pc = e.pc
  BY <1>1, <1>2 DEF Talking, WasAnswered, Engaged
<1>5. CASE d.pc = "goodbye" /\ d.window = <<>>
  <2>1. f = EndSession(d)
    BY <1>3, <1>5 DEF Continue
  <2>2. /\ IsEndpoint(f) /\ f.pc = "ended" /\ f.out = d.out /\ f.toSend = d.toSend
        /\ f.app = d.app /\ f.failed = d.failed
    <3>1. IsEndpoint(d)
      BY <1>2
    <3>2. QED BY ONLY <2>1, <3>1, EndSessionEffect
  <2>3. QED BY <1>4, <1>5, <2>2 DEF Talking, WasAnswered, Engaged
<1>6. CASE ~(d.pc = "goodbye" /\ d.window = <<>>)
  <2>1. f = d
    BY <1>1, <1>3, <1>4, <1>6 DEF Continue
  <2>2. QED BY <1>4, <2>1
<1>7. QED BY <1>5, <1>6

(* It takes, waits or ends. *)
LEMMA TalkingUses ==
  ASSUME NEW e, Talking(e), NEW f, f = Client(e)
  PROVE  Talking(f) /\ (Engaged(e) => Engaged(f))
<1> DEFINE t == Takes(e)
<1>1. /\ IsEndpoint(e) /\ e.app \in {"waits", "reads", "finishing", "done", "refused"}
      /\ e.toSend \in Nat /\ Packets(e.out, ClientFlags)
  BY DEF Talking, WasAnswered
<1>2. IsEndpoint(t) /\ SameControl(t, e) /\ t.window = e.window /\ t.out = e.out
  BY <1>1, TakesEffect
<1>3. \/ f = e \/ f = t \/ f = [t EXCEPT !.app = "finishing"]
      \/ e.closed /\ (f = AppEnds(e, "done") \/ f = AppEnds(t, "done"))
  BY <1>1 DEF Client, DaytimeClient, FtpClient
<1> HIDE DEF t
<1>4. Talking(t) /\ (Engaged(e) => Engaged(t))
  BY <1>1, <1>2, TalkingOn DEF Talking, WasAnswered
<1>5. CASE f = [t EXCEPT !.app = "finishing"]
  <2>1. /\ IsEndpoint(f) /\ f.app = "finishing" /\ f.window = t.window /\ f.out = t.out
        /\ f.pc = t.pc /\ f.toSend = t.toSend /\ f.failed = t.failed
        /\ f.closing = t.closing /\ f.closed = t.closed /\ f.registered = t.registered
    BY ONLY <1>2, <1>5, AppEffect
  <2>2. QED BY <1>4, <2>1 DEF Talking, WasAnswered, Engaged
<1>6. ASSUME NEW g \in {e, t}, Talking(g), f = AppEnds(g, "done"), e.closed PROVE Talking(f) /\ ~Engaged(e)
  <2>1. /\ IsEndpoint(f) /\ f.app = "done" /\ f.window = g.window /\ f.out = g.out
        /\ f.pc = g.pc /\ f.toSend = g.toSend /\ f.failed = g.failed
    <3>1. IsEndpoint(g) /\ f = [g EXCEPT !.app = "done", !.registered = FALSE]
      BY <1>1, <1>2, <1>6 DEF AppEnds
    <3>2. IsEndpoint(f)
      BY ONLY <3>1, Zenon DEF IsEndpoint
    <3>3. /\ f.app = "done" /\ f.window = g.window /\ f.out = g.out
          /\ f.pc = g.pc /\ f.toSend = g.toSend /\ f.failed = g.failed
      BY ONLY <3>1, SMT DEF IsEndpoint, EndpointFields
    <3>4. QED BY <3>2, <3>3
  <2>2. QED BY <1>6, <2>1 DEF Talking, WasAnswered, Engaged
<1>7. QED BY <1>3, <1>4, <1>5, <1>6

(* It stays one in the main loop. *)
LEMMA TalkingLoops ==
  ASSUME NEW e, Talking(e), NEW f, f = Loop(e, FALSE)
  PROVE  Talking(f) /\ (Engaged(e) => Engaged(f))
<1>1. /\ IsEndpoint(e) /\ e.toSend \in Nat /\ Packets(e.out, ClientFlags)
      /\ e.pc \in {"open", "goodbye"} => Packets(e.window, {"PSH", "FINACK"})
  BY DEF Talking, WasAnswered
<1>2. CASE e.pc # "open"
  BY <1>2 DEF Loop
<1>3. CASE e.pc = "open" /\ e.closing /\ IsDoneTransmitting(e)
  <2>1. f = [e EXCEPT !.pc = "ended"]
    BY <1>3 DEF Loop
  <2>2. /\ IsEndpoint(f) /\ f.pc = "ended" /\ f.out = e.out /\ f.toSend = e.toSend
        /\ f.app = e.app /\ f.failed = e.failed
    BY ONLY <1>1, <2>1, PcEffect
  <2>3. QED BY <1>3, <2>2 DEF Talking, WasAnswered, Engaged
<1>4. CASE e.pc = "open" /\ ~(e.closing /\ IsDoneTransmitting(e))
  <2>1. f = AddAllWaiting([e EXCEPT !.toSend = 0], e.toSend, "PSH")
    BY <1>4 DEF Loop
  <2>2. /\ IsEndpoint(f) /\ f.toSend = 0
        /\ f.pc = e.pc /\ f.peer = e.peer /\ f.connected = e.connected /\ f.app = e.app
        /\ f.closing = e.closing /\ f.closed = e.closed /\ f.registered = e.registered
        /\ f.failed = e.failed
        /\ \E ps : Packets(ps, {"PSH"}) /\ f.window = e.window \o ps /\ f.out = e.out \o ps
    BY ZenonT(60), <1>1, <2>1, AddAllEffect
  <2>3. PICK ps : Packets(ps, {"PSH"}) /\ f.window = e.window \o ps /\ f.out = e.out \o ps
    BY <2>2
  <2>4. Packets(f.window, {"PSH", "FINACK"})
    <3>1. Packets(ps, {"PSH", "FINACK"})
      BY <2>3, WiderPackets
    <3>2. Packets(e.window \o ps, {"PSH", "FINACK"})
      BY <1>1, <1>4, <3>1, JoinedPackets
    <3>3. QED BY <2>3, <3>2
  <2>5. Packets(f.out, ClientFlags)
    <3>1. Packets(ps, ClientFlags)
      BY <2>3 DEF Packets, ClientFlags
    <3>2. Packets(e.out \o ps, ClientFlags)
      BY <1>1, <3>1, JoinedPackets
    <3>3. QED BY <2>3, <3>2
  <2>6. f.toSend \in Nat /\ f.failed = FALSE /\ e.app \in {"waits", "reads", "finishing", "done", "refused"}
    <3>1. e.failed = FALSE /\ e.app \in {"waits", "reads", "finishing", "done", "refused"}
      BY DEF Talking, WasAnswered
    <3>2. f.failed = e.failed /\ f.toSend = 0
      BY <2>2
    <3>3. QED BY ONLY <3>1, <3>2
  <2>7. Talking(f)
    BY <1>4, <2>2, <2>4, <2>5, <2>6 DEF Talking, WasAnswered
  <2>8. QED BY <2>2, <2>7 DEF Engaged
<1>5. QED BY <1>2, <1>3, <1>4

(* So it stays one in a tick, whatever packet it hears. *)
LEMMA ClientTalks ==
  ASSUME NEW e, Talking(e), e.pc \in {"open", "goodbye"}, NEW p, p.flags \in ServerFlags,
         NEW f, f = ClientRuns(e, p)
  PROVE  Talking(f) /\ ((Engaged(e) /\ p.flags \notin {"RST", "FIN"}) => Engaged(f))
<1> DEFINE h == HandlePacket(e, p)
           k == Continue(Deliver(h), p)
           u == Client(k)
<1>1. f = Loop(u, FALSE)
  BY DEF ClientRuns, KernelHandles
<1>2. Talking(h) /\ ((Engaged(e) /\ p.flags \notin {"RST", "FIN"}) => Engaged(h))
  BY TalkingHandles
<1> HIDE DEF h
<1>3. Talking(k) /\ (Engaged(h) => Engaged(k))
  BY <1>2, TalkingContinues
<1> HIDE DEF k
<1>4. Talking(u) /\ (Engaged(k) => Engaged(u))
  BY <1>3, TalkingUses
<1> HIDE DEF u
<1>5. Talking(f) /\ (Engaged(u) => Engaged(f))
  BY <1>1, <1>4, TalkingLoops
<1>6. QED BY <1>2, <1>3, <1>4, <1>5

(* The usermode process ends, and the socket is removed. *)
LEMMA AppEndsEffect ==
  ASSUME NEW e, IsEndpoint(e), NEW how, NEW f, f = AppEnds(e, how)
  PROVE  /\ IsEndpoint(f) /\ f.app = how /\ f.window = e.window /\ f.out = e.out
         /\ f.pc = e.pc /\ f.toSend = e.toSend /\ f.failed = e.failed
<1>1. f = [e EXCEPT !.app = how, !.registered = FALSE]
  BY DEF AppEnds
<1>2. IsEndpoint(f)
  BY ONLY <1>1, IsEndpoint(e), Zenon DEF IsEndpoint
<1>3. /\ f.app = how /\ f.window = e.window /\ f.out = e.out
      /\ f.pc = e.pc /\ f.toSend = e.toSend /\ f.failed = e.failed
  BY ONLY <1>1, IsEndpoint(e), SMT DEF IsEndpoint, EndpointFields
<1>4. QED BY <1>2, <1>3

(* The SYN-ACK covers the SYN. *)
LEMMA SynAckCovers ==
  ASSUME NEW p, IsSynAck(p)
  PROVE  Covers(p, 0)
BY DEF IsSynAck, Covers, Acks

(* The SYN-ACK answers a client: it is connected, its window empty. *)
LEMMA HelloAnswered ==
  ASSUME NEW e, SaysHello(e), e.out = <<>>, NEW p, IsSynAck(p), NEW f, f = ClientRuns(e, p)
  PROVE  Talking(f) /\ Engaged(f)
<1> DEFINE h == HandlePacket(e, p)
           d == Deliver(h)
           k == Continue(d, p)
           u == Client(k)
<1>1. /\ IsEndpoint(e) /\ e.pc = "hello" /\ e.app = "connecting" /\ e.window = <<Syn>> /\ e.toSend = 0
      /\ e.registered = TRUE /\ e.connected = FALSE /\ e.closing = FALSE /\ e.closed = FALSE /\ e.failed = FALSE
      /\ p.flags = "SYNACK"
  BY DEF SaysHello, IsSynAck
<1>2. f = Loop(u, FALSE)
  BY DEF ClientRuns, KernelHandles
<1>a. IsEndpoint(e) /\ p.flags = "SYNACK" /\ h = HandlePacket(e, p)
  BY <1>1
<1> HIDE DEF h
<1>3. /\ IsEndpoint(h) /\ SameControl(h, e)
      /\ h.window = Unacked(e.window, p)
      /\ \E a : h.out = Append(e.out, a) /\ a.flags = "ACK"
  BY ONLY <1>a, HandleSynAck
<1>4. h.window = <<>>
  <2>1. Syn.seq = 0
    BY DEF Syn, Segment
  <2>2. Covers(p, 0)
    BY SynAckCovers
  <2> DEFINE w == Syn
  <2>3. h.window = Unacked(<<w>>, p) /\ Covers(p, w.seq)
    BY <1>1, <1>3, <2>1, <2>2
  <2> HIDE DEF w
  <2>4. QED BY <2>3, AcknowledgeOne
<1>5. Packets(h.out, ClientFlags)
  <2>1. PICK a : h.out = Append(e.out, a) /\ a.flags = "ACK"
    BY <1>3
  <2>2. a.flags \in ClientFlags /\ Packets(e.out, ClientFlags)
    BY <2>1, NoPackets DEF ClientFlags
  <2>3. Packets(Append(e.out, a), ClientFlags)
    BY <2>2, AppendedPacket
  <2>4. QED BY <2>1, <2>3
<1>6. /\ IsEndpoint(d) /\ d.window = <<>> /\ d.out = h.out /\ d.pc = "hello"
      /\ d.toSend = 0 /\ d.closing = FALSE /\ d.closed = FALSE /\ d.registered = TRUE
      /\ d.app = "connecting" /\ d.failed = FALSE
  <2>1. /\ IsEndpoint(d) /\ d.window = h.window /\ d.out = h.out
        /\ d.pc = h.pc \/ (h.pc = "fin" /\ d.pc = "stuck")
        /\ d.peer = h.peer /\ d.toSend = h.toSend /\ d.connected = h.connected
        /\ d.closing = h.closing /\ d.closed = h.closed /\ d.registered = h.registered
        /\ d.app = h.app /\ d.failed = h.failed
    BY <1>3, DeliverEffect
  <2> HIDE DEF d
  <2>2. QED BY <1>1, <1>3, <1>4, <2>1 DEF SameControl
<1> HIDE DEF d
<1>7. /\ IsEndpoint(k) /\ k.window = <<>> /\ k.out = h.out /\ k.pc = "open" /\ k.connected = TRUE
      /\ k.toSend = 0 /\ k.closing = FALSE /\ k.closed = FALSE /\ k.registered = TRUE
      /\ k.app = "connecting" /\ k.failed = FALSE
  <2>1. k = SetConnected(d)
    BY <1>1, <1>6 DEF Continue, HasSyn
  <2> HIDE DEF k
  <2>2. IsEndpoint(d) /\ d.registered \in BOOLEAN
    BY <1>6
  <2>3. /\ IsEndpoint(k) /\ k.pc = "open" /\ k.connected = TRUE /\ k.failed = ~d.registered
        /\ k.window = d.window /\ k.out = d.out
        /\ k.peer = d.peer /\ k.toSend = d.toSend /\ k.closing = d.closing /\ k.closed = d.closed
        /\ k.registered = d.registered /\ k.app = d.app
    BY ONLY <2>1, <2>2, SetConnectedEffect
  <2>4. QED BY <1>6, <2>3
<1> HIDE DEF k
<1>8. u = [k EXCEPT !.app = "waits"] \/ u = [k EXCEPT !.app = "reads", !.toSend = 1]
  BY <1>7 DEF Client, DaytimeClient, FtpClient
<1>9. Talking(u) /\ Engaged(u)
  <2>1. Packets(<<>>, {"PSH", "FINACK"})
    BY NoPackets
  <2>2. CASE u = [k EXCEPT !.app = "waits"]
    <3> HIDE DEF u
    <3>0. IsEndpoint(k) /\ u = [k EXCEPT !.app = "waits"]
      BY <1>7, <2>2
    <3>1. /\ IsEndpoint(u) /\ u.app = "waits" /\ u.window = k.window /\ u.out = k.out
          /\ u.pc = k.pc /\ u.peer = k.peer /\ u.toSend = k.toSend /\ u.connected = k.connected
          /\ u.closing = k.closing /\ u.closed = k.closed /\ u.registered = k.registered
          /\ u.failed = k.failed
      BY ONLY <3>0, AppEffect
    <3>2. QED BY <1>5, <1>7, <2>1, <3>1 DEF Talking, WasAnswered, Engaged
  <2>3. CASE u = [k EXCEPT !.app = "reads", !.toSend = 1]
    <3> DEFINE one == 1
    <3>0. u = [k EXCEPT !.app = "reads", !.toSend = one] /\ one \in Nat
      BY <2>3
    <3> HIDE DEF one, u
    <3>1. IsEndpoint(u)
      BY ONLY <1>7, <3>0, Zenon DEF IsEndpoint
    <3>2. /\ u.app = "reads" /\ u.toSend = one /\ u.window = k.window /\ u.out = k.out
          /\ u.pc = k.pc /\ u.closing = k.closing /\ u.closed = k.closed /\ u.registered = k.registered
          /\ u.failed = k.failed
      BY ONLY <1>7, <3>0, SMT DEF IsEndpoint, EndpointFields
    <3>3. QED BY <1>5, <1>7, <2>1, <3>0, <3>1, <3>2 DEF Talking, WasAnswered, Engaged
  <2>4. QED BY <1>8, <2>2, <2>3
<1> HIDE DEF u
<1>10. QED BY <1>2, <1>9, TalkingLoops

(* The RST of a server without a socket refuses a client. *)
LEMMA HelloRefused ==
  ASSUME NEW e, SaysHello(e), e.out = <<>>, NEW p, p.flags = "RST", NEW f, f = ClientRuns(e, p)
  PROVE  Talking(f)
<1> DEFINE h == HandlePacket(e, p)
           d == Deliver(h)
           k == Continue(d, p)
           u == Client(k)
<1>1. IsEndpoint(e) /\ e.app = "connecting" /\ e.toSend = 0 /\ e.failed = FALSE
  BY DEF SaysHello
<1>2. f = Loop(u, FALSE)
  BY DEF ClientRuns, KernelHandles
<1>a. IsEndpoint(e) /\ p.flags = "RST" /\ h = HandlePacket(e, p)
  BY <1>1
<1> HIDE DEF h
<1>3. /\ IsEndpoint(h) /\ h.pc = "reset" /\ h.closed = TRUE /\ h.out = e.out
      /\ h.toSend = e.toSend /\ h.app = e.app /\ h.failed = e.failed
  BY ONLY <1>a, HandleReset
<1>4. /\ IsEndpoint(d) /\ d.out = <<>> /\ d.pc = "reset"
      /\ d.toSend = 0 /\ d.closed = TRUE /\ d.app = "connecting" /\ d.failed = FALSE
  <2>1. /\ IsEndpoint(d) /\ d.window = h.window /\ d.out = h.out
        /\ d.pc = h.pc \/ (h.pc = "fin" /\ d.pc = "stuck")
        /\ d.peer = h.peer /\ d.toSend = h.toSend /\ d.connected = h.connected
        /\ d.closing = h.closing /\ d.closed = h.closed /\ d.registered = h.registered
        /\ d.app = h.app /\ d.failed = h.failed
    BY <1>3, DeliverEffect
  <2> HIDE DEF d
  <2>2. QED BY <1>1, <1>3, <2>1
<1> HIDE DEF d
<1>5. k = d
  BY <1>4 DEF Continue
<1>6. u = AppEnds(d, "refused")
  BY <1>4, <1>5 DEF Client, DaytimeClient, FtpClient
<1> HIDE DEF k, u
<1>7. /\ IsEndpoint(u) /\ u.app = "refused" /\ u.out = d.out
      /\ u.pc = d.pc /\ u.toSend = d.toSend /\ u.failed = d.failed
  BY ONLY <1>4, <1>6, AppEndsEffect
<1>8. Packets(<<>>, ClientFlags)
  BY NoPackets
<1>9. Talking(u)
  BY <1>4, <1>7, <1>8 DEF Talking, WasAnswered
<1>10. QED BY <1>2, <1>9, TalkingLoops

-----------------------------------------------------------------------------
(* A socket of the server that waits. *)

(* A socket that is given a packet of client c. *)
Hearing(e, c) == [e EXCEPT !.peer = c, !.resent = FALSE]

(* Hearing a packet changes the peer of a socket, and that it resent. *)
LEMMA HearsEffect ==
  ASSUME NEW e, IsEndpoint(e), NEW c, NEW f, f = Hearing(e, c)
  PROVE  /\ IsEndpoint(f) /\ f.peer = c /\ f.window = e.window /\ f.out = e.out
         /\ f.seq = e.seq /\ f.r = e.r /\ f.pc = e.pc /\ f.toSend = e.toSend /\ f.connected = e.connected
         /\ f.closing = e.closing /\ f.closed = e.closed /\ f.registered = e.registered
         /\ f.app = e.app /\ f.failed = e.failed
<1>1. IsEndpoint(f)
  BY Zenon DEF IsEndpoint, Hearing
<1>2. /\ f.peer = c /\ f.window = e.window /\ f.out = e.out
      /\ f.seq = e.seq /\ f.r = e.r /\ f.pc = e.pc /\ f.toSend = e.toSend /\ f.connected = e.connected
      /\ f.closing = e.closing /\ f.closed = e.closed /\ f.registered = e.registered
      /\ f.app = e.app /\ f.failed = e.failed
  BY SMT DEF IsEndpoint, EndpointFields, Hearing
<1>3. QED BY <1>1, <1>2

(* A socket without a session has no process that uses it. *)
LEMMA NothingToUse ==
  ASSUME NEW e, e.app = "none"
  PROVE  Session(e) = e
BY DEF Session, CloseWhenDone

(* The ACK number that answers the first SYN is one. *)
LEMMA ReceiverOfASyn ==
  ASSUME NEW e, IsEndpoint(e), e.r = NewEndpoint.r, e.pc = "listen", NEW f, f = Deliver(e)
  PROVE  f.seq = e.seq /\ Acknowledge(f.r, 0).ack = 1
<1> DEFINE g == [e EXCEPT !.r = RemoveInOrder(@)]
           data == InOrderPart(e.r)
           thrown == g.thrown \/ data # <<>>
           pc == IF g.pc = "fin" /\ data # <<>> THEN "stuck" ELSE g.pc
           W == Only(<<>>, ToSet(<<>>) \ Acknowledged(e.r))
<1>1. e.r = [window |-> <<>>, ack |-> 0, sack |-> <<>>]
  BY DEF NewEndpoint, EmptyReceiver
<1>2. RemoveInOrder(e.r) = [window |-> W, ack |-> 0, sack |-> <<>>]
  BY <1>1 DEF RemoveInOrder
<1>3. g.seq = e.seq /\ g.r = RemoveInOrder(e.r) /\ IsEndpoint(g) /\ g.pc = e.pc
  <2>1. IsEndpoint(g) /\ SameControl(g, e) /\ g.r = RemoveInOrder(e.r) /\ g.seq = e.seq
    BY ReceiverEffect
  <2>2. QED BY <2>1 DEF SameControl
<1>4. f = [g EXCEPT !.thrown = thrown, !.pc = pc]
  BY DEF Deliver
<1> HIDE DEF g, data, thrown, pc, W
<1>5. f.seq = g.seq /\ f.r = g.r
  BY ONLY <1>3, <1>4, SMT DEF IsEndpoint, EndpointFields
<1>6. f.r.ack = 0
  BY <1>2, <1>3, <1>5
<1>7. Acknowledge(f.r, 0) = [f.r EXCEPT !.ack = 1]
  BY <1>6 DEF Acknowledge
<1>8. f.r = [window |-> W, ack |-> 0, sack |-> <<>>]
  BY <1>2, <1>3, <1>5
<1>9. QED BY <1>3, <1>5, <1>7, <1>8

(* A socket that listens answers the SYN, and waits for the ACK. *)
LEMMA SynHeard ==
  ASSUME NEW e, WaitsForSyn(e), NEW c \in Clients,
         NEW f, f = SocketRuns(Hearing(e, c), Syn)
  PROVE  /\ WaitsForAck(f) /\ f.peer = c /\ f.registered = e.registered
         /\ \E a : f.out = <<a>> /\ IsSynAck(a)
<1> DEFINE g == Hearing(e, c)
           d == Deliver(g)
           h == SendAckFor(d, Syn, "SYNACK")
           k == [h EXCEPT !.pc = "accepting"]
<1>1. /\ IsEndpoint(e) /\ e.pc = "listen" /\ e.seq = 0 /\ e.r = NewEndpoint.r /\ e.window = <<>>
      /\ e.toSend = 0 /\ e.connected = FALSE /\ e.closing = FALSE /\ e.closed = FALSE
      /\ e.registered \in BOOLEAN /\ e.app = "none" /\ e.out = <<>> /\ e.failed = FALSE
  BY ZenonT(60) DEF WaitsForSyn, IsEndpoint, EndpointFields, NewEndpoint
<1>2. Syn.flags = "SYN" /\ Syn.seq = 0
  BY DEF Syn, Segment
<1>3. f = Loop(Session(Continue(d, Syn)), TRUE)
  BY <1>2 DEF SocketRuns, KernelHandles, HandlePacket
<1>4. /\ IsEndpoint(g) /\ g.peer = c /\ g.window = e.window /\ g.out = e.out
      /\ g.seq = e.seq /\ g.r = e.r /\ g.pc = e.pc /\ g.toSend = e.toSend /\ g.connected = e.connected
      /\ g.closing = e.closing /\ g.closed = e.closed /\ g.registered = e.registered
      /\ g.app = e.app /\ g.failed = e.failed
  <2>1. IsEndpoint(e)
    BY <1>1
  <2>2. QED BY ONLY <2>1, HearsEffect
<1> HIDE DEF g
<1>5. /\ IsEndpoint(d) /\ d.window = g.window /\ d.out = g.out
      /\ d.pc = g.pc \/ (g.pc = "fin" /\ d.pc = "stuck")
      /\ d.peer = g.peer /\ d.toSend = g.toSend /\ d.connected = g.connected
      /\ d.closing = g.closing /\ d.closed = g.closed /\ d.registered = g.registered
      /\ d.app = g.app /\ d.failed = g.failed
  BY <1>4, DeliverEffect
<1>6. d.seq = 0 /\ Acknowledge(d.r, 0).ack = 1
  BY <1>1, <1>4, ReceiverOfASyn
<1> HIDE DEF d
<1>7. d.pc = "listen"
  BY <1>1, <1>4, <1>5
<1>8. /\ IsEndpoint(h) /\ SameControl(h, d)
      /\ \E a : h.window = Append(d.window, a) /\ h.out = Append(d.out, a) /\ IsSynAck(a)
  <2>1. "SYNACK" # "ACK" /\ IsEndpoint(d)
    BY <1>5
  <2>2. /\ IsEndpoint(h) /\ SameControl(h, d)
        /\ \E a : /\ h.window = Append(d.window, a) /\ h.out = Append(d.out, a)
                  /\ a.flags = "SYNACK" /\ a.seq = d.seq /\ a.ack = Acknowledge(d.r, Syn.seq).ack
    BY ONLY <2>1, AnswerEffect
  <2> HIDE DEF h
  <2>3. QED BY <1>2, <1>6, <2>2 DEF IsSynAck
<1>9. Continue(d, Syn) = k
  BY <1>7 DEF Continue
<1> HIDE DEF h
<1>10. /\ IsEndpoint(k) /\ k.pc = "accepting" /\ k.window = h.window /\ k.out = h.out
       /\ k.peer = h.peer /\ k.toSend = h.toSend /\ k.connected = h.connected
       /\ k.closing = h.closing /\ k.closed = h.closed /\ k.registered = h.registered
       /\ k.app = h.app /\ k.failed = h.failed
  <2>1. IsEndpoint(h)
    BY <1>8
  <2>2. QED BY ONLY SMTT(30), <2>1, PcEffect
<1> HIDE DEF k
<1>11. PICK a : k.window = Append(<<>>, a) /\ k.out = Append(<<>>, a) /\ IsSynAck(a)
  BY <1>1, <1>4, <1>5, <1>8, <1>10
<1>12. k.window = <<a>> /\ k.out = <<a>>
  BY <1>11, OneElement
<1>13. k.app = "none"
  BY <1>1, <1>4, <1>5, <1>8, <1>10 DEF SameControl
<1>14. f = k
  BY <1>3, <1>9, <1>10, <1>13, NothingToUse DEF Loop
<1>15. /\ k.pc = "accepting" /\ k.peer = c /\ k.toSend = 0 /\ k.registered = e.registered
       /\ k.connected = FALSE /\ k.closing = FALSE /\ k.closed = FALSE /\ k.failed = FALSE
  BY <1>1, <1>4, <1>5, <1>8, <1>10 DEF SameControl
<1>16. k.window[1] = a
  BY <1>12
<1>17. QED BY <1>1, <1>10, <1>11, <1>12, <1>13, <1>14, <1>15, <1>16 DEF WaitsForAck

(* One whose SYN-ACK has been acknowledged. *)
Opened(e) ==
  /\ IsEndpoint(e) /\ e.pc = "open" /\ e.peer \in Clients /\ e.app = "none" /\ e.toSend = 0
  /\ Packets(e.window, {"PSH"})
  /\ e.registered \in BOOLEAN /\ e.failed = ~e.registered
  /\ e.connected = TRUE /\ e.closing = FALSE /\ e.closed = FALSE

SocketFlags == {"ACK", "PSH", "FIN"}
TalkFlags == {"ACK", "PSH"}

(* The ACK number of an ACK covers the SYN-ACK. *)
Confirms(p) == p.flags \in {"ACK", "FINACK"} /\ Covers(p, 0)

(* While it waits for the ACK, whatever is left of its window. *)
Accepting(e) ==
  /\ IsEndpoint(e) /\ e.pc = "accepting" /\ e.peer \in Clients /\ e.app = "none" /\ e.toSend = 0
  /\ e.registered \in BOOLEAN
  /\ e.connected = FALSE /\ e.closing = FALSE /\ e.closed = FALSE /\ e.failed = FALSE

(* A socket that waits for the ACK throws away the data it gets. *)
LEMMA AcceptingIsDelivered ==
  ASSUME NEW e, Accepting(e), NEW f, f = Deliver(e)
  PROVE  /\ Accepting(f) /\ f.peer = e.peer /\ f.registered = e.registered
         /\ f.window = e.window /\ f.out = e.out
<1>1. IsEndpoint(e) /\ e.pc = "accepting"
  BY DEF Accepting
<1>2. /\ IsEndpoint(f) /\ f.window = e.window /\ f.out = e.out
      /\ f.pc = e.pc \/ (e.pc = "fin" /\ f.pc = "stuck")
      /\ f.peer = e.peer /\ f.toSend = e.toSend /\ f.connected = e.connected
      /\ f.closing = e.closing /\ f.closed = e.closed /\ f.registered = e.registered
      /\ f.app = e.app /\ f.failed = e.failed
  BY <1>1, DeliverEffect
<1>3. QED BY <1>1, <1>2 DEF Accepting

(* It goes on waiting while its SYN-ACK is in its window. *)
LEMMA AcceptingGoesOn ==
  ASSUME NEW e, Accepting(e), e.window # <<>>, NEW p, NEW f, f = Loop(Session(Continue(Deliver(e), p)), TRUE)
  PROVE  f = Deliver(e)
<1> DEFINE d == Deliver(e)
<1>1. Accepting(d) /\ d.window = e.window
  BY AcceptingIsDelivered
<1> HIDE DEF d
<1>2. Continue(d, p) = d
  BY <1>1 DEF Continue, Accepting
<1>3. Session(d) = d
  BY <1>1, NothingToUse DEF Accepting
<1>4. Loop(d, TRUE) = d
  BY <1>1 DEF Loop, Accepting
<1>5. QED BY <1>2, <1>3, <1>4 DEF d

(* It is connected when its window is empty. *)
LEMMA AcceptingOpens ==
  ASSUME NEW e, Accepting(e), e.window = <<>>, Packets(e.out, TalkFlags), NEW p,
         NEW f, f = Loop(Session(Continue(Deliver(e), p)), TRUE)
  PROVE  Opened(f) /\ f.peer = e.peer /\ f.registered = e.registered /\ Packets(f.out, TalkFlags)
<1> DEFINE d == Deliver(e)
           k == SetConnected(d)
<1>1. /\ Accepting(d) /\ d.peer = e.peer /\ d.registered = e.registered
      /\ d.window = e.window /\ d.out = e.out
  BY AcceptingIsDelivered
<1> HIDE DEF d
<1>2. Continue(d, p) = k
  BY <1>1 DEF Continue, Accepting
<1>3. /\ IsEndpoint(k) /\ k.pc = "open" /\ k.connected = TRUE /\ k.failed = ~d.registered
      /\ k.window = d.window /\ k.out = d.out
      /\ k.peer = d.peer /\ k.toSend = d.toSend /\ k.closing = d.closing /\ k.closed = d.closed
      /\ k.registered = d.registered /\ k.app = d.app
  <2>1. IsEndpoint(d) /\ d.registered \in BOOLEAN
    BY <1>1 DEF Accepting
  <2>2. QED BY ONLY <2>1, SetConnectedEffect
<1> HIDE DEF k
<1>4. Session(k) = k
  BY <1>1, <1>3, NothingToUse DEF Accepting
<1>5. f = Loop(k, TRUE)
  BY <1>2, <1>4 DEF d
<1>6. GoesOn(k)
  BY <1>1, <1>3 DEF Accepting, GoesOn
<1>7. /\ IsEndpoint(f) /\ f.toSend = 0
      /\ f.pc = k.pc /\ f.peer = k.peer /\ f.connected = k.connected /\ f.app = k.app
      /\ f.closing = k.closing /\ f.closed = k.closed /\ f.registered = k.registered
      /\ f.failed = k.failed
      /\ \E ps : Packets(ps, {"PSH"}) /\ f.window = k.window \o ps /\ f.out = k.out \o ps
  <2>1. HasGoneOn(f, k)
    BY <1>5, <1>6, LoopSends
  <2>2. QED BY ONLY <2>1 DEF HasGoneOn
<1>8. PICK ps : Packets(ps, {"PSH"}) /\ f.window = k.window \o ps /\ f.out = k.out \o ps
  BY <1>7
<1>9. Packets(f.window, {"PSH"})
  <2>1. k.window = <<>> /\ Packets(<<>>, {"PSH"})
    BY <1>1, <1>3, NoPackets
  <2>2. Packets(<<>> \o ps, {"PSH"})
    BY <1>8, <2>1, JoinedPackets
  <2>3. QED BY <1>8, <2>1, <2>2
<1>10. Packets(f.out, TalkFlags)
  <2>1. Packets(ps, TalkFlags) /\ Packets(k.out, TalkFlags)
    BY <1>1, <1>3, <1>8 DEF Packets, TalkFlags
  <2>2. Packets(k.out \o ps, TalkFlags)
    BY <2>1, JoinedPackets
  <2>3. QED BY <1>8, <2>2
<1>11. QED BY ZenonT(60), <1>1, <1>3, <1>7, <1>9, <1>10 DEF Opened, Accepting

(* It hears a packet that is no RST. *)
LEMMA WaitingHears ==
  ASSUME NEW e, WaitsForAck(e), e.out = <<>>, NEW p, p.flags \in {"SYN", "PSH", "ACK", "FINACK"},
         NEW f, f = SocketRuns(Hearing(e, e.peer), p)
  PROVE  /\ f.peer = e.peer /\ f.registered = e.registered
         /\ IF Confirms(p) THEN Opened(f) /\ Packets(f.out, TalkFlags)
            ELSE WaitsForAck(f) /\ Packets(f.out, {"ACK"}) /\ (p.flags = "SYN" => f.out = <<>>)
<1> DEFINE g == Hearing(e, e.peer)
           h == HandlePacket(g, p)
           w == e.window[1]
<1>1. IsEndpoint(e) /\ e.window = <<w>> /\ IsSynAck(w)
  BY DEF WaitsForAck
<1>2. f = Loop(Session(Continue(Deliver(h), p)), TRUE)
  BY DEF SocketRuns, KernelHandles
<1>3. /\ IsEndpoint(g) /\ g.peer = e.peer /\ g.window = e.window /\ g.out = e.out
      /\ g.seq = e.seq /\ g.r = e.r /\ g.pc = e.pc /\ g.toSend = e.toSend /\ g.connected = e.connected
      /\ g.closing = e.closing /\ g.closed = e.closed /\ g.registered = e.registered
      /\ g.app = e.app /\ g.failed = e.failed
  BY ONLY <1>1, HearsEffect
<1> HIDE DEF w
<1>4. Accepting(g) /\ g.out = <<>>
  BY <1>3 DEF WaitsForAck, Accepting
<1> HIDE DEF g
<1>5. /\ IsEndpoint(h) /\ SameControl(h, g) /\ Packets(h.out, {"ACK"})
      /\ p.flags = "SYN" => h.out = <<>>
      /\ h.window = IF Confirms(p) THEN <<>> ELSE <<w>>
  <2>0. Packets(g.out, {"ACK"})
    BY <1>4, NoPackets
  <2>1. CASE p.flags = "SYN"
    <3>1. h = g /\ ~Confirms(p)
      BY <2>1 DEF HandlePacket, Confirms
    <3>2. QED BY <1>1, <1>3, <1>4, <2>0, <3>1 DEF SameControl
  <2>2. CASE p.flags = "PSH"
    <3>1. IsEndpoint(g) /\ p.flags = "PSH" /\ h = HandlePacket(g, p)
      BY <1>3, <2>2
    <3> HIDE DEF h
    <3>2. /\ IsEndpoint(h) /\ SameControl(h, g) /\ h.window = g.window
          /\ \E a : h.out = Append(g.out, a) /\ a.flags = "ACK"
      BY ONLY SMTT(30), <3>1, HandleData
    <3>3. PICK a : h.out = Append(g.out, a) /\ a.flags = "ACK"
      BY <3>2
    <3>4. Packets(Append(g.out, a), {"ACK"})
      <4>1. a.flags \in {"ACK"}
        BY <3>3
      <4>2. QED BY <2>0, <4>1, AppendedPacket
    <3>5. QED BY <1>1, <1>3, <2>2, <3>2, <3>3, <3>4 DEF Confirms
  <2>3. CASE p.flags \in {"ACK", "FINACK"}
    <3>1. IsEndpoint(g) /\ h = HandlePacket(g, p)
      BY <1>3
    <3> HIDE DEF h
    <3>2. IsEndpoint(h) /\ SameControl(h, g) /\ h.out = g.out /\ h.window = Unacked(g.window, p)
      BY ONLY <2>3, <3>1, HandleAck
    <3>3. h.window = Unacked(<<w>>, p) /\ w.seq = 0
      BY <1>1, <1>3, <3>2 DEF IsSynAck
    <3>4. h.window = IF Covers(p, 0) THEN <<>> ELSE <<w>>
      BY <3>3, AcknowledgeOne
    <3>5. QED BY <2>0, <2>3, <3>2, <3>4 DEF Confirms
  <2>4. QED BY <2>1, <2>2, <2>3
<1> HIDE DEF h
<1>6. Accepting(h) /\ h.peer = e.peer /\ h.registered = e.registered
  BY <1>3, <1>4, <1>5 DEF Accepting, SameControl
<1>7. CASE Confirms(p)
  <2>1. h.window = <<>> /\ Packets(h.out, TalkFlags)
    BY <1>5, <1>7 DEF Packets, TalkFlags
  <2>2. Opened(f) /\ f.peer = h.peer /\ f.registered = h.registered /\ Packets(f.out, TalkFlags)
    BY <1>2, <1>6, <2>1, AcceptingOpens
  <2>3. QED BY <1>6, <1>7, <2>2
<1>8. CASE ~Confirms(p)
  <2>1. h.window = <<w>> /\ h.window # <<>>
    BY <1>5, <1>8
  <2>2. f = Deliver(h)
    BY <1>2, <1>6, <2>1, AcceptingGoesOn
  <2>3. /\ Accepting(f) /\ f.peer = h.peer /\ f.registered = h.registered
        /\ f.window = h.window /\ f.out = h.out
    BY <1>6, <2>2, AcceptingIsDelivered
  <2>4. f.window = <<w>> /\ f.window[1] = w
    BY <2>1, <2>3
  <2>5. WaitsForAck(f)
    BY <1>1, <2>3, <2>4 DEF WaitsForAck, Accepting
  <2>6. QED BY <1>5, <1>6, <1>8, <2>3, <2>5
<1>9. QED BY <1>7, <1>8

(* A RST ends the wait, and there is no session. *)
LEMMA WaitingIsReset ==
  ASSUME NEW e, WaitsForAck(e), e.out = <<>>, NEW p, p.flags = "RST",
         NEW f, f = SocketRuns(Hearing(e, e.peer), p)
  PROVE  WasReset(f) /\ f.peer = e.peer /\ f.out = <<>>
<1> DEFINE g == Hearing(e, e.peer)
           h == HandlePacket(g, p)
           d == Deliver(h)
<1>1. IsEndpoint(e)
  BY DEF WaitsForAck
<1>2. f = Loop(Session(Continue(d, p)), TRUE)
  BY DEF SocketRuns, KernelHandles
<1>3. /\ IsEndpoint(g) /\ g.peer = e.peer /\ g.window = e.window /\ g.out = e.out
      /\ g.seq = e.seq /\ g.r = e.r /\ g.pc = e.pc /\ g.toSend = e.toSend /\ g.connected = e.connected
      /\ g.closing = e.closing /\ g.closed = e.closed /\ g.registered = e.registered
      /\ g.app = e.app /\ g.failed = e.failed
  BY ONLY <1>1, HearsEffect
<1> HIDE DEF g
<1>4. IsEndpoint(g) /\ h = HandlePacket(g, p)
  BY <1>3
<1> HIDE DEF h
<1>5. /\ IsEndpoint(h) /\ h.pc = "reset" /\ h.closed = TRUE /\ h.closing = TRUE
      /\ h.window = g.window /\ h.out = g.out
      /\ h.peer = g.peer /\ h.toSend = g.toSend /\ h.connected = g.connected
      /\ h.registered = g.registered /\ h.app = g.app /\ h.failed = g.failed
  BY ZenonT(60), <1>4, HandleReset
<1>6. /\ IsEndpoint(d) /\ d.window = h.window /\ d.out = h.out
      /\ d.pc = h.pc \/ (h.pc = "fin" /\ d.pc = "stuck")
      /\ d.peer = h.peer /\ d.toSend = h.toSend /\ d.connected = h.connected
      /\ d.closing = h.closing /\ d.closed = h.closed /\ d.registered = h.registered
      /\ d.app = h.app /\ d.failed = h.failed
  BY <1>5, DeliverEffect
<1> HIDE DEF d
<1>7. d.pc = "reset" /\ d.app = "none"
  BY <1>3, <1>5, <1>6 DEF WaitsForAck
<1>8. f = d
  BY <1>2, <1>7, NothingToUse DEF Continue, Loop
<1>9. QED BY <1>3, <1>5, <1>6, <1>7, <1>8 DEF WasReset, WaitsForAck

-----------------------------------------------------------------------------
(* A socket of the server with a session. *)

(* It says good bye only when its process is done.                         *)
Serving(e) ==
  /\ HasSession(e) /\ Packets(e.out, SocketFlags)
  /\ e.app # "done" => Packets(e.out, TalkFlags)

(* It serves the same client, as long as before at most.                   *)
Keeps(f, e) == f.peer = e.peer /\ f.registered = e.registered /\ (InSession(f) => InSession(e))

(* What the properties of a session speak of, unchanged. *)
LEMMA ServingOn ==
  ASSUME NEW e, Serving(e), NEW f, IsEndpoint(f), SameControl(f, e), Packets(f.out, SocketFlags),
         e.app # "done" => Packets(f.out, TalkFlags),
         Packets(f.window, {"PSH", "FIN"}), Packets(e.window, {"PSH"}) => Packets(f.window, {"PSH"})
  PROVE  Serving(f) /\ Keeps(f, e)
<1>1. InUse(f)
  BY DEF Serving, HasSession, SameControl, InUse
<1>2. QED BY <1>1 DEF Serving, HasSession, SameControl, Keeps, InSession

(* An ACK more. *)
LEMMA AckSent ==
  ASSUME NEW q, NEW a, a.flags = "ACK"
  PROVE  /\ Packets(q, SocketFlags) => Packets(Append(q, a), SocketFlags)
         /\ Packets(q, TalkFlags) => Packets(Append(q, a), TalkFlags)
<1>1. a.flags \in SocketFlags /\ a.flags \in TalkFlags
  BY DEF SocketFlags, TalkFlags
<1>2. QED BY <1>1, AppendedPacket

(* A socket with a session keeps it in _handle_packet. *)
LEMMA ServingHandles ==
  ASSUME NEW e, Serving(e), NEW p, p.flags \in {"PSH", "ACK", "FINACK", "RST"},
         NEW f, f = HandlePacket(e, p)
  PROVE  /\ Serving(f) /\ Keeps(f, e) /\ f.app = e.app
         /\ f.pc = IF p.flags = "RST" THEN "reset" ELSE e.pc
<1>1. IsEndpoint(e) /\ Packets(e.out, SocketFlags) /\ Packets(e.window, {"PSH", "FIN"})
  BY DEF Serving, HasSession
<1>2. CASE p.flags = "PSH"
  <2>1. /\ IsEndpoint(f) /\ SameControl(f, e) /\ f.window = e.window
        /\ \E a : f.out = Append(e.out, a) /\ a.flags = "ACK"
    BY <1>1, <1>2, HandleData
  <2>2. PICK a : f.out = Append(e.out, a) /\ a.flags = "ACK"
    BY <2>1
  <2>3. Packets(f.out, SocketFlags) /\ (e.app # "done" => Packets(f.out, TalkFlags))
    BY <2>2, AckSent DEF Serving
  <2>4. Packets(f.window, {"PSH", "FIN"}) /\ (Packets(e.window, {"PSH"}) => Packets(f.window, {"PSH"}))
    BY <1>1, <2>1
  <2>5. Serving(f) /\ Keeps(f, e)
    BY <2>1, <2>3, <2>4, ServingOn
  <2>6. QED BY <1>2, <2>1, <2>5 DEF SameControl
<1>3. CASE p.flags \in {"ACK", "FINACK"}
  <2>1. /\ IsEndpoint(f) /\ SameControl(f, e) /\ f.out = e.out
        /\ f.window = Unacked(e.window, p)
    BY <1>1, <1>3, HandleAck
  <2>2. Packets(Unacked(e.window, p), {"PSH", "FIN"})
    BY <1>1, SelectedPackets DEF Unacked
  <2>3. Packets(f.window, {"PSH", "FIN"}) /\ Packets(f.out, SocketFlags)
    BY <1>1, <2>1, <2>2
  <2>4. Packets(e.window, {"PSH"}) => Packets(f.window, {"PSH"})
    BY <2>1, SelectedPackets DEF Unacked
  <2>5. e.app # "done" => Packets(f.out, TalkFlags)
    BY <2>1 DEF Serving
  <2>6. Serving(f) /\ Keeps(f, e)
    BY <2>1, <2>3, <2>4, <2>5, ServingOn
  <2>7. QED BY <1>3, <2>1, <2>6 DEF SameControl
<1>4. CASE p.flags = "RST"
  <2>1. /\ IsEndpoint(f) /\ f.pc = "reset" /\ f.window = e.window /\ f.out = e.out
        /\ f.peer = e.peer /\ f.toSend = e.toSend /\ f.connected = e.connected
        /\ f.registered = e.registered /\ f.app = e.app /\ f.failed = e.failed
    BY ZenonT(60), <1>1, <1>4, HandleReset
  <2>2. InUse(f) /\ ~InSession(f)
    BY <2>1 DEF InUse, InSession
  <2>3. QED BY <1>4, <2>1, <2>2 DEF Serving, HasSession, Keeps
<1>5. QED BY <1>2, <1>3, <1>4

(* It keeps it in what its process does next. *)
LEMMA ServingContinues ==
  ASSUME NEW e, Serving(e), NEW p, NEW f, f = Continue(Deliver(e), p)
  PROVE  Serving(f) /\ Keeps(f, e) /\ f.app = e.app /\ (e.app = "sends" => f.pc = e.pc)
<1> DEFINE d == Deliver(e)
           g == SendAckFor(d, p, "ACK")
<1>1. IsEndpoint(e) /\ e.pc \in {"open", "fin", "stuck", "ended", "reset"}
  BY DEF Serving, HasSession
<1>2. /\ IsEndpoint(d) /\ d.window = e.window /\ d.out = e.out
      /\ d.pc = e.pc \/ (e.pc = "fin" /\ d.pc = "stuck")
      /\ d.peer = e.peer /\ d.toSend = e.toSend /\ d.connected = e.connected
      /\ d.closing = e.closing /\ d.closed = e.closed /\ d.registered = e.registered
      /\ d.app = e.app /\ d.failed = e.failed
  BY <1>1, DeliverEffect
<1>3. f = Continue(d, p)
  OBVIOUS
<1> HIDE DEF d
<1>4. d.pc \in {"open", "fin", "stuck", "ended", "reset"}
  BY <1>1, <1>2
<1>5. /\ Serving(d) /\ d.peer = e.peer /\ d.registered = e.registered /\ d.app = e.app
      /\ InSession(d) => InSession(e)
      /\ e.app = "sends" => d.pc = e.pc
  <2>1. InUse(d) /\ (InSession(d) => InSession(e)) /\ (e.app = "sends" => d.pc = e.pc)
    BY <1>2 DEF Serving, HasSession, InUse, InSession
  <2>2. QED BY <1>2, <1>4, <2>1 DEF Serving, HasSession
<1>6. CASE d.pc = "fin" /\ p.flags = "FINACK"
  <2>1. f = EndSession(g)
    BY <1>3, <1>6 DEF Continue
  <2>2. /\ IsEndpoint(g) /\ SameControl(g, d) /\ g.window = d.window
        /\ \E a : g.out = Append(d.out, a) /\ a.flags = "ACK"
    <3>1. IsEndpoint(d)
      BY <1>2
    <3>2. QED BY ONLY <3>1, SendAckEffect
  <2> HIDE DEF g
  <2>3. PICK a : g.out = Append(d.out, a) /\ a.flags = "ACK"
    BY <2>2
  <2>4. Packets(g.out, SocketFlags)
    BY <1>5, <2>3, AckSent DEF Serving
  <2>5. Packets(<<>>, {"PSH", "FIN"})
    BY NoPackets
  <2>6. IsEndpoint(g)
    BY <2>2
  <2>7. /\ IsEndpoint(f) /\ f.pc = "ended" /\ f.window = <<>> /\ f.out = g.out
        /\ f.peer = g.peer /\ f.toSend = g.toSend /\ f.connected = g.connected
        /\ f.registered = g.registered /\ f.app = g.app /\ f.failed = g.failed
    BY ONLY <2>1, <2>6, EndSessionEffect
  <2>8. d.app = "done"
    BY <1>5, <1>6 DEF Serving, HasSession, InUse
  <2>9. f.app = "done" /\ f.peer = d.peer /\ f.registered = d.registered
    BY <2>2, <2>7, <2>8 DEF SameControl
  <2>10. InUse(f) /\ ~InSession(f)
    BY <2>9 DEF InUse, InSession
  <2>11. Serving(f)
    BY <1>5, <2>2, <2>4, <2>5, <2>7, <2>9, <2>10 DEF Serving, HasSession, SameControl
  <2>12. QED BY <1>5, <2>8, <2>9, <2>10, <2>11 DEF Keeps
<1>7. CASE ~(d.pc = "fin" /\ p.flags = "FINACK")
  <2>1. f = d
    BY <1>3, <1>4, <1>7 DEF Continue
  <2>2. QED BY <1>5, <2>1 DEF Keeps
<1>8. QED BY <1>6, <1>7

(* close_when_done_transmitting closes the socket, and nothing else, while *)
(* the kernelmode process is alive. *)
LEMMA CloseWhenDoneEffect ==
  ASSUME NEW e, IsEndpoint(e), e.app = "sends" => Alive(e), NEW f, f = CloseWhenDone(e)
  PROVE  /\ IsEndpoint(f) /\ f.app \in {e.app, "done"} /\ f.window = e.window /\ f.out = e.out
         /\ f.pc = e.pc /\ f.peer = e.peer /\ f.toSend = e.toSend /\ f.connected = e.connected
         /\ f.registered = e.registered /\ f.failed = e.failed
         /\ f.app # "done" => f.closing = e.closing
<1>1. CASE e.app = "sends" /\ IsDoneTransmitting(e)
  <2>1. f = [e EXCEPT !.app = "done", !.closed = TRUE, !.closing = TRUE]
    BY <1>1 DEF CloseWhenDone
  <2>2. IsEndpoint(f)
    BY ONLY <2>1, IsEndpoint(e), Zenon DEF IsEndpoint
  <2>3. /\ f.app = "done" /\ f.window = e.window /\ f.out = e.out
        /\ f.pc = e.pc /\ f.peer = e.peer /\ f.toSend = e.toSend /\ f.connected = e.connected
        /\ f.registered = e.registered /\ f.failed = e.failed
    BY ONLY <2>1, IsEndpoint(e), SMT DEF IsEndpoint, EndpointFields
  <2>4. QED BY <2>2, <2>3
<1>2. CASE ~(e.app = "sends" /\ IsDoneTransmitting(e))
  <2>1. f = e
    BY <1>2 DEF CloseWhenDone
  <2>2. QED BY <2>1
<1>3. QED BY <1>1, <1>2

(* Of a kernelmode process that is dead it asks in vain. *)
LEMMA AskingRaises ==
  ASSUME NEW e, IsEndpoint(e), e.app = "sends", e.pc = "reset", NEW f, f = Session(e)
  PROVE  /\ IsEndpoint(f) /\ f.failed = TRUE /\ f.registered = e.registered
         /\ f.pc = "reset" /\ f.peer = e.peer
<1>1. f = [e EXCEPT !.failed = TRUE]
  BY DEF Session, CloseWhenDone, Alive
<1>2. IsEndpoint(f)
  BY ONLY <1>1, IsEndpoint(e), Zenon DEF IsEndpoint
<1>3. f.failed = TRUE /\ f.registered = e.registered /\ f.pc = e.pc /\ f.peer = e.peer
  BY ONLY <1>1, IsEndpoint(e), SMT DEF IsEndpoint, EndpointFields
<1>4. QED BY <1>2, <1>3

(* It keeps it while its session process runs. *)
LEMMA ServingUses ==
  ASSUME NEW e, Serving(e), e.app = "sends" => e.pc # "reset", NEW f, f = Session(e)
  PROVE  Serving(f) /\ Keeps(f, e)
<1>1. IsEndpoint(e) /\ (e.app = "sends" => Alive(e)) /\ InUse(e)
  BY DEF Serving, HasSession, InUse, Alive
<1>2. CASE f = CloseWhenDone(e)
  <2>1. /\ IsEndpoint(f) /\ f.app \in {e.app, "done"} /\ f.window = e.window /\ f.out = e.out
        /\ f.pc = e.pc /\ f.peer = e.peer /\ f.toSend = e.toSend /\ f.connected = e.connected
        /\ f.registered = e.registered /\ f.failed = e.failed
        /\ f.app # "done" => f.closing = e.closing
    BY <1>1, <1>2, CloseWhenDoneEffect
  <2>2. f.app \in {"waits", "sends", "done"} /\ (f.app # "done" => e.app # "done")
    BY <2>1 DEF Serving, HasSession
  <2>3. InUse(f) /\ (InSession(f) => InSession(e))
    BY <1>1, <2>1, <2>2 DEF InUse, InSession
  <2>4. QED BY <2>1, <2>2, <2>3 DEF Serving, HasSession, Keeps
<1>3. CASE e.app = "waits" /\ f = [Takes(e) EXCEPT !.app = "sends", !.toSend = Parts]
  <2> DEFINE t == Takes(e)
             app == "sends"
             n == Parts
  <2>1. IsEndpoint(t) /\ SameControl(t, e) /\ t.window = e.window /\ t.out = e.out
    BY <1>1, TakesEffect
  <2>2. /\ f = [t EXCEPT !.app = app, !.toSend = n] /\ n \in Nat
        /\ app \in {"waits", "sends", "done"}
    BY <1>3, PartsAssumption
  <2> HIDE DEF t, app, n
  <2>3. IsEndpoint(f)
    BY ONLY <2>1, <2>2, Zenon DEF IsEndpoint
  <2>4. /\ f.app = app /\ f.toSend = n /\ f.window = t.window /\ f.out = t.out
        /\ f.pc = t.pc /\ f.peer = t.peer /\ f.connected = t.connected /\ f.failed = t.failed
        /\ f.closing = t.closing /\ f.registered = t.registered
    BY ONLY <2>1, <2>2, SMT DEF IsEndpoint, EndpointFields
  <2>5. InUse(f) /\ (InSession(f) => InSession(e))
    BY <1>1, <1>3, <2>1, <2>4 DEF InUse, InSession, SameControl
  <2>6. Packets(f.out, TalkFlags)
    BY <1>3, <2>1, <2>4 DEF Serving
  <2>7. QED BY <2>1, <2>2, <2>3, <2>4, <2>5, <2>6 DEF Serving, HasSession, SameControl, Keeps
<1>4. QED BY <1>2, <1>3 DEF Session

(* It keeps it in the main loop. *)
LEMMA ServingLoops ==
  ASSUME NEW e, Serving(e), NEW f, f = Loop(e, TRUE)
  PROVE  Serving(f) /\ Keeps(f, e)
<1>1. /\ IsEndpoint(e) /\ e.toSend \in Nat /\ Packets(e.out, SocketFlags)
      /\ Packets(e.window, {"PSH", "FIN"})
  BY DEF Serving, HasSession
<1>2. CASE e.pc # "open"
  BY <1>2 DEF Loop, Keeps
<1>3. CASE e.pc = "open" /\ e.closing /\ IsDoneTransmitting(e)
  <2> DEFINE g == [e EXCEPT !.window = <<>>]
             h == AddWaiting(g, "FIN")
             fin == Segment("FIN", g.seq, g)
  <2>1. f = [h EXCEPT !.pc = "fin"]
    BY <1>3 DEF Loop
  <2>2. IsEndpoint(g)
    BY <1>1, Zenon DEF IsEndpoint
  <2>3. SameControl(g, e) /\ g.window = <<>> /\ g.out = e.out
    BY ONLY <1>1, SMT DEF IsEndpoint, EndpointFields, SameControl
  <2>4. fin.flags = "FIN"
    BY DEF Segment
  <2> HIDE DEF g
  <2>5. /\ IsEndpoint(h) /\ SameControl(h, g)
        /\ h.window = Append(g.window, fin) /\ h.out = Append(g.out, fin)
    BY ONLY <2>2, AddWaitingEffect
  <2> HIDE DEF h, fin
  <2>6. /\ IsEndpoint(f) /\ f.pc = "fin" /\ f.window = h.window /\ f.out = h.out
        /\ f.peer = h.peer /\ f.toSend = h.toSend /\ f.connected = h.connected
        /\ f.registered = h.registered /\ f.app = h.app /\ f.failed = h.failed
    <3>1. IsEndpoint(h)
      BY <2>5
    <3>2. QED BY ONLY <2>1, <3>1, PcEffect
  <2>7. Packets(Append(<<>>, fin), {"PSH", "FIN"})
    <3>1. fin.flags \in {"PSH", "FIN"} /\ Packets(<<>>, {"PSH", "FIN"})
      BY <2>4, NoPackets
    <3>2. QED BY <3>1, AppendedPacket
  <2>8. Packets(Append(e.out, fin), SocketFlags)
    <3>1. fin.flags \in SocketFlags
      BY <2>4 DEF SocketFlags
    <3>2. QED BY <1>1, <3>1, AppendedPacket
  <2>9. f.window = Append(<<>>, fin) /\ f.out = Append(e.out, fin)
    BY <2>3, <2>5, <2>6
  <2>10. e.app = "done" /\ f.app = "done" /\ f.peer = e.peer /\ f.registered = e.registered
    <3>1. e.closing # FALSE
      BY <1>3
    <3>2. e.app = "done"
      BY <1>3, <3>1 DEF Serving, HasSession, InUse
    <3>3. QED BY <2>3, <2>5, <2>6, <3>2 DEF SameControl
  <2>11. InUse(f) /\ Keeps(f, e)
    BY <2>10 DEF InUse, Keeps, InSession
  <2>12. Serving(f)
    BY ZenonT(60), <2>3, <2>5, <2>6, <2>7, <2>8, <2>9, <2>10, <2>11 DEF Serving, HasSession, SameControl
  <2>13. QED BY <2>11, <2>12
<1>4. CASE e.pc = "open" /\ ~(e.closing /\ IsDoneTransmitting(e))
  <2>1. HasGoneOn(f, e)
    <3>1. GoesOn(e)
      BY <1>1, <1>4 DEF GoesOn
    <3>2. QED BY <3>1, LoopSends
  <2>2. PICK ps : Packets(ps, {"PSH"}) /\ f.window = e.window \o ps /\ f.out = e.out \o ps
    BY <2>1 DEF HasGoneOn
  <2>3. Packets(e.window \o ps, {"PSH", "FIN"})
    <3>1. Packets(ps, {"PSH", "FIN"})
      BY <2>2, WiderPackets
    <3>2. QED BY <1>1, <3>1, JoinedPackets
  <2>4. /\ Packets(e.out \o ps, SocketFlags)
        /\ e.app # "done" => Packets(e.out \o ps, TalkFlags)
    <3>1. Packets(ps, SocketFlags) /\ Packets(ps, TalkFlags)
      BY <2>2 DEF Packets, SocketFlags, TalkFlags
    <3>2. e.app # "done" => Packets(e.out, TalkFlags)
      BY DEF Serving
    <3>3. QED BY <1>1, <3>1, <3>2, JoinedPackets
  <2>5. f.toSend \in Nat
    <3>1. f.toSend = 0
      BY ONLY <2>1 DEF HasGoneOn
    <3>2. QED BY ONLY <3>1
  <2>6. ASSUME Packets(e.window, {"PSH"}) PROVE Packets(f.window, {"PSH"})
    <3>1. Packets(e.window \o ps, {"PSH"})
      BY <2>2, <2>6, JoinedPackets
    <3>2. QED BY <2>2, <3>1
  <2>7. InUse(f) /\ Keeps(f, e)
    BY <2>1, <2>6 DEF Serving, HasSession, HasGoneOn, InUse, InSession, Keeps
  <2>8. QED BY <2>1, <2>2, <2>3, <2>4, <2>5, <2>7 DEF Serving, HasSession, HasGoneOn
<1>5. QED BY <1>2, <1>3, <1>4

(* The session process waits until its answer is sent, and a RST ends the  *)
(* kernelmode process that it asks.                                        *)
Asks(e, p) == HasSession(e) /\ Alive(e) /\ e.app = "sends" /\ p.flags = "RST"

(* A socket with a session that hears a packet, in the kernel. *)
LEMMA SessionHandles ==
  ASSUME NEW e, HasSession(e), e.out = <<>>, NEW p, p.flags \in {"PSH", "ACK", "FINACK", "RST"},
         NEW k, k = KernelHandles(Hearing(e, e.peer), p)
  PROVE  /\ Serving(k) /\ Keeps(k, e) /\ k.app = e.app
         /\ e.app = "sends" => k.pc = IF p.flags = "RST" THEN "reset" ELSE e.pc
<1> DEFINE g == Hearing(e, e.peer)
           h == HandlePacket(g, p)
<1>1. k = Continue(Deliver(h), p)
  BY DEF KernelHandles
<1>2. IsEndpoint(e)
  BY DEF HasSession
<1>3. /\ IsEndpoint(g) /\ g.peer = e.peer /\ g.window = e.window /\ g.out = e.out
      /\ g.seq = e.seq /\ g.r = e.r /\ g.pc = e.pc /\ g.toSend = e.toSend /\ g.connected = e.connected
      /\ g.closing = e.closing /\ g.closed = e.closed /\ g.registered = e.registered
      /\ g.app = e.app /\ g.failed = e.failed
  BY ONLY <1>2, HearsEffect
<1> HIDE DEF g
<1>4. Packets(<<>>, SocketFlags) /\ Packets(<<>>, TalkFlags)
  BY NoPackets
<1>5. InUse(g) /\ Keeps(g, e)
  BY <1>3 DEF HasSession, InUse, Keeps, InSession
<1>6. Serving(g)
  BY <1>3, <1>4, <1>5 DEF Serving, HasSession
<1>7. Serving(h) /\ Keeps(h, g) /\ h.app = g.app /\ h.pc = IF p.flags = "RST" THEN "reset" ELSE g.pc
  BY <1>6, ServingHandles
<1> HIDE DEF h
<1>8. Serving(k) /\ Keeps(k, h) /\ k.app = h.app /\ (h.app = "sends" => k.pc = h.pc)
  BY <1>1, <1>7, ServingContinues
<1>9. QED BY <1>3, <1>5, <1>7, <1>8 DEF Keeps

(* So it keeps it in a tick, whatever packet it hears, unless it raises. *)
LEMMA SessionHears ==
  ASSUME NEW e, HasSession(e), Alive(e), e.out = <<>>, NEW p, p.flags \in {"PSH", "ACK", "FINACK", "RST"},
         ~Asks(e, p), NEW f, f = SocketRuns(Hearing(e, e.peer), p)
  PROVE  Serving(f) /\ Keeps(f, e)
<1> DEFINE k == KernelHandles(Hearing(e, e.peer), p)
           u == Session(k)
<1>1. f = Loop(u, TRUE)
  BY DEF SocketRuns
<1>2. /\ Serving(k) /\ Keeps(k, e) /\ k.app = e.app
      /\ e.app = "sends" => k.pc = IF p.flags = "RST" THEN "reset" ELSE e.pc
  BY SessionHandles
<1>3. k.app = "sends" => k.pc # "reset"
  BY <1>2 DEF Asks, Alive
<1> HIDE DEF k
<1>4. Serving(u) /\ Keeps(u, k)
  BY <1>2, <1>3, ServingUses
<1> HIDE DEF u
<1>5. Serving(f) /\ Keeps(f, u)
  BY <1>1, <1>4, ServingLoops
<1>6. QED BY <1>2, <1>4, <1>5 DEF Keeps

(* And it raises when the RST comes while its process waits. *)
LEMMA SessionRaises ==
  ASSUME NEW e, e.out = <<>>, NEW p, Asks(e, p), NEW f, f = SocketRuns(Hearing(e, e.peer), p)
  PROVE  IsEndpoint(f) /\ f.failed = TRUE /\ f.registered = e.registered /\ f.pc # "none"
<1> DEFINE k == KernelHandles(Hearing(e, e.peer), p)
           u == Session(k)
<1>1. f = Loop(u, TRUE)
  BY DEF SocketRuns
<1>2. /\ HasSession(e) /\ e.app = "sends" /\ p.flags = "RST"
      /\ p.flags \in {"PSH", "ACK", "FINACK", "RST"}
  BY DEF Asks
<1>3. /\ Serving(k) /\ Keeps(k, e) /\ k.app = e.app
      /\ e.app = "sends" => k.pc = IF p.flags = "RST" THEN "reset" ELSE e.pc
  BY <1>2, SessionHandles
<1> HIDE DEF k
<1>4. IsEndpoint(k) /\ k.app = "sends" /\ k.pc = "reset" /\ k.registered = e.registered
  BY <1>2, <1>3 DEF Serving, HasSession, Keeps
<1>5. /\ IsEndpoint(u) /\ u.failed = TRUE /\ u.registered = k.registered
      /\ u.pc = "reset" /\ u.peer = k.peer
  BY ONLY <1>4, AskingRaises
<1> HIDE DEF u
<1>6. f = u
  BY <1>1, <1>5 DEF Loop
<1>7. QED BY <1>4, <1>5, <1>6

(* The process that accepts starts the session. *)
LEMMA SessionStarts ==
  ASSUME NEW e, Opened(e), e.registered = TRUE, Packets(e.out, TalkFlags),
         NEW f, f = Loop(CloseWhenDone(StartSession(e)), TRUE)
  PROVE  Serving(f) /\ f.peer = e.peer /\ f.registered = TRUE
<1> DEFINE s == StartSession(e)
           k == CloseWhenDone(s)
<1>1. /\ IsEndpoint(e) /\ Packets(e.window, {"PSH", "FIN"}) /\ Packets(e.window, {"PSH"})
      /\ e.toSend \in Nat /\ e.pc = "open" /\ e.closing = FALSE
      /\ Packets(e.out, SocketFlags) /\ Packets(e.out, TalkFlags)
  BY DEF Opened, Packets, SocketFlags, TalkFlags
<1>2. Serving(s) /\ s.peer = e.peer /\ s.registered = TRUE /\ s.pc = "open"
  <2>1. CASE s = [e EXCEPT !.app = "sends", !.toSend = 1]
    <3> DEFINE app == "sends"
               n == 1
    <3>1. s = [e EXCEPT !.app = app, !.toSend = n] /\ n \in Nat /\ app \in {"waits", "sends", "done"}
      BY <2>1
    <3> HIDE DEF s, app, n
    <3>2. IsEndpoint(s)
      BY ONLY <1>1, <3>1, Zenon DEF IsEndpoint
    <3>3. /\ s.app = app /\ s.toSend = n /\ s.window = e.window /\ s.out = e.out
          /\ s.pc = e.pc /\ s.peer = e.peer /\ s.connected = e.connected /\ s.failed = e.failed
          /\ s.closing = e.closing /\ s.registered = e.registered
      BY ONLY <1>1, <3>1, SMT DEF IsEndpoint, EndpointFields
    <3>4. InUse(s)
      BY <1>1, <3>3 DEF InUse
    <3>5. QED BY <1>1, <3>1, <3>2, <3>3, <3>4 DEF Serving, HasSession, Opened
  <2>2. CASE s = [e EXCEPT !.app = "waits"]
    <3> HIDE DEF s
    <3>1. /\ IsEndpoint(s) /\ s.app = "waits" /\ s.window = e.window /\ s.out = e.out
          /\ s.pc = e.pc /\ s.peer = e.peer /\ s.toSend = e.toSend /\ s.connected = e.connected
          /\ s.closing = e.closing /\ s.registered = e.registered /\ s.failed = e.failed
      <4>1. IsEndpoint(e)
        BY <1>1
      <4>2. QED BY ONLY <2>2, <4>1, AppEffect
    <3>2. InUse(s)
      BY <1>1, <3>1 DEF InUse
    <3>3. QED BY <1>1, <3>1, <3>2 DEF Serving, HasSession, Opened
  <2>3. QED BY <2>1, <2>2 DEF StartSession
<1>3. f = Loop(k, TRUE)
  OBVIOUS
<1> HIDE DEF s
<1>4. Serving(k) /\ k.peer = s.peer /\ k.registered = s.registered
  <2>1. IsEndpoint(s) /\ (s.app = "sends" => Alive(s))
    BY <1>2 DEF Serving, HasSession, Alive
  <2>2. /\ IsEndpoint(k) /\ k.app \in {s.app, "done"} /\ k.window = s.window /\ k.out = s.out
        /\ k.pc = s.pc /\ k.peer = s.peer /\ k.toSend = s.toSend /\ k.connected = s.connected
        /\ k.registered = s.registered /\ k.failed = s.failed
        /\ k.app # "done" => k.closing = s.closing
    BY ONLY <2>1, CloseWhenDoneEffect
  <2> HIDE DEF k
  <2>3. k.app \in {"waits", "sends", "done"} /\ (k.app # "done" => s.app # "done")
    BY <1>2, <2>2 DEF Serving, HasSession
  <2>4. InUse(k)
    BY <1>2, <2>2, <2>3 DEF Serving, HasSession, InUse
  <2>5. QED BY <1>2, <2>2, <2>3, <2>4 DEF Serving, HasSession
<1> HIDE DEF k
<1>5. Serving(f) /\ Keeps(f, k)
  BY <1>3, <1>4, ServingLoops
<1>6. QED BY <1>2, <1>4, <1>5 DEF Keeps

-----------------------------------------------------------------------------
(* What the server sends. *)

(* What all sockets send, as a sequence. *)
LEMMA AllOutElements ==
  ASSUME NEW ends, NEW S, \A s \in Sockets : ends[s].out \in Seq(S)
  PROVE  AllOut(ends) \in Seq(S)
<1> DEFINE A == Seq(S)
           q == [s \in Sockets |-> ends[s].out]
           op(a, b) == a \o b
           f == [x \in A \X A |-> op(x[1], x[2])]
           Steps(it) == [s \in SUBSET (DOMAIN q) |->
                           IF s = {} THEN <<>> ELSE op(it[s \ {Max(s)}], q[Max(s)])]
           Iter == CHOOSE it : it = Steps(it)
<1>1. f \in [A \X A -> A] /\ <<>> \in A /\ \A a, b \in A : f[<<a, b>>] = op(a, b)
  <2>1. <<>> \in A /\ \A a, b \in A : op(a, b) \in A
    OBVIOUS
  <2> HIDE DEF A, op
  <2>2. f \in [A \X A -> A]
    BY <2>1
  <2>3. \A a, b \in A : f[<<a, b>>] = op(a, b)
    OBVIOUS
  <2>4. QED BY <2>1, <2>2, <2>3
<1>2. q \in Seq(A)
  <2>1. Cardinality(Sockets) \in Nat /\ Sockets = 1 .. Cardinality(Sockets)
    BY SocketsAssumption
  <2> DEFINE n == Cardinality(Sockets)
  <2>2. q \in [1 .. n -> A]
    BY <2>1
  <2> HIDE DEF q, A, n
  <2>3. QED BY <2>1, <2>2, FunctionIsSequence DEF n
<1>3. AllOut(ends) = Iter[DOMAIN q]
  BY DEF AllOut, FoldLeft, MapThenFoldSet
<1> HIDE DEF f, op, A, q
<1>4. PICK it \in [SUBSET (DOMAIN q) -> A] : IsFold(it, f, <<>>, q)
  BY <1>1, <1>2, FoldExists
<1>5. \A s \in SUBSET (DOMAIN q) : s # {} =>
        q[Max(s)] \in A /\ s \ {Max(s)} \in SUBSET (DOMAIN q)
  BY <1>2, InitialIntervals
<1>6. \A s \in SUBSET (DOMAIN q) :
        it[s] = IF s = {} THEN <<>> ELSE op(it[s \ {Max(s)}], q[Max(s)])
  BY <1>1, <1>4, <1>5 DEF IsFold
<1>7. it = Steps(it)
  BY <1>6
<1>8. Iter = Steps(Iter)
  BY <1>7
<1> HIDE DEF Iter
<1>9. Iter[{}] = <<>>
  BY <1>8
<1>10. \A s \in SUBSET (DOMAIN q) : (s # {} /\ Iter[s \ {Max(s)}] \in A) =>
          Iter[s] = f[<<Iter[s \ {Max(s)}], q[Max(s)]>>]
  BY ZenonT(60), <1>1, <1>5, <1>8
<1>11. PICK h \in [0 .. Len(q) -> A] : FoldedBy(h, f, <<>>, q, Iter[DOMAIN q])
  BY <1>1, <1>2, <1>9, <1>10, FoldHistory
<1>12. h[Len(q)] = AllOut(ends) /\ Len(q) \in Nat
  BY <1>2, <1>3, <1>11 DEF FoldedBy
<1>13. QED BY <1>12 DEF A

(* What all sockets send is what each of them sends. *)
LEMMA AllOutPackets ==
  ASSUME NEW ends, NEW F, \A s \in Sockets : Packets(ends[s].out, F)
  PROVE  /\ Packets(AllOut(ends), F)
         /\ \A p \in ToSet(AllOut(ends)) : \E s \in Sockets : p \in ToSet(ends[s].out)
<1> DEFINE S == UNION {ToSet(ends[s].out) : s \in Sockets}
<1>1. \A s \in Sockets : ends[s].out \in Seq(S)
  <2>1. ASSUME NEW s \in Sockets PROVE ends[s].out \in Seq(S)
    <3>1. ends[s].out \in Seq(ToSet(ends[s].out)) /\ ToSet(ends[s].out) \subseteq S
      BY DEF Packets
    <3> HIDE DEF S
    <3>2. QED BY <3>1, WiderSequence
  <2>2. QED BY <2>1
<1>2. \A p \in S : p.flags \in F
  BY DEF Packets
<1>3. \A p \in S : \E s \in Sockets : p \in ToSet(ends[s].out)
  OBVIOUS
<1> HIDE DEF S
<1>4. AllOut(ends) \in Seq(S)
  BY <1>1, AllOutElements
<1>5. AllOut(ends) \in Seq(ToSet(AllOut(ends))) /\ ToSet(AllOut(ends)) \subseteq S
  BY <1>4, OfItsElements, ElementsByPlace
<1>6. QED BY <1>2, <1>3, <1>5 DEF Packets

-----------------------------------------------------------------------------
(* What a state does not say. *)

(* The states do not speak of the lists and counters of an endpoint. *)
LEMMA SameStates ==
  ASSUME NEW e, NEW f, IsEndpoint(f), SameControl(f, e), f.window = e.window
  PROVE  /\ SaysHello(e) => SaysHello(f)
         /\ WasAnswered(e) => WasAnswered(f)
         /\ WaitsForAck(e) => WaitsForAck(f)
         /\ HasSession(e) => HasSession(f)
         /\ WasReset(e) => WasReset(f)
         /\ Engaged(e) => Engaged(f)
<1>1. SaysHello(e) => SaysHello(f)
  BY DEF SaysHello, SameControl
<1>2. WasAnswered(e) => WasAnswered(f)
  BY DEF WasAnswered, SameControl
<1>3. WaitsForAck(e) => WaitsForAck(f)
  BY DEF WaitsForAck, SameControl
<1>4. HasSession(e) => HasSession(f)
  BY DEF HasSession, SameControl, InUse
<1>5. WasReset(e) => WasReset(f)
  BY DEF WasReset, SameControl
<1>6. Engaged(e) => Engaged(f)
  BY DEF Engaged, SameControl
<1>7. QED BY <1>1, <1>2, <1>3, <1>4, <1>5, <1>6

(* What is sent leaves the endpoint. *)
LEMMA FlushEffect ==
  ASSUME NEW e, IsEndpoint(e), NEW f, f = [e EXCEPT !.out = <<>>]
  PROVE  /\ IsEndpoint(f) /\ SameControl(f, e) /\ f.window = e.window /\ f.out = <<>>
         /\ e.out = <<>> => f = e
<1>1. IsEndpoint(f)
  BY Zenon DEF IsEndpoint
<1>2. SameControl(f, e) /\ f.window = e.window /\ f.out = <<>>
  BY SMT DEF IsEndpoint, EndpointFields, SameControl
<1>3. ASSUME e.out = <<>> PROVE f = e
  <2>1. \A x \in EndpointFields : f[x] = e[x]
    BY <1>3 DEF IsEndpoint
  <2>2. [x \in EndpointFields |-> f[x]] = [x \in EndpointFields |-> e[x]]
    BY <2>1
  <2>3. QED BY <1>1, <2>2 DEF IsEndpoint
<1>4. QED BY <1>1, <1>2, <1>3

(* Only that it resent changes. *)
LEMMA ResentEffect ==
  ASSUME NEW e, IsEndpoint(e), NEW b, NEW f, f = [e EXCEPT !.resent = b]
  PROVE  IsEndpoint(f) /\ SameControl(f, e) /\ f.window = e.window /\ f.out = e.out
<1>1. IsEndpoint(f)
  BY Zenon DEF IsEndpoint
<1>2. SameControl(f, e) /\ f.window = e.window /\ f.out = e.out
  BY SMT DEF IsEndpoint, EndpointFields, SameControl
<1>3. QED BY <1>1, <1>2

(* An endpoint that has done nothing. *)
LEMMA NewIsEndpoint ==
  /\ IsEndpoint(NewEndpoint) /\ NewEndpoint.pc = "none" /\ NewEndpoint.peer = Nobody
  /\ NewEndpoint.app = "none" /\ NewEndpoint.out = <<>> /\ NewEndpoint.window = <<>>
  /\ NewEndpoint.registered = FALSE /\ NewEndpoint.failed = FALSE /\ NewEndpoint.connected = FALSE
<1>1. IsEndpoint(NewEndpoint)
  BY DEF NewEndpoint, IsEndpoint, EndpointFields
<1>2. QED BY <1>1 DEF NewEndpoint

(* The fields that tell the states of a socket from each other. *)
LEMMA StatesOfASocket ==
  ASSUME NEW e, SocketState(e)
  PROVE  /\ IsEndpoint(e) /\ e.failed = FALSE
         /\ \/ e = NewEndpoint /\ e.pc = "none" /\ e.peer = Nobody /\ e.app = "none" /\ e.connected = FALSE
            \/ WaitsForSyn(e) /\ e.pc = "listen" /\ e.peer = Nobody /\ e.app = "none" /\ e.connected = FALSE
            \/ WaitsForAck(e) /\ e.pc = "accepting" /\ e.peer \in Clients /\ e.app = "none" /\ e.connected = FALSE
            \/ /\ HasSession(e) /\ e.pc \in {"open", "fin", "stuck", "ended", "reset"} /\ e.peer \in Clients
               /\ e.app # "none" /\ e.connected = TRUE
            \/ WasReset(e) /\ e.pc = "reset" /\ e.peer \in Clients /\ e.app = "none" /\ e.connected = FALSE
<1>1. CASE e = NewEndpoint
  BY <1>1, NewIsEndpoint
<1>2. CASE WaitsForSyn(e)
  <2>1. /\ e.pc = "listen" /\ e.peer = Nobody /\ e.app = "none" /\ e.connected = FALSE /\ e.failed = FALSE
    BY <1>2 DEF WaitsForSyn, NewEndpoint
  <2>2. IsEndpoint(e)
    <3> DEFINE n == NewEndpoint
               pc == "listen"
               r == e.registered
    <3>1. e = [n EXCEPT !.pc = pc, !.registered = r] /\ IsEndpoint(n)
      BY <1>2, NewIsEndpoint DEF WaitsForSyn
    <3> HIDE DEF n, pc, r
    <3>2. QED BY ONLY <3>1, Zenon DEF IsEndpoint
  <2>3. QED BY <1>2, <2>1, <2>2
<1>3. CASE WaitsForAck(e)
  BY <1>3 DEF WaitsForAck
<1>4. CASE HasSession(e)
  BY <1>4 DEF HasSession
<1>5. CASE WasReset(e)
  BY <1>5 DEF WasReset
<1>6. QED BY <1>1, <1>2, <1>3, <1>4, <1>5 DEF SocketState

(* The fields that tell how far the handshake of a client has come. *)
LEMMA StatesOfAClient ==
  ASSUME NEW ends, NEW c, NEW up, NEW down, ClientState(ends, c, up, down)
  PROVE  /\ IsEndpoint(ends[c]) /\ ends[c].failed = FALSE
         /\ \/ BeforeHello(ends, c, up, down) /\ ends[c].pc = "none" /\ ends[c].app = "none"
            \/ DuringHello(ends, c, up, down) /\ ends[c].pc = "hello" /\ ends[c].app = "connecting"
            \/ /\ AfterHello(ends, c, up, down) /\ ends[c].pc \in {"open", "goodbye", "ended", "reset"}
               /\ ends[c].app \notin {"none", "connecting"}
<1>1. CASE BeforeHello(ends, c, up, down)
  BY <1>1, NewIsEndpoint DEF BeforeHello
<1>2. CASE DuringHello(ends, c, up, down)
  BY <1>2 DEF DuringHello, SaysHello
<1>3. CASE AfterHello(ends, c, up, down)
  BY <1>3 DEF AfterHello, WasAnswered
<1>4. QED BY <1>1, <1>2, <1>3 DEF ClientState

-----------------------------------------------------------------------------
(* The steps of a client and of the cables. *)

(* Client c becomes e, with q on its way to the server, and r from it.     *)
ClientMoves(c, e, q, r, ends, ends2, up, up2, down, down2) ==
  /\ ends2 = [ends EXCEPT ![c] = e] /\ up2 = [up EXCEPT ![c] = q] /\ down2 = [down EXCEPT ![c] = r]
  /\ e.out = <<>> /\ ClientState(ends2, c, q, r)
  /\ Attends(ends[c], up[c], down[c]) => Attends(e, q, r)

(* The sockets do not see a step of a client but by its packets. *)
LEMMA AClientSteps ==
  ASSUME NEW ends, NEW up, NEW down, NEW l, NEW opened, Sessions(ends, up, down, l, opened),
         NEW c \in Clients, NEW e, NEW q, NEW r, NEW ends2, NEW up2, NEW down2,
         ClientMoves(c, e, q, r, ends, ends2, up, up2, down, down2)
  PROVE  Sessions(ends2, up2, down2, l, opened)
<1>1. /\ ends = [x \in Endpoints |-> ends[x]] /\ \A x \in Endpoints : ends[x].out = <<>>
      /\ up = [d \in Clients |-> up[d]] /\ down = [d \in Clients |-> down[d]]
      /\ \A d \in Clients : ClientState(ends, d, up[d], down[d])
      /\ \A s \in Sockets : SocketState(ends[s])
      /\ Apart(ends)
      /\ ListenerState(ends, l, opened) /\ opened \in Nat
      /\ Removed(ends, opened) /\ Attended(ends, up, down)
  BY DEF Sessions
<1>0. /\ ends2 = [ends EXCEPT ![c] = e] /\ up2 = [up EXCEPT ![c] = q] /\ down2 = [down EXCEPT ![c] = r]
      /\ e.out = <<>> /\ ClientState(ends2, c, q, r)
      /\ Attends(ends[c], up[c], down[c]) => Attends(e, q, r)
  BY DEF ClientMoves
<1>2. /\ ends2 = [x \in Endpoints |-> ends2[x]] /\ ends2[c] = e
      /\ \A x \in Endpoints : x # c => ends2[x] = ends[x]
      /\ up2 = [d \in Clients |-> up2[d]] /\ up2[c] = q /\ \A d \in Clients : d # c => up2[d] = up[d]
      /\ down2 = [d \in Clients |-> down2[d]] /\ down2[c] = r /\ \A d \in Clients : d # c => down2[d] = down[d]
  BY <1>0, <1>1 DEF Endpoints
<1>3. \A s \in Sockets : s \in Endpoints /\ s # c
  BY ClientsAssumption DEF Endpoints
<1>4. \A s \in Sockets : ends2[s] = ends[s]
  BY <1>2, <1>3
<1>5. \A x \in Endpoints : ends2[x].out = <<>>
  BY <1>0, <1>1, <1>2
<1>6. ASSUME NEW d \in Clients PROVE ClientState(ends2, d, up2[d], down2[d])
  <2>1. CASE d = c
    BY <1>0, <1>2, <2>1
  <2>2. CASE d # c
    <3>1. ends2[d] = ends[d] /\ up2[d] = up[d] /\ down2[d] = down[d]
      BY <1>2, <2>2 DEF Endpoints
    <3>2. ClientState(ends, d, up[d], down[d])
      BY <1>1
    <3>3. QED BY <1>4, <3>1, <3>2 DEF ClientState, BeforeHello, DuringHello, AfterHello
  <2>3. QED BY <2>1, <2>2
<1>7. \A s \in Sockets : SocketState(ends2[s])
  BY <1>1, <1>4
<1>8. Apart(ends2)
  BY <1>1, <1>4 DEF Apart
<1>9. ListenerState(ends2, l, opened) /\ Removed(ends2, opened)
  BY <1>1, <1>4 DEF ListenerState, Removed
<1>10. Attended(ends2, up2, down2)
  <2>1. SUFFICES ASSUME NEW d \in Clients, NEW s \in Sockets, Faces(ends2[s], d)
                 PROVE  Attends(ends2[d], up2[d], down2[d])
    BY DEF Attended
  <2>2. Attends(ends[d], up[d], down[d])
    BY <1>1, <1>4, <2>1 DEF Attended
  <2>3. CASE d = c
    BY <1>0, <1>2, <2>2, <2>3
  <2>4. CASE d # c
    BY <1>2, <2>2, <2>4 DEF Endpoints
  <2>5. QED BY <2>3, <2>4
<1>11. QED BY <1>1, <1>2, <1>5, <1>6, <1>7, <1>8, <1>9, <1>10 DEF Sessions

Sound == Sessions(end, toServer, toClient, listener, toggles)

(* The parts of the invariant, for the variables. *)
LEMMA SoundParts ==
  ASSUME Sound
  PROVE  /\ end = [x \in Endpoints |-> end[x]] /\ \A x \in Endpoints : end[x].out = <<>>
         /\ toServer = [d \in Clients |-> toServer[d]] /\ toClient = [d \in Clients |-> toClient[d]]
         /\ \A d \in Clients : d \in Endpoints /\ ClientState(end, d, toServer[d], toClient[d])
         /\ \A s \in Sockets : s \in Endpoints /\ s \notin Clients /\ SocketState(end[s])
         /\ Apart(end) /\ ListenerState(end, listener, toggles) /\ toggles \in Nat
         /\ Removed(end, toggles) /\ Attended(end, toServer, toClient)
BY ClientsAssumption DEF Sound, Sessions, Endpoints

(* A new endpoint says hello. *)
LEMMA FirstSyn ==
  ASSUME NEW e,
         e = AddWaiting([NewEndpoint EXCEPT !.pc = "hello", !.registered = TRUE, !.app = "connecting"], "SYN")
  PROVE  SaysHello(e) /\ e.out = <<Syn>>
<1> DEFINE g == [NewEndpoint EXCEPT !.pc = "hello", !.registered = TRUE, !.app = "connecting"]
           p == Segment("SYN", g.seq, g)
<1>1. /\ IsEndpoint(g) /\ g.pc = "hello" /\ g.registered = TRUE /\ g.app = "connecting"
      /\ g.seq = 0 /\ g.r = NewEndpoint.r /\ g.window = <<>> /\ g.out = <<>> /\ g.toSend = 0
      /\ g.connected = FALSE /\ g.closing = FALSE /\ g.closed = FALSE /\ g.failed = FALSE
  BY DEF NewEndpoint, IsEndpoint, EndpointFields
<1>2. e = AddWaiting(g, "SYN")
  OBVIOUS
<1>3. p = Syn
  BY <1>1 DEF Syn, Segment
<1> HIDE DEF g
<1>4. /\ IsEndpoint(e) /\ SameControl(e, g) /\ e.window = Append(g.window, p) /\ e.out = Append(g.out, p)
  BY <1>1, <1>2, AddWaitingEffect
<1> HIDE DEF p
<1>5. e.window = <<Syn>> /\ e.out = <<Syn>>
  BY <1>1, <1>3, <1>4, OneElement
<1>6. QED BY <1>1, <1>4, <1>5 DEF SaysHello, SameControl

(* A client sends its SYN. *)
LEMMA ClientConnects ==
  ASSUME Sound, NEW c \in Clients, Connect(c)
  PROVE  Sound' /\ crashed' = crashed
<1>1. /\ ClientState(end, c, toServer[c], toClient[c]) /\ c \in Endpoints
      /\ end = [x \in Endpoints |-> end[x]]
      /\ toServer = [d \in Clients |-> toServer[d]] /\ toClient = [d \in Clients |-> toClient[d]]
  BY SoundParts
<1>2. end[c] = NewEndpoint /\ toServer[c] = <<>> /\ toClient[c] = <<>> /\ \A s \in Sockets : end[s].peer # c
  <2>1. end[c].app = "none"
    BY DEF Connect
  <2>2. BeforeHello(end, c, toServer[c], toClient[c])
    BY <1>1, <2>1, StatesOfAClient
  <2>3. QED BY <2>2 DEF BeforeHello
<1>3. PICK e : /\ e = AddWaiting([NewEndpoint EXCEPT !.pc = "hello", !.registered = TRUE, !.app = "connecting"], "SYN")
               /\ toServer' = [toServer EXCEPT ![c] = @ \o e.out]
               /\ end' = [end EXCEPT ![c] = [e EXCEPT !.out = <<>>]]
  BY <1>2 DEF Connect
<1>4. SaysHello(e) /\ e.out = <<Syn>>
  BY <1>3, FirstSyn
<1> DEFINE f == [e EXCEPT !.out = <<>>]
<1>5. IsEndpoint(e)
  BY <1>4 DEF SaysHello
<1>6. IsEndpoint(f) /\ SameControl(f, e) /\ f.window = e.window /\ f.out = <<>>
  BY <1>5, FlushEffect
<1>7. end' = [end EXCEPT ![c] = f] /\ toServer' = [toServer EXCEPT ![c] = toServer[c] \o e.out]
  BY <1>3
<1> HIDE DEF f
<1>8. SaysHello(f)
  BY <1>4, <1>6, SameStates
<1>9. toServer[c] \o e.out = <<Syn>>
  BY <1>2, <1>4, OneElement
<1>10. /\ toServer' = [toServer EXCEPT ![c] = <<Syn>>]
       /\ toClient' = [toClient EXCEPT ![c] = <<>>]
       /\ listener' = listener /\ toggles' = toggles /\ crashed' = crashed
  BY <1>1, <1>2, <1>7, <1>9 DEF Connect
<1>11. /\ end'[c] = f /\ \A s \in Sockets : end'[s] = end[s]
  <2>1. \A s \in Sockets : s # c /\ s \in Endpoints
    BY ClientsAssumption DEF Endpoints
  <2>2. QED BY <1>1, <1>7, <2>1
<1>12. Packets(<<>>, {"SYNACK", "RST"}) /\ ToSet(<<>>) = {}
  BY NoPackets
<1>13. ClientState(end', c, <<Syn>>, <<>>)
  BY <1>2, <1>8, <1>11, <1>12 DEF ClientState, DuringHello
<1>14. ~Attends(end[c], toServer[c], toClient[c])
  BY <1>2, NewIsEndpoint DEF Attends
<1>15. Sessions(end', toServer', toClient', listener, toggles)
  <2>1. ClientMoves(c, f, <<Syn>>, <<>>, end, end', toServer, toServer', toClient, toClient')
    BY <1>6, <1>7, <1>10, <1>13, <1>14 DEF ClientMoves
  <2>2. QED BY <2>1, AClientSteps DEF Sound
<1>16. QED BY <1>10, <1>15 DEF Sound

(* A cable drops a packet. *)
LEMMA ACableLoses ==
  ASSUME Sound, NEW c \in Clients, LoseToServer(c) \/ LoseToClient(c)
  PROVE  Sound' /\ crashed' = crashed
<1>1. /\ ClientState(end, c, toServer[c], toClient[c]) /\ c \in Endpoints
      /\ end = [x \in Endpoints |-> end[x]] /\ end[c].out = <<>>
      /\ toServer = [d \in Clients |-> toServer[d]] /\ toClient = [d \in Clients |-> toClient[d]]
  BY SoundParts
<1>2. /\ end' = [end EXCEPT ![c] = end[c]] /\ listener' = listener /\ toggles' = toggles /\ crashed' = crashed
      /\ end' = end
  BY <1>1 DEF LoseToServer, LoseToClient
<1>3. CASE LoseToServer(c)
  <2>1. /\ toServer[c] # <<>> /\ toServer' = [toServer EXCEPT ![c] = Tail(toServer[c])]
        /\ toClient' = [toClient EXCEPT ![c] = toClient[c]]
    BY <1>1, <1>3 DEF LoseToServer
  <2>2. /\ ClientState(end, c, Tail(toServer[c]), toClient[c])
        /\ ToSet(Tail(toServer[c])) \subseteq ToSet(toServer[c])
    <3>1. CASE BeforeHello(end, c, toServer[c], toClient[c])
      BY <2>1, <3>1 DEF BeforeHello
    <3>2. CASE DuringHello(end, c, toServer[c], toClient[c])
      <4>1. Tail(toServer[c]) = <<>>
        <5>1. toServer[c] = <<Syn>>
          BY <2>1, <3>2 DEF DuringHello
        <5>2. QED BY <5>1, OneElement
      <4>2. QED BY <3>2, <4>1, NoPackets DEF DuringHello, ClientState
    <3>3. CASE AfterHello(end, c, toServer[c], toClient[c])
      <4>1. Packets(toServer[c], {"ACK", "PSH", "FINACK", "RST"})
        BY <3>3 DEF AfterHello
      <4>2. /\ Packets(Tail(toServer[c]), {"ACK", "PSH", "FINACK", "RST"})
            /\ ToSet(Tail(toServer[c])) \subseteq ToSet(toServer[c])
        BY <2>1, <4>1, FirstPacket
      <4>3. QED BY <3>3, <4>2 DEF AfterHello, ClientState
    <3>4. QED BY <1>1, <3>1, <3>2, <3>3 DEF ClientState
  <2>3. Attends(end[c], toServer[c], toClient[c]) => Attends(end[c], Tail(toServer[c]), toClient[c])
    BY <2>2 DEF Attends
  <2>4. Sessions(end', toServer', toClient', listener, toggles)
    <3>1. ClientMoves(c, end[c], Tail(toServer[c]), toClient[c], end, end', toServer, toServer', toClient, toClient')
      BY <1>1, <1>2, <2>1, <2>2, <2>3 DEF ClientMoves
    <3>2. QED BY <3>1, AClientSteps DEF Sound
  <2>5. QED BY <1>2, <2>4 DEF Sound
<1>4. CASE LoseToClient(c)
  <2>1. /\ toClient[c] # <<>> /\ toClient' = [toClient EXCEPT ![c] = Tail(toClient[c])]
        /\ toServer' = [toServer EXCEPT ![c] = toServer[c]]
    BY <1>1, <1>4 DEF LoseToClient
  <2>2. /\ ClientState(end, c, toServer[c], Tail(toClient[c]))
        /\ ToSet(Tail(toClient[c])) \subseteq ToSet(toClient[c])
    <3>1. CASE BeforeHello(end, c, toServer[c], toClient[c])
      BY <2>1, <3>1 DEF BeforeHello
    <3>2. CASE DuringHello(end, c, toServer[c], toClient[c])
      <4>1. Packets(toClient[c], {"SYNACK", "RST"}) /\ toServer[c] = <<>>
        BY <2>1, <3>2 DEF DuringHello
      <4>2. /\ Packets(Tail(toClient[c]), {"SYNACK", "RST"})
            /\ ToSet(Tail(toClient[c])) \subseteq ToSet(toClient[c])
        BY <2>1, <4>1, FirstPacket
      <4>3. QED BY <3>2, <4>1, <4>2 DEF DuringHello, ClientState
    <3>3. CASE AfterHello(end, c, toServer[c], toClient[c])
      <4>1. Packets(toClient[c], {"SYNACK", "ACK", "PSH", "FIN", "RST"})
        BY <3>3 DEF AfterHello
      <4>2. /\ Packets(Tail(toClient[c]), {"SYNACK", "ACK", "PSH", "FIN", "RST"})
            /\ ToSet(Tail(toClient[c])) \subseteq ToSet(toClient[c])
        BY <2>1, <4>1, FirstPacket
      <4>3. QED BY <3>3, <4>2 DEF AfterHello, ClientState
    <3>4. QED BY <1>1, <3>1, <3>2, <3>3 DEF ClientState
  <2>3. Attends(end[c], toServer[c], toClient[c]) => Attends(end[c], toServer[c], Tail(toClient[c]))
    BY <2>2 DEF Attends
  <2>4. Sessions(end', toServer', toClient', listener, toggles)
    <3>1. ClientMoves(c, end[c], toServer[c], Tail(toClient[c]), end, end', toServer, toServer', toClient, toClient')
      BY <1>1, <1>2, <2>1, <2>2, <2>3 DEF ClientMoves
    <3>2. QED BY <3>1, AClientSteps DEF Sound
  <2>5. QED BY <1>2, <2>4 DEF Sound
<1>5. QED BY <1>3, <1>4

(* What a client becomes that receives a packet. *)
HeardByClient(e, p) == IF Alive(e) THEN ClientRuns([e EXCEPT !.resent = FALSE], p) ELSE e

(* What a client makes of a packet, by how far it is. *)
LEMMA ClientHears ==
  ASSUME NEW ends, NEW c, NEW up, NEW down, ClientState(ends, c, up, down), ends[c].out = <<>>,
         down # <<>>, NEW p, p = Head(down), NEW e, e = HeardByClient(ends[c], p)
  PROVE  /\ Talking(e) /\ e.failed = FALSE
         /\ Attends(ends[c], up, down) => Engaged(e) /\ p.flags # "RST"
         /\ Packets(up, {"ACK", "PSH", "FINACK", "RST"})
         /\ Packets(Tail(down), {"SYNACK", "ACK", "PSH", "FIN", "RST"})
         /\ ToSet(Tail(down)) \subseteq ToSet(down)
<1> DEFINE x == ends[c]
           g == [x EXCEPT !.resent = FALSE]
<1>1. IsEndpoint(x) /\ ~BeforeHello(ends, c, up, down)
  BY StatesOfAClient DEF BeforeHello
<1>2. IsEndpoint(g) /\ SameControl(g, x) /\ g.window = x.window /\ g.out = x.out
  BY <1>1, ResentEffect
<1>3. e = IF Alive(x) THEN ClientRuns(g, p) ELSE x
  BY DEF HeardByClient
<1>4. x = ends[c] /\ x.out = <<>>
  OBVIOUS
<1> HIDE DEF g, x
<1>5. CASE DuringHello(ends, c, up, down)
  <2>1. /\ SaysHello(x) /\ up = <<>> /\ Packets(down, {"SYNACK", "RST"})
        /\ \A y \in ToSet(down) : y.flags = "SYNACK" => IsSynAck(y)
    BY <1>4, <1>5 DEF DuringHello
  <2>2. SaysHello(g)
    BY <1>2, <2>1, SameStates
  <2>3. /\ Packets(Tail(down), {"SYNACK", "RST"}) /\ ToSet(Tail(down)) \subseteq ToSet(down)
        /\ Head(down) \in ToSet(down) /\ Head(down).flags \in {"SYNACK", "RST"}
    BY <2>1, FirstPacket
  <2>4. e = ClientRuns(g, p)
    BY <1>3, <2>1 DEF Alive, SaysHello
  <2>5. CASE p.flags = "SYNACK"
    <3>1. IsSynAck(p)
      BY <2>1, <2>3, <2>5
    <3>2. Talking(e) /\ Engaged(e)
      BY <1>2, <1>4, <2>2, <2>4, <3>1, HelloAnswered
    <3>3. QED BY <2>1, <2>3, <2>5, <3>2, NoPackets DEF Packets, Talking, WasAnswered
  <2>6. CASE p.flags = "RST"
    <3>1. Talking(e)
      BY <1>2, <1>4, <2>2, <2>4, <2>6, HelloRefused
    <3>2. ~Attends(ends[c], up, down)
      BY <2>3, <2>6 DEF Attends
    <3>3. QED BY <2>1, <2>3, <3>1, <3>2, NoPackets DEF Packets, Talking, WasAnswered
  <2>7. QED BY <2>3, <2>5, <2>6
<1>6. CASE AfterHello(ends, c, up, down)
  <2>1. /\ WasAnswered(x) /\ Packets(up, {"ACK", "PSH", "FINACK", "RST"})
        /\ Packets(down, {"SYNACK", "ACK", "PSH", "FIN", "RST"})
    BY <1>4, <1>6 DEF AfterHello
  <2>2. /\ Packets(Tail(down), {"SYNACK", "ACK", "PSH", "FIN", "RST"})
        /\ ToSet(Tail(down)) \subseteq ToSet(down) /\ Head(down) \in ToSet(down)
        /\ Head(down).flags \in {"SYNACK", "ACK", "PSH", "FIN", "RST"}
    BY <2>1, FirstPacket
  <2>3. WasAnswered(g) /\ Talking(g) /\ Talking(x) /\ (Engaged(x) => Engaged(g))
    BY <1>2, <1>4, <2>1, SameStates, NoPackets DEF Talking
  <2>4. p.flags \in ServerFlags
    BY <2>2 DEF ServerFlags
  <2>5. Attends(ends[c], up, down) => Engaged(x) /\ p.flags \notin {"RST", "FIN"}
    <3>1. Attends(ends[c], up, down) => Engaged(x)
      BY <1>4, <2>1 DEF Attends, Engaged, WasAnswered
    <3>2. Attends(ends[c], up, down) => p.flags \notin {"RST", "FIN"}
      BY <2>2 DEF Attends
    <3>3. QED BY <3>1, <3>2
  <2>6. CASE Alive(x)
    <3>1. g.pc \in {"open", "goodbye"} /\ e = ClientRuns(g, p)
      <4>1. g.pc = x.pc
        BY <1>2 DEF SameControl
      <4>2. QED BY <1>3, <2>1, <2>6, <4>1 DEF Alive, WasAnswered
    <3>2. Talking(e) /\ ((Engaged(g) /\ p.flags \notin {"RST", "FIN"}) => Engaged(e))
      BY <2>3, <2>4, <3>1, ClientTalks
    <3>3. QED BY <2>1, <2>2, <2>3, <2>5, <3>2 DEF Talking, WasAnswered
  <2>7. CASE ~Alive(x)
    <3>1. e = x /\ ~Engaged(x)
      BY <1>3, <2>7 DEF Engaged, Alive
    <3>2. QED BY <2>1, <2>2, <2>3, <2>5, <3>1 DEF Talking, WasAnswered
  <2>8. QED BY <2>6, <2>7
<1>7. QED BY <1>1, <1>5, <1>6 DEF ClientState

(* A client hears a packet. *)
LEMMA AClientReceives ==
  ASSUME Sound, NEW c \in Clients, ClientReceives(c)
  PROVE  Sound' /\ crashed' = FALSE
<1> DEFINE p == Head(toClient[c])
           e == HeardByClient(end[c], p)
           f == [e EXCEPT !.out = <<>>]
           answer == IF p.flags # "RST" /\ ~end[c].registered THEN <<Reset>> ELSE <<>>
           q == toServer[c] \o answer \o e.out
           r == Tail(toClient[c])
           F == {"ACK", "PSH", "FINACK", "RST"}
<1>1. /\ ClientState(end, c, toServer[c], toClient[c]) /\ c \in Endpoints
      /\ end = [x \in Endpoints |-> end[x]] /\ end[c].out = <<>>
      /\ toServer = [d \in Clients |-> toServer[d]] /\ toClient = [d \in Clients |-> toClient[d]]
  BY SoundParts
<1>2. /\ toClient[c] # <<>> /\ toServer' = [toServer EXCEPT ![c] = q] /\ end' = [end EXCEPT ![c] = f]
      /\ crashed' = e.failed /\ toClient' = [toClient EXCEPT ![c] = r]
      /\ listener' = listener /\ toggles' = toggles
  BY DEF ClientReceives, HeardByClient
<1>3. /\ Talking(e) /\ e.failed = FALSE
      /\ Attends(end[c], toServer[c], toClient[c]) => Engaged(e) /\ p.flags # "RST"
      /\ Packets(toServer[c], F)
      /\ Packets(r, {"SYNACK", "ACK", "PSH", "FIN", "RST"})
      /\ ToSet(r) \subseteq ToSet(toClient[c])
  BY <1>1, <1>2, ClientHears
<1> HIDE DEF p, e, r
<1>4. /\ IsEndpoint(f) /\ SameControl(f, e) /\ f.window = e.window /\ f.out = <<>>
  <2>1. IsEndpoint(e)
    BY <1>3 DEF Talking, WasAnswered
  <2>2. QED BY <2>1, FlushEffect
<1> HIDE DEF f
<1>5. WasAnswered(f) /\ (Engaged(e) => Engaged(f))
  BY <1>3, <1>4, SameStates DEF Talking
<1>6. /\ Packets(answer, F) /\ (Attends(end[c], toServer[c], toClient[c]) => answer = <<>>)
  <2>1. Packets(<<>>, F)
    BY NoPackets
  <2>2. Packets(<<Reset>>, F)
    <3>1. Reset.flags \in F
      BY DEF Reset
    <3>2. QED BY <3>1, OnePacket
  <2>3. Attends(end[c], toServer[c], toClient[c]) => end[c].registered = TRUE
    BY DEF Attends
  <2>4. QED BY <2>1, <2>2, <2>3
<1>7. Packets(e.out, F) /\ Packets(e.out, ClientFlags)
  <2>1. Packets(e.out, ClientFlags)
    BY <1>3 DEF Talking
  <2>2. ClientFlags \subseteq F
    BY DEF ClientFlags
  <2> HIDE DEF F
  <2>3. QED BY <2>1, <2>2, WiderPackets
<1>8. /\ Packets(q, F)
      /\ \A y : y \in ToSet(q) <=> (y \in ToSet(toServer[c]) \/ y \in ToSet(answer) \/ y \in ToSet(e.out))
  <2> DEFINE a == toServer[c]
             b == e.out
  <2>1. Packets(a, F) /\ Packets(b, F) /\ Packets(answer, F)
    BY <1>3, <1>6, <1>7
  <2> HIDE DEF F, answer, a, b
  <2>2. /\ Packets(a \o answer \o b, F)
        /\ \A y : y \in ToSet(a \o answer \o b) <=> (y \in ToSet(a) \/ y \in ToSet(answer) \/ y \in ToSet(b))
    BY <2>1, ThreeJoined
  <2>3. QED BY <2>2 DEF a, b
<1>9. Attends(end[c], toServer[c], toClient[c]) => Attends(f, q, r)
  <2>1. SUFFICES ASSUME Attends(end[c], toServer[c], toClient[c]) PROVE Attends(f, q, r)
    OBVIOUS
  <2>2. Engaged(f) /\ answer = <<>>
    BY <1>3, <1>5, <1>6, <2>1
  <2>3. \A y \in ToSet(e.out) : y.flags # "RST"
    BY <1>7 DEF Packets, ClientFlags
  <2>4. ToSet(answer) = {}
    BY <2>2, NoPackets
  <2>5. \A y \in ToSet(q) : y.flags # "RST"
    BY <1>8, <2>1, <2>3, <2>4 DEF Attends
  <2>6. \A y \in ToSet(r) : y.flags \notin {"RST", "FIN"}
    BY <1>3, <2>1 DEF Attends
  <2>7. QED BY <2>2, <2>5, <2>6 DEF Attends, Engaged
<1> HIDE DEF q, answer
<1>10. end'[c] = f
  BY <1>1, <1>2
<1>11. ClientState(end', c, q, r)
  BY <1>3, <1>5, <1>8, <1>10 DEF ClientState, AfterHello
<1>12. ClientMoves(c, f, q, r, end, end', toServer, toServer', toClient, toClient')
  BY <1>2, <1>4, <1>9, <1>11 DEF ClientMoves
<1>13. Sessions(end', toServer', toClient', listener, toggles)
  BY <1>12, AClientSteps DEF Sound
<1>14. QED BY <1>2, <1>3, <1>13 DEF Sound

(* A client no longer waits for the last ACK. *)
LEMMA AClientGivesUp ==
  ASSUME Sound, NEW c \in Clients, GivesUp(c)
  PROVE  Sound' /\ crashed' = crashed
<1> DEFINE x == end[c]
           k == EndSession(x)
           f == Client(k)
<1>1. /\ ClientState(end, c, toServer[c], toClient[c]) /\ c \in Endpoints
      /\ end = [y \in Endpoints |-> end[y]] /\ end[c].out = <<>>
      /\ toServer = [d \in Clients |-> toServer[d]] /\ toClient = [d \in Clients |-> toClient[d]]
  BY SoundParts
<1>2. /\ x.pc = "goodbye" /\ end' = [end EXCEPT ![c] = f]
      /\ toServer' = toServer /\ toClient' = toClient
      /\ listener' = listener /\ toggles' = toggles /\ crashed' = crashed
  BY DEF GivesUp, cables
<1>3. AfterHello(end, c, toServer[c], toClient[c])
  BY <1>1, <1>2, StatesOfAClient
<1>4. WasAnswered(x) /\ IsEndpoint(x)
  BY <1>3 DEF AfterHello, WasAnswered
<1>5. /\ IsEndpoint(k) /\ k.pc = "ended" /\ k.window = <<>> /\ k.out = x.out
      /\ k.toSend = x.toSend /\ k.app = x.app /\ k.failed = x.failed
  BY ZenonT(60), <1>4, EndSessionEffect
<1>6. x.out = <<>>
  BY <1>1
<1> HIDE DEF x, k
<1>7. Talking(k)
  BY <1>4, <1>5, <1>6, NoPackets DEF Talking, WasAnswered
<1>8. Talking(f)
  BY <1>7, TalkingUses
<1>9. f.out = k.out
  <2> DEFINE t == Takes(k)
  <2>1. IsEndpoint(t) /\ SameControl(t, k) /\ t.window = k.window /\ t.out = k.out
    BY <1>5, TakesEffect
  <2>2. \/ f = k \/ f = t \/ f = [t EXCEPT !.app = "finishing"]
        \/ f = AppEnds(k, "done") \/ f = AppEnds(t, "done")
    <3>1. k.app \in {"waits", "reads", "finishing", "done", "refused"}
      BY <1>7 DEF Talking, WasAnswered
    <3>2. QED BY <3>1 DEF Client, DaytimeClient, FtpClient
  <2> HIDE DEF t, f
  <2>3. CASE f = [t EXCEPT !.app = "finishing"]
    <3>1. IsEndpoint(t)
      BY <2>1
    <3>2. f.out = t.out
      BY ONLY <2>3, <3>1, AppEffect
    <3>3. QED BY <2>1, <3>2
  <2>4. CASE f = AppEnds(k, "done")
    BY <1>5, <2>4, AppEndsEffect
  <2>5. CASE f = AppEnds(t, "done")
    BY <2>1, <2>5, AppEndsEffect
  <2>6. QED BY <2>1, <2>2, <2>3, <2>4, <2>5
<1> HIDE DEF f
<1>10. end'[c] = f
  BY <1>1, <1>2
<1>11. ClientState(end', c, toServer[c], toClient[c])
  BY <1>3, <1>8, <1>10 DEF ClientState, AfterHello, Talking
<1>12. ~Attends(end[c], toServer[c], toClient[c])
  BY <1>2 DEF Attends, x
<1>13. ClientMoves(c, f, toServer[c], toClient[c], end, end', toServer, toServer', toClient, toClient')
  <2>1. toServer' = [toServer EXCEPT ![c] = toServer[c]] /\ toClient' = [toClient EXCEPT ![c] = toClient[c]]
    BY <1>1, <1>2
  <2>2. f.out = <<>>
    BY <1>5, <1>6, <1>9
  <2>3. QED BY <1>2, <1>11, <1>12, <2>1, <2>2 DEF ClientMoves
<1>14. Sessions(end', toServer', toClient', listener, toggles)
  BY <1>13, AClientSteps DEF Sound
<1>15. QED BY <1>2, <1>14 DEF Sound

(* A client resends what is in its window. *)
LEMMA AClientResends ==
  ASSUME Sound, NEW c \in Clients, Resend(c, c)
  PROVE  Sound' /\ crashed' = crashed
<1> DEFINE x == end[c]
           f == [x EXCEPT !.resent = TRUE]
           q == x.window
           F == {"ACK", "PSH", "FINACK", "RST"}
<1>1. /\ ClientState(end, c, toServer[c], toClient[c]) /\ c \in Endpoints
      /\ end = [y \in Endpoints |-> end[y]] /\ x.out = <<>>
      /\ toServer = [d \in Clients |-> toServer[d]] /\ toClient = [d \in Clients |-> toClient[d]]
  BY SoundParts
<1>2. /\ toClient[c] = <<>> /\ toServer[c] = <<>> /\ q # <<>> /\ Alive(x)
      /\ end' = [end EXCEPT ![c] = f] /\ toServer' = [toServer EXCEPT ![c] = q] /\ toClient' = toClient
      /\ listener' = listener /\ toggles' = toggles /\ crashed' = crashed
  BY <1>1 DEF Resend, Quiet, Waits
<1>3. IsEndpoint(x)
  BY <1>1, StatesOfAClient
<1> HIDE DEF x
<1>4. IsEndpoint(f) /\ SameControl(f, x) /\ f.window = x.window /\ f.out = x.out
  <2> DEFINE b == TRUE
  <2>1. f = [x EXCEPT !.resent = b]
    OBVIOUS
  <2> HIDE DEF b, f
  <2>2. QED BY ONLY <1>3, <2>1, ResentEffect
<1> HIDE DEF f
<1>5. end'[c] = f /\ \A s \in Sockets : end'[s] = end[s]
  <2>1. \A s \in Sockets : s # c /\ s \in Endpoints
    BY SoundParts
  <2>2. QED BY <1>1, <1>2, <2>1
<1>a. ASSUME ClientState(end', c, q, <<>>), Attends(x, toServer[c], toClient[c]) => Attends(f, q, <<>>)
      PROVE  Sound' /\ crashed' = crashed
  <2>1. toClient' = [toClient EXCEPT ![c] = <<>>]
    BY <1>1, <1>2
  <2>2. f.out = <<>>
    BY <1>1, <1>4
  <2>3. ClientMoves(c, f, q, <<>>, end, end', toServer, toServer', toClient, toClient')
    BY <1>2, <1>a, <2>1, <2>2 DEF ClientMoves, x
  <2>4. Sessions(end', toServer', toClient', listener, toggles)
    BY <2>3, AClientSteps DEF Sound
  <2>5. QED BY <1>2, <2>4 DEF Sound
<1>6. CASE DuringHello(end, c, toServer[c], toClient[c])
  <2>1. SaysHello(x) /\ \A s \in Sockets : end[s].peer = c => WaitsForAck(end[s])
    BY <1>6 DEF DuringHello, x
  <2>2. SaysHello(f) /\ q = <<Syn>>
    <3>1. SaysHello(f)
      BY <1>4, <2>1, SameStates
    <3>2. QED BY <2>1, <3>1 DEF SaysHello
  <2>3. Packets(<<>>, {"SYNACK", "RST"}) /\ ToSet(<<>>) = {}
    BY NoPackets
  <2>4. ClientState(end', c, q, <<>>)
    BY <1>5, <2>1, <2>2, <2>3 DEF ClientState, DuringHello
  <2>5. \A y \in ToSet(q) : y.flags # "RST"
    <3>1. Syn.flags = "SYN" /\ ToSet(<<Syn>>) = {Syn}
      BY OneOfIt DEF Syn, Segment
    <3>2. QED BY <2>2, <3>1
  <2>6. Attends(x, toServer[c], toClient[c]) => Attends(f, q, <<>>)
    BY <1>4, <2>3, <2>5 DEF Attends, SameControl
  <2>7. QED BY <2>4, <2>6, <1>a
<1>7. CASE AfterHello(end, c, toServer[c], toClient[c])
  <2>1. WasAnswered(x)
    BY <1>7 DEF AfterHello, x
  <2>2. Packets(q, {"PSH", "FINACK"})
    BY <1>2, <2>1 DEF WasAnswered, Alive
  <2>3. /\ Packets(q, F) /\ \A y \in ToSet(q) : y.flags # "RST"
        /\ Packets(<<>>, {"SYNACK", "ACK", "PSH", "FIN", "RST"}) /\ ToSet(<<>>) = {}
    BY <2>2, NoPackets DEF Packets
  <2>4. WasAnswered(f)
    BY <1>4, <2>1, SameStates
  <2>5. ClientState(end', c, q, <<>>)
    BY <1>5, <2>3, <2>4 DEF ClientState, AfterHello
  <2>6. Attends(x, toServer[c], toClient[c]) => Attends(f, q, <<>>)
    BY <1>4, <2>3 DEF Attends, SameControl
  <2>7. QED BY <2>5, <2>6, <1>a
<1>8. ~BeforeHello(end, c, toServer[c], toClient[c])
  BY <1>2, NewIsEndpoint DEF BeforeHello, x
<1>9. QED BY <1>1, <1>6, <1>7, <1>8 DEF ClientState

-----------------------------------------------------------------------------
(* The steps of the sockets. *)

(* A client sees of the sockets who talks with it.                         *)
LEMMA OtherSockets ==
  ASSUME NEW ends, NEW d, NEW up, NEW down, ClientState(ends, d, up, down),
         NEW ends2, ends2[d] = ends[d],
         \A s \in Sockets : ends2[s].peer = d =>
            ends[s].peer = d /\ (WaitsForAck(ends[s]) => WaitsForAck(ends2[s]))
  PROVE  ClientState(ends2, d, up, down)
<1>1. CASE BeforeHello(ends, d, up, down)
  BY <1>1 DEF BeforeHello, ClientState
<1>2. CASE DuringHello(ends, d, up, down)
  BY <1>2 DEF DuringHello, ClientState
<1>3. CASE AfterHello(ends, d, up, down)
  BY <1>3 DEF AfterHello, ClientState
<1>4. QED BY <1>1, <1>2, <1>3 DEF ClientState

(* A socket that stays in its state. *)
SameSocket(f, e) ==
  /\ SocketState(f) /\ f.out = <<>> /\ f.peer = e.peer /\ f.pc = e.pc /\ f.app = e.app
  /\ WaitsForAck(e) => WaitsForAck(f)
  /\ WasReset(e) => WasReset(f)
  /\ Waiting(f) => Waiting(e)
  /\ HasSession(f) => HasSession(e)

SocketsStay(ends, ends2) ==
  /\ ends2 = [x \in Endpoints |-> ends2[x]]
  /\ \A d \in Clients : ends2[d] = ends[d]
  /\ \A s \in Sockets : SameSocket(ends2[s], ends[s])

(* The clients and the pairs of sockets see no change of sockets that stay. *)
LEMMA StayingSockets ==
  ASSUME NEW ends, NEW up, NEW down, NEW l, NEW opened, Sessions(ends, up, down, l, opened),
         NEW ends2, SocketsStay(ends, ends2)
  PROVE  /\ \A x \in Endpoints : ends2[x].out = <<>>
         /\ \A d \in Clients : \A q, r : ClientState(ends, d, q, r) => ClientState(ends2, d, q, r)
         /\ \A s \in Sockets : SocketState(ends2[s])
         /\ Apart(ends2)
<1>1. /\ \A x \in Endpoints : ends[x].out = <<>>
      /\ \A s \in Sockets : SocketState(ends[s])
      /\ Apart(ends)
  BY DEF Sessions
<1>2. /\ \A d \in Clients : ends2[d] = ends[d]
      /\ \A s \in Sockets : SameSocket(ends2[s], ends[s])
  BY DEF SocketsStay
<1>3. \A x \in Endpoints : ends2[x].out = <<>>
  BY <1>1, <1>2 DEF Endpoints, SameSocket
<1>4. ASSUME NEW d \in Clients, NEW q, NEW r, ClientState(ends, d, q, r) PROVE ClientState(ends2, d, q, r)
  <2>1. /\ ends2[d] = ends[d]
        /\ \A s \in Sockets : ends2[s].peer = d =>
              ends[s].peer = d /\ (WaitsForAck(ends[s]) => WaitsForAck(ends2[s]))
    BY <1>2 DEF SameSocket
  <2>2. QED BY <1>4, <2>1, OtherSockets
<1>5. \A s \in Sockets : SocketState(ends2[s])
  BY <1>2 DEF SameSocket
<1>6. Apart(ends2)
  BY <1>1, <1>2 DEF SameSocket, Apart
<1>7. QED BY <1>3, <1>4, <1>5, <1>6

(* A socket that resends stays in its state. *)
LEMMA RetryingSocket ==
  ASSUME NEW e, SocketState(e), e.out = <<>>, e.peer \in Clients, NEW b, NEW f, f = [e EXCEPT !.resent = b]
  PROVE  SameSocket(f, e) /\ f.registered = e.registered
<1>1. IsEndpoint(e)
  BY StatesOfASocket
<1>2. IsEndpoint(f) /\ SameControl(f, e) /\ f.window = e.window /\ f.out = e.out
  BY <1>1, ResentEffect
<1>3. /\ WaitsForAck(e) => WaitsForAck(f)
      /\ HasSession(e) => HasSession(f)
      /\ WasReset(e) => WasReset(f)
  BY <1>2, SameStates
<1>4. WaitsForAck(e) \/ HasSession(e) \/ WasReset(e)
  BY StatesOfASocket, NobodyAssumption
<1>5. Waiting(f) => Waiting(e)
  <2>1. f.pc = e.pc
    BY <1>2 DEF SameControl
  <2>2. Waiting(f) => f.pc \in {"listen", "accepting"}
    BY DEF Waiting, WaitsForSyn, WaitsForAck, NewEndpoint
  <2>3. QED BY <1>4, <2>1, <2>2 DEF Waiting, HasSession, WasReset
<1>6. HasSession(f) => HasSession(e)
  <2>1. HasSession(f) => e.app # "none"
    BY <1>2 DEF HasSession, SameControl
  <2>2. QED BY <1>4, <2>1 DEF WaitsForAck, WasReset
<1>7. QED BY <1>2, <1>3, <1>4, <1>5, <1>6 DEF SameSocket, SocketState, SameControl

(* A socket that is not registered any more stays in its state. *)
LEMMA RemovedSocket ==
  ASSUME NEW e, SocketState(e), e.out = <<>>, NEW f, f = [e EXCEPT !.registered = FALSE]
  PROVE  SameSocket(f, e) /\ f.registered = FALSE
<1>1. IsEndpoint(e)
  BY StatesOfASocket
<1>2. IsEndpoint(f)
  BY <1>1, Zenon DEF IsEndpoint
<1>3. /\ f.pc = e.pc /\ f.peer = e.peer /\ f.toSend = e.toSend /\ f.connected = e.connected
      /\ f.closing = e.closing /\ f.closed = e.closed /\ f.app = e.app /\ f.failed = e.failed
      /\ f.window = e.window /\ f.out = e.out /\ f.registered = FALSE
  BY <1>1, SMT DEF IsEndpoint, EndpointFields
<1>0. HasSession(f) => HasSession(e)
  <2>1. HasSession(f) => e.app # "none"
    BY <1>3 DEF HasSession
  <2>2. QED BY <2>1, StatesOfASocket
<1>4. CASE e = NewEndpoint
  <2>1. f = NewEndpoint
    BY <1>4 DEF NewEndpoint
  <2>2. QED BY <1>0, <1>3, <1>4, <2>1 DEF SameSocket, SocketState
<1>5. CASE WaitsForSyn(e)
  <2>1. WaitsForSyn(f)
    <3>1. e = [NewEndpoint EXCEPT !.pc = "listen", !.registered = e.registered]
      BY <1>5 DEF WaitsForSyn
    <3>2. f = [NewEndpoint EXCEPT !.pc = "listen", !.registered = FALSE]
      BY <3>1 DEF NewEndpoint
    <3>3. QED BY <1>3, <3>2 DEF WaitsForSyn
  <2>2. e.pc = "listen"
    BY <1>5 DEF WaitsForSyn, NewEndpoint
  <2>3. ~WaitsForAck(e) /\ ~WasReset(e)
    BY <2>2 DEF WaitsForAck, WasReset
  <2>4. QED BY <1>0, <1>3, <1>5, <2>1, <2>3 DEF SameSocket, SocketState, Waiting
<1>6. CASE WaitsForAck(e)
  <2>1. WaitsForAck(f) /\ ~WasReset(e)
    BY <1>2, <1>3, <1>6 DEF WaitsForAck, WasReset
  <2>2. QED BY <1>0, <1>3, <1>6, <2>1 DEF SameSocket, SocketState, Waiting
<1>7. CASE HasSession(e)
  <2>1. HasSession(f) /\ ~WasReset(e) /\ ~WaitsForAck(e)
    BY <1>2, <1>3, <1>7 DEF HasSession, WasReset, WaitsForAck, InUse
  <2>2. ~Waiting(f)
    <3>1. f.pc \notin {"listen", "accepting"}
      BY <1>3, <1>7 DEF HasSession
    <3>2. QED BY <3>1 DEF Waiting, WaitsForSyn, WaitsForAck, NewEndpoint
  <2>3. QED BY <1>0, <1>3, <2>1, <2>2 DEF SameSocket, SocketState
<1>8. CASE WasReset(e)
  <2>1. WasReset(f) /\ ~WaitsForAck(e)
    BY <1>2, <1>3, <1>8 DEF WasReset, WaitsForAck
  <2>2. ~Waiting(f)
    <3>1. f.pc \notin {"listen", "accepting"}
      BY <1>3, <1>8 DEF WasReset
    <3>2. QED BY <3>1 DEF Waiting, WaitsForSyn, WaitsForAck, NewEndpoint
  <2>3. QED BY <1>0, <1>3, <2>1, <2>2 DEF SameSocket, SocketState
<1>9. QED BY <1>4, <1>5, <1>6, <1>7, <1>8 DEF SocketState

(* The user closes the port. *)
LEMMA APortIsClosed ==
  ASSUME Sound, ClosePort
  PROVE  Sound' /\ crashed' = crashed
<1>1. /\ end = [x \in Endpoints |-> end[x]] /\ \A x \in Endpoints : end[x].out = <<>>
      /\ toServer = [d \in Clients |-> toServer[d]] /\ toClient = [d \in Clients |-> toClient[d]]
      /\ \A d \in Clients : d \in Endpoints /\ ClientState(end, d, toServer[d], toClient[d])
      /\ \A s \in Sockets : s \in Endpoints /\ s \notin Clients /\ SocketState(end[s])
      /\ ListenerState(end, listener, toggles) /\ toggles \in Nat
  BY SoundParts
<1>2. /\ listener # 0 /\ listener' = 0 /\ toggles' = toggles + 1 /\ crashed' = crashed
      /\ toServer' = toServer /\ toClient' = toClient
      /\ end' = [x \in Endpoints |->
                   IF x \in Sockets THEN [end[x] EXCEPT !.registered = FALSE] ELSE end[x]]
  BY DEF ClosePort, Toggle, cables
<1>3. ASSUME NEW s \in Sockets PROVE SameSocket(end'[s], end[s]) /\ end'[s].registered = FALSE
  <2>1. end'[s] = [end[s] EXCEPT !.registered = FALSE] /\ SocketState(end[s]) /\ end[s].out = <<>>
    BY <1>1, <1>2
  <2>2. QED BY <2>1, RemovedSocket
<1>4. SocketsStay(end, end')
  <2>1. \A d \in Clients : end'[d] = end[d]
    BY <1>1, <1>2
  <2>2. end' = [x \in Endpoints |-> end'[x]]
    BY <1>2
  <2>3. QED BY <1>3, <2>1, <2>2 DEF SocketsStay
<1>5. /\ \A x \in Endpoints : end'[x].out = <<>>
      /\ \A d \in Clients : \A q, r : ClientState(end, d, q, r) => ClientState(end', d, q, r)
      /\ \A s \in Sockets : SocketState(end'[s])
      /\ Apart(end')
  BY <1>4, StayingSockets DEF Sound
<1>6. ListenerState(end', 0, toggles + 1) /\ Removed(end', toggles + 1)
  <2>1. toggles >= 1 /\ toggles \in Nat
    BY <1>1, <1>2 DEF ListenerState
  <2>2. toggles + 1 > 1 /\ toggles + 1 \in Nat
    BY <2>1
  <2>3. \A s \in Sockets : end'[s].registered = FALSE
    BY <1>3
  <2>4. QED BY ONLY <2>2, <2>3 DEF ListenerState, Removed
<1>7. Attended(end', toServer, toClient)
  BY <1>3 DEF Attended, Faces
<1>8. Sessions(end', toServer, toClient, 0, toggles + 1)
  <2>1. end' = [x \in Endpoints |-> end'[x]]
    BY <1>4 DEF SocketsStay
  <2>2. \A d \in Clients : ClientState(end', d, toServer[d], toClient[d])
    BY <1>1, <1>5
  <2>3. toggles + 1 \in Nat
    BY <1>1
  <2>4. QED BY ONLY <1>1, <1>5, <1>6, <1>7, <2>1, <2>2, <2>3 DEF Sessions
<1>9. QED BY <1>2, <1>8 DEF Sound

(* The next socket is one that nobody used. *)
LEMMA NextIsFree ==
  ASSUME NEW ends, Free(ends) # {}
  PROVE  NextSocket(ends) \in Sockets /\ ends[NextSocket(ends)].pc = "none"
<1>1. Free(ends) \subseteq Nat /\ Free(ends) \subseteq Sockets
  BY SocketsAssumption DEF Free
<1>2. \E s \in Free(ends) : \A t \in Free(ends) : s <= t
  BY <1>1, LeastNumber
<1>3. NextSocket(ends) \in Free(ends)
  BY <1>2 DEF NextSocket
<1>4. QED BY <1>1, <1>3 DEF Free

(* A socket that nobody used listens. *)
LEMMA NewListener ==
  ASSUME NEW f, f = Listening(NewEndpoint)
  PROVE  /\ WaitsForSyn(f) /\ Waiting(f) /\ SocketState(f) /\ f.registered = TRUE /\ f.peer = Nobody
         /\ f.pc = "listen" /\ f.out = <<>> /\ f.failed = FALSE /\ ~WaitsForAck(f) /\ ~WasReset(f)
         /\ ~HasSession(f)
<1>1. /\ f.registered = TRUE /\ f.peer = Nobody /\ f.pc = "listen" /\ f.out = <<>> /\ f.failed = FALSE
  BY DEF Listening, NewEndpoint
<1>2. f = [NewEndpoint EXCEPT !.pc = "listen", !.registered = TRUE]
  BY DEF Listening
<1>3. WaitsForSyn(f)
  BY <1>1, <1>2 DEF WaitsForSyn
<1>4. ~WaitsForAck(f) /\ ~WasReset(f) /\ ~HasSession(f)
  BY <1>1 DEF WaitsForAck, WasReset, HasSession
<1>5. QED BY <1>1, <1>3, <1>4 DEF Waiting, SocketState

(* A socket that nobody used listens, when none did. *)
LEMMA AListenerIsAdded ==
  ASSUME NEW ends, NEW up, NEW down, NEW opened, Sessions(ends, up, down, 0, opened),
         NEW n \in Sockets, ends[n].pc = "none", NEW ends2, ends2 = [ends EXCEPT ![n] = Listening(@)],
         NEW opened2 \in Nat, opened2 >= 1, opened2 >= opened
  PROVE  Sessions(ends2, up, down, n, opened2)
<1> DEFINE f == ends2[n]
<1>1. /\ ends = [x \in Endpoints |-> ends[x]] /\ \A x \in Endpoints : ends[x].out = <<>>
      /\ up = [d \in Clients |-> up[d]] /\ down = [d \in Clients |-> down[d]]
      /\ \A d \in Clients : ClientState(ends, d, up[d], down[d])
      /\ \A s \in Sockets : SocketState(ends[s])
      /\ Apart(ends)
      /\ ListenerState(ends, 0, opened) /\ opened \in Nat
      /\ Removed(ends, opened) /\ Attended(ends, up, down)
  BY DEF Sessions
<1>2. ends[n] = NewEndpoint
  BY <1>1, StatesOfASocket
<1>3. /\ n \in Endpoints /\ n \notin Clients /\ n # 0 /\ \A s \in Sockets : s # 0 /\ s \in Endpoints
      /\ \A d \in Clients : d # n /\ d \in Endpoints
  BY SocketsAssumption, ClientsAssumption DEF Endpoints
<1>4. /\ f = Listening(NewEndpoint) /\ ends2 = [x \in Endpoints |-> ends2[x]]
      /\ \A x \in Endpoints : x # n => ends2[x] = ends[x]
  BY <1>1, <1>2, <1>3
<1>5. /\ Waiting(f) /\ SocketState(f) /\ f.registered = TRUE /\ f.peer = Nobody
      /\ f.pc = "listen" /\ f.out = <<>> /\ ~HasSession(f)
  BY <1>4, NewListener
<1> HIDE DEF f
<1>6. \A x \in Endpoints : ends2[x].out = <<>>
  BY <1>1, <1>4, <1>5 DEF f
<1>7. ASSUME NEW d \in Clients PROVE ClientState(ends2, d, up[d], down[d])
  <2>1. ends2[d] = ends[d] /\ d # Nobody
    BY <1>3, <1>4, NobodyAssumption
  <2>2. \A s \in Sockets : ends2[s].peer = d =>
          ends[s].peer = d /\ (WaitsForAck(ends[s]) => WaitsForAck(ends2[s]))
    BY <1>3, <1>4, <1>5, <2>1 DEF f
  <2>3. ClientState(ends, d, up[d], down[d])
    BY <1>1
  <2>4. QED BY <2>1, <2>2, <2>3, OtherSockets
<1>8. \A s \in Sockets : SocketState(ends2[s])
  BY <1>1, <1>3, <1>4, <1>5 DEF f
<1>9. Apart(ends2)
  <2>1. ASSUME NEW s \in Sockets, NEW t \in Sockets, s # t, ends2[s].peer = ends2[t].peer, ends2[s].peer # Nobody
        PROVE  \/ WaitsForAck(ends2[s]) /\ WaitsForAck(ends2[t])
               \/ WasReset(ends2[s]) /\ WasReset(ends2[t])
    <3>1. s # n /\ t # n
      BY <1>5, <2>1 DEF f
    <3>2. ends2[s] = ends[s] /\ ends2[t] = ends[t]
      BY <1>3, <1>4, <3>1
    <3>3. QED BY <1>1, <2>1, <3>2 DEF Apart
  <2>2. QED BY <2>1 DEF Apart
<1>10. ListenerState(ends2, n, opened2)
  <2>1. ASSUME NEW s \in Sockets, Waiting(ends2[s]), s # n PROVE ends2[s].registered = FALSE /\ opened2 > 1
    <3>1. ends2[s] = ends[s] /\ s # 0
      BY <1>3, <1>4, <2>1
    <3>2. ends[s].registered = FALSE /\ opened > 1
      BY <1>1, <2>1, <3>1 DEF ListenerState
    <3>3. QED BY <1>1, <3>1, <3>2
  <2>2. QED BY <1>5, <2>1 DEF ListenerState, f
<1>11. Removed(ends2, opened2)
  <2>1. ASSUME NEW s \in Sockets, HasSession(ends2[s]) PROVE ends2[s].registered = TRUE \/ opened2 > 1
    <3>1. s # n
      BY <1>5, <2>1 DEF f
    <3>2. ends2[s] = ends[s]
      BY <1>3, <1>4, <3>1
    <3>3. ends[s].registered = TRUE \/ opened > 1
      BY <1>1, <2>1, <3>2 DEF Removed
    <3>4. QED BY <1>1, <3>2, <3>3
  <2>2. QED BY <2>1 DEF Removed
<1>12. Attended(ends2, up, down)
  <2>1. SUFFICES ASSUME NEW d \in Clients, NEW s \in Sockets, Faces(ends2[s], d)
                 PROVE  Attends(ends2[d], up[d], down[d])
    BY DEF Attended
  <2>2. s # n
    BY <1>5, <2>1 DEF Faces, InSession, f
  <2>3. ends2[s] = ends[s] /\ ends2[d] = ends[d]
    BY <1>3, <1>4, <2>2
  <2>4. QED BY <1>1, <2>1, <2>3 DEF Attended
<1>13. QED BY <1>1, <1>4, <1>6, <1>7, <1>8, <1>9, <1>10, <1>11, <1>12 DEF Sessions

(* The user opens the port. *)
LEMMA APortIsOpened ==
  ASSUME Sound, OpenPort
  PROVE  Sound' /\ crashed' = crashed
<1> DEFINE n == NextSocket(end)
<1>1. /\ listener = 0 /\ Free(end) # {} /\ listener' = n /\ toggles' = toggles + 1 /\ crashed' = crashed
      /\ toServer' = toServer /\ toClient' = toClient
      /\ end' = [end EXCEPT ![n] = Listening(@)]
  BY DEF OpenPort, Toggle, cables
<1>2. n \in Sockets /\ end[n].pc = "none"
  BY <1>1, NextIsFree
<1> HIDE DEF n
<1>3. Sessions(end, toServer, toClient, 0, toggles) /\ toggles \in Nat
  BY <1>1, SoundParts DEF Sound
<1>4. toggles + 1 \in Nat /\ toggles + 1 >= 1 /\ toggles + 1 >= toggles
  BY <1>3
<1>5. Sessions(end', toServer, toClient, n, toggles + 1)
  BY <1>1, <1>2, <1>3, <1>4, AListenerIsAdded
<1>6. QED BY <1>1, <1>5 DEF Sound

(* A socket sends its window again. *)
LEMMA ASocketResends ==
  ASSUME Sound, NEW c \in Clients, NEW x \in EndsOf(c), x # c, Resend(x, c)
  PROVE  Sound' /\ crashed' = crashed
<1> DEFINE e == end[x]
           f == [e EXCEPT !.resent = TRUE]
           r == e.window
<1>1. /\ end = [y \in Endpoints |-> end[y]] /\ \A y \in Endpoints : end[y].out = <<>>
      /\ toServer = [d \in Clients |-> toServer[d]] /\ toClient = [d \in Clients |-> toClient[d]]
      /\ \A d \in Clients : d \in Endpoints /\ ClientState(end, d, toServer[d], toClient[d])
      /\ \A s \in Sockets : s \in Endpoints /\ s \notin Clients /\ SocketState(end[s])
      /\ Apart(end) /\ ListenerState(end, listener, toggles) /\ toggles \in Nat
      /\ Removed(end, toggles) /\ Attended(end, toServer, toClient)
  BY SoundParts
<1>2. x \in Sockets /\ e.peer = c
  BY DEF EndsOf
<1>3. /\ toClient[c] = <<>> /\ toServer[c] = <<>> /\ r # <<>> /\ Alive(e)
      /\ end' = [end EXCEPT ![x] = f] /\ toServer' = toServer /\ toClient' = [toClient EXCEPT ![c] = r]
      /\ listener' = listener /\ toggles' = toggles /\ crashed' = crashed
  <2>1. end' = [end EXCEPT ![x].resent = TRUE]
    BY DEF Resend
  <2>2. end' = [end EXCEPT ![x] = f]
    BY <1>1, <1>2, <2>1
  <2>3. QED BY <2>2 DEF Resend, Quiet, Waits
<1>4. SameSocket(f, e) /\ f.registered = e.registered
  <2> DEFINE b == TRUE
  <2>1. f = [e EXCEPT !.resent = b] /\ SocketState(e) /\ e.out = <<>> /\ e.peer \in Clients
    BY <1>1, <1>2
  <2> HIDE DEF b, f, e
  <2>2. QED BY <2>1, RetryingSocket
<1> HIDE DEF f
<1>5. /\ end'[x] = f /\ \A y \in Endpoints : y # x => end'[y] = end[y]
      /\ end' = [y \in Endpoints |-> end'[y]]
  BY <1>1, <1>2, <1>3
<1>6. \A s \in Sockets : SameSocket(end'[s], end[s]) /\ end'[s].registered = end[s].registered
  <2>1. ASSUME NEW s \in Sockets, s # x PROVE SameSocket(end'[s], end[s]) /\ end'[s].registered = end[s].registered
    <3>1. end'[s] = end[s] /\ SocketState(end[s]) /\ end[s].out = <<>>
      BY <1>1, <1>5, <2>1
    <3>2. QED BY <3>1 DEF SameSocket
  <2>2. QED BY <1>2, <1>4, <1>5, <2>1
<1>7. SocketsStay(end, end')
  <2>1. \A d \in Clients : end'[d] = end[d]
    BY <1>1, <1>2, <1>5
  <2>2. QED BY <1>5, <1>6, <2>1 DEF SocketsStay
<1>8. /\ \A y \in Endpoints : end'[y].out = <<>>
      /\ \A d \in Clients : \A q, s : ClientState(end, d, q, s) => ClientState(end', d, q, s)
      /\ \A s \in Sockets : SocketState(end'[s])
      /\ Apart(end')
  BY <1>7, StayingSockets DEF Sound
<1>9. \/ WaitsForAck(e) /\ Packets(r, {"SYNACK"}) /\ \A p \in ToSet(r) : IsSynAck(p)
      \/ /\ HasSession(e) /\ ~WaitsForAck(e) /\ ~WasReset(e) /\ Packets(r, {"PSH", "FIN"})
         /\ InSession(e) => Packets(r, {"PSH"})
  <2>1. WaitsForAck(e) \/ HasSession(e)
    <3>1. SocketState(e)
      BY <1>1, <1>2
    <3>2. QED BY <1>2, <1>3, <3>1, StatesOfASocket, NobodyAssumption DEF Alive
  <2>2. CASE WaitsForAck(e)
    <3> DEFINE w == r[1]
    <3>1. r = <<w>> /\ IsSynAck(w)
      BY <2>2 DEF WaitsForAck
    <3> HIDE DEF w, r
    <3>2. w.flags \in {"SYNACK"}
      BY <3>1 DEF IsSynAck
    <3>3. Packets(<<w>>, {"SYNACK"}) /\ ToSet(<<w>>) = {w}
      BY <3>2, OnePacket
    <3>4. QED BY <2>2, <3>1, <3>3
  <2>3. CASE HasSession(e)
    <3>1. InSession(e) => Packets(e.window, {"PSH"})
      BY <2>3 DEF HasSession, InUse, InSession
    <3>2. QED BY <1>3, <2>3, <3>1 DEF HasSession, WaitsForAck, WasReset, Alive
  <2>4. QED BY <2>1, <2>2, <2>3
<1>10. ClientState(end, c, toServer[c], r)
  <2>1. ClientState(end, c, toServer[c], toClient[c])
    BY <1>1
  <2>2. CASE DuringHello(end, c, toServer[c], toClient[c])
    <3>1. WaitsForAck(e)
      BY <1>2, <2>2 DEF DuringHello
    <3>2. Packets(r, {"SYNACK", "RST"}) /\ \A p \in ToSet(r) : IsSynAck(p)
      BY <1>9, <3>1 DEF Packets
    <3>3. QED BY <1>3, <2>2, <3>2 DEF DuringHello, ClientState
  <2>3. CASE AfterHello(end, c, toServer[c], toClient[c])
    <3>1. Packets(r, {"SYNACK", "ACK", "PSH", "FIN", "RST"})
      BY <1>9 DEF Packets
    <3>2. QED BY <2>3, <3>1 DEF AfterHello, ClientState
  <2>4. ~BeforeHello(end, c, toServer[c], toClient[c])
    BY <1>2 DEF BeforeHello
  <2>5. QED BY <2>1, <2>2, <2>3, <2>4 DEF ClientState
<1>11. ASSUME NEW d \in Clients PROVE ClientState(end', d, toServer'[d], toClient'[d])
  <2>1. CASE d = c
    <3>1. toClient'[d] = r /\ toServer'[d] = toServer[c]
      BY <1>1, <1>3, <2>1
    <3>2. QED BY <1>8, <1>10, <2>1, <3>1
  <2>2. CASE d # c
    <3>1. toClient'[d] = toClient[d] /\ toServer'[d] = toServer[d]
      BY <1>1, <1>3, <2>2
    <3>2. QED BY <1>1, <1>8, <3>1
  <2>3. QED BY <2>1, <2>2
<1>12. ListenerState(end', listener, toggles) /\ Removed(end', toggles)
  <2>1. listener # 0 => Waiting(end'[listener])
    <3>1. CASE listener # 0
      <4>1. listener \in Sockets /\ Waiting(end[listener])
        BY <1>1, <3>1 DEF ListenerState
      <4>2. CASE listener = x
        <5>1. WaitsForAck(f)
          BY ZenonT(60), <1>3, <1>4, <1>9, <4>1, <4>2, StatesOfASocket
             DEF SameSocket, Waiting, WaitsForSyn, HasSession, NewEndpoint
        <5>2. QED BY <1>5, <4>2, <5>1 DEF Waiting
      <4>3. CASE listener # x
        BY <1>1, <1>5, <4>1, <4>3
      <4>4. QED BY <4>2, <4>3
    <3>2. QED BY <3>1
  <2>2. \A s \in Sockets : Waiting(end'[s]) => Waiting(end[s])
    BY <1>6 DEF SameSocket
  <2>3. Removed(end', toggles)
    BY <1>1, <1>6 DEF Removed, SameSocket
  <2>4. QED BY <1>1, <1>6, <2>1, <2>2, <2>3 DEF ListenerState
<1>13. Attended(end', toServer', toClient')
  <2>1. SUFFICES ASSUME NEW d \in Clients, NEW s \in Sockets, Faces(end'[s], d)
                 PROVE  Attends(end'[d], toServer'[d], toClient'[d])
    BY DEF Attended
  <2>2. Faces(end[s], d)
    BY <1>6, <2>1 DEF Faces, InSession, SameSocket
  <2>3. Attends(end[d], toServer[d], toClient[d]) /\ end'[d] = end[d] /\ toServer'[d] = toServer[d]
    BY <1>1, <1>3, <1>7, <2>1, <2>2 DEF Attended, SocketsStay
  <2>4. CASE d # c
    <3>1. toClient'[d] = toClient[d]
      BY <1>1, <1>3, <2>4
    <3>2. QED BY <2>3, <3>1
  <2>5. CASE d = c
    <3>1. end[s].peer = c /\ end[s].pc \in {"accepting", "open"} /\ ~WasReset(end[s])
      BY <2>2, <2>5 DEF Faces, InSession, WasReset
    <3>2. CASE WaitsForAck(e)
      <4>1. \A p \in ToSet(r) : p.flags = "SYNACK"
        BY <1>9, <3>2 DEF IsSynAck
      <4>2. toClient'[d] = r
        BY <1>1, <1>3, <2>5
      <4>3. QED BY <2>3, <4>1, <4>2 DEF Attends
    <3>3. CASE ~WaitsForAck(e)
      <4>1. s = x
        BY <1>1, <1>2, <3>1, <3>3, NobodyAssumption DEF Apart
      <4>2. InSession(e)
        <5>1. e.pc # "accepting"
          BY <1>9, <3>3 DEF HasSession
        <5>2. QED BY <2>2, <4>1, <5>1 DEF Faces
      <4>3. \A p \in ToSet(r) : p.flags = "PSH"
        BY <1>9, <3>3, <4>2 DEF Packets
      <4>4. toClient'[d] = r
        BY <1>1, <1>3, <2>5
      <4>5. QED BY <2>3, <4>3, <4>4 DEF Attends
    <3>4. QED BY <3>2, <3>3
  <2>6. QED BY <2>4, <2>5
<1>14. Sessions(end', toServer', toClient', listener, toggles)
  <2>1. toServer' = [d \in Clients |-> toServer'[d]] /\ toClient' = [d \in Clients |-> toClient'[d]]
    BY <1>1, <1>3
  <2>2. QED BY <1>1, <1>5, <1>8, <1>11, <1>12, <1>13, <2>1 DEF Sessions
<1>15. QED BY <1>3, <1>14 DEF Sound

-----------------------------------------------------------------------------
(* The steps of the server. *)

(* What socket or client x makes of a packet from client c.                *)
Heard(x, c, p) ==
  IF x \in Sockets /\ Hears(x, c, p) THEN SocketRuns(Hearing(end[x], c), p) ELSE end[x]

(* The listening socket starts its session; the next one does not listen   *)
(* yet.                                                                    *)
Served(h) ==
  IF Accepts(h) THEN [h EXCEPT ![listener] = Loop(CloseWhenDone(StartSession(@)), TRUE)] ELSE h

(* The sockets that talk with client c go on, q on its way from it and r   *)
(* to it, and at most one listens.                                         *)
SocketsMove(c, q, r, l2, opened, ends, ends2, up, up2, down, down2) ==
  /\ up2 = [up EXCEPT ![c] = q] /\ down2 = [down EXCEPT ![c] = r]
  /\ ends2 = [x \in Endpoints |-> ends2[x]] /\ \A d \in Clients : ends2[d] = ends[d]
  /\ \A s \in Sockets : \/ ends2[s] = ends[s] /\ ends[s].peer # c
                        \/ ends2[s].peer = c /\ ends2[s].out = <<>> /\ SocketState(ends2[s])
  /\ \A s, t \in Sockets : s # t /\ ends2[s].peer = c /\ ends2[t].peer = c =>
        \/ WaitsForAck(ends2[s]) /\ WaitsForAck(ends2[t])
        \/ WasReset(ends2[s]) /\ WasReset(ends2[t])
  /\ ClientState(ends2, c, q, r)
  /\ ListenerState(ends2, l2, opened) /\ Removed(ends2, opened)
  /\ \A s \in Sockets : Faces(ends2[s], c) => Attends(ends[c], q, r)

(* A step of the sockets that talk with one client keeps the invariant. *)
LEMMA SocketsStep ==
  ASSUME NEW ends, NEW up, NEW down, NEW l, NEW opened, Sessions(ends, up, down, l, opened),
         NEW c \in Clients, NEW q, NEW r, NEW l2, NEW ends2, NEW up2, NEW down2,
         SocketsMove(c, q, r, l2, opened, ends, ends2, up, up2, down, down2)
  PROVE  Sessions(ends2, up2, down2, l2, opened)
<1>1. /\ ends = [x \in Endpoints |-> ends[x]] /\ \A x \in Endpoints : ends[x].out = <<>>
      /\ up = [d \in Clients |-> up[d]] /\ down = [d \in Clients |-> down[d]]
      /\ \A d \in Clients : ClientState(ends, d, up[d], down[d])
      /\ \A s \in Sockets : SocketState(ends[s])
      /\ Apart(ends)
      /\ opened \in Nat /\ Attended(ends, up, down)
  BY DEF Sessions
<1>2. /\ up2 = [up EXCEPT ![c] = q] /\ down2 = [down EXCEPT ![c] = r]
      /\ ends2 = [x \in Endpoints |-> ends2[x]] /\ \A d \in Clients : ends2[d] = ends[d]
      /\ \A s \in Sockets : \/ ends2[s] = ends[s] /\ ends[s].peer # c
                            \/ ends2[s].peer = c /\ ends2[s].out = <<>> /\ SocketState(ends2[s])
      /\ \A s, t \in Sockets : s # t /\ ends2[s].peer = c /\ ends2[t].peer = c =>
            \/ WaitsForAck(ends2[s]) /\ WaitsForAck(ends2[t])
            \/ WasReset(ends2[s]) /\ WasReset(ends2[t])
      /\ ClientState(ends2, c, q, r)
      /\ ListenerState(ends2, l2, opened) /\ Removed(ends2, opened)
      /\ \A s \in Sockets : Faces(ends2[s], c) => Attends(ends[c], q, r)
  BY DEF SocketsMove
<1>3. /\ up2 = [d \in Clients |-> up2[d]] /\ up2[c] = q /\ \A d \in Clients : d # c => up2[d] = up[d]
      /\ down2 = [d \in Clients |-> down2[d]] /\ down2[c] = r /\ \A d \in Clients : d # c => down2[d] = down[d]
  BY <1>1, <1>2
<1>4. \A x \in Endpoints : ends2[x].out = <<>>
  BY <1>1, <1>2 DEF Endpoints
<1>5. ASSUME NEW d \in Clients PROVE ClientState(ends2, d, up2[d], down2[d])
  <2>1. CASE d = c
    BY <1>2, <1>3, <2>1
  <2>2. CASE d # c
    <3>1. up2[d] = up[d] /\ down2[d] = down[d] /\ ends2[d] = ends[d]
      BY <1>2, <1>3, <2>2
    <3>2. \A s \in Sockets : ends2[s].peer = d =>
             ends[s].peer = d /\ (WaitsForAck(ends[s]) => WaitsForAck(ends2[s]))
      BY <1>2, <2>2
    <3>3. ClientState(ends, d, up[d], down[d])
      BY <1>1
    <3>4. QED BY <3>1, <3>2, <3>3, OtherSockets
  <2>3. QED BY <2>1, <2>2
<1>6. \A s \in Sockets : SocketState(ends2[s])
  BY <1>1, <1>2
<1>7. Apart(ends2)
  BY ZenonT(60), <1>1, <1>2 DEF Apart
<1>8. Attended(ends2, up2, down2)
  <2>1. SUFFICES ASSUME NEW d \in Clients, NEW s \in Sockets, Faces(ends2[s], d)
                 PROVE  Attends(ends2[d], up2[d], down2[d])
    BY DEF Attended
  <2>2. CASE d = c
    BY <1>2, <1>3, <2>1, <2>2
  <2>3. CASE d # c
    <3>1. ends2[s] = ends[s]
      BY <1>2, <2>1, <2>3 DEF Faces
    <3>2. Attends(ends[d], up[d], down[d])
      BY <1>1, <2>1, <3>1 DEF Attended
    <3>3. QED BY <1>2, <1>3, <2>3, <3>2
  <2>4. QED BY <2>2, <2>3
<1>9. QED BY <1>1, <1>2, <1>3, <1>4, <1>5, <1>6, <1>7, <1>8 DEF Sessions

(* What the server sends, behind what is on the cable already. *)
LEMMA ServerSends ==
  ASSUME NEW v, NEW q, NEW t, t = <<>> \/ t = <<Reset>>, NEW r, r = q \o t \o AllOut(v),
         NEW F, "RST" \in F, Packets(q, F), \A s \in Sockets : Packets(v[s].out, F)
  PROVE  /\ Packets(r, F)
         /\ \A k \in ToSet(r) : \/ k \in ToSet(q) \/ (t = <<Reset>> /\ k = Reset)
                                \/ \E s \in Sockets : k \in ToSet(v[s].out)
<1> DEFINE a == AllOut(v)
<1>1. Packets(t, F) /\ \A k \in ToSet(t) : t = <<Reset>> /\ k = Reset
  <2>1. CASE t = <<Reset>>
    <3>1. Reset.flags \in F
      BY DEF Reset
    <3>2. Packets(<<Reset>>, F) /\ ToSet(<<Reset>>) = {Reset}
      BY <3>1, OnePacket
    <3>3. QED BY <2>1, <3>2
  <2>2. CASE t = <<>>
    BY <2>2, NoPackets
  <2>3. QED BY <2>1, <2>2
<1>2. Packets(a, F) /\ \A k \in ToSet(a) : \E s \in Sockets : k \in ToSet(v[s].out)
  BY AllOutPackets
<1>3. r = q \o t \o a
  OBVIOUS
<1> HIDE DEF a
<1>4. /\ Packets(q \o t \o a, F)
      /\ \A k : k \in ToSet(q \o t \o a) <=> (k \in ToSet(q) \/ k \in ToSet(t) \/ k \in ToSet(a))
  BY <1>1, <1>2, ThreeJoined
<1>5. QED BY <1>1, <1>2, <1>3, <1>4

(* A packet that is no SYN reaches the sockets that talk with its client. *)
LaterFlags == {"ACK", "PSH", "FINACK", "RST"}

(* A socket that hears one, by the state it is in.                         *)
WhenHeard(f, e, p) ==
  \/ HasSession(e) /\ Serving(f) /\ Keeps(f, e)
  \/ WasReset(e) /\ WasReset(f)
  \/ WaitsForAck(e) /\ p.flags = "RST" /\ WasReset(f)
  \/ /\ WaitsForAck(e) /\ p.flags # "RST" /\ f.registered = e.registered /\ Packets(f.out, TalkFlags)
     /\ IF Confirms(p) THEN Opened(f) ELSE WaitsForAck(f)

(* What it makes of it, unless it raises. *)
LEMMA LaterPacketHeard ==
  ASSUME Sound, NEW c \in Clients, NEW p, p.flags \in LaterFlags, NEW s \in Sockets,
         ~(end[s].peer = c /\ Asks(end[s], p)), NEW f, f = Heard(s, c, p)
  PROVE  /\ end[s].peer # c => f = end[s]
         /\ end[s].peer = c => f.peer = c /\ Packets(f.out, SocketFlags) /\ WhenHeard(f, end[s], p)
<1> DEFINE e == end[s]
<1>1. SocketState(e) /\ e.out = <<>>
  BY SoundParts
<1>2. ~HasSyn(p)
  BY DEF HasSyn, LaterFlags
<1>3. ASSUME e.peer # c PROVE f = e
  BY <1>2, <1>3 DEF Heard, Hears
<1>4. CASE e.peer = c /\ ~Alive(e)
  <2>1. f = e
    BY <1>4 DEF Heard, Hears
  <2>2. HasSession(e) \/ WasReset(e)
    BY <1>1, <1>4, NobodyAssumption, StatesOfASocket DEF Alive
  <2>3. Packets(e.out, SocketFlags) /\ Packets(e.out, TalkFlags)
    BY <1>1, NoPackets
  <2>4. WhenHeard(f, e, p)
    BY <2>1, <2>2, <2>3 DEF WhenHeard, Serving, Keeps
  <2>5. QED BY <1>4, <2>1, <2>3, <2>4
<1>5. CASE e.peer = c /\ Alive(e)
  <2>1. f = SocketRuns(Hearing(e, e.peer), p)
    BY <1>5 DEF Heard, Hears
  <2>2. HasSession(e) \/ WaitsForAck(e)
    BY <1>1, <1>5, NobodyAssumption, StatesOfASocket DEF Alive
  <2>3. ~Asks(e, p)
    BY <1>5
  <2> HIDE DEF e
  <2>4. CASE HasSession(e)
    <3>1. Serving(f) /\ Keeps(f, e)
      BY <1>1, <1>5, <2>1, <2>3, <2>4, SessionHears DEF LaterFlags
    <3>2. QED BY <1>5, <2>4, <3>1 DEF e, WhenHeard, Keeps, Serving
  <2>5. CASE WaitsForAck(e) /\ p.flags = "RST"
    <3>1. WasReset(f) /\ f.peer = e.peer /\ f.out = <<>>
      BY <1>1, <2>1, <2>5, WaitingIsReset
    <3>2. QED BY <1>5, <2>5, <3>1, NoPackets DEF e, WhenHeard
  <2>6. CASE WaitsForAck(e) /\ p.flags # "RST"
    <3>1. /\ f.peer = e.peer /\ f.registered = e.registered
          /\ IF Confirms(p) THEN Opened(f) /\ Packets(f.out, TalkFlags)
             ELSE WaitsForAck(f) /\ Packets(f.out, {"ACK"}) /\ (p.flags = "SYN" => f.out = <<>>)
      BY <1>1, <2>1, <2>6, WaitingHears DEF LaterFlags
    <3>2. Packets(f.out, SocketFlags) /\ Packets(f.out, TalkFlags)
      BY <3>1 DEF Packets, SocketFlags, TalkFlags
    <3>3. QED BY <1>5, <2>6, <3>1, <3>2 DEF e, WhenHeard
  <2>7. QED BY <2>2, <2>4, <2>5, <2>6
<1>6. QED BY <1>3, <1>4, <1>5

(* A SYN reaches the sockets that wait for one, and those that answered it. *)
LEMMA FirstPacketHeard ==
  ASSUME Sound, NEW c \in Clients, \A s \in Sockets : end[s].peer = c => WaitsForAck(end[s]),
         NEW s \in Sockets, NEW f, f = Heard(s, c, Syn)
  PROVE  \/ f = end[s] /\ end[s].peer # c
         \/ /\ WaitsForAck(f) /\ f.peer = c /\ f.registered = end[s].registered
            /\ \/ WaitsForSyn(end[s]) /\ \E a : f.out = <<a>> /\ IsSynAck(a)
               \/ WaitsForAck(end[s]) /\ end[s].peer = c /\ f.out = <<>>
<1> DEFINE e == end[s]
<1>1. SocketState(e) /\ e.out = <<>>
  BY SoundParts
<1>2. HasSyn(Syn) /\ Syn.flags = "SYN"
  BY DEF HasSyn, Syn, Segment
<1>3. CASE e.peer = c
  <2>1. WaitsForAck(e) /\ Alive(e)
    BY <1>3 DEF WaitsForAck, Alive
  <2>2. f = SocketRuns(Hearing(e, e.peer), Syn)
    BY <1>3, <2>1 DEF Heard, Hears
  <2>3. Syn.flags \in {"SYN", "PSH", "ACK", "FINACK"} /\ ~Confirms(Syn)
    BY <1>2 DEF Confirms
  <2> HIDE DEF e
  <2>4. /\ f.peer = e.peer /\ f.registered = e.registered
        /\ IF Confirms(Syn) THEN Opened(f) /\ Packets(f.out, TalkFlags)
           ELSE WaitsForAck(f) /\ Packets(f.out, {"ACK"}) /\ (Syn.flags = "SYN" => f.out = <<>>)
    BY <1>1, <2>1, <2>2, <2>3, WaitingHears
  <2>5. QED BY <1>2, <1>3, <2>1, <2>3, <2>4 DEF e
<1>4. CASE WaitsForSyn(e)
  <2>1. Alive(e) /\ e.peer = Nobody
    BY <1>4 DEF WaitsForSyn, NewEndpoint, Alive
  <2>2. f = SocketRuns(Hearing(e, c), Syn)
    BY <1>2, <2>1 DEF Heard, Hears
  <2> HIDE DEF e
  <2>3. /\ WaitsForAck(f) /\ f.peer = c /\ f.registered = e.registered
        /\ \E a : f.out = <<a>> /\ IsSynAck(a)
    BY <1>4, <2>2, SynHeard
  <2>4. QED BY <1>4, <2>3 DEF e
<1>5. CASE e.peer # c /\ ~WaitsForSyn(e)
  <2>1. ~Hears(s, c, Syn)
    <3>1. e = NewEndpoint \/ e.peer # Nobody
      BY <1>1, <1>5, StatesOfASocket, NobodyAssumption
    <3>2. e = NewEndpoint => ~Alive(e)
      BY NewIsEndpoint DEF Alive
    <3>3. QED BY <1>5, <3>1, <3>2 DEF Hears
  <2>2. QED BY <1>5, <2>1 DEF Heard
<1>6. QED BY <1>3, <1>4, <1>5

(* The listening socket that is connected now is served.                   *)
LEMMA WhoIsAccepted ==
  ASSUME Sound, NEW c \in Clients, NEW p, p.flags \in LaterFlags,
         NEW h, h = [x \in Endpoints |-> Heard(x, c, p)]
  PROVE  Accepts(h) <=> /\ listener # 0 /\ WaitsForAck(end[listener]) /\ end[listener].peer = c
                        /\ Confirms(p)
<1>1. CASE listener = 0
  BY <1>1 DEF Accepts
<1>2. CASE listener # 0
  <2> DEFINE e == end[listener]
             f == h[listener]
  <2>1. /\ listener \in Sockets /\ listener \in Endpoints /\ Waiting(e) /\ SocketState(e)
    BY <1>2, SoundParts DEF ListenerState
  <2>2. f = Heard(listener, c, p)
    BY <2>1
  <2> HIDE DEF f
  <2>3. (e.peer # c => f = e) /\ (e.peer = c => WhenHeard(f, e, p))
    <3>1. ~Asks(e, p)
      BY <2>1 DEF Asks, Waiting, WaitsForSyn, WaitsForAck, NewEndpoint, HasSession
    <3>2. QED BY <2>1, <2>2, <3>1, LaterPacketHeard
  <2> HIDE DEF e
  <2>4. Accepts(h) <=> (f.connected /\ f.app = "none")
    BY <1>2 DEF Accepts, f
  <2>5. e.connected = FALSE /\ ~HasSession(e) /\ ~WasReset(e)
    BY <2>1 DEF Waiting, WaitsForSyn, WaitsForAck, NewEndpoint, HasSession, WasReset
  <2>6. CASE e.peer # c
    BY <2>3, <2>4, <2>5, <2>6 DEF e
  <2>7. CASE e.peer = c /\ p.flags = "RST"
    <3>1. WasReset(f) /\ ~Confirms(p)
      BY <2>3, <2>5, <2>7 DEF Confirms, WhenHeard
    <3>2. QED BY <2>4, <3>1 DEF WasReset
  <2>8. CASE e.peer = c /\ p.flags # "RST" /\ ~Confirms(p)
    <3>1. WaitsForAck(f)
      BY <2>3, <2>5, <2>8 DEF WhenHeard
    <3>2. QED BY <2>4, <2>8, <3>1 DEF WaitsForAck
  <2>9. CASE e.peer = c /\ p.flags # "RST" /\ Confirms(p)
    <3>1. WaitsForAck(e) /\ Opened(f)
      BY <2>3, <2>5, <2>9 DEF WhenHeard
    <3>2. f.connected = TRUE /\ f.app = "none"
      BY <3>1 DEF Opened
    <3>3. QED BY <1>2, <2>4, <2>9, <3>1, <3>2 DEF e
  <2>10. QED BY <2>6, <2>7, <2>8, <2>9
<1>3. QED BY <1>1, <1>2

(* The ACK connects a socket that was removed before, or the RST is for    *)
(* one whose session process waits.                                        *)
LostAck(c, p) == Confirms(p) /\ \E s \in Sockets : s # listener /\ WaitsForAck(end[s]) /\ end[s].peer = c
LostSession(c, p) == \E s \in Sockets : end[s].peer = c /\ Asks(end[s], p)
Lost(c, p) == LostAck(c, p) \/ LostSession(c, p)

(* What becomes of a socket that talks with client c.                      *)
Turned(u, e, c, p) ==
  /\ e.peer # c => u = e
  /\ e.peer = c =>
       /\ u.peer = c /\ u.failed = FALSE /\ IsEndpoint(u)
       /\ \/ HasSession(e) /\ HasSession(u) /\ Keeps(u, e)
          \/ WasReset(e) /\ WasReset(u)
          \/ WaitsForAck(e) /\ p.flags = "RST" /\ WasReset(u)
          \/ WaitsForAck(e) /\ Confirms(p) /\ HasSession(u) /\ u.registered = e.registered
          \/ WaitsForAck(e) /\ p.flags # "RST" /\ ~Confirms(p) /\ WaitsForAck(u) /\ u.registered = e.registered

(* It does not say good bye to a client that it faces, or waits for.       *)
Courteous(u, c) == u.pc = "accepting" \/ Faces(u, c) => Packets(u.out, TalkFlags)

(* Each socket is in its next state, when the server has accepted, too. *)
LEMMA SocketsAreServed ==
  ASSUME Sound, NEW c \in Clients, NEW p, p.flags \in LaterFlags, ~Lost(c, p),
         NEW h, h = [x \in Endpoints |-> Heard(x, c, p)], NEW v, v = Served(h), NEW s \in Sockets
  PROVE  Turned(v[s], end[s], c, p) /\ Packets(v[s].out, SocketFlags) /\ Courteous(v[s], c)
<1> DEFINE e == end[s]
           f == h[s]
           u == v[s]
<1>1. SocketState(e) /\ e.out = <<>> /\ s \in Endpoints
  BY SoundParts
<1>2. f = Heard(s, c, p) /\ ~(e.peer = c /\ Asks(e, p))
  BY <1>1 DEF Lost, LostSession
<1> HIDE DEF f
<1>3. /\ e.peer # c => f = e
      /\ e.peer = c => f.peer = c /\ Packets(f.out, SocketFlags) /\ WhenHeard(f, e, p)
  BY <1>2, LaterPacketHeard
<1>4. Accepts(h) <=> (listener # 0 /\ WaitsForAck(end[listener]) /\ end[listener].peer = c /\ Confirms(p))
  BY WhoIsAccepted
<1>5. CASE Accepts(h) /\ s = listener
  <2>1. u = Loop(CloseWhenDone(StartSession(f)), TRUE)
    BY <1>1, <1>5 DEF Served, f
  <2>2. WaitsForAck(e) /\ e.peer = c /\ Confirms(p) /\ e.registered = TRUE
    BY <1>4, <1>5, SoundParts DEF ListenerState
  <2>3. Opened(f) /\ f.registered = TRUE /\ Packets(f.out, TalkFlags) /\ f.peer = c
    BY <1>3, <2>2 DEF WhenHeard, WaitsForAck, HasSession, WasReset, Confirms
  <2> HIDE DEF u
  <2>4. Serving(u) /\ u.peer = f.peer /\ u.registered = TRUE
    BY <2>1, <2>3, SessionStarts
  <2>5. HasSession(u) /\ u.failed = FALSE /\ IsEndpoint(u)
    BY <2>4 DEF Serving, HasSession
  <2>6. Turned(u, e, c, p)
    BY <2>2, <2>3, <2>4, <2>5 DEF Turned
  <2>7. Courteous(u, c)
    BY <2>4, <2>5 DEF Courteous, Faces, InSession, Serving, HasSession
  <2>8. QED BY <2>4, <2>6, <2>7 DEF Serving, u
<1>6. CASE ~(Accepts(h) /\ s = listener)
  <2>1. u = f
    BY <1>6, <1>1 DEF Served, f
  <2>2. CASE e.peer # c
    <3>1. u = e /\ u.out = <<>>
      BY <1>1, <1>3, <2>1, <2>2
    <3>2. QED BY <2>2, <3>1, NoPackets DEF Turned, Courteous
  <2>3. CASE e.peer = c
    <3>1. ~(WaitsForAck(e) /\ Confirms(p))
      <4>1. SUFFICES ASSUME WaitsForAck(e), Confirms(p) PROVE FALSE
        OBVIOUS
      <4>2. s = listener /\ s # 0
        BY <2>3, <4>1, SocketsAssumption DEF Lost, LostAck
      <4>3. QED BY <1>4, <1>6, <2>3, <4>1, <4>2
    <3>2. WhenHeard(f, e, p) /\ f.peer = c /\ Packets(f.out, SocketFlags)
      BY <1>3, <2>3
    <3>3. Turned(f, e, c, p)
      BY <2>3, <3>1, <3>2 DEF Turned, WhenHeard, Serving, HasSession, WasReset, WaitsForAck
    <3>4. Courteous(f, c)
      BY <3>1, <3>2 DEF Courteous, WhenHeard, Serving, HasSession, WasReset, Faces, InSession
    <3>5. QED BY <2>1, <3>2, <3>3, <3>4
  <2>4. QED BY <2>2, <2>3
<1>7. QED BY <1>5, <1>6

(* What is sent leaves it in its next state. *)
LEMMA FlushedSocket ==
  ASSUME NEW u, NEW e, NEW c, NEW p, Turned(u, e, c, p), IsEndpoint(e), e.out = <<>>,
         NEW g, g = [u EXCEPT !.out = <<>>]
  PROVE  Turned(g, e, c, p) /\ g.out = <<>> /\ SameControl(g, u)
<1>1. IsEndpoint(u)
  BY DEF Turned
<1>2. /\ IsEndpoint(g) /\ SameControl(g, u) /\ g.window = u.window /\ g.out = <<>>
      /\ u.out = <<>> => g = u
  BY <1>1, FlushEffect
<1>3. /\ WaitsForAck(u) => WaitsForAck(g)
      /\ HasSession(u) => HasSession(g)
      /\ WasReset(u) => WasReset(g)
  BY <1>2, SameStates
<1>4. CASE e.peer # c
  <2>1. g = e
    BY <1>2, <1>4 DEF Turned
  <2>2. QED BY <1>2, <1>4, <2>1 DEF Turned
<1>5. CASE e.peer = c
  <2>1. g.peer = c /\ g.failed = FALSE /\ g.registered = u.registered /\ g.failed = u.failed
    BY <1>2, <1>5 DEF Turned, SameControl
  <2>2. HasSession(e) /\ HasSession(u) /\ Keeps(u, e) => HasSession(g) /\ Keeps(g, e)
    BY <1>2, <1>3 DEF Keeps, InSession, SameControl
  <2>3. QED BY <1>2, <1>3, <1>5, <2>1, <2>2 DEF Turned
<1>6. QED BY <1>4, <1>5

(* The states of the sockets that talk with client c, told from each other. *)
LEMMA TurnedStates ==
  ASSUME NEW u, NEW e, NEW c \in Clients, NEW p, Turned(u, e, c, p), SocketState(e)
  PROVE  /\ SocketState(u) /\ u.peer = e.peer
         /\ Waiting(u) => Waiting(e) /\ u.registered = e.registered
         /\ Waiting(e) /\ ~(e.peer = c /\ (p.flags = "RST" \/ Confirms(p))) => Waiting(u)
         /\ WaitsForAck(u) => WaitsForAck(e)
         /\ WasReset(e) => WasReset(u)
         /\ HasSession(u) /\ u.registered = TRUE => e.registered = TRUE
         /\ HasSession(u) /\ u.registered # TRUE => e.registered # TRUE /\ (HasSession(e) \/ WaitsForAck(e))
         /\ Faces(u, c) => Faces(e, c)
<1>1. CASE e.peer # c
  BY <1>1, StatesOfASocket DEF Turned
<1>2. CASE e.peer = c
  <2>1. \/ HasSession(e) /\ HasSession(u) /\ Keeps(u, e)
        \/ WasReset(e) /\ WasReset(u)
        \/ WaitsForAck(e) /\ p.flags = "RST" /\ WasReset(u)
        \/ WaitsForAck(e) /\ Confirms(p) /\ HasSession(u) /\ u.registered = e.registered
        \/ WaitsForAck(e) /\ p.flags # "RST" /\ ~Confirms(p) /\ WaitsForAck(u) /\ u.registered = e.registered
    BY <1>2 DEF Turned
  <2>2. u.peer = c
    BY <1>2 DEF Turned
  <2>3. /\ HasSession(u) => ~Waiting(u) /\ ~WaitsForAck(u)
        /\ WasReset(u) => ~Waiting(u) /\ ~WaitsForAck(u)
    BY DEF HasSession, WasReset, Waiting, WaitsForSyn, WaitsForAck, NewEndpoint
  <2>4. /\ HasSession(e) => ~Waiting(e) /\ ~WaitsForAck(e) /\ ~WasReset(e)
        /\ WasReset(e) => ~Waiting(e) /\ ~WaitsForAck(e)
    BY DEF HasSession, WasReset, Waiting, WaitsForSyn, WaitsForAck, NewEndpoint
  <2>5. /\ WasReset(u) => ~HasSession(u) /\ ~Faces(u, c)
        /\ WaitsForAck(u) => ~HasSession(u)
        /\ HasSession(u) => u.pc # "accepting"
        /\ WaitsForAck(e) => e.pc = "accepting"
    BY DEF WasReset, WaitsForAck, HasSession, Faces, InSession
  <2>6. Faces(u, c) => Faces(e, c)
    BY <1>2, <2>1, <2>2, <2>5 DEF Faces, Keeps
  <2>7. /\ HasSession(u) => u.registered = e.registered /\ (HasSession(e) \/ WaitsForAck(e))
    BY <2>1, <2>5 DEF Keeps
  <2>8. QED BY <1>2, <2>1, <2>2, <2>3, <2>4, <2>6, <2>7 DEF SocketState, Waiting
<1>3. QED BY <1>1, <1>2

(* The sockets hear a packet that is no SYN, and none of them is lost.     *)
LEMMA ALaterPacketIsServed ==
  ASSUME Sound, NEW c \in Clients, NEW p, p.flags \in LaterFlags, toServer[c] # <<>>, p = Head(toServer[c]),
         ~Lost(c, p), NEW h, h = [x \in Endpoints |-> Heard(x, c, p)], NEW v, v = Served(h),
         NEW g, g = Flush(v), NEW q, q = Tail(toServer[c]),
         NEW refuses, refuses = (p.flags # "RST" /\ ~\E s \in Sockets : Matches(s, c)),
         NEW r, r = toClient[c] \o (IF refuses THEN <<Reset>> ELSE <<>>) \o AllOut(v),
         NEW l2, l2 = (IF Accepts(h) THEN 0 ELSE listener)
  PROVE  /\ SocketsMove(c, q, r, l2, toggles, end, g,
                        toServer, [toServer EXCEPT ![c] = q], toClient, [toClient EXCEPT ![c] = r])
         /\ \A s \in Sockets : v[s].failed = FALSE
<1>1. /\ end = [x \in Endpoints |-> end[x]] /\ \A x \in Endpoints : end[x].out = <<>>
      /\ \A d \in Clients : d \in Endpoints /\ ClientState(end, d, toServer[d], toClient[d])
      /\ \A s \in Sockets : s \in Endpoints /\ s \notin Clients /\ SocketState(end[s])
      /\ Apart(end) /\ ListenerState(end, listener, toggles) /\ toggles \in Nat
      /\ Removed(end, toggles) /\ Attended(end, toServer, toClient)
  BY SoundParts
<1>2. ASSUME NEW s \in Sockets
      PROVE  /\ Turned(v[s], end[s], c, p)
             /\ Packets(v[s].out, SocketFlags)
             /\ Courteous(v[s], c)
  BY SocketsAreServed
<1>3. \A x \in Endpoints : g[x] = [v[x] EXCEPT !.out = <<>>]
  BY DEF Flush
<1>4. ASSUME NEW s \in Sockets
      PROVE  Turned(g[s], end[s], c, p) /\ g[s].out = <<>> /\ SameControl(g[s], v[s])
  <2> DEFINE u == v[s]
             e == end[s]
             f == g[s]
  <2>1. Turned(u, e, c, p) /\ IsEndpoint(e) /\ e.out = <<>> /\ f = [u EXCEPT !.out = <<>>]
    BY <1>1, <1>2, <1>3, StatesOfASocket
  <2> HIDE DEF u, e, f
  <2>2. Turned(f, e, c, p) /\ f.out = <<>> /\ SameControl(f, u)
    BY <2>1, FlushedSocket
  <2>3. QED BY <2>2 DEF u, e, f
<1>5. ASSUME NEW s \in Sockets
      PROVE  /\ SocketState(g[s]) /\ g[s].peer = end[s].peer
             /\ Waiting(g[s]) => Waiting(end[s]) /\ g[s].registered = end[s].registered
             /\ Waiting(end[s]) /\ ~(end[s].peer = c /\ (p.flags = "RST" \/ Confirms(p))) => Waiting(g[s])
             /\ WaitsForAck(g[s]) => WaitsForAck(end[s])
             /\ WasReset(end[s]) => WasReset(g[s])
             /\ HasSession(g[s]) /\ g[s].registered # TRUE =>
                   end[s].registered # TRUE /\ (HasSession(end[s]) \/ WaitsForAck(end[s]))
             /\ Faces(g[s], c) => Faces(end[s], c)
  <2> DEFINE e == end[s]
             f == g[s]
  <2>1. Turned(f, e, c, p) /\ SocketState(e)
    BY <1>1, <1>4
  <2> HIDE DEF e, f
  <2>2. /\ SocketState(f) /\ f.peer = e.peer
        /\ Waiting(f) => Waiting(e) /\ f.registered = e.registered
        /\ Waiting(e) /\ ~(e.peer = c /\ (p.flags = "RST" \/ Confirms(p))) => Waiting(f)
        /\ WaitsForAck(f) => WaitsForAck(e)
        /\ WasReset(e) => WasReset(f)
        /\ HasSession(f) /\ f.registered # TRUE =>
              e.registered # TRUE /\ (HasSession(e) \/ WaitsForAck(e))
        /\ Faces(f, c) => Faces(e, c)
    BY ONLY c \in Clients, <2>1, TurnedStates
  <2>3. QED BY <2>2 DEF e, f
<1>6. ASSUME NEW s \in Sockets PROVE v[s].failed = FALSE
  <2>1. SocketState(g[s]) /\ v[s].failed = g[s].failed
    BY <1>4, <1>5 DEF SameControl
  <2>2. QED BY <2>1, StatesOfASocket
<1>7. \A d \in Clients : g[d] = end[d]
  <2>1. ASSUME NEW d \in Clients PROVE g[d] = end[d]
    <3>1. h[d] = end[d]
      BY <1>1, ClientsAssumption DEF Heard
    <3>2. listener # 0 => listener # d
      BY <1>1 DEF ListenerState
    <3>3. v[d] = h[d]
      BY <1>1, <3>2 DEF Served, Accepts
    <3>4. IsEndpoint(end[d]) /\ end[d].out = <<>>
      BY <1>1, StatesOfAClient
    <3> DEFINE e == end[d]
               f == g[d]
    <3>5. IsEndpoint(e) /\ f = [e EXCEPT !.out = <<>>] /\ e.out = <<>>
      <4>1. d \in Endpoints /\ v[d] = e
        BY <1>1, <3>1, <3>3
      <4>2. f = [v[d] EXCEPT !.out = <<>>]
        BY <1>3, <4>1
      <4>3. QED BY ONLY <3>4, <4>1, <4>2
    <3> HIDE DEF e, f
    <3>6. f = e
      BY <3>5, FlushEffect
    <3>7. QED BY <3>6 DEF e, f
  <2>2. QED BY <2>1
<1>8. g = [x \in Endpoints |-> g[x]]
  BY DEF Flush
<1>9. \A s \in Sockets : \/ g[s] = end[s] /\ end[s].peer # c
                         \/ g[s].peer = c /\ g[s].out = <<>> /\ SocketState(g[s])
  BY <1>4, <1>5 DEF Turned
<1>10. ASSUME NEW s \in Sockets, NEW t \in Sockets, s # t, g[s].peer = c, g[t].peer = c
       PROVE  \/ WaitsForAck(g[s]) /\ WaitsForAck(g[t])
              \/ WasReset(g[s]) /\ WasReset(g[t])
  <2>1. end[s].peer = c /\ end[t].peer = c
    BY <1>5, <1>10
  <2>2. \/ WaitsForAck(end[s]) /\ WaitsForAck(end[t])
        \/ WasReset(end[s]) /\ WasReset(end[t])
    BY <1>1, <1>10, <2>1, NobodyAssumption DEF Apart
  <2>3. CASE WasReset(end[s]) /\ WasReset(end[t])
    BY <1>5, <2>3
  <2>4. CASE WaitsForAck(end[s]) /\ WaitsForAck(end[t])
    <3>1. ~Confirms(p)
      BY <1>10, <2>1, <2>4 DEF Lost, LostAck
    <3>2. ASSUME NEW k \in Sockets, end[k].peer = c, WaitsForAck(end[k])
          PROVE  IF p.flags = "RST" THEN WasReset(g[k]) ELSE WaitsForAck(g[k])
      <4>1. ~HasSession(end[k]) /\ ~WasReset(end[k])
        BY <3>2 DEF WaitsForAck, HasSession, WasReset
      <4>2. QED BY <1>4, <3>1, <3>2, <4>1 DEF Turned
    <3>3. QED BY <2>1, <2>4, <3>2
  <2>5. QED BY <2>2, <2>3, <2>4
<1>11. ListenerState(g, l2, toggles)
  <2>1. l2 # 0 => l2 \in Sockets /\ toggles >= 1 /\ Waiting(g[l2]) /\ g[l2].registered = TRUE
    <3>1. SUFFICES ASSUME l2 # 0 PROVE l2 \in Sockets /\ toggles >= 1 /\ Waiting(g[l2]) /\ g[l2].registered = TRUE
      OBVIOUS
    <3>2. /\ l2 = listener /\ ~Accepts(h) /\ listener \in Sockets /\ toggles >= 1
          /\ Waiting(end[listener]) /\ end[listener].registered = TRUE
      BY <1>1, <3>1 DEF ListenerState
    <3>3. end[listener].peer = c => WaitsForAck(end[listener]) /\ end[listener].pc = "accepting"
      <4>1. ~(WaitsForSyn(end[listener]) /\ end[listener].peer = c)
        BY NobodyAssumption DEF WaitsForSyn, NewEndpoint
      <4>2. QED BY <3>2, <4>1 DEF Waiting, WaitsForAck
    <3>4. end[listener].peer = c => ~Confirms(p)
      BY <3>1, <3>2, <3>3, WhoIsAccepted
    <3>5. end[listener].peer = c => p.flags # "RST"
      <4>1. SUFFICES ASSUME end[listener].peer = c PROVE p.flags # "RST"
        OBVIOUS
      <4>2. Attends(end[c], toServer[c], toClient[c])
        BY <1>1, <3>2, <3>3, <4>1 DEF Attended, Faces
      <4>3. p \in ToSet(toServer[c])
        <5>1. ASSUME NEW F, Packets(toServer[c], F) PROVE p \in ToSet(toServer[c])
          BY <5>1, FirstPacket
        <5>2. PICK F : Packets(toServer[c], F)
          <6>1. CASE AfterHello(end, c, toServer[c], toClient[c])
            BY <6>1 DEF AfterHello
          <6>2. CASE DuringHello(end, c, toServer[c], toClient[c])
            <7>1. toServer[c] = <<Syn>> /\ Syn.flags = "SYN"
              BY <6>2 DEF DuringHello, Syn, Segment
            <7>2. p = Syn
              BY <7>1
            <7>3. QED BY <7>1, <7>2 DEF LaterFlags
          <6>3. QED BY <1>1, <6>1, <6>2 DEF ClientState, BeforeHello
        <5>3. QED BY <5>1, <5>2
      <4>4. QED BY <4>2, <4>3 DEF Attends
    <3>6. QED BY <1>5, <3>2, <3>4, <3>5
  <2>2. ASSUME NEW s \in Sockets, Waiting(g[s]) PROVE s = l2 \/ (g[s].registered = FALSE /\ toggles > 1)
    <3>1. Waiting(end[s]) /\ g[s].registered = end[s].registered
      BY <1>5, <2>2
    <3>2. CASE s # listener
      BY <1>1, <3>1, <3>2 DEF ListenerState
    <3>3. CASE s = listener /\ ~Accepts(h)
      BY <3>3
    <3>4. CASE s = listener /\ Accepts(h)
      <4>1. WaitsForAck(end[s]) /\ end[s].peer = c /\ Confirms(p)
        BY <3>4, WhoIsAccepted
      <4>2. ~WaitsForAck(g[s])
        <5>1. HasSession(g[s])
          BY <1>4, <4>1 DEF Turned, WaitsForAck, HasSession, WasReset, Confirms
        <5>2. QED BY <5>1 DEF HasSession, WaitsForAck
      <4>3. ~WaitsForSyn(g[s])
        BY <1>5, <4>1, NobodyAssumption DEF WaitsForSyn, NewEndpoint
      <4>4. QED BY <2>2, <4>2, <4>3 DEF Waiting
    <3>5. QED BY <3>2, <3>3, <3>4
  <2>3. QED BY <2>1, <2>2 DEF ListenerState
<1>12. /\ AfterHello(end, c, toServer[c], toClient[c])
       /\ Packets(q, {"ACK", "PSH", "FINACK", "RST"}) /\ ToSet(q) \subseteq ToSet(toServer[c])
  <2>1. AfterHello(end, c, toServer[c], toClient[c])
    <3>1. CASE DuringHello(end, c, toServer[c], toClient[c])
      <4>1. toServer[c] = <<Syn>> /\ Syn.flags = "SYN"
        BY <3>1 DEF DuringHello, Syn, Segment
      <4>2. p = Syn
        BY <4>1
      <4>3. QED BY <4>1, <4>2 DEF LaterFlags
    <3>2. QED BY <1>1, <3>1 DEF ClientState, BeforeHello
  <2>2. Packets(toServer[c], {"ACK", "PSH", "FINACK", "RST"})
    BY <2>1 DEF AfterHello
  <2>3. QED BY <2>1, <2>2, FirstPacket
<1>13. /\ Packets(r, ServerFlags)
       /\ \A k \in ToSet(r) : \/ k \in ToSet(toClient[c]) \/ (refuses /\ k = Reset)
                              \/ \E s \in Sockets : k \in ToSet(v[s].out)
  <2>1. "RST" \in ServerFlags /\ Packets(toClient[c], ServerFlags)
    BY <1>12 DEF ServerFlags, AfterHello
  <2>2. \A s \in Sockets : Packets(v[s].out, ServerFlags)
    BY <1>2 DEF Packets, SocketFlags, ServerFlags
  <2> DEFINE before == toClient[c]
             F == ServerFlags
  <2> DEFINE t == IF refuses THEN <<Reset>> ELSE <<>>
  <2>3. r = before \o t \o AllOut(v) /\ (t = <<>> \/ t = <<Reset>>)
    OBVIOUS
  <2>4. "RST" \in F /\ Packets(before, F) /\ \A s \in Sockets : Packets(v[s].out, F)
    BY <2>1, <2>2
  <2>5. t = <<Reset>> => refuses
    OBVIOUS
  <2> HIDE DEF before, F, t
  <2>6. /\ Packets(r, F)
        /\ \A k \in ToSet(r) : \/ k \in ToSet(before) \/ (t = <<Reset>> /\ k = Reset)
                               \/ \E s \in Sockets : k \in ToSet(v[s].out)
    BY ONLY <2>3, <2>4, ServerSends
  <2>7. QED BY <2>5, <2>6 DEF before, F
<1>14. ClientState(g, c, q, r)
  <2>1. WasAnswered(g[c])
    BY <1>7, <1>12 DEF AfterHello
  <2>2. QED BY <1>12, <1>13, <2>1 DEF ClientState, AfterHello, ServerFlags
<1>15. ASSUME NEW s \in Sockets, Faces(g[s], c) PROVE Attends(end[c], q, r)
  <2>1. Faces(end[s], c) /\ g[s].peer = c
    BY <1>5, <1>15 DEF Faces
  <2>2. Attends(end[c], toServer[c], toClient[c])
    BY <1>1, <2>1 DEF Attended
  <2>3. ~refuses
    BY <2>1 DEF Matches, Faces
  <2>4. ASSUME NEW t \in Sockets, NEW k \in ToSet(v[t].out) PROVE k.flags \in TalkFlags
    <3>1. CASE end[t].peer # c
      <4>1. v[t].out = <<>>
        BY <1>1, <1>2, <3>1 DEF Turned
      <4>2. QED BY <2>4, <4>1, NoPackets
    <3>2. CASE end[t].peer = c
      <4>1. v[t].pc = "accepting" \/ Faces(v[t], c)
        <5>1. CASE t = s
          BY <1>4, <1>15, <5>1 DEF Faces, InSession, SameControl
        <5>2. CASE t # s
          <6>1. ~WasReset(g[s])
            BY <1>15 DEF Faces, InSession, WasReset
          <6>2. g[t].peer = c
            BY <1>5, <3>2
          <6>3. WaitsForAck(g[t])
            BY <1>10, <2>1, <5>2, <6>1, <6>2
          <6>4. QED BY <1>4, <6>3 DEF WaitsForAck, SameControl
        <5>3. QED BY <5>1, <5>2
      <4>2. QED BY <1>2, <2>4, <4>1 DEF Courteous, Packets
    <3>3. QED BY <3>1, <3>2
  <2>5. \A k \in ToSet(r) : k.flags \notin {"RST", "FIN"}
    BY <1>13, <2>2, <2>3, <2>4 DEF Attends, TalkFlags
  <2>6. QED BY <1>12, <2>2, <2>5 DEF Attends
<1>16. Removed(g, toggles)
  <2>1. SUFFICES ASSUME NEW s \in Sockets, HasSession(g[s]), g[s].registered # TRUE PROVE toggles > 1
    BY DEF Removed
  <2>2. end[s].registered # TRUE /\ (HasSession(end[s]) \/ WaitsForAck(end[s]))
    BY <1>5, <2>1
  <2>3. CASE HasSession(end[s])
    BY <1>1, <2>2, <2>3 DEF Removed
  <2>4. CASE WaitsForAck(end[s])
    <3>1. Waiting(end[s]) /\ s # 0
      BY <2>4, SocketsAssumption DEF Waiting
    <3>2. QED BY <1>1, <2>2, <3>1 DEF ListenerState
  <2>5. QED BY <2>2, <2>3, <2>4
<1>17. QED BY ONLY <1>6, <1>7, <1>8, <1>9, <1>10, <1>11, <1>14, <1>15, <1>16 DEF SocketsMove

(* A socket that waits is not connected. *)
LEMMA WaitingIsNotConnected ==
  ASSUME NEW e, Waiting(e)
  PROVE  e.connected = FALSE
<1>1. SocketState(e)
  BY DEF SocketState, Waiting
<1>2. e.pc \in {"listen", "accepting"}
  BY DEF Waiting, WaitsForSyn, WaitsForAck, NewEndpoint
<1>3. QED BY <1>1, <1>2, StatesOfASocket

(* The sockets hear a SYN: it is the first packet of its client.           *)
LEMMA ASynIsServed ==
  ASSUME Sound, NEW c \in Clients, DuringHello(end, c, toServer[c], toClient[c]), toServer[c] # <<>>,
         NEW h, h = [x \in Endpoints |-> Heard(x, c, Syn)], NEW g, g = Flush(h), NEW q, q = <<>>,
         NEW refuses, refuses = ~\E s \in Sockets : Matches(s, c),
         NEW r, r = toClient[c] \o (IF refuses THEN <<Reset>> ELSE <<>>) \o AllOut(h)
  PROVE  /\ SocketsMove(c, q, r, listener, toggles, end, g,
                        toServer, [toServer EXCEPT ![c] = q], toClient, [toClient EXCEPT ![c] = r])
         /\ ~Accepts(h) /\ \A s \in Sockets : h[s].failed = FALSE
<1>1. /\ end = [x \in Endpoints |-> end[x]] /\ \A x \in Endpoints : end[x].out = <<>>
      /\ \A d \in Clients : d \in Endpoints /\ ClientState(end, d, toServer[d], toClient[d])
      /\ \A s \in Sockets : s \in Endpoints /\ s \notin Clients /\ SocketState(end[s])
      /\ ListenerState(end, listener, toggles) /\ Removed(end, toggles)
  BY SoundParts
<1>2. toClient[c] = <<>> /\ SaysHello(end[c]) /\ \A s \in Sockets : end[s].peer = c => WaitsForAck(end[s])
  BY DEF DuringHello
<1>3. ASSUME NEW s \in Sockets
      PROVE  \/ h[s] = end[s] /\ end[s].peer # c
             \/ /\ WaitsForAck(h[s]) /\ h[s].peer = c /\ h[s].registered = end[s].registered
                /\ \/ WaitsForSyn(end[s]) /\ \E a : h[s].out = <<a>> /\ IsSynAck(a)
                   \/ WaitsForAck(end[s]) /\ end[s].peer = c /\ h[s].out = <<>>
  <2>1. h[s] = Heard(s, c, Syn)
    BY <1>1
  <2>2. QED BY <1>2, <2>1, FirstPacketHeard
<1>4. ASSUME NEW s \in Sockets
      PROVE  /\ h[s].failed = FALSE /\ (h[s].connected = end[s].connected \/ ~h[s].connected)
             /\ \/ g[s] = end[s] /\ end[s].peer # c
                \/ /\ WaitsForAck(g[s]) /\ g[s].peer = c /\ g[s].out = <<>> /\ g[s].registered = end[s].registered
                   /\ Waiting(end[s])
             /\ \A k \in ToSet(h[s].out) : IsSynAck(k)
             /\ Packets(h[s].out, {"SYNACK", "RST"})
  <2> DEFINE e == end[s]
             u == h[s]
             f == g[s]
  <2>1. f = [u EXCEPT !.out = <<>>] /\ s \in Endpoints /\ SocketState(e) /\ e.out = <<>>
    BY <1>1 DEF Flush
  <2>2. CASE u = e /\ e.peer # c
    <3>1. IsEndpoint(u) /\ u.out = <<>> /\ u.failed = FALSE
      BY <2>1, <2>2, StatesOfASocket
    <3>2. f = u
      <4> HIDE DEF u, f
      <4>1. QED BY <2>1, <3>1, FlushEffect
    <3>3. QED BY <2>2, <3>1, <3>2, NoPackets
  <2>3. CASE /\ WaitsForAck(u) /\ u.peer = c /\ u.registered = e.registered
             /\ \/ WaitsForSyn(e) /\ \E a : u.out = <<a>> /\ IsSynAck(a)
                \/ WaitsForAck(e) /\ e.peer = c /\ u.out = <<>>
    <3>1. IsEndpoint(u) /\ u.failed = FALSE /\ u.connected = FALSE
      BY <2>3 DEF WaitsForAck
    <3>2. WaitsForAck(f) /\ f.peer = u.peer /\ f.registered = u.registered /\ f.out = <<>>
      <4> HIDE DEF u, f
      <4>1. IsEndpoint(f) /\ SameControl(f, u) /\ f.window = u.window /\ f.out = <<>>
        BY <2>1, <3>1, FlushEffect
      <4>2. WaitsForAck(f)
        BY <2>3, <4>1, SameStates
      <4>3. QED BY <4>1, <4>2 DEF SameControl
    <3>3. Packets(u.out, {"SYNACK", "RST"}) /\ \A k \in ToSet(u.out) : IsSynAck(k)
      <4>1. CASE u.out = <<>>
        BY <4>1, NoPackets
      <4>2. CASE \E a : u.out = <<a>> /\ IsSynAck(a)
        <5>1. PICK a : u.out = <<a>> /\ IsSynAck(a)
          BY <4>2
        <5> DEFINE F == {"SYNACK", "RST"}
        <5> HIDE DEF u
        <5>2. a.flags \in F
          BY <5>1 DEF IsSynAck
        <5> HIDE DEF F
        <5>3. Packets(<<a>>, F) /\ ToSet(<<a>>) = {a}
          BY ONLY <5>2, OnePacket
        <5>4. QED BY <5>1, <5>3 DEF F
      <4>3. QED BY <2>3, <4>1, <4>2
    <3>4. QED BY <2>3, <3>1, <3>2, <3>3 DEF Waiting
  <2>4. QED BY <1>3, <2>2, <2>3
<1>5. \A d \in Clients : g[d] = end[d]
  <2>1. ASSUME NEW d \in Clients PROVE g[d] = end[d]
    <3> DEFINE e == end[d]
               f == g[d]
    <3>1. d \in Endpoints /\ h[d] = e
      BY <1>1, ClientsAssumption DEF Heard
    <3>2. f = [e EXCEPT !.out = <<>>] /\ e.out = <<>> /\ IsEndpoint(e)
      BY <1>1, <3>1, StatesOfAClient DEF Flush
    <3> HIDE DEF e, f
    <3>3. f = e
      BY <3>2, FlushEffect
    <3>4. QED BY <3>3 DEF e, f
  <2>2. QED BY <2>1
<1>6. g = [x \in Endpoints |-> g[x]]
  BY DEF Flush
<1>7. \A s \in Sockets : \/ g[s] = end[s] /\ end[s].peer # c
                         \/ g[s].peer = c /\ g[s].out = <<>> /\ SocketState(g[s])
  BY <1>4 DEF SocketState
<1>8. \A s, t \in Sockets : s # t /\ g[s].peer = c /\ g[t].peer = c =>
        \/ WaitsForAck(g[s]) /\ WaitsForAck(g[t])
        \/ WasReset(g[s]) /\ WasReset(g[t])
  BY ZenonT(60), <1>4
<1>9. ListenerState(g, listener, toggles)
  <2>1. ASSUME NEW s \in Sockets
        PROVE  g[s].registered = end[s].registered /\ (Waiting(g[s]) <=> Waiting(end[s]))
    BY <1>4 DEF Waiting
  <2>2. QED BY <1>1, <2>1 DEF ListenerState
<1>10. /\ Packets(r, {"SYNACK", "RST"})
       /\ \A k \in ToSet(r) : IsSynAck(k) \/ (refuses /\ k = Reset)
  <2> DEFINE before == toClient[c]
             F == {"SYNACK", "RST"}
             t == IF refuses THEN <<Reset>> ELSE <<>>
  <2>1. r = before \o t \o AllOut(h) /\ (t = <<>> \/ t = <<Reset>>)
    OBVIOUS
  <2>2. "RST" \in F /\ Packets(before, F) /\ \A s \in Sockets : Packets(h[s].out, F)
    BY <1>2, <1>4, NoPackets
  <2>3. t = <<Reset>> => refuses
    OBVIOUS
  <2> HIDE DEF before, F, t
  <2>4. /\ Packets(r, F)
        /\ \A k \in ToSet(r) : \/ k \in ToSet(before) \/ (t = <<Reset>> /\ k = Reset)
                               \/ \E s \in Sockets : k \in ToSet(h[s].out)
    BY ONLY <2>1, <2>2, ServerSends
  <2>5. ToSet(before) = {}
    BY <1>2, NoPackets DEF before
  <2>6. QED BY <1>4, <2>3, <2>4, <2>5 DEF F
<1>11. ClientState(g, c, q, r)
  <2>1. \A k \in ToSet(r) : k.flags = "SYNACK" => IsSynAck(k)
    BY <1>10 DEF Reset
  <2>2. \A s \in Sockets : g[s].peer = c => WaitsForAck(g[s])
    BY <1>4
  <2>3. QED BY <1>2, <1>5, <1>10, <2>1, <2>2 DEF DuringHello, ClientState
<1>12. ASSUME NEW s \in Sockets, Faces(g[s], c) PROVE Attends(end[c], q, r)
  <2>1. Waiting(end[s]) /\ end[s].registered = TRUE
    BY <1>4, <1>2, <1>12 DEF Faces, Waiting
  <2>2. end[s].connected = FALSE
    BY <2>1, WaitingIsNotConnected
  <2>3. ~refuses
    BY <2>1, <2>2 DEF Matches
  <2>4. \A k \in ToSet(r) : k.flags \notin {"RST", "FIN"}
    BY <1>10, <2>3 DEF IsSynAck
  <2>5. ToSet(q) = {}
    BY NoPackets
  <2>6. QED BY <1>2, <2>4, <2>5 DEF Attends, SaysHello
<1>13. ~Accepts(h)
  <2>1. SUFFICES ASSUME listener # 0, listener \in Sockets PROVE ~h[listener].connected
    BY <1>1 DEF Accepts, ListenerState
  <2>2. Waiting(end[listener])
    BY <1>1, <2>1 DEF ListenerState
  <2>3. end[listener].connected = FALSE
    BY <2>2, WaitingIsNotConnected
  <2>4. QED BY <1>4, <2>1, <2>3
<1>14. \A s \in Sockets : h[s].failed = FALSE
  BY <1>4
<1>15. Removed(g, toggles)
  <2>1. SUFFICES ASSUME NEW s \in Sockets, HasSession(g[s]) PROVE g[s].registered = TRUE \/ toggles > 1
    BY DEF Removed
  <2>2. g[s] = end[s]
    BY <1>4, <2>1 DEF HasSession, WaitsForAck
  <2>3. QED BY <1>1, <2>1, <2>2 DEF Removed
<1>16. QED BY ONLY <1>5, <1>6, <1>7, <1>8, <1>9, <1>11, <1>12, <1>13, <1>14, <1>15 DEF SocketsMove

(* The server listens on its next socket. *)
LEMMA TheNextListens ==
  ASSUME NEW v, v = [x \in Endpoints |-> v[x]], NEW n \in Sockets, v[n] = NewEndpoint,
         NEW ends, ends = [v EXCEPT ![n] = Listening(@)]
  PROVE  /\ Flush(ends) = [Flush(v) EXCEPT ![n] = Listening(@)]
         /\ AllOut(ends) = AllOut(v)
         /\ \A s \in Sockets : ends[s].failed = v[s].failed
<1> DEFINE f == Listening(NewEndpoint)
<1>1. n \in Endpoints /\ \A s \in Sockets : s \in Endpoints
  BY DEF Endpoints
<1>2. ends[n] = f /\ \A x \in Endpoints : x # n => ends[x] = v[x]
  BY <1>1
<1>3. SocketState(f) /\ f.out = <<>> /\ f.failed = FALSE
  BY NewListener
<1>4. IsEndpoint(f)
  BY <1>3, StatesOfASocket
<1>5. [f EXCEPT !.out = <<>>] = f
  <2> HIDE DEF f
  <2>1. QED BY <1>3, <1>4, FlushEffect
<1> HIDE DEF f
<1>6. [NewEndpoint EXCEPT !.out = <<>>] = NewEndpoint
  <2> DEFINE e == NewEndpoint
             g == [e EXCEPT !.out = <<>>]
  <2>1. IsEndpoint(e) /\ e.out = <<>> /\ g = [e EXCEPT !.out = <<>>]
    BY NewIsEndpoint
  <2> HIDE DEF e, g
  <2>2. g = e
    BY ONLY <2>1, FlushEffect
  <2>3. QED BY <2>2 DEF g, e
<1>7. Flush(ends) = [Flush(v) EXCEPT ![n] = Listening(@)]
  <2>1. Flush(v)[n] = NewEndpoint
    BY <1>1, <1>6 DEF Flush
  <2>2. Flush(ends)[n] = f
    BY <1>1, <1>2, <1>5 DEF Flush
  <2>3. \A x \in Endpoints : x # n => Flush(ends)[x] = Flush(v)[x]
    BY <1>2 DEF Flush
  <2> DEFINE g == [Flush(v) EXCEPT ![n] = Listening(@)]
  <2>4. g = [x \in Endpoints |-> g[x]] /\ g[n] = f /\ \A x \in Endpoints : x # n => g[x] = Flush(v)[x]
    BY <1>1, <2>1 DEF Flush, f
  <2>5. Flush(ends) = [x \in Endpoints |-> Flush(ends)[x]]
    BY DEF Flush
  <2> HIDE DEF g
  <2>6. \A x \in Endpoints : Flush(ends)[x] = g[x]
    BY <2>2, <2>3, <2>4
  <2>7. Flush(ends) = g
    BY <2>4, <2>5, <2>6
  <2>8. QED BY <2>7 DEF g
<1>8. \A s \in Sockets : ends[s].out = v[s].out /\ ends[s].failed = v[s].failed
  BY <1>1, <1>2, <1>3, NewIsEndpoint
<1>9. [s \in Sockets |-> ends[s].out] = [s \in Sockets |-> v[s].out]
  BY <1>8
<1>10. AllOut(ends) = AllOut(v)
  BY <1>9 DEF AllOut
<1>11. QED BY <1>7, <1>8, <1>10
(* Who is accepted leaves a socket for the next one.                       *)
HasRoom(h) == Accepts(h) => Free(h) # {}

Raises(e) == IsEndpoint(e) /\ e.failed = TRUE /\ e.pc # "none" /\ e.registered = FALSE

Raised(ends) ==
  /\ toggles > 1
  /\ \E s \in Sockets : ends[s].failed = TRUE /\ ends[s].registered = FALSE /\ IsEndpoint(ends[s])
  /\ \A d \in Clients : ends[d] = end[d]

(* The ACK, or the RST, for a socket that has been removed makes the       *)
(* server raise.                                                           *)
LEMMA ALostSocketRaises ==
  ASSUME Sound, NEW c \in Clients, NEW p, p.flags \in LaterFlags, p \in ToSet(toServer[c]), Lost(c, p),
         NEW h, h = [x \in Endpoints |-> Heard(x, c, p)], HasRoom(h), NEW ends, ends = Accepted(h)
  PROVE  Raised(ends)
<1>1. /\ \A d \in Clients : d \in Endpoints
      /\ \A s \in Sockets : s \in Endpoints /\ s \notin Clients
      /\ \A t \in Sockets : SocketState(end[t]) /\ end[t].out = <<>>
      /\ ListenerState(end, listener, toggles) /\ Removed(end, toggles)
      /\ Attended(end, toServer, toClient)
  BY SoundParts
<1>2. ASSUME LostAck(c, p) PROVE \E s \in Sockets : s # listener /\ toggles > 1 /\ Raises(h[s])
  <2>1. PICK s \in Sockets : s # listener /\ WaitsForAck(end[s]) /\ end[s].peer = c /\ Confirms(p)
    BY <1>2 DEF LostAck
  <2> DEFINE e == end[s]
             f == h[s]
  <2>2. e.registered = FALSE /\ toggles > 1
    BY <1>1, <2>1 DEF ListenerState, Waiting
  <2>3. f = Heard(s, c, p)
    BY <1>1
  <2>4. ~HasSession(e) /\ ~WasReset(e) /\ p.flags # "RST"
    BY <2>1 DEF WaitsForAck, HasSession, WasReset, Confirms
  <2>5. ~Asks(e, p)
    BY <2>4 DEF Asks
  <2> HIDE DEF f
  <2>6. WhenHeard(f, e, p)
    BY <2>1, <2>3, <2>5, LaterPacketHeard
  <2>7. Opened(f) /\ f.registered = FALSE
    BY <2>1, <2>2, <2>4, <2>6 DEF WhenHeard
  <2>8. Raises(f)
    BY <2>7 DEF Opened, Raises
  <2>9. QED BY <2>1, <2>2, <2>8 DEF f
<1>3. ASSUME LostSession(c, p) PROVE \E s \in Sockets : s # listener /\ toggles > 1 /\ Raises(h[s])
  <2>1. PICK s \in Sockets : end[s].peer = c /\ Asks(end[s], p)
    BY <1>3 DEF LostSession
  <2> DEFINE e == end[s]
             f == h[s]
  <2>2. HasSession(e) /\ Alive(e) /\ e.app = "sends" /\ p.flags = "RST"
    BY <2>1 DEF Asks
  <2>3. f = SocketRuns(Hearing(e, e.peer), p)
    BY <1>1, <2>1, <2>2 DEF Heard, Hears
  <2>4. e.out = <<>> /\ Asks(e, p)
    BY <1>1, <2>1
  <2>5. s # listener /\ toggles > 1 /\ e.registered = FALSE
    <3>1. ~Faces(e, c)
      <4>1. SUFFICES ASSUME Faces(e, c) PROVE FALSE
        OBVIOUS
      <4>2. Attends(end[c], toServer[c], toClient[c])
        BY <1>1, <4>1 DEF Attended
      <4>3. QED BY <2>2, <4>2 DEF Attends
    <3>2. e.pc = "open"
      BY <2>2 DEF HasSession, InUse, Alive
    <3>3. e.registered = FALSE
      BY <2>1, <2>2, <3>1, <3>2 DEF Faces, InSession, HasSession
    <3>4. toggles > 1
      BY <1>1, <2>2, <3>3 DEF Removed
    <3>5. s # listener
      BY <1>1, <2>2, <3>3, SocketsAssumption DEF ListenerState
    <3>6. QED BY <3>3, <3>4, <3>5
  <2> HIDE DEF e, f
  <2>6. IsEndpoint(f) /\ f.failed = TRUE /\ f.registered = e.registered /\ f.pc # "none"
    BY ONLY <2>3, <2>4, SessionRaises
  <2>7. Raises(f)
    BY <2>5, <2>6 DEF Raises
  <2>8. QED BY <2>5, <2>7 DEF f
<1>4. PICK s \in Sockets : s # listener /\ toggles > 1 /\ Raises(h[s])
  BY <1>2, <1>3 DEF Lost
<1>5. IsEndpoint(h[s]) /\ h[s].failed = TRUE /\ h[s].pc # "none" /\ h[s].registered = FALSE
  BY <1>4 DEF Raises
<1>6. ASSUME NEW x \in Endpoints, listener # 0 => x # listener, h[x].pc # "none" \/ x \notin Sockets
      PROVE  ends[x] = h[x]
  <2>1. CASE ~Accepts(h)
    BY <2>1 DEF Accepted
  <2>2. CASE Accepts(h)
    <3> DEFINE n == NextSocket(h)
               k == Loop(CloseWhenDone(StartSession(h[listener])), TRUE)
    <3>1. n \in Sockets /\ h[n].pc = "none"
      BY <2>2, NextIsFree DEF HasRoom
    <3>2. ends = [h EXCEPT ![listener] = k, ![n] = Listening(@)]
      BY <2>2 DEF Accepted
    <3> HIDE DEF n, k
    <3>3. x # n
      BY <1>6, <3>1
    <3>4. x # listener
      BY <1>6, <2>2 DEF Accepts
    <3>5. QED BY <1>6, <3>2, <3>3, <3>4
  <2>3. QED BY <2>1, <2>2
<1>7. ends[s] = h[s]
  BY <1>1, <1>4, <1>5, <1>6
<1>8. ASSUME NEW d \in Clients PROVE ends[d] = end[d]
  <2>1. d \notin Sockets /\ d \in Endpoints /\ (listener # 0 => d # listener)
    BY <1>1, ClientsAssumption DEF ListenerState
  <2>2. h[d] = end[d]
    BY <2>1 DEF Heard
  <2>3. QED BY <1>6, <2>1, <2>2
<1>9. QED BY <1>4, <1>5, <1>7, <1>8 DEF Raised

(* The server hears a packet: the sessions stay as they are to be, or the  *)
(* program ends.                                                           *)
LEMMA TheServerReceives ==
  ASSUME Sound, NEW c \in Clients, ServerReceives(c)
  PROVE  \/ Sound' /\ crashed' = FALSE
         \/ crashed' = TRUE /\ CrashesOnlyWhenClosed'
<1>1. /\ end = [x \in Endpoints |-> end[x]] /\ \A x \in Endpoints : end[x].out = <<>>
      /\ \A d \in Clients : d \in Endpoints /\ ClientState(end, d, toServer[d], toClient[d])
      /\ \A s \in Sockets : s \in Endpoints /\ s \notin Clients /\ SocketState(end[s])
      /\ ListenerState(end, listener, toggles) /\ toggles \in Nat
  BY SoundParts
<1> DEFINE p == Head(toServer[c])
           h == [x \in Endpoints |-> Heard(x, c, p)]
           ends == Accepted(h)
           q == Tail(toServer[c])
           refuses == p.flags # "RST" /\ ~\E s \in Sockets : Matches(s, c)
           r == toClient[c] \o (IF refuses THEN <<Reset>> ELSE <<>>) \o AllOut(ends)
<1>2. /\ toServer[c] # <<>> /\ toggles' = toggles
      /\ Accepts(h) => Free(h) # {}
      /\ listener' = IF Accepts(h) THEN NextSocket(h) ELSE listener
      /\ toClient' = [toClient EXCEPT ![c] = r]
      /\ end' = Flush(ends)
      /\ crashed' = \E s \in Sockets : ends[s].failed
      /\ toServer' = [toServer EXCEPT ![c] = q]
  BY ZenonT(60) DEF ServerReceives, Heard, Hearing
<1>3. CASE DuringHello(end, c, toServer[c], toClient[c])
  <2> DEFINE empty == <<>>
             g == Flush(h)
             noone == ~\E s \in Sockets : Matches(s, c)
             sent == toClient[c] \o (IF noone THEN <<Reset>> ELSE <<>>) \o AllOut(h)
  <2>1. p = Syn /\ q = empty /\ Syn.flags = "SYN"
    <3>1. toServer[c] = <<Syn>>
      BY <1>2, <1>3 DEF DuringHello
    <3>2. QED BY <3>1 DEF Syn, Segment
  <2>2. /\ SocketsMove(c, empty, sent, listener, toggles, end, g,
                       toServer, [toServer EXCEPT ![c] = empty], toClient, [toClient EXCEPT ![c] = sent])
        /\ ~Accepts(h) /\ \A s \in Sockets : h[s].failed = FALSE
    <3>1. /\ h = [x \in Endpoints |-> Heard(x, c, Syn)] /\ g = Flush(h) /\ empty = <<>>
          /\ noone = (~\E s \in Sockets : Matches(s, c))
          /\ sent = toClient[c] \o (IF noone THEN <<Reset>> ELSE <<>>) \o AllOut(h)
      BY <2>1
    <3> HIDE DEF h, g, empty, noone, sent
    <3>2. QED BY <1>2, <1>3, <3>1, ASynIsServed
  <2>3. ends = h /\ r = sent
    BY <2>1, <2>2 DEF Accepted
  <2>4. listener' = listener /\ crashed' = FALSE
    BY <1>2, <2>2, <2>3
  <2>5. end' = g /\ toServer' = [toServer EXCEPT ![c] = empty] /\ toClient' = [toClient EXCEPT ![c] = sent]
    BY <1>2, <2>1, <2>3
  <2> HIDE DEF h, g, empty, noone, sent, ends, r, q, p, refuses
  <2>6. SocketsMove(c, empty, sent, listener, toggles, end, end', toServer, toServer', toClient, toClient')
    BY <2>2, <2>5
  <2>7. Sessions(end', toServer', toClient', listener, toggles)
    BY <2>6, SocketsStep DEF Sound
  <2>8. QED BY <1>2, <2>4, <2>7 DEF Sound
<1>4. ASSUME AfterHello(end, c, toServer[c], toClient[c]) PROVE p.flags \in LaterFlags /\ p \in ToSet(toServer[c])
  <2> DEFINE up == toServer[c]
  <2>1. Packets(up, LaterFlags) /\ up # <<>>
    BY <1>2, <1>4 DEF AfterHello, LaterFlags
  <2> HIDE DEF up
  <2>2. Head(up).flags \in LaterFlags /\ Head(up) \in ToSet(up)
    BY <2>1, FirstPacket
  <2>3. QED BY <2>2 DEF up
<1>5. CASE AfterHello(end, c, toServer[c], toClient[c]) /\ Lost(c, p)
  <2>1. p.flags \in LaterFlags /\ p \in ToSet(toServer[c])
    BY <1>4, <1>5
  <2> HIDE DEF p
  <2>2. h = [x \in Endpoints |-> Heard(x, c, p)] /\ ends = Accepted(h)
    OBVIOUS
  <2> HIDE DEF h, ends
  <2>3. Raised(ends)
    <3>1. Sound /\ Lost(c, p) /\ HasRoom(h)
      BY <1>2, <1>5 DEF HasRoom
    <3>2. QED BY ONLY c \in Clients, <2>1, <2>2, <3>1, ALostSocketRaises
  <2>4. PICK s \in Sockets : ends[s].failed = TRUE /\ ends[s].registered = FALSE /\ IsEndpoint(ends[s])
    BY <2>3 DEF Raised
  <2>5. end'[s].failed = TRUE /\ end'[s].registered = FALSE
    <3> DEFINE u == ends[s]
               f == end'[s]
    <3>1. f = [u EXCEPT !.out = <<>>] /\ IsEndpoint(u)
      BY <1>1, <1>2, <2>4 DEF Flush
    <3> HIDE DEF u, f
    <3>2. SameControl(f, u)
      BY <3>1, FlushEffect
    <3>3. QED BY <2>4, <3>2 DEF SameControl, u, f
  <2>6. ASSUME NEW d \in Clients PROVE end'[d].failed = FALSE
    <3> DEFINE u == end[d]
               f == end'[d]
    <3>1. IsEndpoint(u) /\ u.failed = FALSE
      BY <1>1, StatesOfAClient
    <3>2. f = [u EXCEPT !.out = <<>>]
      BY <1>1, <1>2, <2>3 DEF Flush, Raised
    <3> HIDE DEF u, f
    <3>3. SameControl(f, u)
      BY <3>1, <3>2, FlushEffect
    <3>4. QED BY <3>1, <3>3 DEF SameControl, u, f
  <2>7. crashed' = TRUE
    BY <1>2, <2>4
  <2>8. CrashesOnlyWhenClosed'
    BY <1>2, <2>3, <2>5, <2>6 DEF CrashesOnlyWhenClosed, PortWasClosed, Raised
  <2>9. QED BY <2>7, <2>8
<1>6. CASE AfterHello(end, c, toServer[c], toClient[c]) /\ ~Lost(c, p)
  <2> DEFINE v == Served(h)
             g == Flush(v)
             sent == toClient[c] \o (IF refuses THEN <<Reset>> ELSE <<>>) \o AllOut(v)
             l2 == IF Accepts(h) THEN 0 ELSE listener
             up2 == [toServer EXCEPT ![c] = q]
             down2 == [toClient EXCEPT ![c] = sent]
  <2>1. p.flags \in LaterFlags /\ p = Head(toServer[c])
    BY <1>4, <1>6
  <2>2. /\ h = [x \in Endpoints |-> Heard(x, c, p)] /\ ends = Accepted(h) /\ v = Served(h) /\ g = Flush(v)
        /\ q = Tail(toServer[c]) /\ refuses = (p.flags # "RST" /\ ~\E s \in Sockets : Matches(s, c))
        /\ sent = toClient[c] \o (IF refuses THEN <<Reset>> ELSE <<>>) \o AllOut(v)
        /\ l2 = (IF Accepts(h) THEN 0 ELSE listener)
        /\ up2 = [toServer EXCEPT ![c] = q] /\ down2 = [toClient EXCEPT ![c] = sent]
        /\ r = toClient[c] \o (IF refuses THEN <<Reset>> ELSE <<>>) \o AllOut(ends)
    OBVIOUS
  <2> HIDE DEF p, h, ends, q, refuses, r, v, g, sent, l2, up2, down2
  <2>3. /\ SocketsMove(c, q, sent, l2, toggles, end, g,
                       toServer, [toServer EXCEPT ![c] = q], toClient, [toClient EXCEPT ![c] = sent])
        /\ \A s \in Sockets : v[s].failed = FALSE
    BY ZenonT(60), <1>2, <1>6, <2>1, <2>2, ALaterPacketIsServed
  <2>4. Sessions(g, up2, down2, l2, toggles)
    <3>1. SocketsMove(c, q, sent, l2, toggles, end, g, toServer, up2, toClient, down2)
      BY <2>2, <2>3
    <3>2. QED BY <3>1, SocketsStep DEF Sound
  <2>5. CASE ~Accepts(h)
    <3>1. ends = v /\ v = h /\ l2 = listener /\ sent = r
      BY <2>2, <2>5 DEF Accepted, Served
    <3>2. crashed' = FALSE /\ listener' = listener /\ end' = g /\ toServer' = up2 /\ toClient' = down2
      BY <1>2, <2>2, <2>3, <2>5, <3>1
    <3>3. QED BY <1>2, <2>4, <3>1, <3>2 DEF Sound
  <2>6. CASE Accepts(h)
    <3> DEFINE n == NextSocket(h)
    <3>1. n \in Sockets /\ h[n].pc = "none" /\ listener' = n
      BY <1>2, <2>6, NextIsFree
    <3>2. h[listener].pc = "open" /\ listener \in Sockets /\ toggles >= 1
      <4>1. /\ listener # 0 /\ WaitsForAck(end[listener]) /\ end[listener].peer = c
            /\ Confirms(p)
        BY <2>1, <2>2, <2>6, WhoIsAccepted
      <4>2. listener \in Sockets /\ toggles >= 1
        BY <1>1, <4>1 DEF ListenerState
      <4> DEFINE e == end[listener]
                 f == h[listener]
      <4>3. f = Heard(listener, c, p)
        BY <2>2, <4>2 DEF Endpoints
      <4> HIDE DEF f
      <4>4. ~HasSession(e) /\ ~WasReset(e) /\ p.flags # "RST"
        BY <4>1 DEF WaitsForAck, HasSession, WasReset, Confirms
      <4>5. Opened(f)
        <5>1. ~Asks(e, p)
          BY <4>4 DEF Asks
        <5>2. WhenHeard(f, e, p)
          BY <2>1, <4>1, <4>2, <4>3, <5>1, LaterPacketHeard
        <5>3. QED BY <4>1, <4>4, <5>2 DEF WhenHeard
      <4>6. QED BY <4>2, <4>5 DEF Opened, f
    <3>3. listener # n
      BY <3>1, <3>2
    <3> DEFINE k == Loop(CloseWhenDone(StartSession(h[listener])), TRUE)
    <3>4. v = [h EXCEPT ![listener] = k]
      BY <2>2, <2>6 DEF Served
    <3>5. ends = [h EXCEPT ![listener] = k, ![n] = Listening(@)]
      BY <2>2, <2>6 DEF Accepted
    <3> HIDE DEF n, k
    <3>6. v = [x \in Endpoints |-> v[x]] /\ v[n] = h[n] /\ ends = [v EXCEPT ![n] = Listening(@)]
      BY <2>2, <3>1, <3>2, <3>3, <3>4, <3>5 DEF Endpoints
    <3>7. v[n] = NewEndpoint
      <4> DEFINE e == end[n]
                 u == v[n]
      <4>1. Turned(u, e, c, p)
        BY <1>6, <2>1, <2>2, <3>1, SocketsAreServed
      <4>2. SocketState(e)
        BY <1>1, <3>1
      <4> HIDE DEF u, e
      <4>3. SocketState(u)
        BY ONLY <4>1, <4>2, TurnedStates
      <4>4. u.pc = "none"
        BY <3>1, <3>6 DEF u
      <4>5. u = NewEndpoint
        BY ONLY <4>3, <4>4, StatesOfASocket
      <4>6. QED BY <4>5 DEF u
    <3>8. /\ Flush(ends) = [Flush(v) EXCEPT ![n] = Listening(@)]
          /\ AllOut(ends) = AllOut(v)
          /\ \A s \in Sockets : ends[s].failed = v[s].failed
      BY <3>1, <3>6, <3>7, TheNextListens
    <3>9. crashed' = FALSE
      BY <1>2, <2>3, <3>8
    <3>10. sent = r
      BY <2>2, <3>8
    <3>11. toServer' = up2 /\ toClient' = down2 /\ end' = [g EXCEPT ![n] = Listening(@)]
      BY <1>2, <2>2, <3>8, <3>10
    <3>12. l2 = 0 /\ g[n].pc = "none"
      <4>1. g[n] = [NewEndpoint EXCEPT !.out = <<>>]
        BY <2>2, <3>1, <3>7 DEF Flush, Endpoints
      <4>2. g[n].pc = "none"
        BY ONLY <4>1 DEF NewEndpoint
      <4>3. QED BY <2>2, <2>6, <4>2
    <3>13. Sessions(g, up2, down2, 0, toggles)
      BY <2>4, <3>12
    <3>14. toggles \in Nat /\ toggles >= 1 /\ toggles >= toggles
      BY <1>1, <3>2
    <3>15. Sessions(end', up2, down2, n, toggles)
      BY ONLY <3>1, <3>11, <3>12, <3>13, <3>14, AListenerIsAdded
    <3>16. QED BY <1>2, <3>1, <3>9, <3>11, <3>15 DEF Sound
  <2>7. QED BY <2>5, <2>6
<1>7. QED BY <1>1, <1>2, <1>3, <1>5, <1>6 DEF ClientState, BeforeHello
-----------------------------------------------------------------------------
(* The theorems. *)

(* It holds at first. *)
LEMMA NothingYet ==
  ASSUME Init
  PROVE  IInv
<1>1. /\ end = [x \in Endpoints |-> NewEndpoint] /\ toServer = [c \in Clients |-> <<>>]
      /\ toClient = [c \in Clients |-> <<>>] /\ listener = 0 /\ toggles = 0 /\ crashed = FALSE
  BY DEF Init
<1>2. \A x \in Endpoints : end[x] = NewEndpoint
  BY <1>1
<1>3. \A x \in Endpoints : end[x].out = <<>> /\ end[x].peer = Nobody
  BY <1>2, NewIsEndpoint
<1>4. \A s \in Sockets : s \in Endpoints
  BY DEF Endpoints
<1>5. \A c \in Clients : ClientState(end, c, toServer[c], toClient[c])
  BY <1>1, <1>2, <1>3, <1>4, NobodyAssumption DEF ClientState, BeforeHello, Endpoints
<1>6. \A s \in Sockets : SocketState(end[s]) /\ ~Waiting(end[s])
  <2>1. ~Waiting(NewEndpoint)
    BY ZenonT(60), NewIsEndpoint DEF Waiting, WaitsForSyn, WaitsForAck, NewEndpoint
  <2>2. QED BY <1>2, <1>4, <2>1 DEF SocketState
<1>7. Apart(end)
  BY <1>3, <1>4 DEF Apart
<1>8. ListenerState(end, listener, toggles) /\ Removed(end, toggles) /\ Attended(end, toServer, toClient)
  <2>1. \A s \in Sockets : end[s].app = "none" /\ end[s].peer \notin Clients
    BY <1>2, <1>3, <1>4, NobodyAssumption, NewIsEndpoint DEF NewEndpoint
  <2>2. Removed(end, toggles) /\ Attended(end, toServer, toClient)
    BY <2>1 DEF Removed, Attended, HasSession, Faces
  <2>3. QED BY <1>1, <1>6, <2>2 DEF ListenerState
<1>9. /\ end = [x \in Endpoints |-> end[x]]
      /\ toServer = [c \in Clients |-> toServer[c]] /\ toClient = [c \in Clients |-> toClient[c]]
      /\ toggles \in Nat
  BY <1>1
<1>10. Sessions(end, toServer, toClient, listener, toggles)
  BY <1>3, <1>5, <1>6, <1>7, <1>8, <1>9 DEF Sessions
<1>11. QED BY <1>1, <1>10 DEF IInv, CrashesOnlyWhenClosed

(* Every step keeps it. *)
LEMMA EveryStepKeepsThem ==
  ASSUME IInv, [Next]_vars
  PROVE  IInv'
<1>1. CASE UNCHANGED vars
  BY <1>1 DEF vars, cables, IInv, CrashesOnlyWhenClosed, PortWasClosed
<1>2. CASE Next
  <2>1. Sound /\ crashed = FALSE
    BY <1>2 DEF Next, IInv, Sound
  <2>2. ASSUME Sound', crashed' = FALSE PROVE IInv'
    BY <2>2 DEF IInv, Sound, CrashesOnlyWhenClosed
  <2>3. CASE OpenPort
    BY <2>1, <2>2, <2>3, APortIsOpened
  <2>4. CASE ClosePort
    BY <2>1, <2>2, <2>4, APortIsClosed
  <2>5. ASSUME NEW c \in Clients, Connect(c) PROVE IInv'
    BY <2>1, <2>2, <2>5, ClientConnects
  <2>6. ASSUME NEW c \in Clients, LoseToServer(c) \/ LoseToClient(c) PROVE IInv'
    BY <2>1, <2>2, <2>6, ACableLoses
  <2>7. ASSUME NEW c \in Clients, ServerReceives(c) PROVE IInv'
    <3>1. CASE Sound' /\ crashed' = FALSE
      BY <2>2, <3>1
    <3>2. CASE crashed' = TRUE /\ CrashesOnlyWhenClosed'
      BY <3>2 DEF IInv
    <3>3. QED BY <2>1, <2>7, <3>1, <3>2, TheServerReceives
  <2>8. ASSUME NEW c \in Clients, ClientReceives(c) PROVE IInv'
    BY <2>1, <2>2, <2>8, AClientReceives
  <2>9. ASSUME NEW c \in Clients, GivesUp(c) PROVE IInv'
    BY <2>1, <2>2, <2>9, AClientGivesUp
  <2>10. ASSUME NEW c \in Clients, NEW x \in EndsOf(c), Resend(x, c) PROVE IInv'
    <3>1. CASE x = c
      BY <2>1, <2>2, <2>10, <3>1, AClientResends
    <3>2. CASE x # c
      BY <2>1, <2>2, <2>10, <3>2, ASocketResends
    <3>3. QED BY <3>1, <3>2
  <2>11. QED BY <1>2, <2>3, <2>4, <2>5, <2>6, <2>7, <2>8, <2>9, <2>10 DEF Next, Runs, User
<1>3. QED BY <1>1, <1>2

(* The inductive invariant: where the handshake of each client has come to, *)
(* at both of its ends and on the cables between them, however often the   *)
(* port is opened and closed.                                              *)
THEOREM SessionsInvariant == Spec => []IInv
<1>1. Init => IInv
  BY NothingYet
<1>2. IInv /\ [Next]_vars => IInv'
  BY EveryStepKeepsThem
<1>3. QED BY <1>1, <1>2, PTL DEF Spec

(* The invariant says that sessions are real. *)
LEMMA RealSessions ==
  ASSUME IInv
  PROVE  SessionsAreReal
<1>1. SUFFICES ASSUME crashed = FALSE, NEW s \in Sockets, end[s].app # "none"
               PROVE  /\ end[end[s].peer].app \notin {"none", "connecting"}
                      /\ \A t \in Sockets : t # s => end[t].peer # end[s].peer
  BY DEF SessionsAreReal, IInv
<1>2. Sound
  BY <1>1 DEF IInv, Sound
<1>3. HasSession(end[s]) /\ end[s].peer \in Clients
  BY <1>1, <1>2, SoundParts, StatesOfASocket
<1>4. ~WaitsForAck(end[s]) /\ ~WasReset(end[s])
  BY <1>3 DEF WaitsForAck, WasReset, HasSession
<1> DEFINE c == end[s].peer
<1>5. ClientState(end, c, toServer[c], toClient[c])
  BY <1>2, <1>3, SoundParts
<1>6. AfterHello(end, c, toServer[c], toClient[c])
  BY <1>4, <1>5 DEF ClientState, BeforeHello, DuringHello
<1>7. end[c].app \notin {"none", "connecting"}
  BY <1>6 DEF AfterHello, WasAnswered
<1>8. \A t \in Sockets : t # s => end[t].peer # end[s].peer
  <2>1. Apart(end)
    BY <1>2, SoundParts
  <2>2. QED BY <1>3, <1>4, <2>1, NobodyAssumption DEF Apart
<1>9. QED BY <1>7, <1>8

(* And that an open port has a socket that waits. *)
LEMMA ListensWhileOpen ==
  ASSUME IInv
  PROVE  ListensAgain
<1>1. SUFFICES ASSUME crashed = FALSE, listener # 0 PROVE end[listener].pc \in {"listen", "accepting"}
  BY DEF ListensAgain, IInv
<1>2. Waiting(end[listener])
  BY <1>1, SoundParts DEF IInv, Sound, ListenerState
<1>3. QED BY <1>2 DEF Waiting, WaitsForSyn, WaitsForAck, NewEndpoint

(* The server starts a session only for a client that has had its SYN-ACK, *)
(* and one for a client: no packet that is lost or resent, and no port     *)
(* that is closed and opened in between, makes it two.                     *)
THEOREM OneSessionForAClient == Spec => []SessionsAreReal
<1>1. IInv => SessionsAreReal
  BY RealSessions
<1>2. QED BY <1>1, SessionsInvariant, PTL

(* Nothing on the cables makes a handler raise, but the ACK of a handshake *)
(* for a socket that went with its port, or the RST for one whose session  *)
(* process still waits for its answer to be acknowledged.                  *)
THEOREM RaisesOnlyForRemovedSockets == Spec => []CrashesOnlyWhenClosed
<1>1. IInv => CrashesOnlyWhenClosed
  BY DEF IInv
<1>2. QED BY <1>1, SessionsInvariant, PTL

(* A server whose port is open has a socket that waits for a client.       *)
THEOREM AlwaysListens == Spec => []ListensAgain
<1>1. IInv => ListensAgain
  BY ListensWhileOpen
<1>2. QED BY <1>1, SessionsInvariant, PTL
=============================================================================
