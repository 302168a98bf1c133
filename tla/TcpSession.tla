------------------------------- MODULE TcpSession -------------------------------
(***************************************************************************)
(* TCP sessions from the first SYN to the last ACK: the socket processes   *)
(* of a server and of its clients, the server process that accepts, the    *)
(* session processes it starts, and the DAYTIME and FTP clients.           *)
(*                                                                         *)
(* An endpoint is a socket with its kernelmode process and the usermode    *)
(* process that uses it.  In a tick the kernel answers for closed sockets, *)
(* then the kernelmode process runs; the usermode process sees what it     *)
(* left in the next one.  One action does all three.  Every segment is of  *)
(* length one, so that data is known by its sequence number.  MAC          *)
(* addresses are known.                                                    *)
(***************************************************************************)
EXTENDS TcpReceivingWindow

CONSTANTS
    Clients,     \* each is one client process on a computer of its own
    Nobody,
    Sockets,     \* 1 .. n: the sockets the server acquires, a bound
    Parts,       \* the segments of an FTP answer
    MaxLosses,   \* packets that the cable drops: a bound
    MaxToggles   \* how often the user opens or closes the port: a bound

ASSUME NobodyAssumption == Nobody \notin Clients \cup Sockets
ASSUME SocketsAssumption == Cardinality(Sockets) \in Nat /\ Sockets = 1 .. Cardinality(Sockets)
ASSUME ClientsAssumption == Clients \cap Sockets = {}
ASSUME PartsAssumption == Parts \in Nat

VARIABLES
    protocol,   \* "daytime" or "ftp"
    end,        \* the endpoints: the clients, and the sockets of the server
    toServer,   \* toServer[c]: the packets on their way from client c
    toClient,   \* toClient[c]: the packets on their way to client c
    listener,   \* the socket the server process accepts on; 0: the port is closed
    clock,      \* clock[c] changes whenever one of the computers of a session runs
    losses, toggles, crashed

cables == <<toServer, toClient>>
vars == <<protocol, end, cables, listener, clock, losses, toggles, crashed>>

Endpoints == Clients \cup Sockets
Tick(c) == clock' = [clock EXCEPT ![c] = 1 - @]

-----------------------------------------------------------------------------
(* Segments.                                                               *)

\* flags as in OPCODES.TCP; SYN and FIN count as one byte.
Segment(flags, seq, e) == [flags |-> flags, seq |-> seq, ack |-> e.r.ack, sack |-> e.r.sack]
Reset == [flags |-> "RST", seq |-> 0, ack |-> 0, sack |-> <<>>]
HasSyn(p) == p.flags \in {"SYN", "SYNACK"}

NewEndpoint ==
    [pc |-> "none", peer |-> Nobody, seq |-> 0, r |-> [EmptyReceiver EXCEPT !.ack = 0],
     window |-> <<>>, toSend |-> 0, received |-> <<>>, thrown |-> FALSE,
     connected |-> FALSE, closing |-> FALSE, closed |-> FALSE, registered |-> FALSE,
     app |-> "none", got |-> <<>>, resent |-> FALSE, out |-> <<>>, failed |-> FALSE]

\* SendingWindow.add_waiting: in the window, and sent, in the next tick. There
\* may be several, and each takes the next sequence number.
AddAllWaiting(e, n, flags) ==
    LET ps == [k \in 1 .. n |-> Segment(flags, e.seq + (k - 1), e)]
    IN  [e EXCEPT !.window = @ \o ps, !.out = @ \o ps, !.seq = @ + n]

AddWaiting(e, flags) ==
    LET p == Segment(flags, e.seq, e)
    IN  [e EXCEPT !.window = Append(@, p), !.out = Append(@, p), !.seq = @ + 1]

SendAckFor(e, p, flags) ==
    LET acked == [e EXCEPT !.r = Acknowledge(@, p.seq)]
    IN  IF flags = "ACK" THEN [acked EXCEPT !.out = Append(@, Segment("ACK", e.seq, acked))]
        ELSE AddWaiting(acked, flags)

\* What is below the ACK number, or in a SACK block.
Covers(p, n) ==
    Acks(p.ack, n) \/ \E k \in DOMAIN p.sack : p.sack[k].left <= n /\ Acks(p.sack[k].right, n)

\* _acknowledge_with_packet.
AcknowledgeWithPacket(e, p) ==
    [e EXCEPT !.window = Only(@, {w \in ToSet(@) : ~Covers(p, w.seq)})]

\* Mutant: the socket stays open.
EndSessionOnly(e) ==
    [e EXCEPT !.pc = "ended", !.window = <<>>, !.r = NewEndpoint.r, !.seq = 0]

\* TCPSocketProcess._end_session.
EndSession(e) ==
    [e EXCEPT !.pc = "ended", !.window = <<>>, !.r = NewEndpoint.r, !.seq = 0,
              !.closed = TRUE, !.closing = TRUE]

-----------------------------------------------------------------------------
(* The kernelmode process.                                                 *)

\* While a handshake goes on, SYN and FIN packets are for the handshake.
InsertsFlags(e) == e.pc # "open"

\* Mutant: a SYN is acknowledged like any other packet.
HandlePacketAckingSyn(e, p) ==
    CASE p.flags = "PSH"    -> SendAckFor([e EXCEPT !.r = AddPacket(@, p.seq)], p, "ACK")
      [] p.flags = "SYN"    -> SendAckFor(e, p, "ACK")
      [] p.flags = "SYNACK" -> AcknowledgeWithPacket(SendAckFor(e, p, "ACK"), p)
      [] p.flags \in {"ACK", "FINACK"} -> AcknowledgeWithPacket(e, p)
      [] p.flags = "FIN"    -> IF InsertsFlags(e) THEN e
                               ELSE [SendAckFor(e, p, "FINACK") EXCEPT !.pc = "goodbye"]
      [] p.flags = "RST"    -> [e EXCEPT !.pc = "reset", !.closed = TRUE, !.closing = TRUE]

(* _handle_packet, for a packet of the session.                            *)
HandlePacket(e, p) ==
    CASE p.flags = "PSH"    -> SendAckFor([e EXCEPT !.r = AddPacket(@, p.seq)], p, "ACK")
      [] p.flags = "SYN"    -> e
      [] p.flags = "SYNACK" -> AcknowledgeWithPacket(SendAckFor(e, p, "ACK"), p)
      [] p.flags \in {"ACK", "FINACK"} -> AcknowledgeWithPacket(e, p)
      [] p.flags = "FIN"    -> IF InsertsFlags(e) THEN e
                               ELSE [SendAckFor(e, p, "FINACK") EXCEPT !.pc = "goodbye"]
      [] p.flags = "RST"    -> [e EXCEPT !.pc = "reset", !.closed = TRUE, !.closing = TRUE]

(* add_data_and_remove_from_window: to the list that the caller gave.  The *)
(* handshakes give lists that they throw away; one that waits for FIN and  *)
(* ACK as the first entry of its list waits for ever behind data.          *)
Deliver(e) ==
    LET data == InOrderPart(e.r)
        rest == [e EXCEPT !.r = RemoveInOrder(@)]
    IN  IF e.pc = "open" THEN [rest EXCEPT !.received = @ \o data]
        ELSE [rest EXCEPT !.thrown = @ \/ data # <<>>,
                          !.pc = IF @ = "fin" /\ data # <<>> THEN "stuck" ELSE @]

\* _set_socket_connected: a KeyError when the socket is not registered any more.
SetConnected(e) ==
    [e EXCEPT !.pc = "open", !.connected = TRUE, !.failed = ~e.registered]

\* Mutant: the server does not wait for the ACK of its SYN-ACK.
ContinueAtOnce(e, p) ==
    CASE e.pc = "hello" ->
            IF HasSyn(p) THEN SetConnected(e) ELSE [e EXCEPT !.failed = TRUE]
      [] e.pc = "listen" -> SetConnected(SendAckFor(e, p, "SYNACK"))
      [] e.pc = "accepting" /\ e.window = <<>> -> SetConnected(e)
      [] e.pc = "fin" /\ p.flags = "FINACK" -> EndSession(SendAckFor(e, p, "ACK"))
      [] e.pc = "goodbye" /\ e.window = <<>> -> EndSession(e)
      [] OTHER -> e

(* What the process does next: the client of a hello handshake takes one   *)
(* packet out of its list; the server answers a SYN, and is connected when *)
(* its SYN-ACK is acknowledged; who has sent a FIN waits for FIN and ACK,  *)
(* who has answered one for the last ACK.                                  *)
Continue(e, p) ==
    CASE e.pc = "hello" ->
            IF HasSyn(p) THEN SetConnected(e) ELSE [e EXCEPT !.failed = TRUE]
      [] e.pc = "listen" -> [SendAckFor(e, p, "SYNACK") EXCEPT !.pc = "accepting"]
      [] e.pc = "accepting" /\ e.window = <<>> -> SetConnected(e)
      [] e.pc = "fin" /\ p.flags = "FINACK" -> EndSession(SendAckFor(e, p, "ACK"))
      [] e.pc = "goodbye" /\ e.window = <<>> -> EndSession(e)
      [] OTHER -> e

KernelHandles(e, p) == Continue(Deliver(HandlePacket(e, p)), p)

\* Mutant: what waits for an ACK is forgotten.
IsDoneUnloading(e) == e.toSend = 0

IsDoneTransmitting(e) == e.window = <<>> /\ e.toSend = 0

(* The main loop of TCPSocketProcess.code: what the socket is to send is   *)
(* sent; a socket that is closed, with nothing left to send, ends it.  The *)
(* listening process says good bye then, the connecting one just ends.     *)
Loop(e, server) ==
    IF e.pc # "open" THEN e
    ELSE IF e.closing /\ IsDoneTransmitting(e)
      THEN IF server THEN [AddWaiting([e EXCEPT !.window = <<>>], "FIN") EXCEPT !.pc = "fin"]
           ELSE [e EXCEPT !.pc = "ended"]
      ELSE AddAllWaiting([e EXCEPT !.toSend = 0], e.toSend, "PSH")

-----------------------------------------------------------------------------
(* The usermode processes.                                                 *)

Takes(e) == [e EXCEPT !.got = @ \o e.received, !.received = <<>>]

\* The process ends, and its socket is not registered any more.
AppEnds(e, how) == [e EXCEPT !.app = how, !.registered = FALSE]

\* DAYTIMEClientProcess: after blocking_connect it waits until it has received
\* something, and then until the socket is closed.
DaytimeClient(e) ==
    CASE e.app = "connecting" /\ e.closed -> AppEnds(e, "refused")
      [] e.app = "connecting" /\ e.connected /\ ~e.closed -> [e EXCEPT !.app = "waits"]
      [] e.app = "waits" /\ e.received # <<>> ->
            IF e.closed THEN AppEnds(Takes(e), "done") ELSE [Takes(e) EXCEPT !.app = "finishing"]
      [] e.app = "finishing" /\ e.closed -> AppEnds(e, "done")
      [] OTHER -> e

\* ClientFTPProcess: it sends its request, and takes what it receives until the
\* socket is closed.
FtpClient(e) ==
    CASE e.app = "connecting" /\ e.closed -> AppEnds(e, "refused")
      [] e.app = "connecting" /\ e.connected /\ ~e.closed -> [e EXCEPT !.app = "reads", !.toSend = 1]
      [] e.app = "reads" /\ e.closed -> AppEnds(e, "done")
      [] e.app = "reads" /\ ~e.closed -> Takes(e)
      [] OTHER -> e

Client(e) == IF protocol = "daytime" THEN DaytimeClient(e) ELSE FtpClient(e)

Alive(e) == e.pc \notin {"none", "ended", "reset"}

\* close_when_done_transmitting. The process asks the kernelmode process whether
\* it is done: of one that is dead the sending queue is gone, and this raises.
CloseWhenDone(e) ==
    IF e.app # "sends" THEN e
    ELSE IF ~Alive(e) THEN [e EXCEPT !.failed = TRUE]
    ELSE IF IsDoneTransmitting(e) THEN [e EXCEPT !.app = "done", !.closed = TRUE, !.closing = TRUE]
    ELSE e

\* The session process that TCPServerProcess starts for a connected socket:
\* DAYTIME sends at once, FTP waits for the request.
StartSession(e) ==
    IF protocol = "daytime" THEN [e EXCEPT !.app = "sends", !.toSend = 1] ELSE [e EXCEPT !.app = "waits"]
Session(e) ==
    IF e.app = "waits" /\ e.received # <<>>
      THEN [Takes(e) EXCEPT !.app = "sends", !.toSend = Parts]
      ELSE CloseWhenDone(e)

\* The usermode process runs after the kernelmode process, in the next tick,
\* when the queue of one that has died is gone; the loop of the kernelmode
\* process goes on with what it has been given.
ClientRuns(e, p) == Loop(Client(KernelHandles(e, p)), FALSE)
SocketRuns(e, p) == Loop(Session(KernelHandles(e, p)), TRUE)

-----------------------------------------------------------------------------
(* The server computer.                                                    *)

\* _my_tcp_packets: a process without a peer hears any SYN to its port.
Hears(s, c, p) == Alive(end[s]) /\ (end[s].peer = c \/ (end[s].peer = Nobody /\ HasSyn(p)))

\* _does_packet_match_tcp_socket_fourtuple: a connected socket knows its peer.
Matches(s, c) == end[s].registered /\ (end[s].connected => end[s].peer = c)

Flush(ends) == [x \in Endpoints |-> [ends[x] EXCEPT !.out = <<>>]]

\* TCPServerProcess.code: the socket it accepts on is connected: it starts the
\* session, acquires a socket, and accepts on that one.
Free(ends) == {s \in Sockets : ends[s].pc = "none"}
NextSocket(ends) == CHOOSE s \in Free(ends) : \A t \in Free(ends) : s <= t
Listening(e) == [e EXCEPT !.pc = "listen", !.registered = TRUE]
Accepts(ends) == listener # 0 /\ ends[listener].connected /\ ends[listener].app = "none"
\* Mutant: the server acquires the next socket, and does not listen on it.
AcceptedOnce(ends) ==
    IF ~Accepts(ends) THEN ends
    ELSE [ends EXCEPT ![listener] = Loop(CloseWhenDone(StartSession(@)), TRUE)]

Accepted(ends) ==
    IF ~Accepts(ends) THEN ends
    ELSE LET s == NextSocket(ends)
         IN  [ends EXCEPT ![listener] = Loop(CloseWhenDone(StartSession(@)), TRUE), ![s] = Listening(@)]

\* What the sockets send, each in its turn.
AllOut(ends) == FoldLeft(LAMBDA out, packets : out \o packets, <<>>, [s \in Sockets |-> ends[s].out])

(* Computer._handle_tcp and the processes, for a packet of client c.       *)
ServerReceives(c) ==
    /\ toServer[c] # <<>>
    /\ \E p \in {Head(toServer[c])} :
       \E heard \in {[x \in Endpoints |->
             IF x \in Sockets /\ Hears(x, c, p)
               THEN SocketRuns([end[x] EXCEPT !.peer = c, !.resent = FALSE], p) ELSE end[x]]} :
       /\ Accepts(heard) => Free(heard) # {}
       /\ \E ends \in {Accepted(heard)} :
          /\ listener' = IF Accepts(heard) THEN NextSocket(heard) ELSE listener
          /\ toClient' = [toClient EXCEPT ![c] =
                @ \o (IF p.flags # "RST" /\ ~\E s \in Sockets : Matches(s, c) THEN <<Reset>> ELSE <<>>)
                  \o AllOut(ends)]
          /\ end' = Flush(ends)
          /\ crashed' = \E s \in Sockets : ends[s].failed
    /\ toServer' = [toServer EXCEPT ![c] = Tail(@)]
    /\ Tick(c)
    /\ UNCHANGED <<protocol, losses, toggles>>

Toggle ==
    /\ toggles < MaxToggles
    /\ toggles' = toggles + 1
    /\ UNCHANGED <<protocol, cables, losses, clock, crashed>>

\* Computer.open_port of a port that is closed.
OpenPort ==
    /\ Toggle
    /\ listener = 0 /\ Free(end) # {}
    /\ listener' = NextSocket(end)
    /\ end' = [end EXCEPT ![NextSocket(end)] = Listening(@)]

\* Of one that is open: kill_all_usermode_processes_by_type, and the sockets of
\* the process are removed in the next garbage_cleanup.
ClosePort ==
    /\ Toggle
    /\ listener # 0
    /\ listener' = 0
    /\ end' = [x \in Endpoints |->
                 IF x \in Sockets THEN [end[x] EXCEPT !.registered = FALSE] ELSE end[x]]

-----------------------------------------------------------------------------
(* A client computer.                                                      *)

\* TCPSocket.connect: the connecting process sends its SYN.
Connect(c) ==
    /\ end[c].app = "none"
    /\ \E e \in {AddWaiting([end[c] EXCEPT !.pc = "hello", !.registered = TRUE, !.app = "connecting"], "SYN")} :
          /\ toServer' = [toServer EXCEPT ![c] = @ \o e.out]
          /\ end' = [end EXCEPT ![c] = [e EXCEPT !.out = <<>>]]
    /\ UNCHANGED <<protocol, toClient, listener, losses, toggles, clock, crashed>>

ClientReceives(c) ==
    /\ toClient[c] # <<>>
    /\ \E p \in {Head(toClient[c])} :
       \E e \in {IF Alive(end[c]) THEN ClientRuns([end[c] EXCEPT !.resent = FALSE], p) ELSE end[c]} :
          /\ toServer' = [toServer EXCEPT ![c] =
                @ \o (IF p.flags # "RST" /\ ~end[c].registered THEN <<Reset>> ELSE <<>>) \o e.out]
          /\ end' = [end EXCEPT ![c] = [e EXCEPT !.out = <<>>]]
          /\ crashed' = e.failed
    /\ toClient' = [toClient EXCEPT ![c] = Tail(@)]
    /\ Tick(c)
    /\ UNCHANGED <<protocol, listener, losses, toggles>>

-----------------------------------------------------------------------------
(* Time.  RESEND_TIME is longer than a packet and its answer take.         *)

Quiet(c) == toServer[c] = <<>> /\ toClient[c] = <<>>
EndsOf(c) == {c} \cup {s \in Sockets : end[s].peer = c}
Waits(x) == end[x].window # <<>> /\ Alive(end[x])

\* retransmit_unacked, in endpoint x of the session with client c.  Both ends
\* count the same time: neither resends twice before the other has.
Resend(x, c) ==
    /\ Quiet(c) /\ Waits(x)
    /\ end[x].pc = "goodbye" => ~end[x].resent
    /\ end[x].resent => \A y \in EndsOf(c) : Waits(y) => end[y].resent
    /\ end' = [end EXCEPT ![x].resent = TRUE]
    /\ IF x = c THEN toServer' = [toServer EXCEPT ![c] = end[x].window] /\ UNCHANGED toClient
       ELSE toClient' = [toClient EXCEPT ![c] = end[x].window] /\ UNCHANGED toServer
    /\ Tick(c)
    /\ UNCHANGED <<protocol, listener, losses, toggles, crashed>>

\* goodbye_handshake(initiate=False) waits for two RESEND_TIMEs: for one resend.
GivesUp(c) ==
    /\ Quiet(c) /\ end[c].pc = "goodbye" /\ end[c].resent
    /\ end' = [end EXCEPT ![c] = Client(EndSession(@))]
    /\ Tick(c)
    /\ UNCHANGED <<protocol, cables, listener, losses, toggles, crashed>>

LoseToServer(c) ==
    /\ losses < MaxLosses /\ toServer[c] # <<>>
    /\ toServer' = [toServer EXCEPT ![c] = Tail(@)]
    /\ losses' = losses + 1
    /\ UNCHANGED <<protocol, end, toClient, listener, toggles, clock, crashed>>

LoseToClient(c) ==
    /\ losses < MaxLosses /\ toClient[c] # <<>>
    /\ toClient' = [toClient EXCEPT ![c] = Tail(@)]
    /\ losses' = losses + 1
    /\ UNCHANGED <<protocol, end, toServer, listener, toggles, clock, crashed>>

-----------------------------------------------------------------------------
Init ==
    /\ protocol \in {"daytime", "ftp"}
    /\ end = [x \in Endpoints |-> NewEndpoint]
    /\ toServer = [c \in Clients |-> <<>>]
    /\ toClient = [c \in Clients |-> <<>>]
    /\ listener = 0
    /\ clock = [c \in Clients |-> 0]
    /\ losses = 0
    /\ toggles = 0
    /\ crashed = FALSE

Runs(c) ==
    \/ ServerReceives(c)
    \/ ClientReceives(c)
    \/ \E x \in EndsOf(c) : Resend(x, c)
    \/ GivesUp(c)

User == OpenPort \/ ClosePort \/ \E c \in Clients : Connect(c)

Next ==
    /\ ~crashed
    /\ \/ \E c \in Clients : Runs(c) \/ LoseToServer(c) \/ LoseToClient(c)
       \/ User

Spec == Init /\ [][Next]_vars

\* The main loop moves what is on the cables and runs the computers.
SomethingToDo(c) ==
    ~Quiet(c) \/ \E x \in EndsOf(c) : Waits(x)
FairSpec == Spec /\ \A c \in Clients : WF_clock(~crashed /\ SomethingToDo(c) /\ Tick(c))

-----------------------------------------------------------------------------
(* Properties. *)

Flags == {"SYN", "SYNACK", "ACK", "PSH", "FIN", "FINACK", "RST"}

\* The variables have their types.
TypeOK ==
    /\ \A x \in Endpoints : /\ end[x].peer \in Clients \cup {Nobody}
                            /\ end[x].seq \in Nat /\ end[x].r.ack \in Nat
                            /\ end[x].out = <<>>
    /\ \A c \in Clients : \A k \in DOMAIN toServer[c] : toServer[c][k].flags \in Flags \ {"SYNACK", "FIN"}
    /\ \A c \in Clients : \A k \in DOMAIN toClient[c] : toClient[c][k].flags \in Flags \ {"SYN", "FINACK"}
    /\ listener \in Sockets \cup {0}
    /\ losses <= MaxLosses /\ toggles <= MaxToggles

\* What a client of the protocol is to get.
Answer == IF protocol = "daytime" THEN 1 ELSE Parts

\* The user opens the port first.
PortWasClosed == toggles > 1

\* A client that ends in good order has got the answer in order, and each part
\* once, whatever was lost and resent on the way: the server closes its socket
\* before the client has read all, close_when_done_transmitting. Something may
\* be missing only when the port was closed, which ends the sessions, too.
DoneHasAll ==
    \A c \in Clients : end[c].app = "done" =>
        /\ end[c].got = [k \in DOMAIN end[c].got |-> k] /\ Len(end[c].got) <= Answer
        /\ Len(end[c].got) = Answer \/ PortWasClosed

\* The server speaks with clients that speak with it: it starts a session only
\* for a client that has had its SYN-ACK, and only one for a client. (When the
\* port was closed and opened during a handshake, two sockets answer the client;
\* the ACK that connects the second makes the first raise.)
SessionsAreReal ==
    ~crashed => \A s \in Sockets : end[s].app # "none" =>
        /\ end[end[s].peer].app \notin {"none", "connecting"}
        /\ \A t \in Sockets : t # s => end[t].peer # end[s].peer

\* A packet makes the server raise only for a socket that went with its port:
\* the ACK of a handshake is for a socket that has been removed, or a session
\* process asks a kernelmode process that a RST has ended whether it is done;
\* and the client of a socket that is still there never sends that RST.
CrashesOnlyWhenClosed ==
    crashed => /\ PortWasClosed
               /\ \A c \in Clients : ~end[c].failed
               /\ \E s \in Sockets : end[s].failed /\ ~end[s].registered

\* What is acknowledged is not thrown away.
NothingThrown == \A x \in Endpoints : ~end[x].thrown

\* Every client comes to an end, served or refused, and every connection ends on
\* both sides, unless the first data has been thrown away or the program ended.
SessionsEnd ==
    \A c \in Clients :
        end[c].app = "connecting" ~>
            \/ ~NothingThrown \/ crashed
            \/ /\ end[c].app \in {"done", "refused"}
               /\ ~Alive(end[c])
               /\ \A s \in Sockets : end[s].peer = c => ~Alive(end[s])

\* A server whose port is open listens again and again, whatever its clients do.
ListensAgain == crashed \/ listener = 0 \/ end[listener].pc \in {"listen", "accepting"}
=============================================================================
