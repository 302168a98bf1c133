-------------------------- MODULE WirelessFrequency --------------------------
(***************************************************************************)
(* Wireless connections (connections/wireless_connection.py): a frequency  *)
(* on which every interface that is tuned to it sends, and hears a packet  *)
(* once the circle the packet has become is near, or has passed.           *)
(*                                                                         *)
(* A station is a computer with one wireless interface, a place a point of *)
(* a line.  Tuning an interface makes a new side of the connection; sides  *)
(* and connections are numbered as they are made.  The user acts between   *)
(* two frames of the main loop.                                            *)
(***************************************************************************)
EXTENDS Integers, FiniteSetsExt, SequencesExt, Functions, Selection

CONSTANTS
    Stations,      \* computers with a wireless interface
    Frequencies,
    Places,        \* points of a line, as numbers
    LongestLine,   \* longest_line_on_the_screen
    Near,          \* how far ahead of its circle a packet is heard (20 pixels)
    MaxStep,       \* bound: how far a circle grows between two frames
    MaxMessages,   \* bound: messages sent
    MaxEvents      \* bound: what the user does

ASSUME WirelessAssumption ==
    /\ IsFiniteSet(Stations) /\ Frequencies # {}
    /\ Places \subseteq 0 .. LongestLine
    /\ {LongestLine, Near, MaxStep, MaxMessages, MaxEvents} \subseteq Nat

VARIABLES
    station,       \* per station: its interface
    computers,     \* those the user interface lists
    running,       \* those whose logic is in the main loop
    sides,         \* the WirelessConnectionSides ever made
    connections,   \* the WirelessConnections ever made; all stay in the main loop
    listed,        \* UserInterface.wireless_connections
    senders,       \* per message: the side it was sent from, and how many there were (history)
    events,        \* how much the user has done
    raised,        \* an exception has left the main loop
    beat           \* changes with every frame

air == <<sides, connections>>
screen == <<computers, running, listed>>
vars == <<station, screen, air, senders, events, raised, beat>>

NoSide == 0
None == "none"

(* A new interface: powered on, not blocked, not tuned.                    *)
NewInterface(place) ==
    [side |-> NoSide, place |-> place, isOn |-> TRUE, isBlocked |-> FALSE, owned |-> TRUE]

(* since and taken are history: the first packet sent after the side was   *)
(* made, and what the computer has read.                                   *)
NewSide(c, s, since) ==
    [connection |-> c, station |-> s, since |-> since,
     toSend |-> <<>>, toReceive |-> <<>>, receivedIds |-> {}, taken |-> <<>>]

(* What is left of a side nothing refers to any more.                      *)
Forget(table, k) ==
    IF k = NoSide THEN table
    ELSE [table EXCEPT ![k] = NewSide(table[k].connection, table[k].station, 0)]

NewConnection(f) == [frequency |-> f, sides |-> <<>>, packets |-> <<>>, sentPacketId |-> 0]

Distance(p, q) == IF p < q THEN q - p ELSE p - q
Connected(s) == station[s].side # NoSide

-----------------------------------------------------------------------------
(* One frame: the packets of one connection c move.  An operator takes the *)
(* sides k and the connection and gives what becomes of them.              *)

(* Mutant: the sender is not told the number of its packet.                *)
SendUnrecognized(a, k) ==
    LET waiting == a.sides[k].toSend
        first == a.connection.sentPacketId
    IN  [sides |-> [a.sides EXCEPT ![k].toSend = <<>>],
         connection |->
            [a.connection EXCEPT
                !.packets = @ \o [i \in DOMAIN waiting |->
                    [id |-> first + i - 1, message |-> waiting[i],
                     center |-> station[a.sides[k].station].place, radius |-> 0]],
                !.sentPacketId = @ + Len(waiting)]]

(* All that waits at a side becomes packets, numbered by the connection;   *)
(* their circles start at the sender, who counts them as received.         *)
SendPacketsFromSide(a, k) ==
    LET waiting == a.sides[k].toSend
        first == a.connection.sentPacketId
        numbers == first .. first + Len(waiting) - 1
    IN  [sides |-> [a.sides EXCEPT ![k].toSend = <<>>, ![k].receivedIds = @ \cup numbers],
         connection |->
            [a.connection EXCEPT
                !.packets = @ \o [i \in DOMAIN waiting |->
                    [id |-> first + i - 1, message |-> waiting[i],
                     center |-> station[a.sides[k].station].place, radius |-> 0]],
                !.sentPacketId = @ + Len(waiting)]]

(* The circle is as wide as the time since the packet was sent makes it;   *)
(* how much wider than the screen does not matter.                         *)
Wider(radius, elapsed) == IF radius + elapsed <= LongestLine THEN radius + elapsed ELSE LongestLine + 1

Grown(packets, elapsed) ==
    [i \in DOMAIN packets |-> [packets[i] EXCEPT !.radius = Wider(@, elapsed)]]

OnTheScreen(packets) == Only(packets, {p \in ToSet(packets) : p.radius <= LongestLine})

(* `0 != distance - radius < 20`: every side the circle has come near to,  *)
(* or has passed, but not one that is exactly on it.                       *)
IsNear(side, p) ==
    LET ahead == Distance(station[side.station].place, p.center) - p.radius
    IN  ahead # 0 /\ ahead < Near

(* Mutant: only packets that are still on the screen are heard.            *)
HeardOnTheScreen(side, packets) ==
    Only(packets, {p \in ToSet(packets) :
                     p.radius <= LongestLine /\ IsNear(side, p) /\ p.id \notin side.receivedIds})

(* What a side that is near has not received before.                       *)
Heard(side, packets) ==
    Only(packets, {p \in ToSet(packets) : IsNear(side, p) /\ p.id \notin side.receivedIds})

Receive(side, packets) ==
    LET heard == Heard(side, packets)
    IN  [side EXCEPT !.toReceive = @ \o [i \in DOMAIN heard |-> heard[i].message],
                     !.receivedIds = @ \cup {p.id : p \in ToSet(heard)}]

(* A packet that leaves the screen is heard once more in the same frame.   *)
MovePackets(s, c, elapsed) ==
    LET grown == [connections[c] EXCEPT !.packets = Grown(@, elapsed)]
        a == FoldLeft(SendPacketsFromSide, [sides |-> s, connection |-> grown], grown.sides)
    IN  [sides |-> [k \in DOMAIN s |-> IF k \in ToSet(grown.sides)
                                       THEN Receive(a.sides[k], a.connection.packets)
                                       ELSE a.sides[k]],
         connection |-> [a.connection EXCEPT !.packets = OnTheScreen(@)]]

(* A computer that is on reads what its interface has received; one that   *)
(* is blocked throws it away.                                              *)
Reads(k) ==
    LET s == sides[k].station
    IN  station[s].side = k /\ s \in running /\ station[s].owned /\ station[s].isOn

Logic(k) ==
    IF ~Reads(k) THEN sides[k]
    ELSE [sides[k] EXCEPT
            !.toReceive = <<>>,
            !.taken = @ \o (IF station[sides[k].station].isBlocked THEN <<>> ELSE sides[k].toReceive)]

(* The computers first, then the connections: the order in which they came *)
(* into the main loop (a computer made later runs later, which only means  *)
(* that it reads in the same frame).                                       *)
MovedNext(a, c, elapsed) ==
    LET m == MovePackets(a.sides, c, elapsed)
    IN  [sides |-> m.sides, connections |-> Append(a.connections, m.connection)]

Moved(elapsed) ==
    FoldLeft(LAMBDA a, c : MovedNext(a, c, elapsed),
             [sides |-> [k \in DOMAIN sides |-> Logic(k)], connections |-> <<>>],
             [c \in DOMAIN connections |-> c])

Frame ==
    /\ \E moved \in {Moved(elapsed) : elapsed \in 1 .. MaxStep} :
          sides' = moved.sides /\ connections' = moved.connections
    /\ beat' = ~beat
    /\ UNCHANGED <<station, screen, senders, events, raised>>

-----------------------------------------------------------------------------
(* Tuning. *)

(* get_wireless_connection: the listed one of that frequency, or a new one. *)
WithFrequency(f) == {c \in listed : connections[c].frequency = f}

ConnectionsWith(f) == IF WithFrequency(f) # {} THEN connections ELSE Append(connections, NewConnection(f))
ConnectionOf(f) == IF WithFrequency(f) # {} THEN CHOOSE c \in WithFrequency(f) : TRUE
                   ELSE Len(connections) + 1

(* Mutant: a side that is left stays in its connection. *)
RemoveNoSide(cs, k) == cs

RemoveSide(cs, k) ==
    IF k = NoSide THEN cs
    ELSE [cs EXCEPT ![sides[k].connection].sides = Only(@, ToSet(@) \ {k})]

(* WirelessNetworkInterface.connect: from the old side to a new one, which *)
(* has heard nothing yet.                                                  *)
Connect(s, f) ==
    LET c == ConnectionOf(f)
        k == Len(sides) + 1
        free == RemoveSide(ConnectionsWith(f), station[s].side)
    IN  /\ connections' = [free EXCEPT ![c].sides = Append(@, k)]
        /\ listed' = listed \cup {c}
        /\ sides' = Append(Forget(sides, station[s].side), NewSide(c, s, free[c].sentPacketId))
        /\ station' = [station EXCEPT ![s].side = k]

(* The window in which the user answers was opened while the interface    *)
(* was on the screen, and stays when it, or its computer, has gone.        *)
SetInterfaceFrequency(s, f) ==
    /\ Connect(s, f)
    /\ UNCHANGED <<computers, running, senders, raised>>

-----------------------------------------------------------------------------
(* The computers. *)

(* NetworkInterface.send, from a process or a button of the computer.      *)
Send(s) ==
    /\ s \in running /\ station[s].owned /\ Len(senders) < MaxMessages
    /\ station[s].isOn /\ Connected(s) /\ ~station[s].isBlocked
    /\ senders' = Append(senders, [side |-> station[s].side, sidesMade |-> Len(sides)])
    /\ sides' = [sides EXCEPT ![station[s].side].toSend = Append(@, Len(senders'))]
    /\ UNCHANGED <<station, screen, connections, events, raised, beat>>

Power(s) ==
    /\ s \in computers /\ station[s].owned
    /\ station' = [station EXCEPT ![s].isOn = ~@]
    /\ UNCHANGED <<screen, air, senders, raised>>

ToggleBlock(s) ==
    /\ s \in computers /\ station[s].owned
    /\ station' = [station EXCEPT ![s].isBlocked = ~@]
    /\ UNCHANGED <<screen, air, senders, raised>>

Drag(s, p) ==
    /\ s \in computers /\ p # station[s].place
    /\ station' = [station EXCEPT ![s].place = p]
    /\ UNCHANGED <<screen, air, senders, raised>>

(* Only a cable is taken away first: an interface that is tuned cannot be  *)
(* removed.                                                                *)
RemoveInterface(s) ==
    /\ s \in computers /\ station[s].owned
    /\ IF Connected(s)
       THEN raised' = "DeviceAlreadyConnectedError" /\ UNCHANGED station
       ELSE station' = [station EXCEPT ![s].owned = FALSE] /\ UNCHANGED raised
    /\ UNCHANGED <<screen, air, senders>>

(* delete: the computer is not listed any more, its logic stays in the     *)
(* main loop, and its wireless interface is disconnected, tuned or not.    *)
DeleteComputer(s) ==
    /\ s \in computers
    /\ computers' = computers \ {s}
    /\ IF station[s].owned /\ ~Connected(s)
       THEN raised' = "InterfaceNotConnectedError" /\ UNCHANGED <<station, air>>
       ELSE LET k == IF station[s].owned THEN station[s].side ELSE NoSide
            IN  /\ connections' = RemoveSide(connections, k)
                /\ sides' = Forget(sides, k)
                /\ station' = [station EXCEPT ![s].side = IF @ = k THEN NoSide ELSE @]
                /\ UNCHANGED raised
    /\ UNCHANGED <<running, listed, senders>>

(* create_computer_with_ip: a station that is deleted and not tuned stands *)
(* for a new computer, not for the old one.                                *)
CreateComputer(s, p) ==
    /\ s \notin computers /\ ~Connected(s)
    /\ computers' = computers \cup {s}
    /\ running' = running \cup {s}
    /\ station' = [station EXCEPT ![s] = NewInterface(p)]
    /\ UNCHANGED <<listed, air, senders, raised>>

(* The lists are emptied and the computers leave the main loop; nobody is  *)
(* disconnected, and the connections go on.                                *)
DeleteAll ==
    /\ computers # {}
    /\ computers' = {}
    /\ running' = running \ computers
    /\ listed' = {}
    /\ UNCHANGED <<station, air, senders, raised>>

Event ==
    /\ events < MaxEvents
    /\ events' = events + 1
    /\ UNCHANGED beat
    /\ \/ \E s \in Stations, f \in Frequencies : SetInterfaceFrequency(s, f)
       \/ \E s \in Stations : Power(s)
       \/ \E s \in Stations : ToggleBlock(s)
       \/ \E s \in Stations, p \in Places : Drag(s, p)
       \/ \E s \in Stations : RemoveInterface(s)
       \/ \E s \in Stations : DeleteComputer(s)
       \/ \E s \in Stations, p \in Places : CreateComputer(s, p)
       \/ DeleteAll

-----------------------------------------------------------------------------

(* Some of the computers were tuned to a frequency, one after the other.   *)
Init ==
    /\ \E n \in 0 .. Cardinality(Stations), place \in [Stations -> Places] :
        LET tuned == SubSeq(SetToSeq(Stations), 1, n)
            f == CHOOSE f \in Frequencies : TRUE
        IN  /\ station = [s \in Stations |->
                            [NewInterface(place[s]) EXCEPT
                                !.side = IF s \in ToSet(tuned) THEN CHOOSE k \in 1 .. n : tuned[k] = s ELSE NoSide]]
            /\ sides = [k \in 1 .. n |-> NewSide(1, tuned[k], 0)]
            /\ connections = IF n = 0 THEN <<>>
                             ELSE <<[NewConnection(f) EXCEPT !.sides = [k \in 1 .. n |-> k]]>>
    /\ computers = Stations
    /\ running = Stations
    /\ listed = DOMAIN connections
    /\ senders = <<>>
    /\ events = 0
    /\ beat = TRUE
    /\ raised = None

Next ==
    /\ raised = None
    /\ \/ Frame
       \/ \E s \in Stations : Send(s)
       \/ Event

Spec == Init /\ [][Next]_vars

(* The main loop goes on unless an exception has left it: only Frame       *)
(* changes beat.                                                           *)
FairSpec == Spec /\ WF_beat(raised = None /\ beat' = ~beat)

-----------------------------------------------------------------------------
(* Properties. *)

Messages == 1 .. MaxMessages

TypeOK ==
    /\ station \in [Stations -> [side : 0 .. Len(sides), place : Places, isOn : BOOLEAN,
                                 isBlocked : BOOLEAN, owned : BOOLEAN]]
    /\ computers \subseteq Stations /\ running \subseteq Stations
    /\ listed \subseteq DOMAIN connections
    /\ \A k \in DOMAIN sides :
          /\ sides[k].connection \in DOMAIN connections /\ sides[k].station \in Stations
          /\ sides[k].receivedIds \subseteq 0 .. connections[sides[k].connection].sentPacketId - 1
          /\ \A q \in {sides[k].toSend, sides[k].toReceive, sides[k].taken} : ToSet(q) \subseteq Messages
    /\ \A c \in DOMAIN connections :
          /\ connections[c].frequency \in Frequencies
          /\ \A p \in ToSet(connections[c].packets) :
                /\ p.radius \in 0 .. LongestLine
                /\ p.id \in 0 .. connections[c].sentPacketId - 1
    /\ senders \in Seq([side : DOMAIN sides, sidesMade : DOMAIN sides]) /\ events \in 0 .. MaxEvents /\ beat \in BOOLEAN
    /\ raised \in {None, "DeviceAlreadyConnectedError", "InterfaceNotConnectedError"}

(* The two ends of a connection agree, whatever is tuned, deleted, removed *)
(* or made again: the sides in its list are the ones interfaces have.      *)
SidesAreTuned ==
    \A c \in DOMAIN connections :
        /\ IsInjective(connections[c].sides)
        /\ ToSet(connections[c].sides) =
              {station[s].side : s \in {s \in Stations : Connected(s) /\ sides[station[s].side].connection = c}}

(* Computers of the network that are tuned to the same frequency, and only *)
(* they, hear each other: they have the same connection.                   *)
SameFrequency ==
    \A s, t \in {s \in computers : Connected(s)} :
        LET c == sides[station[s].side].connection
            d == sides[station[t].side].connection
        IN  connections[c].frequency = connections[d].frequency => c = d

(* Interfaces, sides and the list of connections of the user interface     *)
(* tell the same story.                                                    *)
TunedTogether == TypeOK /\ SidesAreTuned /\ SameFrequency

(* As long as an interface stays tuned it hears no packet twice, and none  *)
(* of its own, though every packet passes it for many frames.              *)
HeardOnce ==
    \A k \in DOMAIN sides :
        LET heard == sides[k].taken \o sides[k].toReceive
        IN  IsInjective(heard) /\ \A n \in ToSet(heard) : senders[n].side # k

(* A packet is forgotten when its circle is wider than the screen; however *)
(* long a frame takes, it was then received by every side that was there   *)
(* when it was sent and still is, wherever its computer was dragged.       *)
GoneWasHeard ==
    \A c \in DOMAIN connections :
        LET flying == {p.id : p \in ToSet(connections[c].packets)}
        IN  \A k \in ToSet(connections[c].sides) :
                (sides[k].since .. connections[c].sentPacketId - 1) \ flying \subseteq sides[k].receivedIds

(* What an interface sends is read by every other that is tuned to the     *)
(* frequency, unless the one or the other is tuned anew, or the other is   *)
(* blocked or switched off.                                                *)
Listens(k) == Reads(k) /\ ~station[sides[k].station].isBlocked

Waits(n) == n \in DOMAIN senders /\ n \in ToSet(sides[senders[n].side].toSend)

HeardBy(n, s) ==
    LET j == station[s].side
        k == senders[n].side
    IN  \/ raised # None \/ station[sides[k].station].side # k
        \/ j \in {NoSide, k} \/ j > senders[n].sidesMade \/ sides[j].connection # sides[k].connection
        \/ n \in ToSet(sides[j].taken) \/ ~Listens(j)

IsHeard ==
    \A n \in 1 .. MaxMessages, s \in Stations :
        Waits(n) ~> (n \in DOMAIN senders /\ HeardBy(n, s))

=============================================================================
