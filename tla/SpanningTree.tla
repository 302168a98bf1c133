----------------------------- MODULE SpanningTree -----------------------------
(***************************************************************************)
(* STPProcess: the spanning tree protocol, on switches joined by cables.   *)
(* The state of one process is a record; what one iteration of its loop    *)
(* does is a composition of operators on that record, in the order of the  *)
(* code.  BridgedNetwork runs the processes and the switching together.    *)
(*                                                                         *)
(* A switch is a number, its place in the main loop; a cable is a number,  *)
(* its place in the interface lists of the switches at its ends.  A port   *)
(* of a switch is the number of its cable.  Time counts in ticks.          *)
(***************************************************************************)
EXTENDS Integers, Sequences, FiniteSets, SequencesExt

CONSTANTS
    Switches,           \* 1 .. the number of switches
    Cables,             \* 1 .. the number of cables
    Ends,               \* Ends[c]: the two switches that cable c joins
    PathCost,           \* PathCost[c]: its connection_length_to_path_cost
    Bid,                \* Bid[s]: the value of the BID of s
    SendingInterval,    \* NORMAL_SENDING_INTERVAL
    StableInterval,     \* STABLE_SENDING_INTERVAL
    RootTimeout,        \* ROOT_MAX_DISAPPEARING_TIME, as a time
    StabilizingTime,    \* TREE_STABLIZING_MAX_TIME
    PortTimeout,        \* MAX_CONNECTION_DISAPPEARED_TIME
    MaxAge,             \* ROOT_MAX_DISAPPEARING_TIME, as the max_age of packets
    MaxDistance         \* distances that count up stop here: a bound

ASSUME SwitchesAssumption == IsFiniteSet(Switches) /\ Switches \subseteq Nat
ASSUME CablesAssumption ==
    /\ IsFiniteSet(Cables) /\ Cables \subseteq Nat
    /\ \A c \in Cables : Ends[c] \subseteq Switches /\ Cardinality(Ends[c]) = 2
ASSUME BidAssumption == \A s, t \in Switches : Bid[s] = Bid[t] => s = t

\* BID: priority and MAC address make one number.
IsBetter(root, other) == root < other

CablesOf(s) == {c \in Cables : s \in Ends[c]}
Neighbour(s, c) == CHOOSE t \in Ends[c] : t # s

\* Times that are compared with nothing longer need not grow beyond it.
MaxTime == 1 + CHOOSE t \in {StabilizingTime, PortTimeout, RootTimeout, StableInterval} :
                  \A u \in {StabilizingTime, PortTimeout, RootTimeout, StableInterval} : u <= t
Older(t) == IF t < MaxTime THEN t + 1 ELSE t

-----------------------------------------------------------------------------
(* The state of a process. *)

PortData(c) == [cable |-> c, state |-> "no state!", distance |-> 0, silent |-> 0]

NewProcess(s) ==
    [me |-> s, root |-> Bid[s], ports |-> <<>>, rootAge |-> 0,
     sinceRootChange |-> 0, sinceDeclared |-> 0, sinceSending |-> 0,
     stable |-> FALSE, rootDisappeared |-> FALSE]

AmIRoot(p) == p.root = Bid[p.me]
PortsOf(p) == {p.ports[i].cable : i \in DOMAIN p.ports}
PortIndex(p, c) == CHOOSE i \in DOMAIN p.ports : p.ports[i].cable = c

\* root_port: the first of the ports with the smallest distance.
RootPortIndex(p) ==
    CHOOSE i \in DOMAIN p.ports :
        \A j \in DOMAIN p.ports :
            \/ p.ports[i].distance < p.ports[j].distance
            \/ p.ports[i].distance = p.ports[j].distance /\ i <= j

DistanceToRoot(p) == IF p.ports = <<>> THEN 0 ELSE p.ports[RootPortIndex(p)].distance

Packet(p) == [root |-> p.root, distance |-> DistanceToRoot(p),
              age |-> IF AmIRoot(p) THEN 0 ELSE p.rootAge + 1]

-----------------------------------------------------------------------------
(* Learning. *)

AddPort(p, c) == [p EXCEPT !.ports = Append(@, PortData(c))]

UpdateDistance(p, distance, c) ==
    [p EXCEPT !.ports[PortIndex(p, c)].distance =
        IF AmIRoot(p) THEN 0
        ELSE IF distance + PathCost[c] < MaxDistance THEN distance + PathCost[c]
             ELSE MaxDistance]

UpdateRoot(p, root, distance, age, c) ==
    LET told  == [p EXCEPT !.root = root, !.rootAge = age, !.stable = FALSE,
                           !.sinceRootChange = 0, !.sinceDeclared = 0]
    IN  UpdateDistance(IF c \in PortsOf(p) THEN told ELSE AddPort(told, c), distance, c)

\* Mutant of UpdateRootAge: an older age never makes the root disappear.
UpdateRootAgeOnly(p, age) ==
    IF age > p.rootAge /\ p.sinceDeclared < RootTimeout THEN p
    ELSE [p EXCEPT !.sinceDeclared = 0, !.rootAge = age]

\* The age of a root that is known already.
UpdateRootAge(p, age) ==
    LET known == IF AmIRoot(p) THEN -1 ELSE p.rootAge
    IN  IF age > p.rootAge /\ p.sinceDeclared < RootTimeout THEN p
        ELSE [p EXCEPT !.rootDisappeared = @ \/ age > known,
                       !.sinceDeclared = 0, !.rootAge = age]

LearnFromPacket(p, packet, c) ==
    LET heard == IF c \in PortsOf(p) THEN p ELSE AddPort(p, c)
        awake == [heard EXCEPT !.ports[PortIndex(heard, c)].silent = 0]
    IN  IF packet.age >= MaxAge THEN awake
        ELSE IF IsBetter(packet.root, p.root)
               THEN UpdateRoot(awake, packet.root, packet.distance, packet.age, c)
        ELSE IF packet.root = p.root
               THEN UpdateDistance(UpdateRootAge(awake, packet.age), packet.distance, c)
        ELSE awake

\* arrived: pairs of a packet and its port, in the order of the interfaces.
Learn(p, arrived) == FoldLeft(LAMBDA q, a : LearnFromPacket(q, a.packet, a.port), p, arrived)

-----------------------------------------------------------------------------
(* The states of the ports, and what becomes of ports that are gone. *)

\* Mutant of ShouldBeDesignated: equal distances count as farther.
DesignatedWhenEqual(p, i) ==
    AmIRoot(p) \/ p.ports[i].distance - PathCost[p.ports[i].cable] >= DistanceToRoot(p)

\* The other switch on the port is farther from the root.
ShouldBeDesignated(p, i) ==
    AmIRoot(p) \/ p.ports[i].distance - PathCost[p.ports[i].cable] > DistanceToRoot(p)

SetInterfaceStates(p) ==
    [p EXCEPT !.ports = [i \in DOMAIN p.ports |->
        [p.ports[i] EXCEPT !.state =
            IF ~AmIRoot(p) /\ i = RootPortIndex(p) THEN "ROOT"
            ELSE IF ShouldBeDesignated(p, i) THEN "DESIGNATED" ELSE "BLOCKED"]]]

Gone(port, connected) == port.cable \notin connected \/ port.silent > PortTimeout

RemoveDisconnectedPorts(p, connected) ==
    [p EXCEPT !.ports = SelectSeq(@, LAMBDA port : ~Gone(port, connected))]

TreeIsProbablyStable(p) ==
    [p EXCEPT !.stable = @ \/ p.sinceRootChange > StabilizingTime]

\* _recalculate_root, when the root has disappeared.
RecalculateRoot(p) ==
    IF ~p.rootDisappeared THEN p
    ELSE FoldLeft(LAMBDA q, port : UpdateRoot(q, Bid[p.me], 0, -1, port.cable),
                  [p EXCEPT !.rootDisappeared = FALSE], p.ports)

-----------------------------------------------------------------------------
(* One iteration of the loop of STPProcess.code, from one yield to the     *)
(* next.  It floods packets when the root has disappeared, or when the     *)
(* sending interval is over.                                               *)

Interval(p) == IF p.stable THEN StableInterval ELSE SendingInterval

Learned(p, arrived, connected) ==
    SetInterfaceStates(Learn(RemoveDisconnectedPorts(p, connected), arrived))

Settled(p, arrived, connected) ==
    RemoveDisconnectedPorts(TreeIsProbablyStable(Learned(p, arrived, connected)), connected)

Floods(settled) ==
    LET p == RecalculateRoot(settled)
    IN  settled.rootDisappeared \/ p.sinceSending > Interval(p)

AfterLoop(settled) ==
    LET p == RecalculateRoot(settled)
    IN  IF Floods(settled) THEN [p EXCEPT !.sinceSending = 0] ELSE p

(* The interfaces that are blocked after the iteration: a port of the      *)
(* process is blocked or unblocked by its state, one that is removed is    *)
(* unblocked, and any other interface stays as it is.                      *)
PortsInState(p, state) == {c \in PortsOf(p) : p.ports[PortIndex(p, c)].state = state}

BlockedAfter(p, arrived, connected, blocked) ==
    LET learned == Learned(p, arrived, connected)
    IN  (blocked \ (PortsOf(p) \cup PortsOf(learned)))
        \cup PortsInState(Settled(p, arrived, connected), "BLOCKED")

\* A tick passes.
Age(p) ==
    [p EXCEPT !.sinceRootChange = Older(@), !.sinceDeclared = Older(@),
              !.sinceSending = Older(@),
              !.ports = [i \in DOMAIN p.ports |->
                            [p.ports[i] EXCEPT !.silent = Older(@)]]]
=============================================================================
