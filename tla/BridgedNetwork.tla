---------------------------- MODULE BridgedNetwork ----------------------------
(***************************************************************************)
(* Switches joined by cables, with hosts behind some of their ports: the   *)
(* switching process of every switch, its STP process where one runs, what *)
(* the user does to cables, power and processes, and packets on the way.   *)
(*                                                                         *)
(* A tick is one round of the main loop: every switch that is switched on  *)
(* does its logic on what has arrived.  What it sends takes a tick to get  *)
(* to the other end, so the order of the switches in a round is immaterial.*)
(***************************************************************************)
EXTENDS SpanningTree

CONSTANTS
    Hosts,          \* numbers, the ports the hosts are plugged into
    SwitchOf,       \* SwitchOf[h]: the switch that host h is plugged into
    ItemLifetime,   \* SWITCH_TABLE.ITEM_LIFETIME
    MaxChanges,     \* what the user changes after the start: a bound
    Asker, Asked,   \* two of the hosts
    MaxQuestions,   \* questions: a bound
    MaxPending,     \* packets that pile up in front of a switch that is off: a bound
    Loose,          \* the cables that the user unplugs
    Sleepers        \* the switches that the user switches off

ASSUME HostsAssumption ==
    /\ IsFiniteSet(Hosts) /\ Hosts \cap Cables = {} /\ Hosts \subseteq Nat
    /\ \A h \in Hosts : SwitchOf[h] \in Switches

VARIABLES
    connected,  \* the cables that are plugged in
    powered,    \* the switches that are switched on
    process,    \* the STP process of each switch, or NoProcess
    blocked,    \* blocked[s]: the interfaces of s with is_blocked
    wire,       \* wire[c][s]: STP packets that arrive at s through cable c
    table,      \* table[s]: the mac_address_table of s
    frames,     \* the other packets, at the port of a switch
    answered,   \* an answer has got back to the host that asks
    clock,      \* changes in every round: the parity of the rounds so far
    changes,    \* how often the user has changed something
    asked        \* how many questions have been asked

stpVars == <<process, wire>>
frameVars == <<table, frames, answered>>
vars == <<connected, powered, stpVars, blocked, frameVars, clock, changes, asked>>

NoProcess == [me |-> 0]
Running == {s \in Switches : process[s] # NoProcess}
HostsOf(s) == {h \in Hosts : SwitchOf[h] = s}
InterfacesOf(s) == (CablesOf(s) \cap connected) \cup HostsOf(s)

-----------------------------------------------------------------------------
(* SwitchingProcess: a batch of frames is forwarded, then learned from.    *)

Batch(s) == {f \in frames : f.at = s}
Accepted(s) == {f \in Batch(s) : f.port \notin blocked[s]}

\* Mutant of WhereToSend: a frame is not sent where nobody has been heard.
WhereToSendKnown(s, f) ==
    IF f.dst \in DOMAIN table[s] THEN {table[s][f.dst].port} \ {f.port} ELSE {}

\* where_to_send: the legs on which a frame goes out.
WhereToSend(s, f) ==
    IF f.dst \notin DOMAIN table[s]
      THEN InterfacesOf(s) \ {f.port}
      ELSE {table[s][f.dst].port} \ {f.port}

\* NetworkInterface.send: an interface that is blocked sends nothing but STP.
OpenLegs(s) == InterfacesOf(s) \ blocked[s]

\* send_new_packets_to_destinations.
Forwarded(s) == {x \in [frame : Accepted(s), leg : OpenLegs(s)] :
                    x.leg \in WhereToSend(s, x.frame)}

ToSwitches(s) == {[x.frame EXCEPT !.at = Neighbour(s, x.leg), !.port = x.leg] :
                     x \in {y \in Forwarded(s) : y.leg \in Cables}}
ToHosts(s) == {x.frame : x \in {y \in Forwarded(s) : y.leg \in Hosts /\ y.leg = y.frame.dst}}

\* A host answers what it is asked.
Answers(s) == {[at |-> s, port |-> f.dst, src |-> f.dst, dst |-> f.src, kind |-> "answer"] :
                  f \in {g \in ToHosts(s) : g.kind = "question"}}

\* update_switch_table_from_packets: of two legs the later one counts.
Sources(s) == {f.src : f \in Accepted(s)}
LastLeg(s, h) == CHOOSE port \in {f.port : f \in {g \in Accepted(s) : g.src = h}} :
                    \A f \in Accepted(s) : f.src = h => f.port <= port

UpdatedTable(s) ==
    [h \in DOMAIN table[s] \cup Sources(s) |->
        IF h \in Sources(s) THEN [port |-> LastLeg(s, h), time |-> 0] ELSE table[s][h]]

\* delete_old_switch_table_items: the process wakes up for frames only, so an
\* entry that is too old is still there for the first batch.
WithoutOld(t) == [h \in {g \in DOMAIN t : t[g].time <= ItemLifetime} |-> t[h]]
Switched(s) == IF Accepted(s) = {} THEN table[s] ELSE WithoutOld(UpdatedTable(s))

AgedTable(t) == [h \in DOMAIN t |->
                    [t[h] EXCEPT !.time = IF @ <= ItemLifetime THEN @ + 1 ELSE @]]

-----------------------------------------------------------------------------
(* One round of the main loop. *)

Active(s) == s \in powered /\ s \in Running

\* The packets of the STP process, in the order of the interfaces.
Arrived(s) ==
    FlattenSeq([i \in 1 .. Cardinality(Cables) |->
        IF i \in CablesOf(s) \cap connected
          THEN [k \in DOMAIN wire[i][s] |-> [packet |-> wire[i][s][k], port |-> i]]
          ELSE <<>>])

SettledNow(s) == Settled(process[s], Arrived(s), connected)

\* send_stp: the packet that s floods in this round, if it does.
Stp(s) == IF Active(s) /\ Floods(SettledNow(s)) THEN <<Packet(AfterLoop(SettledNow(s)))>>
          ELSE <<>>

Pending(packets) == SubSeq(packets, 1, IF Len(packets) < MaxPending THEN Len(packets)
                                       ELSE MaxPending)

Tick == clock' = 1 - clock

Round ==
    /\ process' = [s \in Switches |->
                      IF Active(s) THEN Age(AfterLoop(SettledNow(s)))
                      ELSE IF s \in Running THEN Age(process[s]) ELSE NoProcess]
    /\ blocked' = [s \in Switches |->
                      IF Active(s) THEN BlockedAfter(process[s], Arrived(s), connected, blocked[s])
                      ELSE blocked[s]]
    /\ wire' = [c \in Cables |-> [s \in Ends[c] |->
                  IF c \notin connected THEN <<>>
                  ELSE IF s \in powered THEN Stp(Neighbour(s, c))
                  ELSE Pending(wire[c][s] \o Stp(Neighbour(s, c)))]]
    /\ frames' = {f \in frames : f.at \notin powered} \cup UNION {ToSwitches(s) \cup Answers(s) : s \in powered}
    /\ answered' = (answered \/ \E s \in powered : \E f \in ToHosts(s) : f.kind = "answer")
    /\ table' = [s \in Switches |-> AgedTable(IF s \in powered THEN Switched(s) ELSE table[s])]
    /\ Tick
    /\ UNCHANGED <<connected, powered, changes, asked>>

-----------------------------------------------------------------------------
(* The user. *)

EmptyTable == [h \in {} |-> 0]

\* start_all_stp: a switch that is off gets its process, too.
StartAllStp ==
    /\ Running # Switches
    /\ process' = [s \in Switches |-> IF s \in Running THEN process[s] ELSE NewProcess(s)]
    /\ UNCHANGED <<connected, powered, blocked, wire, frameVars, clock, changes, asked>>

Change == changes < MaxChanges /\ changes' = changes + 1

\* remove_connection: what is on the cable is gone with it.
Disconnect(c) ==
    /\ Change
    /\ c \in connected
    /\ connected' = connected \ {c}
    /\ wire' = [wire EXCEPT ![c] = [s \in Ends[c] |-> <<>>]]
    /\ frames' = {f \in frames : f.port # c}
    /\ UNCHANGED <<powered, process, blocked, table, answered, clock, asked>>

Connect(c) ==
    /\ c \notin connected
    /\ connected' = connected \cup {c}
    /\ UNCHANGED <<powered, stpVars, blocked, frameVars, clock, changes, asked>>

\* Computer.on_shutdown: every process ends; interfaces keep is_blocked.
PowerOff(s) ==
    /\ Change
    /\ s \in powered
    /\ powered' = powered \ {s}
    /\ process' = [process EXCEPT ![s] = NoProcess]
    /\ table' = [table EXCEPT ![s] = EmptyTable]
    /\ UNCHANGED <<connected, blocked, wire, frames, answered, clock, asked>>

\* Computer.on_startup starts the switching process only.
PowerOn(s) ==
    /\ s \notin powered
    /\ powered' = powered \cup {s}
    /\ UNCHANGED <<connected, stpVars, blocked, frameVars, clock, changes, asked>>

Question == [at |-> SwitchOf[Asker], port |-> Asker, src |-> Asker, dst |-> Asked,
             kind |-> "question"]

\* The user lets one host ask another.
Ask ==
    /\ asked < MaxQuestions
    /\ asked' = asked + 1
    /\ answered' = FALSE
    /\ frames' = frames \cup {Question}
    /\ UNCHANGED <<connected, powered, stpVars, blocked, table, clock, changes>>

Init ==
    /\ connected = Cables
    /\ powered = Switches
    /\ process = [s \in Switches |-> NoProcess]
    /\ blocked = [s \in Switches |-> {}]
    /\ wire = [c \in Cables |-> [s \in Ends[c] |-> <<>>]]
    /\ table = [s \in Switches |-> EmptyTable]
    /\ frames = {}
    /\ answered = FALSE
    /\ clock = 0
    /\ changes = 0
    /\ asked = 0

User ==
    \/ StartAllStp
    \/ \E c \in Loose : Disconnect(c) \/ Connect(c)
    \/ \E s \in Sleepers : PowerOff(s) \/ PowerOn(s)
    \/ Ask

Next == Round \/ User

Spec == Init /\ [][Next]_vars
FairSpec == Spec /\ WF_clock(Tick)

-----------------------------------------------------------------------------
(* Properties. *)

Times == 0 .. MaxTime
PortDatas == [cable : Cables, state : {"no state!", "ROOT", "DESIGNATED", "BLOCKED"},
              distance : 0 .. MaxDistance, silent : Times]

\* The variables have their types; distances are no less than 0, and no process
\* has learned from a packet that has reached max_age.
TypeOK ==
    /\ connected \subseteq Cables
    /\ powered \subseteq Switches
    /\ \A s \in Running :
          /\ process[s].ports \in Seq(PortDatas)
          /\ process[s].root \in {Bid[t] : t \in Switches}
          /\ process[s].rootAge \in -1 .. MaxAge - 1
    /\ blocked \in [Switches -> SUBSET Cables]
    /\ frames \subseteq [at : Switches, port : Cables \cup Hosts, src : Hosts,
                         dst : Hosts, kind : {"question", "answer"}]

\* A cable carries frames when neither of its ends is blocked.
Live == {c \in connected : Ends[c] \subseteq powered}
Carrying == {c \in Live : \A s \in Ends[c] : c \notin blocked[s]}

\* Every division of the switches is bridged by one of the cables.
Joins(cables, switches) ==
    \A part \in SUBSET switches \ {{}, switches} :
        \E c \in cables : Ends[c] \cap part # {} /\ ~(Ends[c] \subseteq part)
IsSpanningTree(cables, switches) ==
    Joins(cables, switches) /\ Cardinality(cables) = Cardinality(switches) - 1

\* STP runs on every switch that is on, and the cables can join them.
Served == powered \subseteq Running /\ Joins(Live, powered)
Best == CHOOSE s \in powered : \A t \in powered : Bid[s] <= Bid[t]

\* What is reached through cable c from its end at s, on cables alone.
Behind(s, c, cables) ==
    {t \in Switches : \A part \in SUBSET Switches :
        /\ Neighbour(s, c) \in part
        /\ \A d \in cables \ {c} : Ends[d] \cap part # {} => Ends[d] \subseteq part
        => t \in part}

\* The table of s leads to the hosts that it names.
IsRight(s) ==
    \A h \in DOMAIN table[s] :
        \/ table[s][h].port = h
        \/ table[s][h].port \in Cables /\ SwitchOf[h] \in Behind(s, table[s][h].port, Carrying)

\* Once cables and power no longer change, the cables that carry frames come to
\* be a spanning tree of the switches that are on, whatever was unplugged,
\* plugged in, switched off and on before: STPProcess.code,
\* _set_interface_states, _block_blocked_ports.
Converges == <>[]Served => <>[]IsSpanningTree(Carrying, powered)

\* The switches that are on agree on the best of them as the root, and forget a
\* root that is gone: _update_root_age, _recalculate_root.
OneRoot == <>[]Served => <>[](\A s \in powered \cap Running : process[s].root = Bid[Best])

SpanningTrees == {cables \in SUBSET Cables : IsSpanningTree(cables, Switches)}

\* A question that is asked when the tree does not change any more, and the
\* tables are not stale, is answered, although frames are forwarded before
\* their senders are learned: SwitchingProcess.code.
QuestionsAnswered ==
    \A tree \in SpanningTrees :
        [](/\ Question \in frames
           /\ [](powered = Switches /\ Carrying = tree)
           /\ \A s \in Switches : IsRight(s)
           => <>answered)

\* Frames that were caught in a loop of switches before the tree was there do
\* not circle in it for ever: block, send_new_packets_to_destinations.
StormsEnd == <>[]Served => <>[](\A f \in frames : f.at \notin powered)

=============================================================================
