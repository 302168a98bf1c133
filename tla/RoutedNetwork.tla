----------------------------- MODULE RoutedNetwork -----------------------------
(***************************************************************************)
(* Computers and routers joined by cables, that ping each other: ARP, the  *)
(* ping process, the answers of the kernel, RoutePacket, the sending queue *)
(* of the kernel, and IP fragments.                                        *)
(*                                                                         *)
(* An interface is known by its address, which stands for its MAC address  *)
(* as well.  The state of a computer is a record; what one run of its      *)
(* logic does is a composition of operators on that record, in the order   *)
(* of the code.  A process that the logic starts runs at once.             *)
(***************************************************************************)
EXTENDS RoutingTable, Selection

CONSTANTS
    Computers,
    Routers,        \* those of them that route
    InterfacesOf,   \* InterfacesOf[c]: its interfaces, [ip |-> , mask |-> ]
    Peer,           \* Peer[i]: the interface at the other end of the cable of i
    Gateway,        \* Gateway[r]: the default gateway that router r is given
    SmallMTU,       \* the interfaces whose MTU is less than the size of a big packet
    Pings,          \* a sequence of [by, dst, count, big, df]: what the user starts
    HurriedPings,   \* those of them that the user starts when it is not calm: a bound
    TimeToLive,     \* TTL.BY_OS
    MaxTimeToLive,  \* TTL.MAX
    ResendCount,    \* PROTOCOLS.ARP.RESEND_COUNT
    MaxFaults,      \* packets dropped, ARP entries grown old, cables unplugged: a bound
    Loose           \* the interfaces whose cables the user unplugs

ASSUME RoutersAssumption == Routers \subseteq Computers

VARIABLES
    host,       \* host[c]: the state of computer c
    wire,       \* wire[i]: the frames on their way to interface i
    unplugged,  \* the interfaces without a cable
    waiting,    \* the pings that the user has not started yet
    outcome,    \* outcome[n]: how the tries of ping n have ended
    reached,    \* the echo requests that have been answered
    crowded,    \* the computers on which two pings have run at the same time
    calm,       \* nothing is lost or unplugged, and timeouts are long: nothing
                \* is on its way any more when one is over
    clock,      \* changes whenever the logic of a computer runs
    faults, crashed

network == <<host, wire, outcome, reached, crashed, clock>>
vars == <<network, unplugged, waiting, crowded, calm, faults>>

Ips(c) == {i.ip : i \in InterfacesOf[c]}
Interfaces == UNION {Ips(c) : c \in Computers}
Everyone == BroadcastAddress    \* the broadcast MAC address

SameSubnetInterfaces(c, ip) ==
    {i \in InterfacesOf[c] : IsSameSubnet([address |-> i.ip, mask |-> i.mask], ip)}

\* set_default_gateway, on the only interface in the subnet of the gateway.
WithGateway(c, table, gateway) ==
    SetDefaultGateway(table, gateway, (CHOOSE i \in SameSubnetInterfaces(c, gateway) : TRUE).ip)

\* RoutingTable.create_default, for the address of a host; for those of a router,
\* which gets its default gateway from the user.
OnlyIp(c) == CHOOSE ip \in Ips(c) : TRUE
CreateDefault(c) ==
    FoldLeft(AddInterface,
             IF c \in Routers THEN WithGateway(c, EmptyTable, Gateway[c])
             ELSE SetDefaultGateway(EmptyTable, ExpectedGateway(OnlyIp(c)), OnlyIp(c)),
             SetToSeq(InterfacesOf[c]))
Table == [c \in Computers |-> CreateDefault(c)]

SendingInterface(c, ip) == Lookup(Table[c], ip).interface

\* A host has one interface.  set_default_gateway takes the first interface in the
\* subnet of the gateway.
ASSUME InterfacesAssumption ==
    /\ LoopbackMask \in Masks
    /\ \A c \in Computers : IsFiniteSet(InterfacesOf[c]) /\ \A i \in InterfacesOf[c] : i.mask \in Masks
    /\ \A c \in Computers \ Routers : Cardinality(InterfacesOf[c]) = 1
    /\ \A c \in Routers : SameSubnetInterfaces(c, Gateway[c]) # {}
    /\ Peer \in [Interfaces -> Interfaces]

ASSUME PingsAssumption ==
    Pings \in Seq([by : Computers, dst : Addresses, count : Nat, big : BOOLEAN, df : BOOLEAN])

ASSUME BoundsAssumption ==
    /\ {TimeToLive, MaxTimeToLive, ResendCount, MaxFaults} \subseteq Nat
    /\ HurriedPings \subseteq DOMAIN Pings

-----------------------------------------------------------------------------
(* Frames: the two of ARP and the four of ICMP.  part is 0 for a whole     *)
(* packet, and 1 or 2 for a fragment; of counts the echo requests.         *)

Arp(kind, src, dst, mac) ==
    [mac |-> mac, kind |-> kind, src |-> src, dst |-> dst, ttl |-> 0, seq |-> 0,
     big |-> FALSE, df |-> FALSE, part |-> 0, id |-> 0]

Icmp(kind, src, dst, mac, seq, big, df, id) ==
    [mac |-> mac, kind |-> kind, src |-> src, dst |-> dst, ttl |-> TimeToLive, seq |-> seq,
     big |-> big, df |-> df, part |-> 0, id |-> id]

IsIp(f) == f.kind \in {"request", "reply", "unreachable", "exceeded"}
NeedsFragmentation(f, i) == IsIp(f) /\ f.big /\ f.part = 0 /\ i \in SmallMTU
FragmentPacket(f) == <<[f EXCEPT !.part = 1], [f EXCEPT !.part = 2]>>
AreFragmentsValid(parts) ==
    Len(parts) = 2 /\ {parts[k].part : k \in DOMAIN parts} = {1, 2}

-----------------------------------------------------------------------------
(* Sending.  h is the record of a computer.                                *)

NewComputer(c) ==
    [me |-> c, cache |-> {}, procs |-> <<>>, queue |-> <<>>, queueInterface |-> OnLink,
     hasQueue |-> FALSE, parts |-> <<>>, seq |-> 0, id |-> 0,
     out |-> <<>>, failed |-> FALSE, ended |-> <<>>, answers |-> {}]

\* send_packet_stream for the init process: a queue that is there keeps its interface.
\* A packet is queued with nothing but its own contents.
SendPacketStream(h, frames, i) ==
    IF h.hasQueue THEN [h EXCEPT !.queue = @ \o frames]
    ELSE [h EXCEPT !.queue = frames, !.queueInterface = i, !.hasQueue = TRUE]

\* Computer.send with an interface.
Send(h, f, i) ==
    IF NeedsFragmentation(f, i)
      THEN IF f.df THEN [h EXCEPT !.failed = TRUE] ELSE SendPacketStream(h, FragmentPacket(f), i)
      ELSE [h EXCEPT !.out = Append(@, [from |-> i, frame |-> f])]

SendByTable(h, f) == Send(h, f, SendingInterface(h.me, f.dst))
SourceFor(h, dst) == SendingInterface(h.me, dst)

\* send_ping_to without a sequence number.
SendPingTo(h, kind, dst, mac, big, df) ==
    SendByTable([h EXCEPT !.seq = @ + 1, !.id = @ + 1],
                Icmp(kind, SourceFor(h, dst), dst, mac, h.seq + 1, big, df, <<h.me, h.id>>))

SendArpTo(h, ip) ==
    Send(h, Arp("who-has", SourceFor(h, ip), ip, Everyone), SendingInterface(h.me, ip))

\* _send_icmp_unreachable looks the sender up in the ARP cache: a KeyError if
\* it is not there.
SendUnreachable(h, f) ==
    IF f.src \in h.cache THEN SendPingTo(h, "unreachable", f.src, f.src, FALSE, FALSE)
    ELSE [h EXCEPT !.failed = TRUE]

\* The ARP entry is for the gateway; send_time_exceeded.
SendTimeExceeded(h, f, mac) ==
    SendByTable(h, [Icmp("exceeded", SourceFor(h, f.src), f.src, mac, 0, FALSE, FALSE, 0)
                    EXCEPT !.ttl = MaxTimeToLive])

-----------------------------------------------------------------------------
(* Processes: SendPing of the user ("ping") and of the kernel ("answer"),  *)
(* and RoutePacket ("route", or "expired" when the packet is too old).     *)

Process(kind, packet, n, left) ==
    [kind |-> kind, packet |-> packet, n |-> n, left |-> left, stage |-> "arp",
     hop |-> 0, tries |-> 0, sent |-> 0]

\* The address that a process resolves.
Destination(p) == IF p.kind = "expired" THEN p.packet.src ELSE p.packet.dst

Waits(h, p) == [h EXCEPT !.procs = Append(@, p)]

\* Mutant of Routed: the time to live stays.
RoutedForEver(p) == [p.packet EXCEPT !.mac = p.hop]
Routed(p) == [p.packet EXCEPT !.mac = p.hop, !.ttl = @ - 1]

\* _send_the_ping of a request that is too long and must not be fragmented raises
\* in the process, after send_ping_to has counted it.
TooLong(h, packet) ==
    NeedsFragmentation(packet, SendingInterface(h.me, packet.dst)) /\ packet.df

\* The end of a try of a ping; a ping of several tries asks again.
Tried(h, p, result) ==
    [h EXCEPT !.ended = Append(@, [n |-> p.n, result |-> result, sent |-> p.sent])]

\* _send_the_ping: a request with a number of its own, or the answer to one.
SendThePing(h, p) ==
    IF p.kind = "ping"
      THEN SendPingTo(h, "request", p.packet.dst, p.hop, p.packet.big, p.packet.df)
      ELSE SendByTable([h EXCEPT !.id = @ + 1],
                       Icmp("reply", SourceFor(h, p.packet.dst), p.packet.dst, p.hop,
                            p.packet.seq, p.packet.big, FALSE, <<h.me, h.id>>))

\* What a process does when it knows the MAC address of the next hop.
Resolved(h, p) ==
    CASE p.kind = "ping" ->
            IF TooLong(h, p.packet) THEN Tried([h EXCEPT !.seq = @ + 1], p, "too long")
              ELSE Waits(SendThePing(h, p), [p EXCEPT !.stage = "reply", !.sent = h.seq + 1])
      [] p.kind = "answer" -> SendThePing(h, p)
      [] p.kind = "expired" -> SendTimeExceeded(h, p.packet, p.hop)
      [] p.kind = "route" ->
            IF TooLong(h, p.packet) THEN SendUnreachable(h, p.packet)
              ELSE SendPacketStream(h, <<Routed(p)>>, OnLink)

\* Mutant of Ask: the tries are not counted.
AskForEver(h, p) == Waits(SendArpTo(h, p.hop), [p EXCEPT !.stage = "arp"])

\* ARPProcess: it asks unless the address is known.
Ask(h, p) == Waits(SendArpTo(h, p.hop), [p EXCEPT !.stage = "arp", !.tries = @ + 1])

Resolve(h, p) ==
    LET q == [p EXCEPT !.hop = Lookup(Table[h.me], Destination(p)).gateway, !.tries = 0]
    IN  IF q.hop \in h.cache THEN Resolved(h, q) ELSE Ask(h, q)

\* No response for ARP: the process ends; a router tells the sender.
Unresolved(h, p) ==
    CASE p.kind = "ping" -> Tried(h, p, "none")
      [] p.kind = "route" -> SendUnreachable(h, p.packet)
      [] OTHER -> h

Again(h, p, result) ==
    LET t == Tried(h, p, result)
    IN  IF p.left = 1 THEN t ELSE Resolve(t, [p EXCEPT !.left = @ - 1, !.sent = 0])

HasThisIp(h, ip) == ip \in Ips(h.me)
NoCarrier(h, ip) == SendingInterface(h.me, ip) \in unplugged

\* RoutePacket.code, from its start.
RoutePacket(h, f) ==
    IF Lookup(Table[h.me], f.dst) = NoRoute \/ NoCarrier(h, f.dst) THEN SendUnreachable(h, f)
    ELSE IF f.ttl > 1 THEN Resolve(h, Process("route", f, 0, 1))
    ELSE Resolve(h, Process("expired", f, 0, 1))

-----------------------------------------------------------------------------
(* Receiving.                                                              *)

\* _handle_arp: an answer only from the interface that is asked for.
HandleArp(h, f, i) ==
    LET learned == [h EXCEPT !.cache = @ \cup {f.src}]
    IN  IF f.kind = "who-has" /\ f.dst = i THEN Send(learned, Arp("is-at", i, f.src, f.src), i)
        ELSE learned

\* _handle_icmp: only from the interface with the address.
HandleIcmp(h, f, i) ==
    IF f.kind = "request" /\ f.dst = i
      THEN Resolve([h EXCEPT !.answers = @ \cup {[by |-> f.dst, to |-> f.src, seq |-> f.seq]}],
                   Process("answer", [f EXCEPT !.dst = f.src], 0, 1))
      ELSE h

\* Mutant of IsPingReply: a reply of any number will do.
IsPingReplyOfAny(h, p, f) ==
    \/ f.kind = "reply" /\ f.src = p.packet.dst /\ HasThisIp(h, f.dst)
    \/ f.kind \in {"unreachable", "exceeded"}

\* ping_reply_from: the number is the latest of the computer.
IsPingReply(h, p, f) ==
    \/ f.kind = "reply" /\ f.seq = h.seq /\ f.src = p.packet.dst /\ HasThisIp(h, f.dst)
    \/ f.kind \in {"unreachable", "exceeded"}

Wakes(h, p, f) ==
    \/ p.stage = "arp" /\ f.kind = "is-at" /\ f.src = p.hop
    \/ p.stage = "reply" /\ IsPingReply(h, p, f)

\* The processes that have waited for f go on, one after the other.
Resume(h, f) ==
    LET GoesOn(g, p) ==
            IF p.stage = "arp" THEN Resolved(g, p)
            ELSE Again(g, p, IF f.kind = "reply" THEN "reply" ELSE "unreachable")
        woken == {p \in ToSet(h.procs) : Wakes(h, p, f)}
    IN  FoldLeft(GoesOn, [h EXCEPT !.procs = Only(@, ToSet(@) \ woken)], Only(h.procs, woken))

Handle(h, f, i) == IF IsIp(f) THEN HandleIcmp(h, f, i) ELSE HandleArp(h, f, i)

(* _handle_ip_fragments: fragments for another computer are packets like   *)
(* others.  A fragment is kept with the MAC address that it comes from.    *)
IsFragmentForMe(h, f) == f.part # 0 /\ HasThisIp(h, f.dst)
PartsOf(h, id) == {g \in ToSet(h.parts) : g.id = id}
OthersThan(h, id) == Only(h.parts, ToSet(h.parts) \ PartsOf(h, id))
Completes(h, f) == AreFragmentsValid(Append(Only(h.parts, PartsOf(h, f.id)), f))

Keep(h, f, i) ==
    IF ~IsFragmentForMe(h, f) THEN h
    ELSE [h EXCEPT !.parts = IF Completes(h, f) THEN OthersThan(h, f.id)
                             ELSE Append(@, [f EXCEPT !.mac = Peer[i]])]

\* What is received: nothing while fragments are missing.
Reassembled(h, f) ==
    IF ~IsFragmentForMe(h, f) THEN <<f>>
    ELSE IF Completes(h, f) THEN <<[f EXCEPT !.part = 0]>> ELSE <<>>

\* An interface takes the frames that are for it, and broadcasts.
IsForMe(i, f) == f.mac \in {i, Everyone}
IsDirectlyForMe(i, f) == f.mac = i

\* Router.route_new_packets, after everything else.
RouteNewPackets(h, f, i) ==
    IF h.me \in Routers /\ IsIp(f) /\ ~HasThisIp(h, f.dst) /\ IsDirectlyForMe(i, f)
      THEN RoutePacket(h, f) ELSE h

\* The next packet of the queue; by the table when the queue has no interface.
SendQueued(h) ==
    LET g == [h EXCEPT !.queue = Tail(@)]
    IN  IF h.queueInterface = OnLink THEN SendByTable(g, Head(h.queue))
        ELSE Send(g, Head(h.queue), h.queueInterface)

-----------------------------------------------------------------------------
(* What a run of the logic of c leaves behind; an exception that nobody    *)
(* catches ends the program.                                               *)

ClearedOf(h) == [h EXCEPT !.out = <<>>, !.ended = <<>>, !.answers = {}]

Tick == clock' = 1 - clock

\* The frames that a side of a connection takes, in the order they were sent.
SentBy(i, h) ==
    LET mine == Only(h.out, {o \in ToSet(h.out) : o.from = i})
    IN  [k \in DOMAIN mine |-> mine[k].frame]

\* w: the wires without the frame that was received.
Becomes(c, run, w) == \E h \in {run} :
    /\ host' = [host EXCEPT ![c] = ClearedOf(h)]
    /\ wire' = [i \in Interfaces |->
                  IF i \in unplugged THEN <<>>
                  ELSE w[i] \o SentBy(Peer[i], h)]
    /\ outcome' = [n \in DOMAIN Pings |->
                     outcome[n] \o Only(h.ended, {e \in ToSet(h.ended) : e.n = n})]
    /\ reached' = reached \cup h.answers
    /\ crashed' = h.failed
    /\ Tick

Delivers(c, f, i) ==
    IF Reassembled(host[c], f) = <<>> THEN {Keep(host[c], f, i)}
    ELSE {Resume(h, Head(Reassembled(host[c], f))) :
             h \in {Handle(Keep(host[c], f, i), Head(Reassembled(host[c], f)), i)}}

Receives(c, i) ==
    /\ wire[i] # <<>>
    /\ LET f == Head(wire[i])
       IN  IF IsForMe(i, f)
             THEN \E h \in Delivers(c, f, i) :
                    Becomes(c, RouteNewPackets(h, f, i), [wire EXCEPT ![i] = Tail(@)])
             ELSE Becomes(c, host[c], [wire EXCEPT ![i] = Tail(@)])
    /\ UNCHANGED <<unplugged, waiting, crowded, calm, faults>>

SendsQueued(c) ==
    /\ host[c].queue # <<>>
    /\ Becomes(c, SendQueued(host[c]), wire)
    /\ UNCHANGED <<unplugged, waiting, crowded, calm, faults>>

-----------------------------------------------------------------------------
(* Time.  A calm network has answered what it can before a timeout: a      *)
(* ping waits longer than all the tries of ARP, and than fragments do.     *)

Quiet ==
    /\ \A i \in Interfaces : wire[i] = <<>>
    /\ \A c \in Computers : host[c].queue = <<>>
NobodyResolves ==
    \A c \in Computers :
        /\ \A k \in DOMAIN host[c].procs : host[c].procs[k].stage = "reply"
        /\ host[c].parts = <<>>

ArpTimesOut(c, k) ==
    LET p == host[c].procs[k]
        h == [host[c] EXCEPT !.procs = RemoveAt(@, k)]
    IN  /\ p.stage = "arp"
        /\ calm => Quiet
        /\ Becomes(c, IF p.tries < ResendCount THEN Ask(h, p) ELSE Unresolved(h, p), wire)
        /\ UNCHANGED <<unplugged, waiting, crowded, calm, faults>>

PingTimesOut(c, k) ==
    LET p == host[c].procs[k]
    IN  /\ p.stage = "reply"
        /\ calm => Quiet /\ NobodyResolves
        /\ Becomes(c, Again([host[c] EXCEPT !.procs = RemoveAt(@, k)], p, "none"), wire)
        /\ UNCHANGED <<unplugged, waiting, crowded, calm, faults>>

\* _forget_old_ip_fragments: the fragments of one packet are gone, and the
\* sender of the last fragment of any packet is told.
ForgetsFragments(c, k) ==
    LET h == host[c]
        f == Last(h.parts)
        g == [h EXCEPT !.parts = OthersThan(h, h.parts[k].id)]
    IN  /\ calm => Quiet
        /\ Becomes(c, SendPacketStream(g, <<Icmp("exceeded", SourceFor(h, f.src), f.src, f.mac,
                                                 0, FALSE, FALSE, 0)>>, OnLink), wire)
        /\ UNCHANGED <<unplugged, waiting, crowded, calm, faults>>

Fault == ~calm /\ faults < MaxFaults /\ faults' = faults + 1

\* forget_old_items of the ARP cache.
ForgetsAddress(c, ip) ==
    /\ Fault
    /\ host' = [host EXCEPT ![c].cache = @ \ {ip}]
    /\ UNCHANGED <<wire, outcome, reached, crashed, clock, unplugged, waiting, crowded, calm>>

-----------------------------------------------------------------------------
(* The user, and the connections.                                          *)

PingsRunning(c) == {k \in DOMAIN host[c].procs : host[c].procs[k].kind = "ping"}

StartPing(n) ==
    LET ping == Pings[n]
        c    == ping.by
        f    == Icmp("request", SourceFor(host[c], ping.dst), ping.dst, 0, 0, ping.big, ping.df, 0)
    IN  /\ n \in waiting
        /\ waiting' = waiting \ {n}
        /\ crowded' = crowded \cup {d \in {c} : PingsRunning(c) # {}}
        /\ Becomes(c, Resolve(host[c], Process("ping", f, n, ping.count)), wire)
        /\ UNCHANGED <<unplugged, calm, faults>>

Loses(i) ==
    /\ Fault
    /\ wire[i] # <<>>
    /\ wire' = [wire EXCEPT ![i] = Tail(@)]
    /\ UNCHANGED <<host, outcome, reached, crashed, clock, unplugged, waiting, crowded, calm>>

Unplug(i) ==
    /\ Fault
    /\ i \notin unplugged
    /\ unplugged' = unplugged \cup {i, Peer[i]}
    /\ wire' = [wire EXCEPT ![i] = <<>>, ![Peer[i]] = <<>>]
    /\ UNCHANGED <<host, outcome, reached, crashed, clock, waiting, crowded, calm>>

-----------------------------------------------------------------------------
Init ==
    /\ calm \in BOOLEAN
    /\ host = [c \in Computers |-> NewComputer(c)]
    /\ wire = [i \in Interfaces |-> <<>>]
    /\ unplugged = {}
    /\ waiting = IF calm THEN DOMAIN Pings ELSE HurriedPings
    /\ outcome = [n \in DOMAIN Pings |-> <<>>]
    /\ reached = {}
    /\ crowded = {}
    /\ faults = 0
    /\ clock = 0
    /\ crashed = FALSE

Logic(c) ==
    \/ \E i \in Ips(c) : Receives(c, i)
    \/ SendsQueued(c)
    \/ \E k \in DOMAIN host[c].procs : ArpTimesOut(c, k) \/ PingTimesOut(c, k)
    \/ \E k \in DOMAIN host[c].parts : ForgetsFragments(c, k)

Environment ==
    \/ \E c \in Computers : \E ip \in host[c].cache : ForgetsAddress(c, ip)
    \/ \E n \in DOMAIN Pings : StartPing(n)
    \/ \E i \in Interfaces : Loses(i)
    \/ \E i \in Loose : Unplug(i)

Next == ~crashed /\ ((\E c \in Computers : Logic(c)) \/ Environment)

Spec == Init /\ [][Next]_vars

\* The main loop runs the logic of the computers as long as there is something
\* to do for one of them.
SomethingToDo ==
    ~Quiet \/ \E c \in Computers : host[c].procs # <<>> \/ host[c].parts # <<>>
FairSpec == Spec /\ WF_clock(~crashed /\ SomethingToDo /\ Tick)

-----------------------------------------------------------------------------
(* Properties. *)

Frames == [mac : Interfaces \cup {Everyone}, ttl : 0 .. MaxTimeToLive, seq : Nat,
           kind : {"who-has", "is-at", "request", "reply", "unreachable", "exceeded"},
           src : Interfaces, dst : Addresses, big : BOOLEAN, df : BOOLEAN, part : 0 .. 2]
WithoutId(f) == [x \in DOMAIN f \ {"id"} |-> f[x]]

\* The variables have their types, whatever is on its way.
TypeOK ==
    /\ \A i \in Interfaces : \A k \in DOMAIN wire[i] : WithoutId(wire[i][k]) \in Frames
    /\ \A c \in Computers : host[c].cache \subseteq Interfaces /\ host[c].seq \in Nat
    /\ \A n \in DOMAIN Pings : Len(outcome[n]) <= Pings[n].count

\* No ping goes to an interface of a router, which answers from the interface of
\* its route back, or to the computer itself.
PingsGoToHosts ==
    \A n \in DOMAIN Pings :
        /\ Pings[n].dst \notin {Loopback, OnLink}
        /\ \A r \in Routers : Pings[n].dst \notin Ips(r)

\* A ping that reports a reply has been answered: the destination has had this
\* request or a later one of the same computer, although an answer may come
\* after the ping has given up and asked again: ping_reply_from.
RepliesAreReal ==
    \A n \in DOMAIN Pings : \A k \in DOMAIN outcome[n] :
        outcome[n][k].result = "reply" =>
            \E r \in reached : /\ r.by = Pings[n].dst
                               /\ r.to \in Ips(Pings[n].by)
                               /\ r.seq >= outcome[n][k].sent

\* What becomes of a ping when every packet arrives: an interface that fits on
\* the way answers, and a router tells that there is no way.
Hosts == {c \in Computers : c \notin Routers}
Expected(n) ==
    IF /\ \E c \in Hosts : Pings[n].dst \in Ips(c)
       /\ ~(Pings[n].big /\ Pings[n].df)
      THEN "reply" ELSE "unreachable"

\* When nothing is lost, every ping ends as the network demands: the reply of
\* the destination through all routers, in fragments where the MTU asks for it,
\* or a router's word that the destination is unreachable.  Unless two pings of
\* one computer overlap: each takes any reply with the latest number, and any
\* bad news.
PingsSucceed ==
    \A n \in DOMAIN Pings : \A k \in DOMAIN outcome[n] :
        calm /\ ~crashed /\ Pings[n].by \notin crowded => outcome[n][k].result = Expected(n)

\* Every ping that is started ends, whatever is lost: the tries of ARP and the
\* waits for replies are bounded.
PingsEnd ==
    \A n \in DOMAIN Pings :
        n \notin waiting ~>
            crashed \/ \A c \in Computers : \A k \in DOMAIN host[c].procs :
                          host[c].procs[k].kind = "ping" => host[c].procs[k].n # n

\* Packets do not circle for ever between routers that are the gateway of each
\* other: RoutePacket._validate_ttl.
NothingCircles == <>[](crashed \/ Quiet)
=============================================================================
