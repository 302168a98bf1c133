------------------------- MODULE RoutedNetworkProofs -------------------------
(***************************************************************************)
(* Proofs about the network that routes, for any computers, cables, tables *)
(* and pings, whatever is lost, forgotten or unplugged.                    *)
(***************************************************************************)
EXTENDS RoutedNetwork, SequenceLemmas, FiniteSetTheorems, TLAPS

-----------------------------------------------------------------------------
(* The inductive invariant. *)

(* What an address can be: all that the tables, the cables and the pings   *)
(* of the user put into a packet.                                          *)
Sources(c) == Ips(c) \cup {Loopback, OnLink}
AllSources == Interfaces \cup {Loopback, OnLink}
Gateways == UNION {{Table[c][s].gateway : s \in DOMAIN Table[c]} : c \in Computers}
Anywhere == AllSources \cup Gateways \cup {0, Everyone} \cup {Pings[n].dst : n \in DOMAIN Pings}

Kinds == {"who-has", "is-at", "request", "reply", "unreachable", "exceeded"}
AnyFrame ==
  [mac : Anywhere, kind : Kinds, src : AllSources, dst : Anywhere, ttl : Int, seq : Nat,
   big : BOOLEAN, df : BOOLEAN, part : 0..2, id : {0} \cup (Computers \X Nat)]

(* Somebody who has this address answered that request.                    *)
AnsweredFrom(r, src) ==
  src \in {Loopback, OnLink} \/ \E c \in Computers : r.by \in Ips(c) /\ src \in Ips(c)

(* R: the requests that have been answered.                                *)
Real(f, R) ==
  f.kind = "reply" => \E r \in R : r.to = f.dst /\ r.seq = f.seq /\ AnsweredFrom(r, f.src)
Frame(R) == {f \in AnyFrame : Real(f, R)}

(* Processes of computer c.                                                *)
AnyProcess(R) ==
  [kind : {"ping", "answer", "route", "expired"}, packet : Frame(R), n : {0} \cup DOMAIN Pings,
   left : Int, stage : {"arp", "reply"}, hop : Anywhere, tries : Nat, sent : Nat]
HasWork(p, c, R) ==
  /\ p.stage = "reply" => p.kind = "ping"
  /\ p.kind = "ping" => /\ p.n \in DOMAIN Pings /\ Pings[p.n].by = c
                        /\ p.packet.dst = Pings[p.n].dst
  /\ p.kind = "answer" =>
       \E r \in R : r.by \in Ips(c) /\ r.to = p.packet.dst /\ r.seq = p.packet.seq
Proc(c, R) == {p \in AnyProcess(R) : HasWork(p, c, R)}

(* How a try of a ping ended.                                              *)
WasAnswered(n, sent, R) ==
  \E r \in R : r.by = Pings[n].dst /\ r.to \in Ips(Pings[n].by) /\ r.seq >= sent
Ended(R) ==
  {e \in [n : DOMAIN Pings, result : {"reply", "none", "unreachable", "too long"}, sent : Nat] :
     e.result = "reply" => WasAnswered(e.n, e.sent, R)}

Outgoing(R) == [from : AllSources, frame : Frame(R)]

(* A computer in the midst of a run of its logic, in which it has answered *)
(* the requests a.                                                         *)
AnyHost(c, R, a) ==
  [me : {c}, cache : SUBSET Anywhere, procs : Seq(Proc(c, R)), queue : Seq(Frame(R)),
   queueInterface : AllSources, hasQueue : BOOLEAN, parts : Seq(Frame(R)), seq : Nat, id : Nat,
   out : Seq(Outgoing(R)), failed : BOOLEAN, ended : Seq(Ended(R)), answers : {a}]
NumbersUsed(h) == \A k \in DOMAIN h.procs : h.procs[k].sent <= h.seq
Computing(c, R, a) == {h \in AnyHost(c, R, a) : NumbersUsed(h)}

NetworkInv ==
  /\ wire \in [Interfaces -> Seq(Frame(reached))]
  /\ host = [c \in Computers |-> host[c]]
  /\ \A c \in Computers : host[c] \in Computing(c, reached, {})
  /\ \A c \in Computers : host[c].out = <<>> /\ host[c].ended = <<>>
  /\ outcome \in [DOMAIN Pings -> Seq(Ended(reached))]
  /\ \A n \in DOMAIN Pings : \A k \in DOMAIN outcome[n] : outcome[n][k].n = n

-----------------------------------------------------------------------------
(* What may be written into the record of a computer. *)

(* The fields of a computer.                                               *)
LEMMA FieldsOf ==
  ASSUME NEW c, NEW R, NEW a, NEW h \in Computing(c, R, a)
  PROVE  /\ h \in AnyHost(c, R, a) /\ NumbersUsed(h)
         /\ h.me = c /\ h.cache \subseteq Anywhere /\ h.procs \in Seq(Proc(c, R))
         /\ h.queue \in Seq(Frame(R)) /\ h.queueInterface \in AllSources /\ h.hasQueue \in BOOLEAN
         /\ h.parts \in Seq(Frame(R)) /\ h.seq \in Nat /\ h.id \in Nat
         /\ h.out \in Seq(Outgoing(R)) /\ h.ended \in Seq(Ended(R)) /\ h.answers = a
<1>1. h \in AnyHost(c, R, a) /\ NumbersUsed(h)
  BY DEF Computing
<1>2. QED BY <1>1 DEF AnyHost

(* Counting numbers of pings and of fragmented packets up.                 *)
LEMMA CountsOne ==
  ASSUME NEW c, NEW R, NEW a, NEW h \in Computing(c, R, a)
  PROVE  /\ [h EXCEPT !.seq = @ + 1] \in Computing(c, R, a)
         /\ [h EXCEPT !.id = @ + 1] \in Computing(c, R, a)
         /\ [h EXCEPT !.seq = @ + 1, !.id = @ + 1] \in Computing(c, R, a)
<1>1. h \in AnyHost(c, R, a) /\ NumbersUsed(h) /\ h.seq \in Nat /\ h.id \in Nat /\ h.procs \in Seq(Proc(c, R))
  BY FieldsOf
<1>2. \A k \in DOMAIN h.procs : h.procs[k].sent \in Nat
  BY <1>1 DEF Proc, AnyProcess
<1>3. h.seq + 1 \in Nat /\ h.id + 1 \in Nat
  BY <1>1
<1>4. /\ [h EXCEPT !.seq = @ + 1] \in AnyHost(c, R, a)
      /\ [h EXCEPT !.id = @ + 1] \in AnyHost(c, R, a)
      /\ [h EXCEPT !.seq = @ + 1, !.id = @ + 1] \in AnyHost(c, R, a)
  BY <1>1, <1>3 DEF AnyHost
<1>5. /\ NumbersUsed([h EXCEPT !.seq = @ + 1])
      /\ NumbersUsed([h EXCEPT !.id = @ + 1])
      /\ NumbersUsed([h EXCEPT !.seq = @ + 1, !.id = @ + 1])
  BY <1>1, <1>2 DEF AnyHost, NumbersUsed
<1>6. QED BY <1>4, <1>5 DEF Computing

(* A computer may queue any frames there can be,                           *)
LEMMA QueueMay ==
  ASSUME NEW c, NEW R, NEW a, NEW h \in Computing(c, R, a), NEW q \in Seq(Frame(R)), NEW i \in AllSources
  PROVE  /\ [h EXCEPT !.queue = q] \in Computing(c, R, a)
         /\ [h EXCEPT !.queue = q, !.queueInterface = i, !.hasQueue = TRUE] \in Computing(c, R, a)
<1>1. h \in AnyHost(c, R, a) /\ NumbersUsed(h)
  BY FieldsOf
<1>2. /\ [h EXCEPT !.queue = q] \in AnyHost(c, R, a)
      /\ [h EXCEPT !.queue = q, !.queueInterface = i, !.hasQueue = TRUE] \in AnyHost(c, R, a)
  BY <1>1 DEF AnyHost
<1>3. /\ NumbersUsed([h EXCEPT !.queue = q])
      /\ NumbersUsed([h EXCEPT !.queue = q, !.queueInterface = i, !.hasQueue = TRUE])
  BY <1>1 DEF AnyHost, NumbersUsed
<1>4. QED BY <1>2, <1>3 DEF Computing

(* keep them as fragments,                                                 *)
LEMMA PartsMay ==
  ASSUME NEW c, NEW R, NEW a, NEW h \in Computing(c, R, a), NEW q \in Seq(Frame(R))
  PROVE  [h EXCEPT !.parts = q] \in Computing(c, R, a)
<1>1. h \in AnyHost(c, R, a) /\ NumbersUsed(h)
  BY FieldsOf
<1>2. [h EXCEPT !.parts = q] \in AnyHost(c, R, a)
  BY <1>1 DEF AnyHost
<1>3. NumbersUsed([h EXCEPT !.parts = q])
  BY <1>1 DEF AnyHost, NumbersUsed
<1>4. QED BY <1>2, <1>3 DEF Computing

(* give them to its interfaces,                                            *)
LEMMA OutMay ==
  ASSUME NEW c, NEW R, NEW a, NEW h \in Computing(c, R, a), NEW q \in Seq(Outgoing(R))
  PROVE  [h EXCEPT !.out = q] \in Computing(c, R, a)
<1>1. h \in AnyHost(c, R, a) /\ NumbersUsed(h)
  BY FieldsOf
<1>2. [h EXCEPT !.out = q] \in AnyHost(c, R, a)
  BY <1>1 DEF AnyHost
<1>3. NumbersUsed([h EXCEPT !.out = q])
  BY <1>1 DEF AnyHost, NumbersUsed
<1>4. QED BY <1>2, <1>3 DEF Computing

(* report real results,                                                    *)
LEMMA EndedMay ==
  ASSUME NEW c, NEW R, NEW a, NEW h \in Computing(c, R, a), NEW q \in Seq(Ended(R))
  PROVE  [h EXCEPT !.ended = q] \in Computing(c, R, a)
<1>1. h \in AnyHost(c, R, a) /\ NumbersUsed(h)
  BY FieldsOf
<1>2. [h EXCEPT !.ended = q] \in AnyHost(c, R, a)
  BY <1>1 DEF AnyHost
<1>3. NumbersUsed([h EXCEPT !.ended = q])
  BY <1>1 DEF AnyHost, NumbersUsed
<1>4. QED BY <1>2, <1>3 DEF Computing

(* remember any addresses,                                                 *)
LEMMA CacheMay ==
  ASSUME NEW c, NEW R, NEW a, NEW h \in Computing(c, R, a), NEW q \in SUBSET Anywhere
  PROVE  [h EXCEPT !.cache = q] \in Computing(c, R, a)
<1>1. h \in AnyHost(c, R, a) /\ NumbersUsed(h)
  BY FieldsOf
<1>2. [h EXCEPT !.cache = q] \in AnyHost(c, R, a)
  BY <1>1 DEF AnyHost
<1>3. NumbersUsed([h EXCEPT !.cache = q])
  BY <1>1 DEF AnyHost, NumbersUsed
<1>4. QED BY <1>2, <1>3 DEF Computing

(* end with an exception,                                                  *)
LEMMA FailsMay ==
  ASSUME NEW c, NEW R, NEW a, NEW h \in Computing(c, R, a)
  PROVE  [h EXCEPT !.failed = TRUE] \in Computing(c, R, a)
<1>1. h \in AnyHost(c, R, a) /\ NumbersUsed(h)
  BY FieldsOf
<1>2. [h EXCEPT !.failed = TRUE] \in AnyHost(c, R, a)
  BY <1>1 DEF AnyHost
<1>3. NumbersUsed([h EXCEPT !.failed = TRUE])
  BY <1>1 DEF AnyHost, NumbersUsed
<1>4. QED BY <1>2, <1>3 DEF Computing

(* and run any processes there can be, whose numbers it has used.          *)
LEMMA ProcessesMay ==
  ASSUME NEW c, NEW R, NEW a, NEW h \in Computing(c, R, a), NEW procs \in Seq(Proc(c, R)),
         \A k \in DOMAIN procs : procs[k].sent <= h.seq
  PROVE  [h EXCEPT !.procs = procs] \in Computing(c, R, a)
<1>1. h \in AnyHost(c, R, a) /\ NumbersUsed(h)
  BY FieldsOf
<1>2. [h EXCEPT !.procs = procs] \in AnyHost(c, R, a)
  BY <1>1 DEF AnyHost
<1>3. NumbersUsed([h EXCEPT !.procs = procs])
  BY <1>1 DEF AnyHost, NumbersUsed
<1>4. QED BY <1>2, <1>3 DEF Computing

(* A process joins those of the computer, or some of them go.              *)
LEMMA WaitsMay ==
  ASSUME NEW c, NEW R, NEW a, NEW h \in Computing(c, R, a), NEW p \in Proc(c, R), p.sent <= h.seq
  PROVE  Waits(h, p) \in Computing(c, R, a)
<1>1. h.procs \in Seq(Proc(c, R)) /\ NumbersUsed(h)
  BY FieldsOf
<1>2. /\ Append(h.procs, p) \in Seq(Proc(c, R))
      /\ \A k \in DOMAIN Append(h.procs, p) :
           \/ k \in DOMAIN h.procs /\ Append(h.procs, p)[k] = h.procs[k]
           \/ Append(h.procs, p)[k] = p
  BY <1>1
<1>3. \A k \in DOMAIN Append(h.procs, p) : Append(h.procs, p)[k].sent <= h.seq
  BY <1>1, <1>2 DEF NumbersUsed
<1>4. [h EXCEPT !.procs = Append(h.procs, p)] \in Computing(c, R, a)
  BY <1>2, <1>3, ProcessesMay
<1>5. QED BY <1>4 DEF Waits

(* Ending processes keeps that.                                            *)
LEMMA LessProcesses ==
  ASSUME NEW c, NEW R, NEW a, NEW h \in Computing(c, R, a)
  PROVE  /\ \A S : [h EXCEPT !.procs = Only(h.procs, S)] \in Computing(c, R, a)
         /\ \A k \in DOMAIN h.procs :
              [h EXCEPT !.procs = RemoveAt(h.procs, k)] \in Computing(c, R, a)
<1>1. h.procs \in Seq(Proc(c, R)) /\ NumbersUsed(h)
  BY FieldsOf
<1>2. ASSUME NEW q \in Seq(Proc(c, R)), ToSet(q) \subseteq ToSet(h.procs)
      PROVE  [h EXCEPT !.procs = q] \in Computing(c, R, a)
  <2>1. \A k \in DOMAIN q : \E j \in DOMAIN h.procs : q[k] = h.procs[j]
    <3>1. \A k \in DOMAIN q : q[k] \in ToSet(h.procs)
      BY <1>2 DEF ToSet
    <3>2. QED BY <3>1 DEF ToSet
  <2>2. \A k \in DOMAIN q : q[k].sent <= h.seq
    BY <1>1, <2>1 DEF NumbersUsed
  <2>3. QED BY <2>2, ProcessesMay
<1>3. ASSUME NEW S PROVE [h EXCEPT !.procs = Only(h.procs, S)] \in Computing(c, R, a)
  <2>1. Only(h.procs, S) \in Seq(Proc(c, R)) /\ ToSet(Only(h.procs, S)) \subseteq ToSet(h.procs)
    BY <1>1, OnlyElements
  <2>2. QED BY <2>1, <1>2
<1>4. ASSUME NEW k \in DOMAIN h.procs
      PROVE  [h EXCEPT !.procs = RemoveAt(h.procs, k)] \in Computing(c, R, a)
  <2> DEFINE q == RemoveAt(h.procs, k)
  <2>1. k \in 1..Len(h.procs) /\ Len(h.procs) \in Nat /\ DOMAIN h.procs = 1..Len(h.procs)
    BY <1>1
  <2>2. /\ q \in Seq(Proc(c, R)) /\ Len(q) = Len(h.procs) - 1
        /\ \A i \in 1..(Len(h.procs) - 1) : q[i] = IF i < k THEN h.procs[i] ELSE h.procs[i + 1]
    BY <1>1, <2>1, RemovePlaces
  <2> HIDE DEF q
  <2>3. \A i \in DOMAIN q : \E j \in DOMAIN h.procs : q[i] = h.procs[j]
    <3>1. DOMAIN q = 1..(Len(h.procs) - 1)
      BY <2>2
    <3>2. ASSUME NEW i \in 1..(Len(h.procs) - 1) PROVE \E j \in 1..Len(h.procs) : q[i] = h.procs[j]
      <4>1. i \in 1..Len(h.procs) /\ i + 1 \in 1..Len(h.procs)
        BY <2>1
      <4>2. q[i] = h.procs[i] \/ q[i] = h.procs[i + 1]
        BY <2>2
      <4>3. QED BY <4>1, <4>2
    <3>3. QED BY <3>1, <3>2, <2>1
  <2>4. ToSet(q) \subseteq ToSet(h.procs)
    BY <2>3 DEF ToSet
  <2>5. [h EXCEPT !.procs = q] \in Computing(c, R, a)
    BY <2>2, <2>4, <1>2
  <2>6. QED BY <2>5 DEF q
<1>5. QED BY <1>3, <1>4
-----------------------------------------------------------------------------
(* Routing tables. *)

(* A table of computer c: its routes go through its own interfaces.        *)
TableAddresses(c) ==
  {Subnet(Loopback, LoopbackMask).address, Everything.address, BroadcastAddress}
    \cup Ips(c) \cup {Subnet(i.ip, i.mask).address : i \in InterfacesOf[c]}
TableGateways(c) == {OnLink, Loopback, Gateway[c], ExpectedGateway(OnlyIp(c))}
TableSubnets(c) == [address : TableAddresses(c), mask : Masks]
TableRoutes(c) == [gateway : TableGateways(c), interface : Ips(c) \cup {Loopback}]
Tables(c) == UNION {[D -> TableRoutes(c)] : D \in SUBSET TableSubnets(c)}

(* A route through an interface to an address there is keeps the table.    *)
LEMMA RouteAddStays ==
  ASSUME NEW c, NEW t \in Tables(c), NEW s \in TableSubnets(c), NEW r \in TableRoutes(c)
  PROVE  RouteAdd(t, s, r) \in Tables(c)
<1>1. PICK D \in SUBSET TableSubnets(c) : t \in [D -> TableRoutes(c)]
  BY Zenon DEF Tables
<1>2. D \cup {s} \in SUBSET TableSubnets(c)
  OBVIOUS
<1>3. RouteAdd(t, s, r) \in [D \cup {s} -> TableRoutes(c)]
  BY <1>1 DEF RouteAdd
<1>4. QED BY Zenon, <1>2, <1>3 DEF Tables

(* The masks that the program makes itself.                                *)
LEMMA EveryMask == 0 \in Masks /\ AddressBits \in Masks /\ LoopbackMask \in Masks
  BY BitsAssumption, InterfacesAssumption DEF Masks

(* A computer starts with a table,                                         *)
LEMMA EmptyTableIsTable ==
  ASSUME NEW c PROVE EmptyTable \in Tables(c)
<1> DEFINE s == Subnet(Loopback, LoopbackMask)
<1>1. s \in TableSubnets(c)
  BY EveryMask DEF Subnet, TableSubnets, TableAddresses
<1>2. Route(OnLink, Loopback) \in TableRoutes(c)
  BY DEF Route, TableRoutes, TableGateways
<1> HIDE DEF s
<1>3. {s} \in SUBSET TableSubnets(c)
  BY <1>1
<1>4. EmptyTable \in [{s} -> TableRoutes(c)]
  BY <1>2 DEF EmptyTable, s
<1>5. QED BY Zenon, <1>3, <1>4 DEF Tables

(* and has one after setting the gateway                                   *)
LEMMA SetDefaultGatewayStays ==
  ASSUME NEW c, NEW t \in Tables(c), NEW g \in TableGateways(c), NEW i \in Ips(c)
  PROVE  SetDefaultGateway(t, g, i) \in Tables(c)
<1>1. Everything \in TableSubnets(c)
  BY EveryMask DEF Everything, TableSubnets, TableAddresses
<1>2. Host(BroadcastAddress) \in TableSubnets(c)
  BY EveryMask DEF Host, TableSubnets, TableAddresses
<1>3. Route(g, i) \in TableRoutes(c)
  BY DEF Route, TableRoutes
<1>4. RouteAdd(t, Everything, Route(g, i)) \in Tables(c)
  BY <1>1, <1>3, RouteAddStays
<1>5. RouteAdd(RouteAdd(t, Everything, Route(g, i)), Host(BroadcastAddress), Route(g, i)) \in Tables(c)
  BY <1>2, <1>3, <1>4, RouteAddStays
<1>6. QED BY Zenon, <1>5 DEF SetDefaultGateway

(* or adding an interface.                                                 *)
LEMMA AddInterfaceStays ==
  ASSUME NEW c \in Computers, NEW t \in Tables(c), NEW i \in InterfacesOf[c]
  PROVE  AddInterface(t, i) \in Tables(c)
<1>1. i.mask \in Masks /\ i.ip \in Ips(c)
  BY InterfacesAssumption DEF Ips
<1>2. Host(i.ip) \in TableSubnets(c)
  BY <1>1, EveryMask DEF Host, TableSubnets, TableAddresses
<1>3. Subnet(i.ip, i.mask) \in TableSubnets(c)
  <2>1. Subnet(i.ip, i.mask).mask = i.mask
    BY DEF Subnet
  <2>2. Subnet(i.ip, i.mask).address \in TableAddresses(c)
    BY DEF TableAddresses
  <2>3. Subnet(i.ip, i.mask) = [address |-> Subnet(i.ip, i.mask).address, mask |-> i.mask]
    BY DEF Subnet
  <2>4. QED BY <1>1, <2>2, <2>3 DEF TableSubnets
<1>4. Route(Loopback, Loopback) \in TableRoutes(c) /\ Route(OnLink, i.ip) \in TableRoutes(c)
  BY <1>1 DEF Route, TableRoutes, TableGateways
<1>5. RouteAdd(t, Host(i.ip), Route(Loopback, Loopback)) \in Tables(c)
  BY <1>2, <1>4, RouteAddStays
<1>6. RouteAdd(RouteAdd(t, Host(i.ip), Route(Loopback, Loopback)),
               Subnet(i.ip, i.mask), Route(OnLink, i.ip)) \in Tables(c)
  BY <1>3, <1>4, <1>5, RouteAddStays
<1>7. QED BY Zenon, <1>6 DEF AddInterface

(* The default gateway of a table is there, as the default table.          *)
LEMMA FirstTable ==
  ASSUME NEW c \in Computers
  PROVE  (IF c \in Routers THEN WithGateway(c, EmptyTable, Gateway[c])
          ELSE SetDefaultGateway(EmptyTable, ExpectedGateway(OnlyIp(c)), OnlyIp(c))) \in Tables(c)
<1>1. CASE c \in Routers
  <2> DEFINE i == CHOOSE i \in SameSubnetInterfaces(c, Gateway[c]) : TRUE
  <2>1. i \in SameSubnetInterfaces(c, Gateway[c])
    BY <1>1, InterfacesAssumption
  <2>2. i.ip \in Ips(c)
    BY <2>1 DEF SameSubnetInterfaces, Ips
  <2>3. Gateway[c] \in TableGateways(c)
    BY DEF TableGateways
  <2>4. SetDefaultGateway(EmptyTable, Gateway[c], i.ip) \in Tables(c)
    BY <2>2, <2>3, EmptyTableIsTable, SetDefaultGatewayStays
  <2>5. QED BY Zenon, <1>1, <2>4 DEF WithGateway
<1>2. CASE c \notin Routers
  <2>1. InterfacesOf[c] # {}
    BY <1>2, InterfacesAssumption, FS_EmptySet
  <2>2. OnlyIp(c) \in Ips(c)
    BY <2>1 DEF OnlyIp, Ips
  <2>3. ExpectedGateway(OnlyIp(c)) \in TableGateways(c)
    BY DEF TableGateways
  <2>4. SetDefaultGateway(EmptyTable, ExpectedGateway(OnlyIp(c)), OnlyIp(c)) \in Tables(c)
    BY <2>2, <2>3, EmptyTableIsTable, SetDefaultGatewayStays
  <2>5. QED BY Zenon, <1>2, <2>4
<1>3. QED BY <1>1, <1>2
(* The table of a computer after its interfaces were added.                *)
LEMMA DefaultTable ==
  ASSUME NEW c \in Computers
  PROVE  Table[c] \in Tables(c)
<1> DEFINE A == Tables(c)
           B == InterfacesOf[c]
           q == SetToSeq(InterfacesOf[c])
           base == IF c \in Routers THEN WithGateway(c, EmptyTable, Gateway[c])
                   ELSE SetDefaultGateway(EmptyTable, ExpectedGateway(OnlyIp(c)), OnlyIp(c))
           f == [x \in A \X B |-> AddInterface(x[1], x[2])]
           Steps(it) == [s \in SUBSET (DOMAIN q) |->
                           IF s = {} THEN base ELSE AddInterface(it[s \ {Max(s)}], q[Max(s)])]
           Iter == CHOOSE it : it = Steps(it)
<1>1. q \in Seq(B)
  BY InterfacesAssumption, SetAsSequence
<1>2. base \in A
  BY FirstTable
<1>3. f \in [A \X B -> A] /\ \A t \in A, i \in B : f[<<t, i>>] = AddInterface(t, i)
  BY AddInterfaceStays
<1>4. Table[c] = Iter[DOMAIN q]
  BY DEF Table, CreateDefault, FoldLeft, MapThenFoldSet
<1> HIDE DEF f, base, q, A, B
<1>5. PICK it \in [SUBSET (DOMAIN q) -> A] : IsFold(it, f, base, q)
  BY <1>1, <1>2, <1>3, FoldExists
<1>6. \A s \in SUBSET (DOMAIN q) : s # {} =>
        q[Max(s)] \in B /\ s \ {Max(s)} \in SUBSET (DOMAIN q)
  BY <1>1, InitialIntervals
<1>7. \A s \in SUBSET (DOMAIN q) :
        it[s] = IF s = {} THEN base ELSE AddInterface(it[s \ {Max(s)}], q[Max(s)])
  BY <1>3, <1>5, <1>6 DEF IsFold
<1>8. it = Steps(it)
  BY <1>7
<1>9. Iter = Steps(Iter)
  BY <1>8
<1> HIDE DEF Iter
<1>10. Iter[{}] = base
  BY <1>9
<1>11. \A s \in SUBSET (DOMAIN q) : (s # {} /\ Iter[s \ {Max(s)}] \in A) =>
          Iter[s] = f[<<Iter[s \ {Max(s)}], q[Max(s)]>>]
  BY ZenonT(60), <1>3, <1>6, <1>9
<1>12. PICK g \in [0..Len(q) -> A] : FoldedBy(g, f, base, q, Iter[DOMAIN q])
  BY <1>1, <1>2, <1>3, <1>10, <1>11, FoldHistory
<1>13. Len(q) \in 0..Len(q)
  BY <1>1
<1>14. Iter[DOMAIN q] \in A
  BY <1>12, <1>13 DEF FoldedBy
<1>15. QED BY <1>4, <1>14 DEF A

(* The longest of the subnets that match.                                  *)
LEMMA LongestMatch ==
  ASSUME NEW c, NEW t \in Tables(c), NEW address, Matching(t, address) # {}
  PROVE  \E m \in Matching(t, address) : \A n \in Matching(t, address) : n.mask <= m.mask
<1> DEFINE M == Matching(t, address)
           T == {m.mask : m \in M}
<1>1. \A m \in M : m.mask \in 0..AddressBits
  BY DEF Matching, Tables, TableSubnets, Masks
<1>2. AddressBits \in Nat /\ T \subseteq 0..AddressBits /\ T # {}
  BY <1>1, BitsAssumption
<1>3. Max(T) \in T /\ \A k \in T : k <= Max(T)
  BY <1>2, GreatestNumber
<1>4. QED BY <1>3

(* A packet leaves through an interface of the computer, to an address     *)
(* that is known.                                                          *)
LEMMA LookupLeads ==
  ASSUME NEW c \in Computers, NEW address \in Anywhere
  PROVE  /\ Lookup(Table[c], address).interface \in Sources(c)
         /\ Lookup(Table[c], address).interface \in AllSources
         /\ Lookup(Table[c], address).gateway \in Anywhere
<1> DEFINE t == Table[c]
           M == Matching(t, address)
           s == CHOOSE m \in M : \A n \in M : n.mask <= m.mask
<1>1. Sources(c) \subseteq AllSources
  BY DEF Sources, AllSources, Interfaces
<1>2. CASE M = {}
  <2>1. Lookup(t, address) = NoRoute
    BY <1>2 DEF Lookup
  <2>2. QED BY <1>1, <2>1 DEF NoRoute, Route, Sources, Anywhere, AllSources
<1>3. CASE M # {}
  <2>1. t \in Tables(c)
    BY DefaultTable
  <2>2. s \in M
    BY <1>3, <2>1, LongestMatch
  <2>3. s \in DOMAIN t
    BY <2>2 DEF Matching
  <2>4. t[s] \in TableRoutes(c)
    BY <2>1, <2>3 DEF Tables
  <2>5. t[s].interface \in Sources(c)
    BY <2>4 DEF TableRoutes, Sources
  <2>6. t[s].gateway \in Anywhere
    <3>1. t[s].gateway \in {t[x].gateway : x \in DOMAIN t}
      BY Zenon, <2>3
    <3> HIDE DEF s
    <3>2. t[s].gateway \in Gateways
      BY Zenon, <3>1 DEF Gateways
    <3>3. QED BY <3>2 DEF Anywhere
  <2>7. Lookup(t, address) = IF t[s].gateway = OnLink THEN [t[s] EXCEPT !.gateway = address] ELSE t[s]
    BY <1>3 DEF Lookup
  <2> HIDE DEF s, t
  <2>8. /\ [t[s] EXCEPT !.gateway = address].interface = t[s].interface
        /\ [t[s] EXCEPT !.gateway = address].gateway = address
    BY <2>4 DEF TableRoutes
  <2>9. /\ Lookup(t, address).interface = t[s].interface
        /\ Lookup(t, address).gateway \in Anywhere
    BY <2>6, <2>7, <2>8
  <2>10. QED BY <1>1, <2>5, <2>9 DEF t
<1>4. QED BY <1>2, <1>3

(* The table always names an address of the computer, the loopback among   *)
(* them.                                                                   *)
LEMMA SendingLeads ==
  ASSUME NEW c \in Computers, NEW address \in Anywhere
  PROVE  SendingInterface(c, address) \in Sources(c) /\ SendingInterface(c, address) \in AllSources
  BY LookupLeads DEF SendingInterface
-----------------------------------------------------------------------------
(* Frames. *)

(* The types of a frame's fields.                                          *)
LEMMA FrameFields ==
  ASSUME NEW R, NEW f \in Frame(R)
  PROVE  /\ f \in AnyFrame /\ Real(f, R)
         /\ f.mac \in Anywhere /\ f.src \in AllSources /\ f.src \in Anywhere /\ f.dst \in Anywhere
         /\ f.seq \in Nat /\ f.big \in BOOLEAN /\ f.df \in BOOLEAN /\ f.kind \in Kinds
  BY DEF Frame, AnyFrame, Anywhere

Headers == {"request", "unreachable", "exceeded"}

(* A new packet is a frame; only an echo reply must have its request.      *)
LEMMA NewFrames ==
  ASSUME NEW R, NEW src \in AllSources, NEW dst \in Anywhere, NEW mac \in Anywhere,
         NEW seq \in Nat, NEW big, big \in BOOLEAN, NEW df, df \in BOOLEAN,
         NEW id \in {0} \cup (Computers \X Nat)
  PROVE  /\ \A kind \in Headers : Icmp(kind, src, dst, mac, seq, big, df, id) \in Frame(R)
         /\ (\E r \in R : r.to = dst /\ r.seq = seq /\ AnsweredFrom(r, src)) =>
               Icmp("reply", src, dst, mac, seq, big, df, id) \in Frame(R)
<1>1. TimeToLive \in Int
  BY BoundsAssumption
<1>2. \A kind \in Kinds : Icmp(kind, src, dst, mac, seq, big, df, id) \in AnyFrame
  BY <1>1 DEF Icmp, AnyFrame
<1>3. \A kind \in Kinds :
        LET f == Icmp(kind, src, dst, mac, seq, big, df, id)
        IN  f.kind = kind /\ f.to = f.to /\ f.dst = dst /\ f.seq = seq /\ f.src = src
  BY DEF Icmp
<1>4. \A kind \in Headers : kind \in Kinds /\ kind # "reply"
  BY DEF Headers, Kinds
<1>5. "reply" \in Kinds
  BY DEF Kinds
<1>6. QED BY <1>2, <1>3, <1>4, <1>5 DEF Frame, Real

(* So are questions and answers of ARP.                                    *)
LEMMA ArpFrames ==
  ASSUME NEW R, NEW src \in AllSources, NEW dst \in Anywhere, NEW mac \in Anywhere
  PROVE  Arp("who-has", src, dst, mac) \in Frame(R) /\ Arp("is-at", src, dst, mac) \in Frame(R)
  BY DEF Arp, Frame, AnyFrame, Real, Kinds

(* Forwarding and fragmenting changes no reply into another.               *)
LEMMA FrameChanges ==
  ASSUME NEW R, NEW f \in Frame(R), NEW mac \in Anywhere
  PROVE  /\ [f EXCEPT !.part = 0] \in Frame(R)
         /\ [f EXCEPT !.part = 1] \in Frame(R)
         /\ [f EXCEPT !.part = 2] \in Frame(R)
         /\ [f EXCEPT !.mac = mac] \in Frame(R)
         /\ [f EXCEPT !.mac = mac, !.ttl = @ - 1] \in Frame(R)
<1>1. f \in AnyFrame /\ Real(f, R) /\ f.ttl - 1 \in Int
  BY DEF Frame, AnyFrame
<1>2. [f EXCEPT !.part = 0] \in AnyFrame
  BY <1>1 DEF AnyFrame
<1>5. [f EXCEPT !.part = 1] \in AnyFrame
  BY <1>1 DEF AnyFrame
<1>6. [f EXCEPT !.part = 2] \in AnyFrame
  BY <1>1 DEF AnyFrame
<1>7. [f EXCEPT !.mac = mac] \in AnyFrame
  BY <1>1 DEF AnyFrame
<1>8. [f EXCEPT !.mac = mac, !.ttl = @ - 1] \in AnyFrame
  BY <1>1 DEF AnyFrame
<1>3. /\ Real([f EXCEPT !.part = 0], R)
      /\ Real([f EXCEPT !.part = 1], R)
      /\ Real([f EXCEPT !.part = 2], R)
      /\ Real([f EXCEPT !.mac = mac], R)
      /\ Real([f EXCEPT !.mac = mac, !.ttl = @ - 1], R)
  BY <1>1 DEF Real, AnyFrame
<1>9. QED BY <1>2, <1>3, <1>5, <1>6, <1>7, <1>8 DEF Frame

(* Nor does counting down its life.                                        *)
LEMMA LivesMay ==
  ASSUME NEW R, NEW f \in Frame(R), NEW ttl \in Int
  PROVE  [f EXCEPT !.ttl = ttl] \in Frame(R)
<1>1. f \in AnyFrame /\ Real(f, R)
  BY DEF Frame
<1>2. [f EXCEPT !.ttl = ttl] \in AnyFrame
  BY <1>1 DEF AnyFrame
<1>3. Real([f EXCEPT !.ttl = ttl], R)
  BY <1>1 DEF Real, AnyFrame
<1>4. QED BY <1>2, <1>3 DEF Frame

-----------------------------------------------------------------------------
(* Sending. *)

(* Sending several frames through the sending queue,                       *)
LEMMA StreamMay ==
  ASSUME NEW c, NEW R, NEW a, NEW h \in Computing(c, R, a), NEW q \in Seq(Frame(R)), NEW i \in AllSources
  PROVE  SendPacketStream(h, q, i) \in Computing(c, R, a)
<1>1. h.queue \o q \in Seq(Frame(R))
  BY FieldsOf, ConcatElements
<1>2. [h EXCEPT !.queue = h.queue \o q] \in Computing(c, R, a)
  BY <1>1, QueueMay
<1>3. [h EXCEPT !.queue = q, !.queueInterface = i, !.hasQueue = TRUE] \in Computing(c, R, a)
  BY QueueMay
<1>4. QED BY <1>2, <1>3 DEF SendPacketStream

(* one frame, or its fragments,                                            *)
LEMMA SendMay ==
  ASSUME NEW c, NEW R, NEW a, NEW h \in Computing(c, R, a), NEW f \in Frame(R), NEW i \in AllSources
  PROVE  Send(h, f, i) \in Computing(c, R, a)
<1>1. FragmentPacket(f) \in Seq(Frame(R))
  <2>1. [f EXCEPT !.part = 1] \in Frame(R) /\ [f EXCEPT !.part = 2] \in Frame(R)
    <3>1. f.mac \in Anywhere
      BY FrameFields
    <3>2. QED BY <3>1, FrameChanges
  <2>2. QED BY <2>1 DEF FragmentPacket
<1>2. SendPacketStream(h, FragmentPacket(f), i) \in Computing(c, R, a)
  BY <1>1, StreamMay
<1>3. [h EXCEPT !.failed = TRUE] \in Computing(c, R, a)
  BY FailsMay
<1>4. [h EXCEPT !.out = Append(h.out, [from |-> i, frame |-> f])] \in Computing(c, R, a)
  <2>1. [from |-> i, frame |-> f] \in Outgoing(R)
    BY DEF Outgoing
  <2>2. h.out \in Seq(Outgoing(R))
    BY FieldsOf
  <2>3. Append(h.out, [from |-> i, frame |-> f]) \in Seq(Outgoing(R))
    BY <2>1, <2>2, AppendElements
  <2>4. QED BY <2>3, OutMay
<1>5. QED BY <1>2, <1>3, <1>4 DEF Send

(* one through the interface the table names,                              *)
LEMMA SendByTableMay ==
  ASSUME NEW c \in Computers, NEW R, NEW a, NEW h \in Computing(c, R, a), NEW f \in Frame(R)
  PROVE  SendByTable(h, f) \in Computing(c, R, a)
<1>1. h.me = c /\ f.dst \in Anywhere
  BY FieldsOf, FrameFields
<1>2. SendingInterface(h.me, f.dst) \in AllSources
  BY <1>1, SendingLeads
<1>3. QED BY <1>2, SendMay DEF SendByTable

(* Whoever sends a ping has counted it.                                    *)
LEMMA SendPingToMay ==
  ASSUME NEW c \in Computers, NEW R, NEW a, NEW h \in Computing(c, R, a), NEW kind \in Headers,
         NEW dst \in Anywhere, NEW mac \in Anywhere, NEW big, big \in BOOLEAN, NEW df, df \in BOOLEAN
  PROVE  SendPingTo(h, kind, dst, mac, big, df) \in Computing(c, R, a)
<1>1. h.me = c /\ h.seq \in Nat /\ h.id \in Nat /\ h.seq + 1 \in Nat
  BY FieldsOf
<1>2. SourceFor(h, dst) \in AllSources
  BY <1>1, SendingLeads DEF SourceFor
<1>3. <<h.me, h.id>> \in {0} \cup (Computers \X Nat)
  BY <1>1
<1> DEFINE f == Icmp(kind, SourceFor(h, dst), dst, mac, h.seq + 1, big, df, <<h.me, h.id>>)
           g == [h EXCEPT !.seq = @ + 1, !.id = @ + 1]
<1>4. f \in Frame(R)
  BY <1>1, <1>2, <1>3, NewFrames
<1>5. g \in Computing(c, R, a)
  BY CountsOne
<1> HIDE DEF f, g
<1>6. SendByTable(g, f) \in Computing(c, R, a)
  BY <1>4, <1>5, SendByTableMay
<1>7. QED BY <1>6 DEF SendPingTo, f, g

(* a question of ARP,                                                      *)
LEMMA SendArpToMay ==
  ASSUME NEW c \in Computers, NEW R, NEW a, NEW h \in Computing(c, R, a), NEW ip \in Anywhere
  PROVE  SendArpTo(h, ip) \in Computing(c, R, a)
<1>1. h.me = c /\ Everyone \in Anywhere
  BY FieldsOf DEF Anywhere
<1>2. SourceFor(h, ip) \in AllSources /\ SendingInterface(h.me, ip) \in AllSources
  BY <1>1, SendingLeads DEF SourceFor
<1>3. Arp("who-has", SourceFor(h, ip), ip, Everyone) \in Frame(R)
  BY <1>1, <1>2, ArpFrames
<1>4. QED BY <1>2, <1>3, SendMay DEF SendArpTo

(* the ICMP packet for one that cannot be routed,                          *)
LEMMA SendUnreachableMay ==
  ASSUME NEW c \in Computers, NEW R, NEW a, NEW h \in Computing(c, R, a), NEW f \in Frame(R)
  PROVE  SendUnreachable(h, f) \in Computing(c, R, a)
<1>1. f.src \in Anywhere /\ "unreachable" \in Headers
  BY FrameFields DEF Headers
<1> DEFINE no == FALSE
<1>2. no \in BOOLEAN
  OBVIOUS
<1> HIDE DEF no
<1>3. SendPingTo(h, "unreachable", f.src, f.src, no, no) \in Computing(c, R, a)
  BY <1>1, <1>2, SendPingToMay
<1>4. SendPingTo(h, "unreachable", f.src, f.src, FALSE, FALSE) \in Computing(c, R, a)
  BY Zenon, <1>3 DEF no
<1>5. QED BY <1>4, FailsMay DEF SendUnreachable

(* or that has lived too long.                                             *)
LEMMA SendTimeExceededMay ==
  ASSUME NEW c \in Computers, NEW R, NEW a, NEW h \in Computing(c, R, a), NEW f \in Frame(R),
         NEW mac \in Anywhere
  PROVE  SendTimeExceeded(h, f, mac) \in Computing(c, R, a)
<1>1. h.me = c /\ f.src \in Anywhere /\ MaxTimeToLive \in Int
  BY FieldsOf, FrameFields, BoundsAssumption
<1>2. SourceFor(h, f.src) \in AllSources
  BY <1>1, SendingLeads DEF SourceFor
<1> DEFINE no == FALSE
           f0 == Icmp("exceeded", SourceFor(h, f.src), f.src, mac, 0, no, no, 0)
           e == [f0 EXCEPT !.ttl = MaxTimeToLive]
<1>3. no \in BOOLEAN /\ "exceeded" \in Headers /\ 0 \in Nat /\ 0 \in {0} \cup (Computers \X Nat)
  BY DEF Headers
<1> HIDE DEF no
<1>6. f0 \in Frame(R)
  BY <1>1, <1>2, <1>3, NewFrames
<1> HIDE DEF f0
<1>7. e \in Frame(R)
  BY <1>1, <1>6, LivesMay
<1> HIDE DEF e
<1>4. SendByTable(h, e) \in Computing(c, R, a)
  BY <1>7, SendByTableMay
<1>5. QED BY <1>4 DEF SendTimeExceeded, e, f0, no

-----------------------------------------------------------------------------
(* Processes. *)

(* The types of a process's fields.                                        *)
LEMMA ProcessFields ==
  ASSUME NEW c, NEW R, NEW p \in Proc(c, R)
  PROVE  /\ p \in AnyProcess(R) /\ HasWork(p, c, R)
         /\ p.kind \in {"ping", "answer", "route", "expired"} /\ p.packet \in Frame(R)
         /\ p.n \in {0} \cup DOMAIN Pings /\ p.left \in Int /\ p.stage \in {"arp", "reply"}
         /\ p.hop \in Anywhere /\ p.tries \in Nat /\ p.sent \in Nat
         /\ Destination(p) \in Anywhere
<1>1. p \in AnyProcess(R) /\ HasWork(p, c, R)
  BY DEF Proc
<1>2. /\ p.kind \in {"ping", "answer", "route", "expired"} /\ p.packet \in Frame(R)
      /\ p.n \in {0} \cup DOMAIN Pings /\ p.left \in Int /\ p.stage \in {"arp", "reply"}
      /\ p.hop \in Anywhere /\ p.tries \in Nat /\ p.sent \in Nat
  BY <1>1 DEF AnyProcess
<1>3. Destination(p) \in Anywhere
  BY <1>2, FrameFields DEF Destination
<1>4. QED BY <1>1, <1>2, <1>3

(* What the code writes into the record of a process.                      *)
LEMMA ProcessChanges ==
  ASSUME NEW c, NEW R, NEW p \in Proc(c, R)
  PROVE  /\ \A hop \in Anywhere : [p EXCEPT !.hop = hop, !.tries = 0] \in Proc(c, R)
         /\ [p EXCEPT !.stage = "arp", !.tries = @ + 1] \in Proc(c, R)
         /\ [p EXCEPT !.left = @ - 1, !.sent = 0] \in Proc(c, R)
         /\ \A n \in Nat : p.kind = "ping" => [p EXCEPT !.stage = "reply", !.sent = n] \in Proc(c, R)
<1>1. p \in AnyProcess(R) /\ HasWork(p, c, R) /\ p.tries + 1 \in Nat /\ p.left - 1 \in Int
  BY ProcessFields
<1>2. ASSUME NEW hop \in Anywhere PROVE [p EXCEPT !.hop = hop, !.tries = 0] \in Proc(c, R)
  <2>1. [p EXCEPT !.hop = hop, !.tries = 0] \in AnyProcess(R)
    BY <1>1 DEF AnyProcess
  <2>2. HasWork([p EXCEPT !.hop = hop, !.tries = 0], c, R)
    BY <1>1 DEF AnyProcess, HasWork
  <2>3. QED BY <2>1, <2>2 DEF Proc
<1>3. [p EXCEPT !.stage = "arp", !.tries = @ + 1] \in Proc(c, R)
  <2>1. [p EXCEPT !.stage = "arp", !.tries = @ + 1] \in AnyProcess(R)
    BY <1>1 DEF AnyProcess
  <2>2. HasWork([p EXCEPT !.stage = "arp", !.tries = @ + 1], c, R)
    BY <1>1 DEF AnyProcess, HasWork
  <2>3. QED BY <2>1, <2>2 DEF Proc
<1>4. [p EXCEPT !.left = @ - 1, !.sent = 0] \in Proc(c, R)
  <2>1. [p EXCEPT !.left = @ - 1, !.sent = 0] \in AnyProcess(R)
    BY <1>1 DEF AnyProcess
  <2>2. HasWork([p EXCEPT !.left = @ - 1, !.sent = 0], c, R)
    BY <1>1 DEF AnyProcess, HasWork
  <2>3. QED BY <2>1, <2>2 DEF Proc
<1>5. ASSUME NEW n \in Nat, p.kind = "ping"
      PROVE  [p EXCEPT !.stage = "reply", !.sent = n] \in Proc(c, R)
  <2>1. [p EXCEPT !.stage = "reply", !.sent = n] \in AnyProcess(R)
    BY <1>1 DEF AnyProcess
  <2>2. HasWork([p EXCEPT !.stage = "reply", !.sent = n], c, R)
    BY <1>1, <1>5 DEF AnyProcess, HasWork
  <2>3. QED BY <2>1, <2>2 DEF Proc
<1>6. QED BY <1>2, <1>3, <1>4, <1>5

(* A ping reports how a try ended; a reply only when it was answered.      *)
LEMMA TriedMay ==
  ASSUME NEW c, NEW R, NEW a, NEW h \in Computing(c, R, a), NEW p \in Proc(c, R),
         p.n \in DOMAIN Pings, NEW result \in {"reply", "none", "unreachable", "too long"},
         result = "reply" => WasAnswered(p.n, p.sent, R)
  PROVE  Tried(h, p, result) \in Computing(c, R, a)
<1> DEFINE e == [n |-> p.n, result |-> result, sent |-> p.sent]
<1>1. p.sent \in Nat
  BY ProcessFields
<1>2. e \in Ended(R)
  BY <1>1 DEF Ended
<1>3. h.ended \in Seq(Ended(R))
  BY FieldsOf
<1> HIDE DEF e
<1>4. Append(h.ended, e) \in Seq(Ended(R))
  BY <1>2, <1>3, AppendElements
<1>5. [h EXCEPT !.ended = Append(h.ended, e)] \in Computing(c, R, a)
  BY <1>4, EndedMay
<1>6. QED BY <1>5 DEF Tried, e

-----------------------------------------------------------------------------
(* The logic of processes. *)

(* Sending takes no number of its own; a ping takes the next one.          *)
LEMMA SendsKeepSeq ==
  ASSUME NEW c, NEW R, NEW a, NEW h \in Computing(c, R, a)
  PROVE  /\ \A f, i : Send(h, f, i).seq = h.seq
         /\ \A f : SendByTable(h, f).seq = h.seq
<1>1. h \in AnyHost(c, R, a)
  BY FieldsOf
<1>2. \A q, i : SendPacketStream(h, q, i).seq = h.seq
  BY <1>1 DEF SendPacketStream, AnyHost
<1>3. ASSUME NEW f, NEW i PROVE Send(h, f, i).seq = h.seq
  <2>1. [h EXCEPT !.failed = TRUE].seq = h.seq
    BY <1>1 DEF AnyHost
  <2>2. [h EXCEPT !.out = Append(@, [from |-> i, frame |-> f])].seq = h.seq
    BY <1>1 DEF AnyHost
  <2>3. QED BY <1>2, <2>1, <2>2 DEF Send
<1>4. QED BY <1>3 DEF SendByTable

(* Each try of a ping takes a number of its own.                           *)
LEMMA PingTakesNumber ==
  ASSUME NEW c, NEW R, NEW a, NEW h \in Computing(c, R, a)
  PROVE  \A kind, dst, mac, big, df : SendPingTo(h, kind, dst, mac, big, df).seq = h.seq + 1
<1> DEFINE g == [h EXCEPT !.seq = @ + 1, !.id = @ + 1]
<1>1. g \in Computing(c, R, a)
  BY CountsOne
<1>2. g.seq = h.seq + 1
  BY FieldsOf DEF AnyHost
<1> HIDE DEF g
<1>3. \A f : SendByTable(g, f).seq = h.seq + 1
  BY <1>1, <1>2, SendsKeepSeq
<1>4. QED BY <1>3 DEF SendPingTo, g

(* What is sent for a ping, and the answer to a request.                   *)
LEMMA SendThePingMay ==
  ASSUME NEW c \in Computers, NEW R, NEW a, NEW h \in Computing(c, R, a), NEW p \in Proc(c, R),
         p.kind \in {"ping", "answer"}
  PROVE  /\ SendThePing(h, p) \in Computing(c, R, a)
         /\ p.kind = "ping" => SendThePing(h, p).seq = h.seq + 1
<1> DEFINE q == p.packet
<1>1. /\ q \in Frame(R) /\ p.hop \in Anywhere /\ HasWork(p, c, R)
      /\ q.dst \in Anywhere /\ q.big \in BOOLEAN /\ q.df \in BOOLEAN /\ q.seq \in Nat
  BY ProcessFields, FrameFields
<1>2. h.me = c /\ h.id \in Nat
  BY FieldsOf
<1>3. SourceFor(h, q.dst) \in AllSources /\ SourceFor(h, q.dst) \in Sources(c)
  BY <1>1, <1>2, SendingLeads DEF SourceFor
<1>4. CASE p.kind = "ping"
  <2>1. "request" \in Headers
    BY DEF Headers
  <2>2. SendPingTo(h, "request", q.dst, p.hop, q.big, q.df) \in Computing(c, R, a)
    BY <1>1, <2>1, SendPingToMay
  <2>3. SendPingTo(h, "request", q.dst, p.hop, q.big, q.df).seq = h.seq + 1
    BY PingTakesNumber
  <2>4. QED BY <1>4, <2>2, <2>3 DEF SendThePing
<1>5. CASE p.kind = "answer"
  <2> DEFINE no == FALSE
             f == Icmp("reply", SourceFor(h, q.dst), q.dst, p.hop, q.seq, q.big, no, <<h.me, h.id>>)
  <2>1. no \in BOOLEAN /\ <<h.me, h.id>> \in {0} \cup (Computers \X Nat)
    BY <1>2
  <2> HIDE DEF no
  <2>2. PICK r \in R : r.by \in Ips(c) /\ r.to = q.dst /\ r.seq = q.seq
    BY <1>1, <1>5 DEF HasWork
  <2>3. AnsweredFrom(r, SourceFor(h, q.dst))
    BY <1>3, <2>2 DEF AnsweredFrom, Sources
  <2> HIDE DEF q
  <2>4. \E x \in R : x.to = q.dst /\ x.seq = q.seq /\ AnsweredFrom(x, SourceFor(h, q.dst))
    BY <2>2, <2>3
  <2>5. f \in Frame(R)
    <3> DEFINE src == SourceFor(h, q.dst)
               id == <<h.me, h.id>>
    <3>1. src \in AllSources /\ id \in {0} \cup (Computers \X Nat)
      BY <1>3, <2>1
    <3>2. \E x \in R : x.to = q.dst /\ x.seq = q.seq /\ AnsweredFrom(x, src)
      BY <2>4
    <3> HIDE DEF src, id
    <3>3. Icmp("reply", src, q.dst, p.hop, q.seq, q.big, no, id) \in Frame(R)
      BY <1>1, <2>1, <3>1, <3>2, NewFrames
    <3>4. QED BY <3>3 DEF src, id
  <2>6. [h EXCEPT !.id = @ + 1] \in Computing(c, R, a)
    BY CountsOne
  <2> HIDE DEF f
  <2>7. SendByTable([h EXCEPT !.id = @ + 1], f) \in Computing(c, R, a)
    BY <2>5, <2>6, SendByTableMay
  <2>8. SendThePing(h, p) = SendByTable([h EXCEPT !.id = @ + 1], f)
    BY <1>5 DEF SendThePing, f, no, q
  <2>9. QED BY <1>5, <2>7, <2>8
<1>6. QED BY <1>4, <1>5

(* A process goes on when it knows the address of the next hop, asks for   *)
(* it, or gives up.                                                        *)
LEMMA ResolvedMay ==
  ASSUME NEW c \in Computers, NEW R, NEW a, NEW h \in Computing(c, R, a), NEW p \in Proc(c, R)
  PROVE  Resolved(h, p) \in Computing(c, R, a)
<1>1. /\ p.kind \in {"ping", "answer", "route", "expired"} /\ p.packet \in Frame(R)
      /\ p.hop \in Anywhere /\ HasWork(p, c, R)
  BY ProcessFields
<1>2. CASE p.kind = "ping"
  <2> DEFINE g == SendThePing(h, p)
             q == [p EXCEPT !.stage = "reply", !.sent = h.seq + 1]
             k == [h EXCEPT !.seq = @ + 1]
             result == "too long"
  <2>1. h.seq \in Nat /\ h.seq + 1 \in Nat /\ p.n \in DOMAIN Pings
    BY <1>1, <1>2, FieldsOf DEF HasWork
  <2>2. g \in Computing(c, R, a) /\ g.seq = h.seq + 1
    BY <1>2, SendThePingMay
  <2>3. q \in Proc(c, R)
    BY <1>2, <2>1, ProcessChanges
  <2>4. q.sent = h.seq + 1
    BY ProcessFields DEF AnyProcess
  <2>5. k \in Computing(c, R, a)
    BY CountsOne
  <2>6. /\ result \in {"reply", "none", "unreachable", "too long"}
        /\ result = "reply" => WasAnswered(p.n, p.sent, R)
    OBVIOUS
  <2> HIDE DEF g, q, k, result
  <2>7. Waits(g, q) \in Computing(c, R, a)
    BY <2>1, <2>2, <2>3, <2>4, WaitsMay
  <2>8. Tried(k, p, result) \in Computing(c, R, a)
    BY <2>1, <2>5, <2>6, TriedMay
  <2>9. Resolved(h, p) = IF TooLong(h, p.packet) THEN Tried(k, p, result) ELSE Waits(g, q)
    BY <1>2 DEF Resolved, g, q, k, result
  <2>10. QED BY <2>7, <2>8, <2>9
<1>3. CASE p.kind = "answer"
  <2>1. SendThePing(h, p) \in Computing(c, R, a)
    BY <1>3, SendThePingMay
  <2>2. QED BY <1>3, <2>1 DEF Resolved
<1>4. CASE p.kind = "expired"
  <2>1. SendTimeExceeded(h, p.packet, p.hop) \in Computing(c, R, a)
    BY <1>1, SendTimeExceededMay
  <2>2. QED BY <1>4, <2>1 DEF Resolved
<1>5. CASE p.kind = "route"
  <2>1. SendUnreachable(h, p.packet) \in Computing(c, R, a)
    BY <1>1, SendUnreachableMay
  <2>2. Routed(p) \in Frame(R)
    BY <1>1, FrameChanges DEF Routed
  <2>3. OnLink \in AllSources /\ <<Routed(p)>> \in Seq(Frame(R))
    BY <2>2 DEF AllSources
  <2>4. SendPacketStream(h, <<Routed(p)>>, OnLink) \in Computing(c, R, a)
    BY <2>3, StreamMay
  <2>5. QED BY <1>5, <2>1, <2>4 DEF Resolved
<1>6. QED BY <1>1, <1>2, <1>3, <1>4, <1>5

(* A process asks for the address of its next hop,                         *)
LEMMA AskMay ==
  ASSUME NEW c \in Computers, NEW R, NEW a, NEW h \in Computing(c, R, a), NEW p \in Proc(c, R),
         p.sent <= h.seq
  PROVE  Ask(h, p) \in Computing(c, R, a)
<1> DEFINE g == SendArpTo(h, p.hop)
           q == [p EXCEPT !.stage = "arp", !.tries = @ + 1]
<1>1. g \in Computing(c, R, a)
  BY ProcessFields, SendArpToMay
<1>2. g.seq = h.seq
  BY SendsKeepSeq DEF SendArpTo
<1>3. q \in Proc(c, R)
  BY ProcessChanges
<1>4. q.sent = p.sent
  <2>1. p \in AnyProcess(R)
    BY ProcessFields
  <2>2. QED BY <2>1 DEF AnyProcess
<1> HIDE DEF g, q
<1>5. Waits(g, q) \in Computing(c, R, a)
  BY <1>1, <1>2, <1>3, <1>4, WaitsMay
<1>6. QED BY <1>5 DEF Ask, g, q

(* goes on if it knows it already,                                         *)
LEMMA ResolveMay ==
  ASSUME NEW c \in Computers, NEW R, NEW a, NEW h \in Computing(c, R, a), NEW p \in Proc(c, R),
         p.sent <= h.seq
  PROVE  Resolve(h, p) \in Computing(c, R, a)
<1> DEFINE hop == Lookup(Table[h.me], Destination(p)).gateway
           q == [p EXCEPT !.hop = hop, !.tries = 0]
<1>1. hop \in Anywhere
  BY FieldsOf, ProcessFields, LookupLeads
<1> HIDE DEF hop
<1>2. q \in Proc(c, R)
  BY <1>1, ProcessChanges
<1>3. q.sent = p.sent
  <2>1. p \in AnyProcess(R)
    BY ProcessFields
  <2>2. QED BY <2>1 DEF AnyProcess
<1> HIDE DEF q
<1>4. Resolved(h, q) \in Computing(c, R, a)
  BY <1>2, ResolvedMay
<1>5. Ask(h, q) \in Computing(c, R, a)
  BY <1>2, <1>3, AskMay
<1>6. QED BY <1>4, <1>5 DEF Resolve, q, hop

(* or gives up.                                                            *)
LEMMA UnresolvedMay ==
  ASSUME NEW c \in Computers, NEW R, NEW a, NEW h \in Computing(c, R, a), NEW p \in Proc(c, R)
  PROVE  Unresolved(h, p) \in Computing(c, R, a)
<1>1. p.packet \in Frame(R) /\ HasWork(p, c, R)
  BY ProcessFields
<1> DEFINE result == "none"
<1>2. /\ result \in {"reply", "none", "unreachable", "too long"}
      /\ result = "reply" => WasAnswered(p.n, p.sent, R)
  OBVIOUS
<1> HIDE DEF result
<1>3. p.kind = "ping" => Tried(h, p, result) \in Computing(c, R, a)
  <2>1. ASSUME p.kind = "ping" PROVE Tried(h, p, result) \in Computing(c, R, a)
    <3>1. p.n \in DOMAIN Pings
      BY <1>1, <2>1 DEF HasWork
    <3>2. QED BY <1>2, <3>1, TriedMay
  <2>2. QED BY <2>1
<1>4. SendUnreachable(h, p.packet) \in Computing(c, R, a)
  BY <1>1, SendUnreachableMay
<1>5. QED BY <1>3, <1>4 DEF Unresolved, result

(* Numbers of pings begin at 0.                                            *)
LEMMA NoNumberIsLess == \A n \in Nat : 0 <= n
  OBVIOUS

(* A ping reports a result, a reply only if it was answered, and tries     *)
(* again.                                                                  *)
LEMMA AgainMay ==
  ASSUME NEW c \in Computers, NEW R, NEW a, NEW h \in Computing(c, R, a), NEW p \in Proc(c, R),
         p.n \in DOMAIN Pings, NEW result \in {"reply", "none", "unreachable", "too long"},
         result = "reply" => WasAnswered(p.n, p.sent, R)
  PROVE  Again(h, p, result) \in Computing(c, R, a)
<1> DEFINE t == Tried(h, p, result)
           q == [p EXCEPT !.left = @ - 1, !.sent = 0]
<1>1. t \in Computing(c, R, a)
  BY TriedMay
<1>2. q \in Proc(c, R)
  BY ProcessChanges
<1>3. q.sent = 0
  <2>1. p \in AnyProcess(R)
    BY ProcessFields
  <2>2. QED BY <2>1 DEF AnyProcess
<1> HIDE DEF t, q
<1>4. q.sent <= t.seq
  <2>1. t.seq \in Nat
    BY <1>1, FieldsOf
  <2>2. QED BY Zenon, <1>3, <2>1, NoNumberIsLess
<1>5. Resolve(t, q) \in Computing(c, R, a)
  BY <1>1, <1>2, <1>4, ResolveMay
<1>6. QED BY <1>1, <1>5 DEF Again, t, q

-----------------------------------------------------------------------------
(* Receiving. *)

(* A process that starts to route, or to answer.                           *)
LEMMA RoutePacketMay ==
  ASSUME NEW c \in Computers, NEW R, NEW a, NEW h \in Computing(c, R, a), NEW f \in Frame(R)
  PROVE  RoutePacket(h, f) \in Computing(c, R, a)
<1>1. SendUnreachable(h, f) \in Computing(c, R, a)
  BY SendUnreachableMay
<1>2. h.seq \in Nat /\ 0 \in Anywhere
  BY FieldsOf DEF Anywhere
<1>3. ASSUME NEW kind \in {"route", "expired"}
      PROVE  Resolve(h, Process(kind, f, 0, 1)) \in Computing(c, R, a)
  <2> DEFINE p == Process(kind, f, 0, 1)
  <2>1. p \in AnyProcess(R) /\ HasWork(p, c, R) /\ p.sent = 0
    BY <1>2 DEF AnyProcess, HasWork, Process
  <2> HIDE DEF p
  <2>2. p \in Proc(c, R) /\ p.sent <= h.seq
    BY <1>2, <2>1 DEF Proc
  <2>3. Resolve(h, p) \in Computing(c, R, a)
    BY <2>2, ResolveMay
  <2>4. QED BY <2>3 DEF p
<1>4. QED BY <1>1, <1>3 DEF RoutePacket

(* Handling a packet of ARP,                                               *)
LEMMA HandleArpMay ==
  ASSUME NEW c \in Computers, NEW R, NEW a, NEW h \in Computing(c, R, a), NEW f \in Frame(R),
         NEW i \in Interfaces
  PROVE  HandleArp(h, f, i) \in Computing(c, R, a) /\ HandleArp(h, f, i).seq = h.seq
<1> DEFINE g == [h EXCEPT !.cache = h.cache \cup {f.src}]
           e == Arp("is-at", i, f.src, f.src)
<1>1. f.src \in Anywhere /\ i \in AllSources
  BY FrameFields DEF AllSources
<1>2. h.cache \cup {f.src} \in SUBSET Anywhere
  BY <1>1, FieldsOf
<1>3. g \in Computing(c, R, a)
  BY <1>2, CacheMay
<1>4. g.seq = h.seq
  BY FieldsOf DEF AnyHost
<1>5. e \in Frame(R)
  BY <1>1, ArpFrames
<1> HIDE DEF g, e
<1>6. Send(g, e, i) \in Computing(c, R, a) /\ Send(g, e, i).seq = h.seq
  BY <1>1, <1>3, <1>4, <1>5, SendMay, SendsKeepSeq
<1>7. HandleArp(h, f, i) = IF f.kind = "who-has" /\ f.dst = i THEN Send(g, e, i) ELSE g
  BY DEF HandleArp, g, e
<1>8. QED BY <1>3, <1>4, <1>6, <1>7

(* With more requests answered, what was real still is.                    *)
LEMMA MoreAnswered ==
  ASSUME NEW c, NEW R, NEW S, R \subseteq S
  PROVE  /\ Frame(R) \subseteq Frame(S) /\ Ended(R) \subseteq Ended(S)
         /\ Proc(c, R) \subseteq Proc(c, S) /\ Outgoing(R) \subseteq Outgoing(S)
         /\ \A a : Computing(c, R, a) \subseteq Computing(c, S, a)
<1>1. Frame(R) \subseteq Frame(S)
  BY DEF Frame, Real
<1>2. Ended(R) \subseteq Ended(S)
  BY DEF Ended, WasAnswered
<1>3. Proc(c, R) \subseteq Proc(c, S)
  <2>1. AnyProcess(R) \subseteq AnyProcess(S)
    BY <1>1 DEF AnyProcess
  <2>2. \A p : HasWork(p, c, R) => HasWork(p, c, S)
    BY DEF HasWork
  <2>3. QED BY <2>1, <2>2 DEF Proc
<1>4. Outgoing(R) \subseteq Outgoing(S)
  BY <1>1 DEF Outgoing
<1>5. /\ Seq(Frame(R)) \subseteq Seq(Frame(S)) /\ Seq(Ended(R)) \subseteq Seq(Ended(S))
      /\ Seq(Proc(c, R)) \subseteq Seq(Proc(c, S)) /\ Seq(Outgoing(R)) \subseteq Seq(Outgoing(S))
  BY <1>1, <1>2, <1>3, <1>4
<1>6. ASSUME NEW a PROVE AnyHost(c, R, a) \subseteq AnyHost(c, S, a)
  BY <1>5 DEF AnyHost
<1>7. \A a : Computing(c, R, a) \subseteq Computing(c, S, a)
  BY <1>6 DEF Computing
<1>8. QED BY <1>1, <1>2, <1>3, <1>4, <1>7

(* A request that a computer answers is noted before the answer is sent.   *)
Noted(f) == [by |-> f.dst, to |-> f.src, seq |-> f.seq]

(* (what was answered in a call is there for the proof only)               *)
LEMMA AnswersMay ==
  ASSUME NEW c, NEW R, NEW a, NEW b, NEW h \in Computing(c, R, a)
  PROVE  [h EXCEPT !.answers = b] \in Computing(c, R, b)
<1>1. h \in AnyHost(c, R, a) /\ NumbersUsed(h)
  BY FieldsOf
<1>2. [h EXCEPT !.answers = b] \in AnyHost(c, R, b)
  BY <1>1 DEF AnyHost
<1>3. NumbersUsed([h EXCEPT !.answers = b])
  BY <1>1 DEF AnyHost, NumbersUsed
<1>4. QED BY <1>2, <1>3 DEF Computing

(* one of ICMP, which may answer a request and thereby make it one of the  *)
(* answered,                                                               *)
LEMMA HandleIcmpMay ==
  ASSUME NEW c \in Computers, NEW R, NEW h \in Computing(c, R, {}), NEW f \in Frame(R),
         NEW i \in Ips(c)
  PROVE  \E a : HandleIcmp(h, f, i) \in Computing(c, R \cup a, a)
<1>1. CASE f.kind = "request" /\ f.dst = i
  <2> DEFINE a == {Noted(f)}
             g == [h EXCEPT !.answers = @ \cup a]
             q == [f EXCEPT !.dst = f.src]
             p == Process("answer", q, 0, 1)
  <2>1. h \in Computing(c, R \cup a, {}) /\ f \in Frame(R \cup a) /\ h.answers = {} /\ h.seq \in Nat
    <3>1. R \subseteq R \cup a
      OBVIOUS
    <3> HIDE DEF a
    <3>2. Computing(c, R, {}) \subseteq Computing(c, R \cup a, {}) /\ Frame(R) \subseteq Frame(R \cup a)
      BY <3>1, MoreAnswered
    <3>3. h.answers = {} /\ h.seq \in Nat
      BY FieldsOf
    <3>4. QED BY <3>2, <3>3
  <2>2. [h EXCEPT !.answers = a] \in Computing(c, R \cup a, a)
    BY <2>1, AnswersMay
  <2>3. g = [h EXCEPT !.answers = a] /\ g.seq = h.seq
    BY <2>1, FieldsOf DEF AnyHost
  <2>4. q \in Frame(R \cup a) /\ q.dst = f.src /\ q.seq = f.seq
    <3>1. f \in AnyFrame /\ f.src \in Anywhere
      BY FrameFields
    <3>2. q \in AnyFrame
      BY <3>1 DEF AnyFrame
    <3>3. q.kind = "request" /\ q.dst = f.src /\ q.seq = f.seq
      BY <1>1, <3>1 DEF AnyFrame
    <3> HIDE DEF q, a
    <3>4. q \in Frame(R \cup a)
      BY <3>2, <3>3 DEF Frame, Real
    <3>5. QED BY <3>3, <3>4
  <2>5. \E r \in R \cup a : r.by \in Ips(c) /\ r.to = q.dst /\ r.seq = q.seq
    <3>1. Noted(f).by \in Ips(c) /\ Noted(f).to = f.src /\ Noted(f).seq = f.seq
      BY <1>1 DEF Noted
    <3>2. Noted(f) \in R \cup a
      OBVIOUS
    <3> HIDE DEF q, a
    <3>3. QED BY <2>4, <3>1, <3>2
  <2> HIDE DEF q, a
  <2>6. p \in AnyProcess(R \cup a) /\ HasWork(p, c, R \cup a) /\ p.sent = 0
    BY <2>4, <2>5 DEF AnyProcess, HasWork, Process, Anywhere
  <2> HIDE DEF p, g
  <2>7. p \in Proc(c, R \cup a) /\ p.sent <= g.seq /\ g \in Computing(c, R \cup a, a)
    BY <2>1, <2>2, <2>3, <2>6 DEF Proc
  <2>8. Resolve(g, p) \in Computing(c, R \cup a, a)
    BY <2>7, ResolveMay
  <2>9. HandleIcmp(h, f, i) = Resolve(g, p)
    BY <1>1 DEF HandleIcmp, g, p, q, a, Noted
  <2>10. QED BY <2>8, <2>9
<1>2. CASE ~(f.kind = "request" /\ f.dst = i)
  <2>1. HandleIcmp(h, f, i) = h /\ R \cup {} = R
    BY <1>2 DEF HandleIcmp
  <2>2. QED BY <2>1
<1>3. QED BY <1>1, <1>2

(* and any packet.                                                         *)
LEMMA HandleMay ==
  ASSUME NEW c \in Computers, NEW R, NEW h \in Computing(c, R, {}), NEW f \in Frame(R),
         NEW i \in Ips(c)
  PROVE  \E a : Handle(h, f, i) \in Computing(c, R \cup a, a)
<1>1. CASE IsIp(f)
  BY <1>1, HandleIcmpMay DEF Handle
<1>2. CASE ~IsIp(f)
  <2>1. i \in Interfaces /\ R \cup {} = R
    BY DEF Interfaces
  <2>2. HandleArp(h, f, i) \in Computing(c, R, {})
    BY <2>1, HandleArpMay
  <2>3. Handle(h, f, i) \in Computing(c, R \cup {}, {})
    BY <1>2, <2>1, <2>2 DEF Handle
  <2>4. QED BY <2>3
<1>3. QED BY <1>1, <1>2

(* Fragments: what is received is like a fragment of it.                   *)
LEMMA KeepMay ==
  ASSUME NEW c \in Computers, NEW R, NEW a, NEW h \in Computing(c, R, a), NEW f \in Frame(R),
         NEW i \in Interfaces
  PROVE  Keep(h, f, i) \in Computing(c, R, a)
<1>1. h.parts \in Seq(Frame(R))
  BY FieldsOf
<1>2. OthersThan(h, f.id) \in Seq(Frame(R))
  BY <1>1, OnlyElements DEF OthersThan
<1>3. Append(h.parts, [f EXCEPT !.mac = Peer[i]]) \in Seq(Frame(R))
  <2>1. Peer[i] \in Interfaces
    BY InterfacesAssumption
  <2>2. Peer[i] \in Anywhere
    BY <2>1 DEF Anywhere, AllSources
  <2>3. [f EXCEPT !.mac = Peer[i]] \in Frame(R)
    BY <2>2, FrameChanges
  <2>4. QED BY <1>1, <2>3, AppendElements
<1>4. /\ [h EXCEPT !.parts = OthersThan(h, f.id)] \in Computing(c, R, a)
      /\ [h EXCEPT !.parts = Append(h.parts, [f EXCEPT !.mac = Peer[i]])] \in Computing(c, R, a)
  BY <1>2, <1>3, PartsMay
<1>5. QED BY <1>4 DEF Keep

(* A packet made of its fragments is as real as they are.                  *)
LEMMA ReassembledIsReal ==
  ASSUME NEW R, NEW f \in Frame(R), NEW h, Reassembled(h, f) # <<>>
  PROVE  Head(Reassembled(h, f)) \in Frame(R)
<1>1. [f EXCEPT !.part = 0] \in Frame(R)
  BY FrameFields, FrameChanges
<1>2. Reassembled(h, f) = <<f>> \/ Reassembled(h, f) = <<[f EXCEPT !.part = 0]>>
  BY DEF Reassembled
<1>3. QED BY <1>1, <1>2

-----------------------------------------------------------------------------
(* The processes that have waited for a packet. *)

(* A host answers from the address that was pinged: it has no other.       *)
LEMMA HostsAnswerThemselves ==
  ASSUME PingsGoToHosts, NEW n \in DOMAIN Pings, NEW r, AnsweredFrom(r, Pings[n].dst)
  PROVE  r.by = Pings[n].dst
<1>1. PICK c \in Computers : r.by \in Ips(c) /\ Pings[n].dst \in Ips(c)
  BY DEF AnsweredFrom, PingsGoToHosts
<1>2. c \notin Routers
  BY <1>1 DEF PingsGoToHosts
<1>3. Cardinality(InterfacesOf[c]) = 1 /\ IsFiniteSet(InterfacesOf[c])
  BY <1>2, InterfacesAssumption
<1>4. PICK i : InterfacesOf[c] = {i}
  BY <1>3, FS_Singleton
<1>5. QED BY <1>1, <1>4 DEF Ips

(* A reply that a ping accepts tells the truth.                            *)
LEMMA ReplyIsReal ==
  ASSUME PingsGoToHosts,
         NEW c, NEW R, NEW a, NEW h \in Computing(c, R, a), NEW f \in Frame(R), NEW p \in Proc(c, R),
         p.stage = "reply", p.sent <= h.seq, Wakes(h, p, f), f.kind = "reply"
  PROVE  WasAnswered(p.n, p.sent, R)
<1>1. f.seq = h.seq /\ f.src = p.packet.dst /\ HasThisIp(h, f.dst)
  BY DEF Wakes, IsPingReply
<1>2. HasWork(p, c, R) /\ p.sent \in Nat /\ h.seq \in Nat /\ h.me = c
  BY ProcessFields, FieldsOf
<1>3. p.n \in DOMAIN Pings /\ Pings[p.n].by = c /\ p.packet.dst = Pings[p.n].dst
  BY <1>2 DEF HasWork
<1>4. PICK r \in R : r.to = f.dst /\ r.seq = f.seq /\ AnsweredFrom(r, f.src)
  BY FrameFields DEF Real
<1>5. AnsweredFrom(r, Pings[p.n].dst)
  BY <1>1, <1>3, <1>4
<1>6. r.by = Pings[p.n].dst
  BY <1>3, <1>5, HostsAnswerThemselves
<1>7. r.to \in Ips(Pings[p.n].by)
  BY <1>1, <1>2, <1>3, <1>4 DEF HasThisIp
<1>8. r.seq >= p.sent
  BY <1>1, <1>2, <1>4
<1>9. QED BY <1>6, <1>7, <1>8 DEF WasAnswered

(* What the fold of Resume does for one process.                           *)
GoesOn(g, p, f) ==
  IF p.stage = "arp" THEN Resolved(g, p)
  ELSE Again(g, p, IF f.kind = "reply" THEN "reply" ELSE "unreachable")
Woken(h, f) == {p \in ToSet(h.procs) : Wakes(h, p, f)}

(* A process that a packet wakes goes on with it: a ping takes a reply     *)
(* that was answered,                                                      *)
LEMMA WokenMay ==
  ASSUME PingsGoToHosts,
         NEW c \in Computers, NEW R, NEW a, NEW h \in Computing(c, R, a), NEW f \in Frame(R),
         NEW p \in Woken(h, f), NEW g \in Computing(c, R, a)
  PROVE  GoesOn(g, p, f) \in Computing(c, R, a)
<1>1. h.procs \in Seq(Proc(c, R)) /\ NumbersUsed(h)
  BY FieldsOf
<1>2. Wakes(h, p, f) /\ \E k \in DOMAIN h.procs : p = h.procs[k]
  BY DEF Woken, ToSet
<1>3. p \in Proc(c, R) /\ p.sent <= h.seq
  BY <1>1, <1>2 DEF NumbersUsed
<1>4. CASE p.stage = "arp"
  <2>1. Resolved(g, p) \in Computing(c, R, a)
    BY <1>3, ResolvedMay
  <2>2. QED BY <1>4, <2>1 DEF GoesOn
<1>5. CASE p.stage # "arp"
  <2> DEFINE result == IF f.kind = "reply" THEN "reply" ELSE "unreachable"
  <2>1. HasWork(p, c, R) /\ p.stage = "reply"
    BY <1>3, <1>5, ProcessFields
  <2>2. p.n \in DOMAIN Pings
    BY <2>1 DEF HasWork
  <2>3. f.kind = "reply" => WasAnswered(p.n, p.sent, R)
    BY <1>2, <1>3, <2>1, ReplyIsReal
  <2>4. /\ result \in {"reply", "none", "unreachable", "too long"}
        /\ result = "reply" => WasAnswered(p.n, p.sent, R)
    BY <2>3
  <2> HIDE DEF result
  <2>5. Again(g, p, result) \in Computing(c, R, a)
    BY <1>3, <2>2, <2>4, AgainMay
  <2>6. QED BY <1>5, <2>5 DEF GoesOn, result
<1>6. QED BY <1>4, <1>5

(* and so do all that it wakes.                                            *)
LEMMA ResumeMay ==
  ASSUME PingsGoToHosts,
         NEW c \in Computers, NEW R, NEW a, NEW h \in Computing(c, R, a), NEW f \in Frame(R)
  PROVE  Resume(h, f) \in Computing(c, R, a)
<1> DEFINE A == Computing(c, R, a)
           B == Woken(h, f)
           q == Only(h.procs, Woken(h, f))
           base == [h EXCEPT !.procs = Only(@, ToSet(@) \ Woken(h, f))]
           F == [x \in A \X B |-> GoesOn(x[1], x[2], f)]
           Steps(it) == [s \in SUBSET (DOMAIN q) |->
                           IF s = {} THEN base ELSE GoesOn(it[s \ {Max(s)}], q[Max(s)], f)]
           Iter == CHOOSE it : it = Steps(it)
<1>1. q \in Seq(B)
  <2>1. h.procs \in Seq(Proc(c, R))
    BY FieldsOf
  <2>2. q \in Seq(Proc(c, R)) /\ ToSet(q) = ToSet(h.procs) \cap B
    BY <2>1, OnlyElements
  <2>3. q \in Seq(ToSet(q))
    BY <2>2 DEF ToSet
  <2>4. QED BY <2>2, <2>3
<1>2. base \in A
  BY LessProcesses
<1>3. F \in [A \X B -> A] /\ \A g \in A, p \in B : F[<<g, p>>] = GoesOn(g, p, f)
  <2>1. \A g \in A, p \in B : GoesOn(g, p, f) \in A
    BY WokenMay
  <2> HIDE DEF A, B
  <2>2. QED BY <2>1
<1>4. Resume(h, f) = Iter[DOMAIN q]
  BY DEF Resume, FoldLeft, MapThenFoldSet, GoesOn, Woken
<1> HIDE DEF F, base, q, A, B
<1>5. PICK it \in [SUBSET (DOMAIN q) -> A] : IsFold(it, F, base, q)
  BY <1>1, <1>2, <1>3, FoldExists
<1>6. \A s \in SUBSET (DOMAIN q) : s # {} =>
        q[Max(s)] \in B /\ s \ {Max(s)} \in SUBSET (DOMAIN q)
  BY <1>1, InitialIntervals
<1>7. \A s \in SUBSET (DOMAIN q) :
        it[s] = IF s = {} THEN base ELSE GoesOn(it[s \ {Max(s)}], q[Max(s)], f)
  BY <1>3, <1>5, <1>6 DEF IsFold
<1>8. it = Steps(it)
  BY <1>7
<1>9. Iter = Steps(Iter)
  BY <1>8
<1> HIDE DEF Iter
<1>10. Iter[{}] = base
  BY <1>9
<1>11. \A s \in SUBSET (DOMAIN q) : (s # {} /\ Iter[s \ {Max(s)}] \in A) =>
          Iter[s] = F[<<Iter[s \ {Max(s)}], q[Max(s)]>>]
  BY ZenonT(60), <1>3, <1>6, <1>9
<1>12. PICK t \in [0..Len(q) -> A] : FoldedBy(t, F, base, q, Iter[DOMAIN q])
  BY <1>1, <1>2, <1>3, <1>10, <1>11, FoldHistory
<1>13. Len(q) \in 0..Len(q)
  BY <1>1
<1>14. Iter[DOMAIN q] \in A
  BY <1>12, <1>13 DEF FoldedBy
<1>15. QED BY <1>4, <1>14 DEF A

-----------------------------------------------------------------------------
(* What a run of the logic leaves behind. *)

(* A router starts a process for each packet that is not for it.           *)
LEMMA RouteNewPacketsMay ==
  ASSUME NEW c \in Computers, NEW R, NEW a, NEW h \in Computing(c, R, a), NEW f \in Frame(R), NEW i
  PROVE  RouteNewPackets(h, f, i) \in Computing(c, R, a)
<1>1. RoutePacket(h, f) \in Computing(c, R, a)
  BY RoutePacketMay
<1>2. QED BY <1>1 DEF RouteNewPackets

(* The sending queue gives its next frame to the interface.                *)
LEMMA SendQueuedMay ==
  ASSUME NEW c \in Computers, NEW R, NEW a, NEW h \in Computing(c, R, a), h.queue # <<>>
  PROVE  SendQueued(h) \in Computing(c, R, a)
<1> DEFINE g == [h EXCEPT !.queue = Tail(h.queue)]
<1>1. h.queue \in Seq(Frame(R)) /\ h.queueInterface \in AllSources
  BY FieldsOf
<1>2. Head(h.queue) \in Frame(R) /\ Tail(h.queue) \in Seq(Frame(R))
  BY <1>1, TailElements
<1>3. g \in Computing(c, R, a)
  BY <1>1, <1>2, QueueMay
<1> HIDE DEF g
<1>4. SendByTable(g, Head(h.queue)) \in Computing(c, R, a)
  BY <1>2, <1>3, SendByTableMay
<1>5. Send(g, Head(h.queue), h.queueInterface) \in Computing(c, R, a)
  BY <1>1, <1>2, <1>3, SendMay
<1>6. QED BY <1>4, <1>5 DEF SendQueued, g

(* Between two calls nothing is left to send, to report or to answer.      *)
LEMMA ClearedIs ==
  ASSUME NEW c, NEW R, NEW a, NEW h \in Computing(c, R, a)
  PROVE  /\ ClearedOf(h) \in Computing(c, R, {})
         /\ ClearedOf(h).out = <<>> /\ ClearedOf(h).ended = <<>>
<1>1. h \in AnyHost(c, R, a) /\ NumbersUsed(h)
  BY FieldsOf
<1>2. <<>> \in Seq(Outgoing(R)) /\ <<>> \in Seq(Ended(R))
  OBVIOUS
<1>3. ClearedOf(h) \in AnyHost(c, R, {})
  BY <1>1, <1>2 DEF AnyHost, ClearedOf
<1>4. NumbersUsed(ClearedOf(h))
  BY <1>1 DEF AnyHost, NumbersUsed, ClearedOf
<1>5. ClearedOf(h).out = <<>> /\ ClearedOf(h).ended = <<>>
  BY <1>1 DEF AnyHost, ClearedOf
<1>6. QED BY <1>3, <1>4, <1>5 DEF Computing

(* What an interface sends are frames,                                     *)
LEMMA SentByIsReal ==
  ASSUME NEW c, NEW R, NEW a, NEW h \in Computing(c, R, a), NEW i
  PROVE  SentBy(i, h) \in Seq(Frame(R))
<1> DEFINE mine == Only(h.out, {o \in ToSet(h.out) : o.from = i})
<1>1. h.out \in Seq(Outgoing(R))
  BY FieldsOf
<1>2. mine \in Seq(Outgoing(R))
  BY <1>1, OnlyElements
<1> HIDE DEF mine
<1>3. Len(mine) \in Nat /\ DOMAIN mine = 1..Len(mine)
  BY <1>2
<1>4. \A k \in 1..Len(mine) : mine[k].frame \in Frame(R)
  <2>1. ASSUME NEW k \in 1..Len(mine) PROVE mine[k].frame \in Frame(R)
    <3>1. mine[k] \in Outgoing(R)
      BY <1>2
    <3>2. QED BY <3>1 DEF Outgoing
  <2>2. QED BY <2>1
<1>5. [k \in 1..Len(mine) |-> mine[k].frame] \in Seq(Frame(R))
  BY <1>3, <1>4, FunctionIsSequence
<1>6. SentBy(i, h) = [k \in 1..Len(mine) |-> mine[k].frame]
  BY <1>3 DEF SentBy, mine
<1>7. QED BY <1>5, <1>6

EndedOf(h, n) == Only(h.ended, {e \in ToSet(h.ended) : e.n = n})
AllOf(q, n) == \A k \in DOMAIN q : q[k].n = n

(* and what is reported of a ping are real results of this ping.           *)
LEMMA EndedAre ==
  ASSUME NEW c, NEW R, NEW a, NEW h \in Computing(c, R, a), NEW n
  PROVE  EndedOf(h, n) \in Seq(Ended(R)) /\ AllOf(EndedOf(h, n), n)
<1> DEFINE S == {e \in ToSet(h.ended) : e.n = n}
           q == Only(h.ended, S)
<1>1. h.ended \in Seq(Ended(R))
  BY FieldsOf
<1>2. q \in Seq(Ended(R)) /\ ToSet(q) = ToSet(h.ended) \cap S
  BY <1>1, OnlyElements
<1> HIDE DEF q
<1>3. \A k \in DOMAIN q : q[k] \in S
  BY <1>2 DEF ToSet
<1>4. QED BY <1>2, <1>3 DEF q, EndedOf, AllOf

(* Results are joined with earlier ones.                                   *)
LEMMA JoinedAllOf ==
  ASSUME NEW S, NEW q \in Seq(S), NEW r \in Seq(S), NEW n, AllOf(q, n), AllOf(r, n)
  PROVE  q \o r \in Seq(S) /\ AllOf(q \o r, n)
<1> DEFINE t == q \o r
           FromQ(i) == i \in 1..Len(q) /\ t[i] = q[i]
           FromR(i) == \E j \in 1..Len(r) : i = Len(q) + j /\ t[i] = r[j]
<1>1. t \in Seq(S) /\ \A i \in 1..Len(t) : FromQ(i) \/ FromR(i)
  BY JoinedPlaces
<1>2. DOMAIN t = 1..Len(t) /\ DOMAIN q = 1..Len(q) /\ DOMAIN r = 1..Len(r)
  BY <1>1
<1> HIDE DEF t
<1>3. ASSUME NEW k \in 1..Len(t) PROVE t[k].n = n
  <2>1. CASE FromQ(k)
    BY <1>2, <2>1 DEF AllOf
  <2>2. CASE FromR(k)
    <3>1. PICK j \in 1..Len(r) : t[k] = r[j]
      BY <2>2
    <3>2. QED BY <1>2, <3>1 DEF AllOf
  <2>3. QED BY <1>1, <2>1, <2>2
<1>4. QED BY <1>1, <1>2, <1>3 DEF AllOf, t

-----------------------------------------------------------------------------
(* The invariant is kept. *)

(* What the invariant says of one computer, wire or ping.                  *)
LEMMA NetworkTypes ==
  ASSUME NetworkInv, NEW c \in Computers
  PROVE  /\ host[c] \in Computing(c, reached, {})
         /\ \A i \in Interfaces : wire[i] \in Seq(Frame(reached))
         /\ \A n \in DOMAIN Pings : outcome[n] \in Seq(Ended(reached))
  BY DEF NetworkInv

(* The logic of computer c was run, answered the requests a and left the   *)
(* record behind.                                                          *)
LEMMA BecomesKeeps ==
  ASSUME NetworkInv, NEW c \in Computers, NEW a, NEW run \in Computing(c, reached \cup a, a),
         NEW w \in [Interfaces -> Seq(Frame(reached))], Becomes(c, run, w)
  PROVE  NetworkInv'
<1> DEFINE S == reached \cup a
<1>1. reached' = S /\ reached \subseteq S
  <2>1. run.answers = a
    BY FieldsOf
  <2>2. reached' = reached \cup run.answers
    BY DEF Becomes
  <2>3. QED BY <2>1, <2>2
<1> HIDE DEF S
<1>2. run \in Computing(c, S, a)
  BY DEF S
<1>3. \A d : /\ Frame(reached) \subseteq Frame(S) /\ Ended(reached) \subseteq Ended(S)
             /\ Computing(d, reached, {}) \subseteq Computing(d, S, {})
  BY <1>1, MoreAnswered
<1>4. wire' \in [Interfaces -> Seq(Frame(S))]
  <2>1. wire' = [i \in Interfaces |-> IF i \in unplugged THEN <<>> ELSE w[i] \o SentBy(Peer[i], run)]
    BY DEF Becomes
  <2>2. ASSUME NEW i \in Interfaces PROVE w[i] \o SentBy(Peer[i], run) \in Seq(Frame(S))
    <3>1. w[i] \in Seq(Frame(S))
      <4>1. Frame(reached) \subseteq Frame(S)
        BY <1>3
      <4>2. Seq(Frame(reached)) \subseteq Seq(Frame(S))
        BY <4>1
      <4>3. QED BY <4>2
    <3>2. SentBy(Peer[i], run) \in Seq(Frame(S))
      BY <1>2, SentByIsReal
    <3>3. QED BY <3>1, <3>2, ConcatElements
  <2>3. <<>> \in Seq(Frame(S))
    OBVIOUS
  <2>4. QED BY <2>1, <2>2, <2>3
<1>5. /\ host' = [d \in Computers |-> host'[d]]
      /\ \A d \in Computers : host'[d] = IF d = c THEN ClearedOf(run) ELSE host[d]
  BY DEF Becomes, NetworkInv
<1>6. /\ ClearedOf(run) \in Computing(c, S, {})
      /\ ClearedOf(run).out = <<>> /\ ClearedOf(run).ended = <<>>
  BY <1>2, ClearedIs
<1>7. \A d \in Computers : host'[d] \in Computing(d, S, {})
  BY <1>3, <1>5, <1>6, NetworkTypes
<1>8. \A d \in Computers : host'[d].out = <<>> /\ host'[d].ended = <<>>
  BY <1>5, <1>6 DEF NetworkInv
<1>9. ASSUME NEW n \in DOMAIN Pings
      PROVE  outcome'[n] \in Seq(Ended(S)) /\ \A k \in DOMAIN outcome'[n] : outcome'[n][k].n = n
  <2>1. outcome'[n] = outcome[n] \o EndedOf(run, n)
    BY DEF Becomes, EndedOf
  <2>2. EndedOf(run, n) \in Seq(Ended(S)) /\ AllOf(EndedOf(run, n), n)
    BY <1>2, EndedAre
  <2>3. outcome[n] \in Seq(Ended(S)) /\ AllOf(outcome[n], n)
    <3>1. Ended(reached) \subseteq Ended(S)
      BY <1>3
    <3>2. Seq(Ended(reached)) \subseteq Seq(Ended(S))
      BY <3>1
    <3>3. QED BY <3>2, NetworkTypes DEF NetworkInv, AllOf
  <2>4. outcome[n] \o EndedOf(run, n) \in Seq(Ended(S)) /\ AllOf(outcome[n] \o EndedOf(run, n), n)
    BY <2>2, <2>3, JoinedAllOf
  <2>5. QED BY <2>1, <2>4 DEF AllOf
<1>10. DOMAIN outcome' = DOMAIN Pings /\ outcome' = [n \in DOMAIN Pings |-> outcome'[n]]
  BY DEF Becomes
<1>11. outcome' \in [DOMAIN Pings -> Seq(Ended(S))]
  BY <1>9, <1>10
<1>12. QED BY <1>1, <1>4, <1>5, <1>7, <1>8, <1>9, <1>11 DEF NetworkInv

(* A computer handles, resumes and routes what comes from a wire,          *)
LEMMA ReceivedMay ==
  ASSUME PingsGoToHosts, NetworkInv, NEW c \in Computers, NEW i \in Ips(c), NEW f \in Frame(reached),
         NEW h \in Delivers(c, f, i)
  PROVE  \E a : RouteNewPackets(h, f, i) \in Computing(c, reached \cup a, a)
<1> DEFINE g == Keep(host[c], f, i)
           e == Head(Reassembled(host[c], f))
<1>1. i \in Interfaces
  BY DEF Interfaces
<1>2. g \in Computing(c, reached, {})
  BY <1>1, KeepMay, NetworkTypes
<1>3. \E a : h \in Computing(c, reached \cup a, a)
  <2>1. CASE Reassembled(host[c], f) = <<>>
    <3>1. h = g /\ reached \cup {} = reached
      BY <2>1 DEF Delivers
    <3>2. h \in Computing(c, reached \cup {}, {})
      BY <1>2, <3>1
    <3>3. QED BY <3>2
  <2>2. CASE Reassembled(host[c], f) # <<>>
    <3>1. e \in Frame(reached)
      BY <2>2, ReassembledIsReal
    <3>2. h = Resume(Handle(g, e, i), e)
      BY <2>2 DEF Delivers
    <3> HIDE DEF g, e
    <3>3. PICK a : Handle(g, e, i) \in Computing(c, reached \cup a, a)
      BY <1>2, <3>1, HandleMay
    <3>4. e \in Frame(reached \cup a)
      BY <3>1, MoreAnswered
    <3>5. Resume(Handle(g, e, i), e) \in Computing(c, reached \cup a, a)
      BY <3>3, <3>4, ResumeMay
    <3>6. QED BY <3>2, <3>5
  <2>3. QED BY <2>1, <2>2
<1>4. PICK a : h \in Computing(c, reached \cup a, a)
  BY <1>3
<1>5. f \in Frame(reached \cup a)
  BY MoreAnswered
<1>6. RouteNewPackets(h, f, i) \in Computing(c, reached \cup a, a)
  BY <1>4, <1>5, RouteNewPacketsMay
<1>7. QED BY <1>6

(* The wires without the frame at the head of one.                         *)
LEMMA WiresOf ==
  ASSUME NetworkInv
  PROVE  /\ wire \in [Interfaces -> Seq(Frame(reached))]
         /\ \A i \in Interfaces : wire[i] # <<>> =>
              /\ [wire EXCEPT ![i] = Tail(@)] \in [Interfaces -> Seq(Frame(reached))]
              /\ Head(wire[i]) \in Frame(reached)
<1>1. wire \in [Interfaces -> Seq(Frame(reached))]
  BY DEF NetworkInv
<1>2. ASSUME NEW i \in Interfaces, wire[i] # <<>>
      PROVE  /\ [wire EXCEPT ![i] = Tail(@)] \in [Interfaces -> Seq(Frame(reached))]
             /\ Head(wire[i]) \in Frame(reached)
  <2>1. Tail(wire[i]) \in Seq(Frame(reached)) /\ Head(wire[i]) \in Frame(reached)
    BY <1>1, <1>2, TailElements
  <2>2. QED BY <1>1, <2>1
<1>3. QED BY <1>1, <1>2

(* Nothing but the record of c changes, and nobody is answered.            *)
LEMMA QuietlyBecomes ==
  ASSUME NetworkInv, NEW c \in Computers, NEW run \in Computing(c, reached, {}),
         NEW w \in [Interfaces -> Seq(Frame(reached))], Becomes(c, run, w)
  PROVE  NetworkInv'
<1> DEFINE a == {}
<1>1. reached \cup a = reached
  OBVIOUS
<1>2. run \in Computing(c, reached \cup a, a)
  BY <1>1
<1> HIDE DEF a
<1>3. QED BY <1>2, BecomesKeeps

(* which keeps the invariant,                                              *)
LEMMA ReceivesKeeps ==
  ASSUME PingsGoToHosts, NetworkInv, NEW c \in Computers, NEW i \in Ips(c), Receives(c, i)
  PROVE  NetworkInv'
<1> DEFINE f == Head(wire[i])
           w == [wire EXCEPT ![i] = Tail(@)]
<1>1. i \in Interfaces /\ wire[i] # <<>>
  BY DEF Receives, Interfaces
<1>2. w \in [Interfaces -> Seq(Frame(reached))] /\ f \in Frame(reached)
  BY <1>1, WiresOf
<1>3. CASE IsForMe(i, f)
  <2>1. PICK h \in Delivers(c, f, i) : Becomes(c, RouteNewPackets(h, f, i), w)
    BY <1>3 DEF Receives
  <2> HIDE DEF f, w
  <2>2. PICK a : RouteNewPackets(h, f, i) \in Computing(c, reached \cup a, a)
    BY <1>2, ReceivedMay
  <2>3. QED BY <1>2, <2>1, <2>2, BecomesKeeps
<1>4. CASE ~IsForMe(i, f)
  <2>1. Becomes(c, host[c], w)
    BY <1>4 DEF Receives
  <2> HIDE DEF f, w
  <2>2. host[c] \in Computing(c, reached, {})
    BY NetworkTypes
  <2>3. QED BY <1>2, <2>1, <2>2, QuietlyBecomes
<1>5. QED BY <1>3, <1>4

(* as does sending what is queued.                                         *)
LEMMA SendsQueuedKeeps ==
  ASSUME NetworkInv, NEW c \in Computers, SendsQueued(c)
  PROVE  NetworkInv'
<1>1. host[c].queue # <<>> /\ Becomes(c, SendQueued(host[c]), wire)
  BY DEF SendsQueued
<1>2. SendQueued(host[c]) \in Computing(c, reached, {})
  BY <1>1, NetworkTypes, SendQueuedMay
<1>3. QED BY <1>1, <1>2, WiresOf, QuietlyBecomes

(* A process that ends leaves a computer there can be.                     *)
LEMMA ProcessOf ==
  ASSUME NetworkInv, NEW c \in Computers, NEW k \in DOMAIN host[c].procs
  PROVE  /\ host[c].procs[k] \in Proc(c, reached)
         /\ host[c].procs[k].sent <= host[c].seq
         /\ [host[c] EXCEPT !.procs = RemoveAt(@, k)] \in Computing(c, reached, {})
         /\ [host[c] EXCEPT !.procs = RemoveAt(@, k)].seq = host[c].seq
<1>1. host[c] \in Computing(c, reached, {})
  BY NetworkTypes
<1>2. host[c].procs \in Seq(Proc(c, reached)) /\ NumbersUsed(host[c]) /\ host[c] \in AnyHost(c, reached, {})
  BY <1>1, FieldsOf
<1>3. host[c].procs[k] \in Proc(c, reached)
  BY <1>2
<1>4. [host[c] EXCEPT !.procs = RemoveAt(host[c].procs, k)] \in Computing(c, reached, {})
  BY <1>1, LessProcesses
<1>5. [host[c] EXCEPT !.procs = RemoveAt(@, k)].seq = host[c].seq
  BY <1>2 DEF AnyHost
<1>6. QED BY <1>2, <1>3, <1>4, <1>5 DEF NumbersUsed

(* An address was not found in time,                                       *)
LEMMA ArpTimesOutKeeps ==
  ASSUME NetworkInv, NEW c \in Computers, NEW k \in DOMAIN host[c].procs, ArpTimesOut(c, k)
  PROVE  NetworkInv'
<1> DEFINE p == host[c].procs[k]
           h == [host[c] EXCEPT !.procs = RemoveAt(@, k)]
           run == IF p.tries < ResendCount THEN Ask(h, p) ELSE Unresolved(h, p)
<1>1. Becomes(c, run, wire)
  BY DEF ArpTimesOut
<1>2. p \in Proc(c, reached) /\ p.sent <= h.seq /\ h \in Computing(c, reached, {})
  BY ProcessOf
<1> HIDE DEF p, h
<1>3. Ask(h, p) \in Computing(c, reached, {}) /\ Unresolved(h, p) \in Computing(c, reached, {})
  BY <1>2, AskMay, UnresolvedMay
<1>4. run \in Computing(c, reached, {})
  BY <1>3
<1> HIDE DEF run
<1>5. QED BY <1>1, <1>4, WiresOf, QuietlyBecomes

(* a reply did not come,                                                   *)
LEMMA PingTimesOutKeeps ==
  ASSUME NetworkInv, NEW c \in Computers, NEW k \in DOMAIN host[c].procs, PingTimesOut(c, k)
  PROVE  NetworkInv'
<1> DEFINE p == host[c].procs[k]
           h == [host[c] EXCEPT !.procs = RemoveAt(@, k)]
           none == "none"
<1>1. Becomes(c, Again(h, p, none), wire) /\ p.stage = "reply"
  BY DEF PingTimesOut
<1>2. p \in Proc(c, reached) /\ h \in Computing(c, reached, {})
  BY ProcessOf
<1> HIDE DEF p, h
<1>3. p.n \in DOMAIN Pings
  BY <1>1, <1>2, ProcessFields DEF HasWork
<1>4. /\ none \in {"reply", "none", "unreachable", "too long"}
      /\ none = "reply" => WasAnswered(p.n, p.sent, reached)
  OBVIOUS
<1> HIDE DEF none
<1>5. Again(h, p, none) \in Computing(c, reached, {})
  BY <1>2, <1>3, <1>4, AgainMay
<1>6. QED BY <1>1, <1>5, WiresOf, QuietlyBecomes
(* fragments waited for too long,                                          *)
LEMMA ForgetsFragmentsKeeps ==
  ASSUME NetworkInv, NEW c \in Computers, NEW k \in DOMAIN host[c].parts, ForgetsFragments(c, k)
  PROVE  NetworkInv'
<1> DEFINE h == host[c]
           f == Last(h.parts)
           left == OthersThan(h, h.parts[k].id)
           g == [h EXCEPT !.parts = left]
           e == Icmp("exceeded", SourceFor(h, f.src), f.src, f.mac, 0, FALSE, FALSE, 0)
           q == <<e>>
           run == SendPacketStream(g, q, OnLink)
<1>1. Becomes(c, run, wire)
  BY DEF ForgetsFragments
<1>2. h \in Computing(c, reached, {}) /\ h.parts \in Seq(Frame(reached)) /\ h.me = c
  BY NetworkTypes, FieldsOf
<1>3. f \in Frame(reached)
  <2>1. Len(h.parts) \in 1..Len(h.parts)
    BY <1>2
  <2>2. QED BY <1>2, <2>1 DEF Last
<1>4. g \in Computing(c, reached, {})
  <2>1. left \in Seq(Frame(reached))
    BY <1>2, OnlyElements DEF OthersThan
  <2> HIDE DEF left, h
  <2>2. QED BY <1>2, <2>1, PartsMay
<1>5. q \in Seq(Frame(reached))
  <2> DEFINE no == FALSE
  <2>1. SourceFor(h, f.src) \in AllSources /\ f.src \in Anywhere /\ f.mac \in Anywhere
    <3>1. f.src \in Anywhere /\ f.mac \in Anywhere
      BY <1>3, FrameFields
    <3>2. QED BY <1>2, <3>1, SendingLeads DEF SourceFor
  <2>2. 0 \in Nat /\ no \in BOOLEAN /\ 0 \in {0} \cup (Computers \X Nat) /\ "exceeded" \in Headers
    BY DEF Headers
  <2>3. e = Icmp("exceeded", SourceFor(h, f.src), f.src, f.mac, 0, no, no, 0)
    OBVIOUS
  <2> HIDE DEF no, e, f, h
  <2>4. e \in Frame(reached)
    BY <2>1, <2>2, <2>3, NewFrames
  <2>5. QED BY <2>4
<1> HIDE DEF g, q
<1>6. OnLink \in AllSources
  BY DEF AllSources
<1>7. run \in Computing(c, reached, {})
  BY <1>4, <1>5, <1>6, StreamMay
<1> HIDE DEF run
<1>8. QED BY <1>1, <1>7, WiresOf, QuietlyBecomes

(* an entry of the ARP cache is too old,                                   *)
LEMMA ForgetsAddressKeeps ==
  ASSUME NetworkInv, NEW c \in Computers, NEW ip, ForgetsAddress(c, ip)
  PROVE  NetworkInv'
<1>1. /\ host' = [host EXCEPT ![c].cache = @ \ {ip}]
      /\ wire' = wire /\ outcome' = outcome /\ reached' = reached
  BY DEF ForgetsAddress
<1>2. host = [d \in Computers |-> host[d]]
  BY DEF NetworkInv
<1>3. host'[c] = [host[c] EXCEPT !.cache = host[c].cache \ {ip}]
  BY <1>1, <1>2
<1>4. \A d \in Computers : d # c => host'[d] = host[d]
  BY <1>1, <1>2
<1>5. host' = [d \in Computers |-> host'[d]]
  BY <1>1, <1>2
<1>6. host[c] \in Computing(c, reached, {}) /\ host[c].cache \ {ip} \in SUBSET Anywhere
  BY NetworkTypes, FieldsOf
<1>7. host'[c] \in Computing(c, reached, {})
  <2> DEFINE kept == host[c].cache \ {ip}
             h == host[c]
             no == {}
  <2>1. kept \in SUBSET Anywhere /\ h \in Computing(c, reached, no) /\ host'[c] = [h EXCEPT !.cache = kept]
    BY <1>3, <1>6
  <2> HIDE DEF kept, h, no
  <2>2. [h EXCEPT !.cache = kept] \in Computing(c, reached, no)
    BY <2>1, CacheMay
  <2>3. QED BY <2>1, <2>2 DEF no
<1>8. host'[c].out = <<>> /\ host'[c].ended = <<>>
  <2>1. host[c] \in AnyHost(c, reached, {}) /\ host[c].out = <<>> /\ host[c].ended = <<>>
    BY <1>6, FieldsOf DEF NetworkInv
  <2>2. QED BY <1>3, <2>1 DEF AnyHost
<1>9. /\ \A d \in Computers : host'[d] \in Computing(d, reached, {})
      /\ \A d \in Computers : host'[d].out = <<>> /\ host'[d].ended = <<>>
  BY <1>4, <1>7, <1>8, NetworkTypes DEF NetworkInv
<1>10. QED BY <1>1, <1>5, <1>9 DEF NetworkInv

(* the user starts a ping,                                                 *)
LEMMA StartPingKeeps ==
  ASSUME NetworkInv, NEW n \in DOMAIN Pings, StartPing(n)
  PROVE  NetworkInv'
<1> DEFINE ping == Pings[n]
           c == ping.by
           h == host[c]
           f == Icmp("request", SourceFor(h, ping.dst), ping.dst, 0, 0, ping.big, ping.df, 0)
           p == Process("ping", f, n, ping.count)
           run == Resolve(h, p)
<1>1. Becomes(c, run, wire)
  BY DEF StartPing
<1>2. c \in Computers /\ ping.count \in Int /\ ping.big \in BOOLEAN /\ ping.df \in BOOLEAN
  <2> DEFINE Asked == [by : Computers, dst : Addresses, count : Nat, big : BOOLEAN, df : BOOLEAN]
  <2>1. Pings \in Seq(Asked)
    BY PingsAssumption
  <2> HIDE DEF Asked
  <2>2. ping \in Asked
    BY <2>1
  <2>3. QED BY <2>2 DEF Asked
<1>3. h \in Computing(c, reached, {}) /\ h.me = c /\ h.seq \in Nat
  <2>1. h \in Computing(c, reached, {})
    BY <1>2, NetworkTypes
  <2>2. QED BY <2>1, FieldsOf
<1>4. ping.dst \in Anywhere /\ 0 \in Anywhere
  BY DEF Anywhere
<1>5. f \in Frame(reached) /\ f.dst = ping.dst
  <2>1. SourceFor(h, ping.dst) \in AllSources
    BY <1>2, <1>3, <1>4, SendingLeads DEF SourceFor
  <2>2. 0 \in Nat /\ 0 \in {0} \cup (Computers \X Nat) /\ "request" \in Headers
    BY DEF Headers
  <2>3. f.dst = ping.dst
    BY DEF Icmp
  <2>4. f \in Frame(reached)
    BY <1>2, <1>4, <2>1, <2>2, NewFrames
  <2>5. QED BY <2>3, <2>4
<1> HIDE DEF f
<1>6. p \in AnyProcess(reached)
  <2>1. 0 \in Anywhere /\ 0 \in Nat
    BY DEF Anywhere
  <2>2. QED BY <1>2, <1>5, <2>1 DEF Process, AnyProcess
<1>7. p.kind = "ping" /\ p.stage = "arp" /\ p.n = n /\ p.packet = f /\ p.sent = 0
  BY DEF Process
<1> HIDE DEF p
<1>8. HasWork(p, c, reached)
  BY <1>5, <1>7 DEF HasWork
<1>9. p \in Proc(c, reached) /\ p.sent <= h.seq
  BY <1>3, <1>6, <1>7, <1>8 DEF Proc
<1> HIDE DEF h, c
<1>10. run \in Computing(c, reached, {})
  BY <1>2, <1>3, <1>9, ResolveMay
<1> HIDE DEF run
<1>11. QED BY <1>1, <1>2, <1>10, WiresOf, QuietlyBecomes

(* a cable loses a frame,                                                  *)
LEMMA LosesKeeps ==
  ASSUME NetworkInv, NEW i \in Interfaces, Loses(i)
  PROVE  NetworkInv'
<1>1. /\ wire[i] # <<>> /\ wire' = [wire EXCEPT ![i] = Tail(@)]
      /\ host' = host /\ outcome' = outcome /\ reached' = reached
  BY DEF Loses
<1>2. wire' \in [Interfaces -> Seq(Frame(reached))]
  BY <1>1, WiresOf
<1>3. QED BY <1>1, <1>2 DEF NetworkInv

(* or is unplugged.                                                        *)
LEMMA UnplugKeeps ==
  ASSUME NetworkInv, NEW i, Unplug(i)
  PROVE  NetworkInv'
<1>1. /\ wire' = [wire EXCEPT ![i] = <<>>, ![Peer[i]] = <<>>]
      /\ host' = host /\ outcome' = outcome /\ reached' = reached
  BY DEF Unplug
<1>2. wire' \in [Interfaces -> Seq(Frame(reached))]
  <2>1. <<>> \in Seq(Frame(reached))
    OBVIOUS
  <2>2. QED BY <1>1, <2>1, WiresOf
<1>3. QED BY <1>1, <1>2 DEF NetworkInv

(* The invariant holds at first,                                           *)
LEMMA NetworkStarts ==
  ASSUME Init
  PROVE  NetworkInv
<1>1. /\ host = [c \in Computers |-> NewComputer(c)] /\ wire = [i \in Interfaces |-> <<>>]
      /\ outcome = [n \in DOMAIN Pings |-> <<>>] /\ reached = {}
  BY DEF Init
<1>2. ASSUME NEW c \in Computers
      PROVE  NewComputer(c) \in Computing(c, {}, {}) /\ NewComputer(c).out = <<>> /\ NewComputer(c).ended = <<>>
  <2>1. OnLink \in AllSources
    BY DEF AllSources
  <2>2. /\ <<>> \in Seq(Proc(c, {})) /\ <<>> \in Seq(Frame({}))
        /\ <<>> \in Seq(Outgoing({})) /\ <<>> \in Seq(Ended({}))
    OBVIOUS
  <2>3. NewComputer(c) \in AnyHost(c, {}, {})
    BY <2>1, <2>2 DEF NewComputer, AnyHost
  <2>4. NumbersUsed(NewComputer(c))
    BY DEF NewComputer, NumbersUsed
  <2>5. QED BY <2>3, <2>4 DEF Computing, NewComputer
<1>3. <<>> \in Seq(Frame({})) /\ <<>> \in Seq(Ended({}))
  OBVIOUS
<1>4. wire \in [Interfaces -> Seq(Frame(reached))] /\ outcome \in [DOMAIN Pings -> Seq(Ended(reached))]
  BY <1>1, <1>3
<1>5. QED BY <1>1, <1>2, <1>4 DEF NetworkInv

(* and after every step.                                                   *)
LEMMA NetworkStep ==
  ASSUME PingsGoToHosts, NetworkInv, [Next]_vars
  PROVE  NetworkInv'
<1>1. CASE UNCHANGED vars
  BY <1>1 DEF vars, network, NetworkInv
<1>2. ASSUME NEW c \in Computers, NEW i \in Ips(c), Receives(c, i) PROVE NetworkInv'
  BY <1>2, ReceivesKeeps
<1>3. ASSUME NEW c \in Computers, SendsQueued(c) PROVE NetworkInv'
  BY <1>3, SendsQueuedKeeps
<1>4. ASSUME NEW c \in Computers, NEW k \in DOMAIN host[c].procs, ArpTimesOut(c, k) PROVE NetworkInv'
  BY <1>4, ArpTimesOutKeeps
<1>5. ASSUME NEW c \in Computers, NEW k \in DOMAIN host[c].procs, PingTimesOut(c, k) PROVE NetworkInv'
  BY <1>5, PingTimesOutKeeps
<1>6. ASSUME NEW c \in Computers, NEW k \in DOMAIN host[c].parts, ForgetsFragments(c, k) PROVE NetworkInv'
  BY <1>6, ForgetsFragmentsKeeps
<1>7. ASSUME NEW c \in Computers, NEW ip \in host[c].cache, ForgetsAddress(c, ip) PROVE NetworkInv'
  BY <1>7, ForgetsAddressKeeps
<1>8. ASSUME NEW n \in DOMAIN Pings, StartPing(n) PROVE NetworkInv'
  BY <1>8, StartPingKeeps
<1>9. ASSUME NEW i \in Interfaces, Loses(i) PROVE NetworkInv'
  BY <1>9, LosesKeeps
<1>10. ASSUME NEW i \in Loose, Unplug(i) PROVE NetworkInv'
  BY <1>10, UnplugKeeps
<1>11. ASSUME NEW c \in Computers, Logic(c) PROVE NetworkInv'
  BY <1>2, <1>3, <1>4, <1>5, <1>6, <1>11 DEF Logic
<1>12. CASE Environment
  BY <1>7, <1>8, <1>9, <1>10, <1>12 DEF Environment
<1>13. QED BY <1>1, <1>11, <1>12 DEF Next

(* Whatever is lost, forgotten, late or unplugged, and however the logic   *)
(* of the computers alternates: every echo reply on a wire, in a queue or  *)
(* among the fragments goes back to the sender of a request of its number  *)
(* that was answered; every process that answers has such a request; every *)
(* ping waits under a number that its computer has used; and every address *)
(* is one that the tables and the cables give.  HandleIcmp, RoutePacket    *)
(* and Resume: Computer.logic.                                             *)
THEOREM NetworkInvariant == PingsGoToHosts => (Spec => []NetworkInv)
<1> SUFFICES ASSUME PingsGoToHosts PROVE Spec => []NetworkInv
  OBVIOUS
<1>1. Init => NetworkInv
  BY NetworkStarts
<1>2. NetworkInv /\ [Next]_vars => NetworkInv'
  BY NetworkStep
<1>3. QED BY <1>1, <1>2, PTL DEF Spec

(* A ping reports a reply only if the computer that it goes to has had an  *)
(* echo request of that ping's computer, with the number of the try or a   *)
(* later one: ping_reply_from.                                             *)
THEOREM AcceptedRepliesAreReal == PingsGoToHosts => (Spec => []RepliesAreReal)
<1> SUFFICES ASSUME PingsGoToHosts PROVE Spec => []RepliesAreReal
  OBVIOUS
<1>1. ASSUME NetworkInv PROVE RepliesAreReal
  <2> SUFFICES ASSUME NEW n \in DOMAIN Pings, NEW k \in DOMAIN outcome[n],
                      outcome[n][k].result = "reply"
               PROVE  \E r \in reached : /\ r.by = Pings[n].dst
                                         /\ r.to \in Ips(Pings[n].by)
                                         /\ r.seq >= outcome[n][k].sent
    BY DEF RepliesAreReal
  <2>1. outcome[n] \in Seq(Ended(reached)) /\ outcome[n][k].n = n
    BY <1>1 DEF NetworkInv
  <2>2. outcome[n][k] \in Ended(reached)
    BY <2>1
  <2>3. WasAnswered(n, outcome[n][k].sent, reached)
    BY <2>1, <2>2 DEF Ended
  <2>4. QED BY <2>3 DEF WasAnswered
<1>2. NetworkInv => RepliesAreReal
  BY <1>1
<1>3. QED BY NetworkInvariant, <1>2, PTL

=============================================================================
