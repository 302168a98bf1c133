------------------------ MODULE WirelessFrequencyProofs ------------------------
(***************************************************************************)
(* Proofs about the wireless connections, for any stations, frequencies,   *)
(* places, lengths of frames, messages and events of the user.             *)
(***************************************************************************)
EXTENDS WirelessFrequency, SequenceLemmas

-----------------------------------------------------------------------------
(* The inductive invariant.  What is in the air is stated of N sides S and *)
(* M connections C, since within a frame they pass through values that are *)
(* no state.                                                               *)

SideRecords ==
    [connection : Nat, station : Stations, since : Nat, toSend : Seq(Nat),
     toReceive : Seq(Nat), receivedIds : SUBSET Nat, taken : Seq(Nat)]
Packets == [id : Nat, message : Nat, center : Places, radius : 0 .. LongestLine + 1]
ConnectionRecords(N) ==
    [frequency : Frequencies, sides : Seq(1 .. N), packets : Seq(Packets), sentPacketId : Nat]
SenderRecords(N) == [side : 1 .. N, sidesMade : 1 .. N]

HeardOf(side) == side.taken \o side.toReceive
Waiting(side) == ToSet(side.toSend)

(* Types.  A number a side remembers has been given by its connection.     *)
AirTypes(N, M, S, C) ==
    /\ S \in [1 .. N -> SideRecords] /\ C \in [1 .. M -> ConnectionRecords(N)]
    /\ senders \in Seq(SenderRecords(N))
    /\ \A k \in 1 .. N :
          /\ S[k].connection \in 1 .. M
          /\ \A x \in S[k].receivedIds : x < C[S[k].connection].sentPacketId

(* A side is in the list of its own connection only, and once.             *)
SidesMatch(N, M, S, C) ==
    \A c \in 1 .. M :
        IsInjective(C[c].sides) /\ \A k \in ToSet(C[c].sides) : k \in 1 .. N /\ S[k].connection = c

(* A message waits where it was sent, once.                                *)
WaitingInv(N, S) ==
    \A k \in 1 .. N :
        IsInjective(S[k].toSend) /\ \A n \in Waiting(S[k]) : n \in 1 .. Len(senders) /\ senders[n].side = k

(* A packet flies in the connection of its sender, where it does not wait  *)
(* any more.                                                               *)
FlyingInv(M, S, C) ==
    \A c \in 1 .. M : \A i \in 1 .. Len(C[c].packets) :
        LET p == C[c].packets[i]
        IN  /\ p.id < C[c].sentPacketId /\ p.message \in 1 .. Len(senders)
            /\ S[senders[p.message].side].connection = c
            /\ p.message \notin Waiting(S[senders[p.message].side])

(* No two packets of a connection have one number or one message.          *)
DistinctInv(M, C) ==
    \A c \in 1 .. M : \A i, j \in 1 .. Len(C[c].packets) :
        i # j => /\ C[c].packets[i].id # C[c].packets[j].id
                 /\ C[c].packets[i].message # C[c].packets[j].message

(* What a side has heard was sent by another, waits no more, and is new.   *)
HeardInv(N, S) ==
    \A k \in 1 .. N :
        /\ IsInjective(HeardOf(S[k]))
        /\ \A n \in ToSet(HeardOf(S[k])) :
              n \in 1 .. Len(senders) /\ senders[n].side # k /\ n \notin Waiting(S[senders[n].side])

(* A tuned side remembers the number of every packet in the air that it    *)
(* has heard or sent.                                                      *)
RememberedInv(M, S, C) ==
    \A c \in 1 .. M : \A k \in ToSet(C[c].sides) : \A i \in 1 .. Len(C[c].packets) :
        LET p == C[c].packets[i]
        IN  p.message \in ToSet(HeardOf(S[k])) \/ senders[p.message].side = k => p.id \in S[k].receivedIds

(* GoneWasHeard, of these sides and connections.                           *)
GoneInv(M, S, C) ==
    \A c \in 1 .. M : \A k \in ToSet(C[c].sides) : \A x \in S[k].since .. C[c].sentPacketId - 1 :
        x \in S[k].receivedIds \/ \E i \in 1 .. Len(C[c].packets) : C[c].packets[i].id = x

Air(N, M, S, C) ==
    /\ AirTypes(N, M, S, C) /\ SidesMatch(N, M, S, C) /\ WaitingInv(N, S) /\ FlyingInv(M, S, C)
    /\ DistinctInv(M, C) /\ HeardInv(N, S) /\ RememberedInv(M, S, C) /\ GoneInv(M, S, C)

(* Between two frames no packet is wider than the screen.                  *)
OnScreenInv ==
    \A c \in DOMAIN connections : \A i \in 1 .. Len(connections[c].packets) :
        connections[c].packets[i].radius \in 0 .. LongestLine

StationRecords == [side : Nat, place : Places, isOn : BOOLEAN, isBlocked : BOOLEAN, owned : BOOLEAN]

(* The interfaces and the lists of the connections agree.                  *)
StationInv ==
    /\ station \in [Stations -> StationRecords]
    /\ \A s \in Stations : Connected(s) =>
         /\ station[s].side \in 1 .. Len(sides)
         /\ sides[station[s].side].station = s
         /\ station[s].side \in ToSet(connections[sides[station[s].side].connection].sides)
    /\ \A c \in DOMAIN connections : \A k \in ToSet(connections[c].sides) :
         k # NoSide /\ station[sides[k].station].side = k

(* The list of the user interface has one connection of a frequency, and   *)
(* all that its computers are tuned to.                                    *)
ListedInv ==
    /\ listed \subseteq DOMAIN connections
    /\ \A c, d \in listed : connections[c].frequency = connections[d].frequency => c = d
    /\ \A s \in computers : Connected(s) => sides[station[s].side].connection \in listed

ScreenTypes ==
    /\ computers \subseteq Stations /\ running \subseteq Stations
    /\ Len(senders) <= MaxMessages /\ events \in 0 .. MaxEvents /\ beat \in BOOLEAN
    /\ raised \in {None, "DeviceAlreadyConnectedError", "InterfaceNotConnectedError"}

IInv ==
    /\ sides \in Seq(SideRecords) /\ connections \in Seq(ConnectionRecords(Len(sides)))
    /\ Air(Len(sides), Len(connections), sides, connections)
    /\ OnScreenInv /\ StationInv /\ ListedInv /\ ScreenTypes

-----------------------------------------------------------------------------
(* What the parts of a frame do. *)

LEMMA Constants == /\ LongestLine \in Nat /\ Near \in Nat /\ MaxStep \in Nat /\ MaxMessages \in Nat
                   /\ MaxEvents \in Nat /\ Places \subseteq 0 .. LongestLine
  BY WirelessAssumption

(* T and y are the sides and a connection after side k has sent what waits. *)
HasSent(T, y, S, x, k) ==
    /\ \A j \in DOMAIN S : j # k => T[j] = S[j]
    /\ T[k].connection = S[k].connection /\ T[k].station = S[k].station /\ T[k].since = S[k].since
    /\ T[k].toReceive = S[k].toReceive /\ T[k].taken = S[k].taken /\ T[k].toSend = <<>>
    /\ \A i : i \in T[k].receivedIds <=>
          i \in S[k].receivedIds \/ i \in x.sentPacketId .. x.sentPacketId + Len(S[k].toSend) - 1
    /\ y.frequency = x.frequency /\ y.sides = x.sides
    /\ y.sentPacketId = x.sentPacketId + Len(S[k].toSend)
    /\ Len(y.packets) = Len(x.packets) + Len(S[k].toSend)
    /\ \A i \in 1 .. Len(x.packets) : y.packets[i] = x.packets[i]
    /\ \A i \in 1 .. Len(S[k].toSend) :
          /\ y.packets[Len(x.packets) + i].id = x.sentPacketId + i - 1
          /\ y.packets[Len(x.packets) + i].message = S[k].toSend[i]

LEMMA SendEffect ==
  ASSUME NEW N \in Nat, NEW S \in [1 .. N -> SideRecords], NEW x \in ConnectionRecords(N),
         NEW k \in 1 .. N, NEW b, b = SendPacketsFromSide([sides |-> S, connection |-> x], k),
         station \in [Stations -> StationRecords]
  PROVE  /\ b = [sides |-> b.sides, connection |-> b.connection]
         /\ b.sides \in [1 .. N -> SideRecords] /\ b.connection \in ConnectionRecords(N)
         /\ HasSent(b.sides, b.connection, S, x, k)
<1> DEFINE w == S[k].toSend
           v == x.packets
           first == x.sentPacketId
           numbers == first .. first + Len(w) - 1
           seen == S[k].receivedIds \cup numbers
           place == station[S[k].station].place
           new == [i \in DOMAIN w |-> [id |-> first + i - 1, message |-> w[i], center |-> place, radius |-> 0]]
           T == [S EXCEPT ![k].toSend = <<>>, ![k].receivedIds = @ \cup numbers]
           t == [S[k] EXCEPT !.toSend = <<>>, !.receivedIds = seen]
           y == [x EXCEPT !.packets = @ \o new, !.sentPacketId = @ + Len(w)]
<1>1. b = [sides |-> T, connection |-> y]
  BY DEF SendPacketsFromSide
<1>2. T = [S EXCEPT ![k] = t]
  OBVIOUS
<1>3. y = [x EXCEPT !.packets = v \o new, !.sentPacketId = first + Len(w)]
  OBVIOUS
<1> HIDE DEF T, t, y, new, place, seen, numbers, first, v, w
<1>4. b.sides = T /\ b.connection = y
  BY <1>1
<1>5. /\ S[k] \in SideRecords /\ S[k].station \in Stations /\ w \in Seq(Nat) /\ S[k].receivedIds \subseteq Nat
      /\ first \in Nat /\ v \in Seq(Packets)
  BY DEF SideRecords, ConnectionRecords, w, v, first
<1>6. place \in Places
  BY <1>5 DEF StationRecords, place
<1>7. DOMAIN w = 1 .. Len(w) /\ Len(w) \in Nat /\ Len(v) \in Nat
  BY <1>5
<1>8. numbers \subseteq Nat
  BY <1>5, <1>7 DEF numbers
<1>9. seen \in SUBSET Nat /\ <<>> \in Seq(Nat)
  <2>1. seen \subseteq Nat
    BY <1>5, <1>8 DEF seen
  <2>2. QED BY <2>1
<1>10. \A i \in 1 .. Len(w) : w[i] \in Nat /\ first + i - 1 \in Nat
  BY <1>5, <1>7
<1>11. 0 \in 0 .. LongestLine + 1
  BY Constants
<1>12. \A i \in 1 .. Len(w) :
        [id |-> first + i - 1, message |-> w[i], center |-> place, radius |-> 0] \in Packets
  BY <1>6, <1>10, <1>11 DEF Packets
<1>13. new \in [1 .. Len(w) -> Packets]
  BY <1>7, <1>12 DEF new
<1>14. new \in Seq(Packets) /\ Len(new) = Len(w)
  BY <1>7, <1>13, FunctionIsSequence
<1>15. \A i \in 1 .. Len(w) : new[i].id = first + i - 1 /\ new[i].message = w[i]
  BY <1>7 DEF new
<1>16. /\ v \o new \in Seq(Packets) /\ Len(v \o new) = Len(v) + Len(w)
       /\ \A i \in 1 .. Len(v) : (v \o new)[i] = v[i]
       /\ \A i \in 1 .. Len(w) : (v \o new)[Len(v) + i] = new[i]
  <2>1. v \in Seq(Packets) /\ new \in Seq(Packets)
    BY <1>5, <1>14
  <2>2. /\ v \o new \in Seq(Packets) /\ Len(v \o new) = Len(v) + Len(new)
        /\ \A i \in 1 .. Len(v) : (v \o new)[i] = v[i]
        /\ \A i \in 1 .. Len(new) : (v \o new)[Len(v) + i] = new[i]
    BY ONLY <2>1, JoinedPlaces
  <2>3. QED BY <2>2, <1>14
<1>18. /\ y \in ConnectionRecords(N) /\ y.packets = v \o new /\ y.sentPacketId = first + Len(w)
       /\ y.frequency = x.frequency /\ y.sides = x.sides
  <2>1. first + Len(w) \in Nat
    BY <1>5, <1>7
  <2>2. QED BY <2>1, <1>3, <1>16 DEF ConnectionRecords
<1>19. /\ t \in SideRecords /\ t.toSend = <<>> /\ t.receivedIds = seen
       /\ t.connection = S[k].connection /\ t.station = S[k].station /\ t.since = S[k].since
       /\ t.toReceive = S[k].toReceive /\ t.taken = S[k].taken
  BY <1>5, <1>9 DEF SideRecords, t
<1>20. T[k] = t /\ T \in [1 .. N -> SideRecords] /\ \A j \in 1 .. N : j # k => T[j] = S[j]
  BY <1>2, <1>19
<1>21. HasSent(T, y, S, x, k)
  <2>1. \A i : i \in T[k].receivedIds <=> i \in S[k].receivedIds \/ i \in first .. first + Len(w) - 1
    BY <1>19, <1>20 DEF seen, numbers
  <2>2. Len(y.packets) = Len(v) + Len(w) /\ \A i \in 1 .. Len(v) : y.packets[i] = v[i]
    BY <1>16, <1>18
  <2>3. \A i \in 1 .. Len(w) : /\ y.packets[Len(v) + i].id = first + i - 1
                               /\ y.packets[Len(v) + i].message = w[i]
    BY <1>15, <1>16, <1>18
  <2>4. DOMAIN S = 1 .. N
    OBVIOUS
  <2>5. QED BY <1>18, <1>19, <1>20, <2>1, <2>2, <2>3, <2>4 DEF HasSent, w, v, first
<1>22. QED BY <1>1, <1>4, <1>18, <1>20, <1>21

(* What the members of Air say of types: of all, of one side, of one       *)
(* connection and of one packet.                                           *)
LEMMA AirTyped ==
  ASSUME NEW N \in Nat, NEW M \in Nat, NEW S, NEW C, Air(N, M, S, C)
  PROVE  /\ S \in [1 .. N -> SideRecords] /\ C \in [1 .. M -> ConnectionRecords(N)]
         /\ senders \in Seq(SenderRecords(N)) /\ Len(senders) \in Nat
<1>1. AirTypes(N, M, S, C)
  BY DEF Air
<1>2. QED BY <1>1 DEF AirTypes

LEMMA SenderFacts ==
  ASSUME NEW N \in Nat, NEW M \in Nat, NEW S, NEW C, Air(N, M, S, C)
  PROVE  \A n \in 1 .. Len(senders) : senders[n].side \in 1 .. N
<1>1. ASSUME NEW n \in 1 .. Len(senders) PROVE senders[n].side \in 1 .. N
  <2>1. senders[n] \in SenderRecords(N)
    BY AirTyped
  <2>2. QED BY <2>1 DEF SenderRecords
<1>2. QED BY <1>1

LEMMA SideFacts ==
  ASSUME NEW N \in Nat, NEW M \in Nat, NEW S, NEW C, Air(N, M, S, C)
  PROVE  \A k \in 1 .. N :
           /\ S[k].connection \in 1 .. M /\ S[k].receivedIds \subseteq Nat /\ S[k].since \in Nat
           /\ S[k].station \in Stations
           /\ S[k].toSend \in Seq(Nat) /\ S[k].taken \in Seq(Nat) /\ S[k].toReceive \in Seq(Nat)
           /\ HeardOf(S[k]) \in Seq(Nat)
           /\ \A x \in S[k].receivedIds : x < C[S[k].connection].sentPacketId
<1>1. ASSUME NEW k \in 1 .. N
      PROVE  /\ S[k].connection \in 1 .. M /\ S[k].receivedIds \subseteq Nat /\ S[k].since \in Nat
             /\ S[k].station \in Stations
             /\ S[k].toSend \in Seq(Nat) /\ S[k].taken \in Seq(Nat) /\ S[k].toReceive \in Seq(Nat)
             /\ HeardOf(S[k]) \in Seq(Nat)
             /\ \A x \in S[k].receivedIds : x < C[S[k].connection].sentPacketId
  <2>1. S[k] \in SideRecords
    BY AirTyped
  <2>2. /\ S[k].receivedIds \subseteq Nat /\ S[k].since \in Nat /\ S[k].station \in Stations
        /\ S[k].toSend \in Seq(Nat) /\ S[k].taken \in Seq(Nat) /\ S[k].toReceive \in Seq(Nat)
    BY <2>1 DEF SideRecords
  <2>3. HeardOf(S[k]) \in Seq(Nat)
    BY <2>2 DEF HeardOf
  <2>4. AirTypes(N, M, S, C)
    BY DEF Air
  <2>5. QED BY <2>2, <2>3, <2>4 DEF AirTypes
<1>2. QED BY <1>1

LEMMA MatchFacts ==
  ASSUME NEW N \in Nat, NEW M \in Nat, NEW S, NEW C, Air(N, M, S, C)
  PROVE  \A c \in 1 .. M : \A k \in ToSet(C[c].sides) : k \in 1 .. N /\ S[k].connection = c
<1>1. SidesMatch(N, M, S, C)
  BY DEF Air
<1>2. QED BY <1>1 DEF SidesMatch

LEMMA ConnectionFacts ==
  ASSUME NEW N \in Nat, NEW M \in Nat, NEW S, NEW C, Air(N, M, S, C)
  PROVE  \A c \in 1 .. M :
           /\ C[c].frequency \in Frequencies /\ C[c].sides \in Seq(1 .. N)
           /\ C[c].packets \in Seq(Packets) /\ Len(C[c].packets) \in Nat /\ C[c].sentPacketId \in Nat
<1>1. ASSUME NEW c \in 1 .. M
      PROVE  /\ C[c].frequency \in Frequencies /\ C[c].sides \in Seq(1 .. N)
             /\ C[c].packets \in Seq(Packets) /\ Len(C[c].packets) \in Nat /\ C[c].sentPacketId \in Nat
  <2>1. C[c] \in ConnectionRecords(N)
    BY AirTyped
  <2>2. QED BY <2>1 DEF ConnectionRecords
<1>2. QED BY <1>1

LEMMA PacketFacts ==
  ASSUME NEW N \in Nat, NEW M \in Nat, NEW S, NEW C, Air(N, M, S, C)
  PROVE  \A c \in 1 .. M : \A i \in 1 .. Len(C[c].packets) :
           /\ C[c].packets[i].id \in Nat /\ C[c].packets[i].message \in Nat
           /\ C[c].packets[i].center \in Places /\ C[c].packets[i].radius \in 0 .. LongestLine + 1
           /\ C[c].packets[i].message \in 1 .. Len(senders)
           /\ senders[C[c].packets[i].message].side \in 1 .. N
           /\ S[senders[C[c].packets[i].message].side].connection = c
<1>1. ASSUME NEW c \in 1 .. M, NEW i \in 1 .. Len(C[c].packets)
      PROVE  /\ C[c].packets[i].id \in Nat /\ C[c].packets[i].message \in Nat
             /\ C[c].packets[i].center \in Places /\ C[c].packets[i].radius \in 0 .. LongestLine + 1
             /\ C[c].packets[i].message \in 1 .. Len(senders)
             /\ senders[C[c].packets[i].message].side \in 1 .. N
             /\ S[senders[C[c].packets[i].message].side].connection = c
  <2>1. C[c].packets \in Seq(Packets)
    BY ConnectionFacts
  <2>2. C[c].packets[i] \in Packets
    BY <2>1
  <2>3. FlyingInv(M, S, C)
    BY DEF Air
  <2>4. /\ C[c].packets[i].message \in 1 .. Len(senders)
        /\ S[senders[C[c].packets[i].message].side].connection = c
    BY <2>3 DEF FlyingInv
  <2>5. senders[C[c].packets[i].message].side \in 1 .. N
    BY <2>4, SenderFacts
  <2>6. QED BY <2>2, <2>4, <2>5 DEF Packets
<1>2. QED BY <1>1

(* What waits at a side that sends is new in the air.                      *)
LEMMA SendKeeps ==
  ASSUME NEW N \in Nat, NEW M \in Nat, NEW S, NEW C, Air(N, M, S, C),
         NEW c \in 1 .. M, NEW k \in ToSet(C[c].sides),
         NEW T \in [1 .. N -> SideRecords], NEW y \in ConnectionRecords(N),
         HasSent(T, y, S, C[c], k)
  PROVE  Air(N, M, T, [C EXCEPT ![c] = y])
<1> DEFINE D == [C EXCEPT ![c] = y]
           w == S[k].toSend
           first == C[c].sentPacketId
           old == Len(C[c].packets)
<1>1. D[c] = y /\ (\A d \in 1 .. M : d # c => D[d] = C[d]) /\ D \in [1 .. M -> ConnectionRecords(N)]
  BY AirTyped
<1> HIDE DEF D
<1>2. /\ k \in 1 .. N /\ S[k].connection = c /\ first \in Nat /\ old \in Nat
      /\ w \in Seq(Nat) /\ Len(w) \in Nat /\ DOMAIN w = 1 .. Len(w)
      /\ DOMAIN S = 1 .. N
  <2>1. k \in 1 .. N /\ S[k].connection = c /\ first \in Nat /\ old \in Nat
    BY MatchFacts, ConnectionFacts
  <2>2. w \in Seq(Nat) /\ DOMAIN S = 1 .. N
    BY <2>1, SideFacts, AirTyped
  <2>3. QED BY <2>1, <2>2
<1> HIDE DEF w, first, old
<1>3. /\ \A i \in 1 .. Len(w) : w[i] \in Waiting(S[k]) /\ w[i] \in 1 .. Len(senders) /\ senders[w[i]].side = k
      /\ \A i, j \in 1 .. Len(w) : i # j => w[i] # w[j]
  <2>1. WaitingInv(N, S)
    BY DEF Air
  <2>2. /\ IsInjective(w) /\ \A n \in Waiting(S[k]) : n \in 1 .. Len(senders) /\ senders[n].side = k
    BY <2>1, <1>2 DEF WaitingInv, w
  <2>3. \A i \in 1 .. Len(w) : w[i] \in Waiting(S[k])
    BY <1>2 DEF Waiting, ToSet, w
  <2>4. QED BY <2>2, <2>3, <1>2 DEF IsInjective
<1>4. \A j \in 1 .. N : /\ T[j].connection = S[j].connection /\ T[j].since = S[j].since
                        /\ HeardOf(T[j]) = HeardOf(S[j])
                        /\ \A n \in Waiting(T[j]) : n \in Waiting(S[j])
                        /\ IsInjective(T[j].toSend) \/ T[j].toSend = S[j].toSend
                        /\ \A x \in S[j].receivedIds : x \in T[j].receivedIds
                        /\ j # k => T[j] = S[j]
  <2>1. ASSUME NEW j \in 1 .. N, j # k PROVE T[j] = S[j]
    BY <2>1, <1>2 DEF HasSent
  <2>2. /\ T[k].connection = S[k].connection /\ T[k].since = S[k].since
        /\ T[k].toReceive = S[k].toReceive /\ T[k].taken = S[k].taken /\ T[k].toSend = <<>>
        /\ \A x \in S[k].receivedIds : x \in T[k].receivedIds
    BY DEF HasSent
  <2>3. HeardOf(T[k]) = HeardOf(S[k]) /\ Waiting(T[k]) = {} /\ IsInjective(T[k].toSend)
    BY <2>2 DEF HeardOf, Waiting, ToSet, IsInjective
  <2>4. QED BY <2>1, <2>2, <2>3
<1>5. /\ Waiting(T[k]) = {}
      /\ \A x \in T[k].receivedIds : x \in S[k].receivedIds \/ x \in first .. first + Len(w) - 1
      /\ \A i \in 1 .. Len(w) : (first + i) - 1 \in T[k].receivedIds
  <2>1. T[k].toSend = <<>>
    BY DEF HasSent
  <2>2. \A x : x \in T[k].receivedIds <=> x \in S[k].receivedIds \/ x \in first .. first + Len(w) - 1
    BY DEF HasSent, w, first
  <2>3. \A i \in 1 .. Len(w) : (first + i) - 1 \in first .. first + Len(w) - 1
    BY <1>2
  <2>4. QED BY <2>1, <2>2, <2>3 DEF Waiting, ToSet
<1>6. /\ \A d \in 1 .. M : D[d].sides = C[d].sides /\ (d # c => D[d].sentPacketId = C[d].sentPacketId)
      /\ D[c].sentPacketId = first + Len(w)
  <2>1. y.sides = C[c].sides /\ y.sentPacketId = first + Len(w)
    BY DEF HasSent, w, first
  <2>2. QED BY <2>1, <1>1
<1>7. ASSUME NEW d \in 1 .. M, NEW i \in 1 .. Len(D[d].packets)
      PROVE  \/ i \in 1 .. Len(C[d].packets) /\ D[d].packets[i] = C[d].packets[i]
             \/ /\ d = c
                /\ \E j \in 1 .. Len(w) : /\ i = old + j /\ D[d].packets[i].id = (first + j) - 1
                                          /\ D[d].packets[i].message = w[j]
  <2>1. CASE d # c
    BY <2>1, <1>1
  <2>2. CASE d = c
    <3>1. /\ Len(y.packets) = old + Len(w) /\ \A n \in 1 .. old : y.packets[n] = C[c].packets[n]
          /\ \A n \in 1 .. Len(w) : y.packets[old + n].id = first + n - 1 /\ y.packets[old + n].message = w[n]
      BY DEF HasSent, w, first, old
    <3>2. i \in 1 .. (old + Len(w)) /\ D[d] = y
      BY <2>2, <1>1, <3>1
    <3>3. CASE i <= old
      <4>1. i \in 1 .. old
        BY <3>2, <3>3, <1>2
      <4>2. QED BY <2>2, <3>1, <3>2, <4>1 DEF old
    <3>4. CASE ~(i <= old)
      <4>1. (i - old) \in 1 .. Len(w) /\ i = old + (i - old)
        BY <3>2, <3>4, <1>2
      <4>2. \A n \in 1 .. Len(w) : first + n - 1 = (first + n) - 1
        BY <1>2
      <4>3. QED BY <2>2, <3>1, <3>2, <4>1, <4>2
    <3>5. QED BY <3>3, <3>4
  <2>3. QED BY <2>1, <2>2
<1>8. \A d \in 1 .. M : \A i \in 1 .. Len(C[d].packets) :
        i \in 1 .. Len(D[d].packets) /\ D[d].packets[i] = C[d].packets[i]
  <2>1. Len(y.packets) = old + Len(w) /\ \A n \in 1 .. old : y.packets[n] = C[c].packets[n]
    BY DEF HasSent, w, old
  <2>2. \A i \in 1 .. old : i \in 1 .. (old + Len(w))
    BY <1>2
  <2>3. \A i \in 1 .. Len(C[c].packets) : i \in 1 .. Len(D[c].packets) /\ D[c].packets[i] = C[c].packets[i]
    BY <2>1, <2>2, <1>1 DEF old
  <2>4. QED BY <2>3, <1>1
<1>9. \A i \in 1 .. Len(w) : old + i \in 1 .. Len(D[c].packets) /\ D[c].packets[old + i].id = (first + i) - 1
  <2>1. /\ Len(y.packets) = old + Len(w)
        /\ \A n \in 1 .. Len(w) : y.packets[old + n].id = first + n - 1
    BY DEF HasSent, w, first, old
  <2>2. ASSUME NEW i \in 1 .. Len(w)
        PROVE  old + i \in 1 .. (old + Len(w)) /\ first + i - 1 = (first + i) - 1
    <3>1. i \in Nat /\ Len(w) \in Nat /\ old \in Nat /\ first \in Nat
      BY <1>2
    <3>2. QED BY <3>1
  <2>3. QED BY <2>1, <2>2, <1>1
<1>10. AirTypes(N, M, T, D)
  <2>1. ASSUME NEW j \in 1 .. N PROVE T[j].connection \in 1 .. M
    BY <1>4, SideFacts
  <2>2. ASSUME NEW j \in 1 .. N, NEW x \in T[j].receivedIds PROVE x < D[T[j].connection].sentPacketId
    <3>1. CASE x \in S[j].receivedIds
      <4>1. x < C[S[j].connection].sentPacketId /\ x \in Nat /\ S[j].connection \in 1 .. M
        BY <3>1, SideFacts
      <4>2. CASE S[j].connection # c
        BY <4>1, <4>2, <1>4, <1>6
      <4>3. CASE S[j].connection = c
        <5>1. x < first
          BY <4>1, <4>3 DEF first
        <5>2. QED BY <5>1, <4>1, <4>3, <1>2, <1>4, <1>6
      <4>4. QED BY <4>2, <4>3
    <3>2. CASE x \notin S[j].receivedIds
      <4>1. j = k /\ x \in first .. first + Len(w) - 1
        BY <3>2, <2>2, <1>4, <1>5
      <4>2. T[j].connection = c
        BY <4>1, <1>2, <1>4
      <4>3. x < first + Len(w)
        BY <4>1, <1>2
      <4>4. QED BY <4>2, <4>3, <1>6
    <3>3. QED BY <3>1, <3>2
  <2>3. senders \in Seq(SenderRecords(N))
    BY AirTyped
  <2>4. QED BY <2>1, <2>2, <2>3, <1>1 DEF AirTypes
<1>11. SidesMatch(N, M, T, D)
  <2>1. SidesMatch(N, M, S, C)
    BY DEF Air
  <2>2. QED BY <2>1, <1>4, <1>6 DEF SidesMatch
<1>12. WaitingInv(N, T)
  <2>1. WaitingInv(N, S)
    BY DEF Air
  <2>2. QED BY <2>1, <1>4 DEF WaitingInv
<1>13. FlyingInv(M, T, D)
  <2>1. FlyingInv(M, S, C)
    BY DEF Air
  <2>2. ASSUME NEW d \in 1 .. M, NEW i \in 1 .. Len(D[d].packets)
        PROVE  /\ D[d].packets[i].id < D[d].sentPacketId /\ D[d].packets[i].message \in 1 .. Len(senders)
               /\ T[senders[D[d].packets[i].message].side].connection = d
               /\ D[d].packets[i].message \notin Waiting(T[senders[D[d].packets[i].message].side])
    <3>1. CASE i \in 1 .. Len(C[d].packets) /\ D[d].packets[i] = C[d].packets[i]
      <4> DEFINE p == C[d].packets[i]
      <4>1. /\ p.id < C[d].sentPacketId /\ p.message \in 1 .. Len(senders)
            /\ S[senders[p.message].side].connection = d
            /\ p.message \notin Waiting(S[senders[p.message].side])
        BY <2>1, <3>1 DEF FlyingInv
      <4>2. p.id \in Nat /\ C[d].sentPacketId \in Nat /\ senders[p.message].side \in 1 .. N
        BY <3>1, PacketFacts, ConnectionFacts
      <4>3. D[d].sentPacketId = C[d].sentPacketId \/ (d = c /\ D[d].sentPacketId = first + Len(w))
        BY <1>6
      <4>4. p.id < D[d].sentPacketId
        <5>1. CASE D[d].sentPacketId = C[d].sentPacketId
          BY <4>1, <5>1
        <5>2. CASE d = c /\ D[d].sentPacketId = first + Len(w)
          <6>1. p.id < first
            BY <4>1, <5>2 DEF first
          <6> HIDE DEF p
          <6>2. p.id < first + Len(w)
            BY <4>2, <6>1, <1>2
          <6>3. QED BY <5>2, <6>2
        <5>3. QED BY <4>3, <5>1, <5>2
      <4> HIDE DEF p
      <4>5. QED BY <4>1, <4>2, <4>4, <3>1, <1>4 DEF p
    <3>2. CASE /\ d = c
               /\ \E j \in 1 .. Len(w) : /\ i = old + j /\ D[d].packets[i].id = (first + j) - 1
                                         /\ D[d].packets[i].message = w[j]
      <4>1. PICK j \in 1 .. Len(w) : /\ i = old + j /\ D[d].packets[i].id = (first + j) - 1
                                     /\ D[d].packets[i].message = w[j]
        BY <3>2
      <4>2. (first + j) - 1 < first + Len(w)
        BY <1>2
      <4>3. QED BY <3>2, <4>1, <4>2, <1>2, <1>3, <1>4, <1>5, <1>6, SMTT(30)
    <3>3. QED BY <3>1, <3>2, <1>7
  <2>3. QED BY <2>2 DEF FlyingInv
<1>14. DistinctInv(M, D)
  <2>1. DistinctInv(M, C) /\ FlyingInv(M, S, C)
    BY DEF Air
  <2>2. ASSUME NEW d \in 1 .. M, NEW i \in 1 .. Len(D[d].packets), NEW j \in 1 .. Len(D[d].packets), i # j,
               i \in 1 .. Len(C[d].packets), D[d].packets[i] = C[d].packets[i]
        PROVE  /\ D[d].packets[i].id # D[d].packets[j].id
               /\ D[d].packets[i].message # D[d].packets[j].message
    <3>1. CASE j \in 1 .. Len(C[d].packets) /\ D[d].packets[j] = C[d].packets[j]
      BY <2>1, <2>2, <3>1 DEF DistinctInv
    <3>2. CASE /\ d = c
               /\ \E n \in 1 .. Len(w) : /\ j = old + n /\ D[d].packets[j].id = (first + n) - 1
                                         /\ D[d].packets[j].message = w[n]
      <4>1. PICK n \in 1 .. Len(w) : /\ D[d].packets[j].id = (first + n) - 1
                                     /\ D[d].packets[j].message = w[n]
        BY <3>2
      <4> DEFINE p == C[d].packets[i]
      <4>2. p.id < first /\ p.message \notin Waiting(S[senders[p.message].side]) /\ p.id \in Nat
        BY <2>1, <2>2, <3>2, PacketFacts DEF FlyingInv, first
      <4> HIDE DEF p
      <4>3. p.id # (first + n) - 1
        BY <4>2, <1>2
      <4>4. p.message # w[n]
        BY <4>2, <1>3
      <4>5. QED BY <4>1, <4>3, <4>4, <2>2 DEF p
    <3>3. QED BY <3>1, <3>2, <1>7
  <2>3. ASSUME NEW i \in 1 .. Len(D[c].packets), NEW j \in 1 .. Len(D[c].packets), i # j,
               \E n \in 1 .. Len(w) : /\ i = old + n /\ D[c].packets[i].id = (first + n) - 1
                                      /\ D[c].packets[i].message = w[n],
               \E n \in 1 .. Len(w) : /\ j = old + n /\ D[c].packets[j].id = (first + n) - 1
                                      /\ D[c].packets[j].message = w[n]
        PROVE  /\ D[c].packets[i].id # D[c].packets[j].id
               /\ D[c].packets[i].message # D[c].packets[j].message
    <3>1. PICK n \in 1 .. Len(w) : /\ i = old + n /\ D[c].packets[i].id = (first + n) - 1
                                   /\ D[c].packets[i].message = w[n]
      BY <2>3
    <3>2. PICK m \in 1 .. Len(w) : /\ j = old + m /\ D[c].packets[j].id = (first + m) - 1
                                   /\ D[c].packets[j].message = w[m]
      BY <2>3
    <3>3. n # m
      BY <3>1, <3>2, <2>3
    <3>4. (first + n) - 1 # (first + m) - 1
      BY <3>3, <1>2, SMTT(30)
    <3>5. QED BY <3>1, <3>2, <3>3, <3>4, <1>3
  <2>4. ASSUME NEW d \in 1 .. M, NEW i \in 1 .. Len(D[d].packets), NEW j \in 1 .. Len(D[d].packets), i # j
        PROVE  /\ D[d].packets[i].id # D[d].packets[j].id
               /\ D[d].packets[i].message # D[d].packets[j].message
    <3>1. CASE i \in 1 .. Len(C[d].packets) /\ D[d].packets[i] = C[d].packets[i]
      BY <2>2, <2>4, <3>1
    <3>2. CASE j \in 1 .. Len(C[d].packets) /\ D[d].packets[j] = C[d].packets[j]
      BY <2>2, <2>4, <3>2
    <3>3. CASE /\ ~(i \in 1 .. Len(C[d].packets) /\ D[d].packets[i] = C[d].packets[i])
               /\ ~(j \in 1 .. Len(C[d].packets) /\ D[d].packets[j] = C[d].packets[j])
      <4>1. d = c
        BY <3>3, <1>7
      <4>2. \E n \in 1 .. Len(w) : /\ i = old + n /\ D[c].packets[i].id = (first + n) - 1
                                   /\ D[c].packets[i].message = w[n]
        BY <3>3, <1>7, <4>1
      <4>3. \E n \in 1 .. Len(w) : /\ j = old + n /\ D[c].packets[j].id = (first + n) - 1
                                   /\ D[c].packets[j].message = w[n]
        BY <3>3, <1>7, <4>1
      <4>4. i \in 1 .. Len(D[c].packets) /\ j \in 1 .. Len(D[c].packets)
        BY <4>1
      <4>5. QED BY <2>3, <2>4, <4>1, <4>2, <4>3, <4>4
    <3>4. QED BY <3>1, <3>2, <3>3
  <2>5. QED BY <2>4 DEF DistinctInv
<1>15. HeardInv(N, T)
  <2>1. HeardInv(N, S)
    BY DEF Air
  <2>2. ASSUME NEW j \in 1 .. N, NEW n \in ToSet(HeardOf(T[j]))
        PROVE  n \in 1 .. Len(senders) /\ senders[n].side # j /\ n \notin Waiting(T[senders[n].side])
    <3>1. n \in 1 .. Len(senders) /\ senders[n].side # j /\ n \notin Waiting(S[senders[n].side])
      BY <2>1, <1>4 DEF HeardInv
    <3>2. senders[n].side \in 1 .. N
      BY <3>1, SenderFacts
    <3>3. QED BY <3>1, <3>2, <1>4
  <2>3. \A j \in 1 .. N : IsInjective(HeardOf(T[j]))
    BY <2>1, <1>4 DEF HeardInv
  <2>4. QED BY <2>2, <2>3 DEF HeardInv
<1>16. RememberedInv(M, T, D)
  <2>1. RememberedInv(M, S, C) /\ HeardInv(N, S)
    BY DEF Air
  <2>2. ASSUME NEW d \in 1 .. M, NEW j \in ToSet(D[d].sides), NEW i \in 1 .. Len(D[d].packets),
               \/ D[d].packets[i].message \in ToSet(HeardOf(T[j]))
               \/ senders[D[d].packets[i].message].side = j
        PROVE  D[d].packets[i].id \in T[j].receivedIds
    <3>1. j \in 1 .. N /\ j \in ToSet(C[d].sides) /\ HeardOf(T[j]) = HeardOf(S[j])
      <4>1. j \in ToSet(C[d].sides)
        BY <1>6
      <4>2. j \in 1 .. N
        BY <4>1, MatchFacts
      <4>3. QED BY <4>1, <4>2, <1>4
    <3>2. CASE i \in 1 .. Len(C[d].packets) /\ D[d].packets[i] = C[d].packets[i]
      <4>1. C[d].packets[i].id \in S[j].receivedIds
        BY <2>1, <2>2, <3>1, <3>2 DEF RememberedInv
      <4>2. QED BY <4>1, <3>1, <3>2, <1>4
    <3>3. CASE /\ d = c
               /\ \E n \in 1 .. Len(w) : /\ i = old + n /\ D[d].packets[i].id = (first + n) - 1
                                         /\ D[d].packets[i].message = w[n]
      <4>1. PICK n \in 1 .. Len(w) : /\ D[d].packets[i].id = (first + n) - 1
                                     /\ D[d].packets[i].message = w[n]
        BY <3>3
      <4>2. w[n] \notin ToSet(HeardOf(S[j]))
        BY <2>1, <3>1, <1>3 DEF HeardInv
      <4>3. j = k
        BY <2>2, <3>1, <4>1, <4>2, <1>3
      <4>4. QED BY <4>1, <4>3, <1>5
    <3>4. QED BY <3>2, <3>3, <1>7
  <2>3. QED BY <2>2 DEF RememberedInv
<1>17. GoneInv(M, T, D)
  <2>1. GoneInv(M, S, C)
    BY DEF Air
  <2>2. ASSUME NEW d \in 1 .. M, NEW j \in ToSet(D[d].sides), NEW x \in T[j].since .. D[d].sentPacketId - 1
        PROVE  x \in T[j].receivedIds \/ \E i \in 1 .. Len(D[d].packets) : D[d].packets[i].id = x
    <3>1. j \in 1 .. N /\ j \in ToSet(C[d].sides) /\ T[j].since = S[j].since /\ S[j].since \in Nat
          /\ C[d].sentPacketId \in Nat
      <4>1. j \in ToSet(C[d].sides)
        BY <1>6
      <4>2. j \in 1 .. N
        BY <4>1, MatchFacts
      <4>3. C[d].sentPacketId \in Nat
        BY ConnectionFacts
      <4>4. T[j].since = S[j].since /\ S[j].since \in Nat
        BY <4>2, <1>4, SideFacts
      <4>5. QED BY <4>1, <4>2, <4>3, <4>4
    <3>2. CASE x \in S[j].since .. C[d].sentPacketId - 1
      <4>1. x \in S[j].receivedIds \/ \E i \in 1 .. Len(C[d].packets) : C[d].packets[i].id = x
        BY <2>1, <3>1, <3>2 DEF GoneInv
      <4>2. QED BY <4>1, <3>1, <1>4, <1>8
    <3>3. CASE x \notin S[j].since .. C[d].sentPacketId - 1
      <4>1. d = c /\ D[d].sentPacketId = first + Len(w)
        <5>1. CASE D[d].sentPacketId = C[d].sentPacketId
          BY <5>1, <2>2, <3>1, <3>3
        <5>2. QED BY <5>1, <1>6
      <4>2. x \in Int /\ S[j].since <= x /\ x < first + Len(w) /\ ~(x < first)
        BY <2>2, <3>1, <3>3, <4>1, <1>2 DEF first
      <4>3. ((x - first) + 1) \in 1 .. Len(w) /\ (first + ((x - first) + 1)) - 1 = x
        BY <4>2, <1>2, SMTT(30)
      <4>4. PICK i \in 1 .. Len(D[c].packets) : D[c].packets[i].id = x
        BY <4>3, <1>9
      <4>5. QED BY <4>1, <4>4
    <3>4. QED BY <3>2, <3>3
  <2>3. QED BY <2>2 DEF GoneInv
<1>18. QED BY <1>10, <1>11, <1>12, <1>13, <1>14, <1>15, <1>16, <1>17 DEF Air, D

(* The packets q are some of the packets r, as far as numbers and messages *)
(* go.                                                                     *)
SomeOf(q, r) ==
    /\ \A i \in 1 .. Len(q) : \E a \in 1 .. Len(r) : q[i].id = r[a].id /\ q[i].message = r[a].message
    /\ \A i, j \in 1 .. Len(q) : i # j =>
         \E a, b \in 1 .. Len(r) : /\ a # b /\ q[i].id = r[a].id /\ q[j].id = r[b].id
                                   /\ q[i].message = r[a].message /\ q[j].message = r[b].message

(* The sides of c remember the packets of r that are not in q.             *)
OthersHeard(q, r, S, K) ==
    \A k \in K : \A a \in 1 .. Len(r) :
        r[a].id \in S[k].receivedIds \/ \E i \in 1 .. Len(q) : q[i].id = r[a].id

(* A connection may lose packets that all its sides have heard.            *)
LEMMA FewerPackets ==
  ASSUME NEW N \in Nat, NEW M \in Nat, NEW S, NEW C, Air(N, M, S, C), NEW c \in 1 .. M,
         NEW y \in ConnectionRecords(N), y.sides = C[c].sides, y.sentPacketId = C[c].sentPacketId,
         SomeOf(y.packets, C[c].packets), OthersHeard(y.packets, C[c].packets, S, ToSet(C[c].sides))
  PROVE  Air(N, M, S, [C EXCEPT ![c] = y])
<1> DEFINE D == [C EXCEPT ![c] = y]
<1>1. D[c] = y /\ (\A d \in 1 .. M : d # c => D[d] = C[d]) /\ D \in [1 .. M -> ConnectionRecords(N)]
  BY AirTyped
<1> HIDE DEF D
<1>2. \A d \in 1 .. M : D[d].sides = C[d].sides /\ D[d].sentPacketId = C[d].sentPacketId
  BY <1>1
<1>3. ASSUME NEW d \in 1 .. M, NEW i \in 1 .. Len(D[d].packets)
      PROVE  \E a \in 1 .. Len(C[d].packets) : /\ D[d].packets[i].id = C[d].packets[a].id
                                               /\ D[d].packets[i].message = C[d].packets[a].message
  <2>1. CASE d = c
    <3>1. i \in 1 .. Len(y.packets) /\ D[d] = y
      BY <2>1, <1>1
    <3>2. \E a \in 1 .. Len(C[c].packets) : /\ y.packets[i].id = C[c].packets[a].id
                                            /\ y.packets[i].message = C[c].packets[a].message
      BY <3>1 DEF SomeOf
    <3>3. QED BY <2>1, <3>1, <3>2
  <2>2. CASE d # c
    BY <2>2, <1>1
  <2>3. QED BY <2>1, <2>2
<1>4. ASSUME NEW d \in 1 .. M, NEW i \in 1 .. Len(D[d].packets), NEW j \in 1 .. Len(D[d].packets), i # j
      PROVE  \E a, b \in 1 .. Len(C[d].packets) :
                /\ a # b /\ D[d].packets[i].id = C[d].packets[a].id /\ D[d].packets[j].id = C[d].packets[b].id
                /\ D[d].packets[i].message = C[d].packets[a].message
                /\ D[d].packets[j].message = C[d].packets[b].message
  <2>1. CASE d = c
    <3>1. i \in 1 .. Len(y.packets) /\ j \in 1 .. Len(y.packets) /\ D[d] = y
      BY <2>1, <1>1
    <3>2. \E a, b \in 1 .. Len(C[c].packets) :
             /\ a # b /\ y.packets[i].id = C[c].packets[a].id /\ y.packets[j].id = C[c].packets[b].id
             /\ y.packets[i].message = C[c].packets[a].message
             /\ y.packets[j].message = C[c].packets[b].message
      BY <1>4, <3>1 DEF SomeOf
    <3>3. QED BY <2>1, <3>1, <3>2
  <2>2. CASE d # c
    BY <1>4, <2>2, <1>1
  <2>3. QED BY <2>1, <2>2
<1>5. AirTypes(N, M, S, D)
  BY <1>1, <1>2 DEF Air, AirTypes
<1>6. SidesMatch(N, M, S, D)
  BY <1>2 DEF Air, SidesMatch
<1>7. WaitingInv(N, S) /\ HeardInv(N, S)
  BY DEF Air
<1>8. FlyingInv(M, S, D)
  <2>1. FlyingInv(M, S, C)
    BY DEF Air
  <2>2. ASSUME NEW d \in 1 .. M, NEW i \in 1 .. Len(D[d].packets)
        PROVE  /\ D[d].packets[i].id < D[d].sentPacketId /\ D[d].packets[i].message \in 1 .. Len(senders)
               /\ S[senders[D[d].packets[i].message].side].connection = d
               /\ D[d].packets[i].message \notin Waiting(S[senders[D[d].packets[i].message].side])
    <3>1. PICK a \in 1 .. Len(C[d].packets) : /\ D[d].packets[i].id = C[d].packets[a].id
                                              /\ D[d].packets[i].message = C[d].packets[a].message
      BY <1>3
    <3>2. /\ C[d].packets[a].id < C[d].sentPacketId /\ C[d].packets[a].message \in 1 .. Len(senders)
          /\ S[senders[C[d].packets[a].message].side].connection = d
          /\ C[d].packets[a].message \notin Waiting(S[senders[C[d].packets[a].message].side])
      BY <2>1 DEF FlyingInv
    <3>3. QED BY <3>1, <3>2, <1>2
  <2>3. QED BY <2>2 DEF FlyingInv
<1>9. DistinctInv(M, D)
  <2>1. DistinctInv(M, C)
    BY DEF Air
  <2>2. ASSUME NEW d \in 1 .. M, NEW i \in 1 .. Len(D[d].packets), NEW j \in 1 .. Len(D[d].packets), i # j
        PROVE  D[d].packets[i].id # D[d].packets[j].id /\ D[d].packets[i].message # D[d].packets[j].message
    <3>1. PICK a, b \in 1 .. Len(C[d].packets) :
             /\ a # b /\ D[d].packets[i].id = C[d].packets[a].id /\ D[d].packets[j].id = C[d].packets[b].id
             /\ D[d].packets[i].message = C[d].packets[a].message
             /\ D[d].packets[j].message = C[d].packets[b].message
      BY <1>4, <2>2
    <3>2. C[d].packets[a].id # C[d].packets[b].id /\ C[d].packets[a].message # C[d].packets[b].message
      BY <2>1, <3>1 DEF DistinctInv
    <3>3. QED BY <3>1, <3>2
  <2>3. QED BY <2>2 DEF DistinctInv
<1>10. RememberedInv(M, S, D)
  <2>1. RememberedInv(M, S, C)
    BY DEF Air
  <2>2. QED BY <2>1, <1>2, <1>3 DEF RememberedInv
<1>11. GoneInv(M, S, D)
  <2>1. GoneInv(M, S, C)
    BY DEF Air
  <2>2. ASSUME NEW d \in 1 .. M, NEW k \in ToSet(D[d].sides), NEW x \in S[k].since .. D[d].sentPacketId - 1
        PROVE  x \in S[k].receivedIds \/ \E i \in 1 .. Len(D[d].packets) : D[d].packets[i].id = x
    <3>1. x \in S[k].receivedIds \/ \E i \in 1 .. Len(C[d].packets) : C[d].packets[i].id = x
      BY <2>1, <2>2, <1>2 DEF GoneInv
    <3>2. CASE d # c
      BY <3>1, <3>2, <1>1
    <3>3. CASE d = c
      <4>1. k \in ToSet(C[c].sides)
        BY <3>3, <1>2
      <4>2. D[d].packets = y.packets
        BY <3>3, <1>1
      <4>3. ASSUME NEW a \in 1 .. Len(C[c].packets), C[c].packets[a].id = x
            PROVE  x \in S[k].receivedIds \/ \E i \in 1 .. Len(y.packets) : y.packets[i].id = x
        BY <4>1, <4>3 DEF OthersHeard
      <4>4. x \in S[k].receivedIds \/ \E i \in 1 .. Len(y.packets) : y.packets[i].id = x
        BY <3>1, <3>3, <4>3
      <4>5. QED BY <4>2, <4>4
    <3>4. QED BY <3>2, <3>3
  <2>3. QED BY <2>2 DEF GoneInv
<1>12. QED BY <1>5, <1>6, <1>7, <1>8, <1>9, <1>10, <1>11 DEF Air, D

(* What a computer reads, or throws away, changes nothing in the air.      *)
LEMMA LessHeard ==
  ASSUME NEW N \in Nat, NEW M \in Nat, NEW S, NEW C, Air(N, M, S, C), NEW T \in [1 .. N -> SideRecords],
         \A k \in 1 .. N : /\ T[k].connection = S[k].connection /\ T[k].since = S[k].since
                           /\ T[k].toSend = S[k].toSend /\ T[k].receivedIds = S[k].receivedIds
                           /\ IsInjective(HeardOf(T[k])) /\ ToSet(HeardOf(T[k])) \subseteq ToSet(HeardOf(S[k]))
  PROVE  Air(N, M, T, C)
<1>1. \A k \in 1 .. N : Waiting(T[k]) = Waiting(S[k])
  BY DEF Waiting
<1>2. AirTypes(N, M, T, C)
  BY DEF Air, AirTypes
<1>3. SidesMatch(N, M, T, C)
  BY DEF Air, SidesMatch
<1>4. WaitingInv(N, T)
  BY <1>1 DEF Air, WaitingInv
<1>5. FlyingInv(M, T, C)
  <2>1. FlyingInv(M, S, C)
    BY DEF Air
  <2>2. \A c \in 1 .. M : \A i \in 1 .. Len(C[c].packets) : senders[C[c].packets[i].message].side \in 1 .. N
    BY PacketFacts
  <2>3. QED BY <2>1, <2>2, <1>1 DEF FlyingInv
<1>6. HeardInv(N, T)
  <2>1. HeardInv(N, S)
    BY DEF Air
  <2>2. \A n \in 1 .. Len(senders) : senders[n].side \in 1 .. N
    BY SenderFacts
  <2>3. QED BY <2>1, <2>2, <1>1 DEF HeardInv
<1>7. \A c \in 1 .. M : \A k \in ToSet(C[c].sides) : k \in 1 .. N
  BY MatchFacts
<1>8. RememberedInv(M, T, C)
  <2>1. RememberedInv(M, S, C)
    BY DEF Air
  <2>2. QED BY <2>1, <1>7 DEF RememberedInv
<1>9. GoneInv(M, T, C)
  <2>1. GoneInv(M, S, C)
    BY DEF Air
  <2>2. QED BY <2>1, <1>7 DEF GoneInv
<1>10. DistinctInv(M, C)
  BY DEF Air
<1>11. QED BY <1>2, <1>3, <1>4, <1>5, <1>6, <1>8, <1>9, <1>10 DEF Air

(* A packet's circle grows, and nothing else of it changes.                *)
LEMMA GrownEffect ==
  ASSUME NEW v \in Seq(Packets), NEW elapsed \in Nat
  PROVE  /\ Grown(v, elapsed) \in Seq(Packets) /\ Len(Grown(v, elapsed)) = Len(v)
         /\ \A i \in 1 .. Len(v) : /\ Grown(v, elapsed)[i].id = v[i].id
                                   /\ Grown(v, elapsed)[i].message = v[i].message
<1> DEFINE new == Grown(v, elapsed)
<1>1. DOMAIN v = 1 .. Len(v) /\ Len(v) \in Nat
  OBVIOUS
<1>2. ASSUME NEW r \in 0 .. LongestLine + 1 PROVE Wider(r, elapsed) \in 0 .. LongestLine + 1
  <2>1. LongestLine \in Nat
    BY Constants
  <2>2. QED BY <2>1 DEF Wider
<1>3. ASSUME NEW i \in 1 .. Len(v)
      PROVE  /\ [v[i] EXCEPT !.radius = Wider(@, elapsed)] \in Packets
             /\ [v[i] EXCEPT !.radius = Wider(@, elapsed)].id = v[i].id
             /\ [v[i] EXCEPT !.radius = Wider(@, elapsed)].message = v[i].message
  <2>1. v[i] \in Packets
    OBVIOUS
  <2>2. Wider(v[i].radius, elapsed) \in 0 .. LongestLine + 1
    BY <2>1, <1>2 DEF Packets
  <2>3. QED BY <2>1, <2>2 DEF Packets
<1>4. new = [i \in 1 .. Len(v) |-> [v[i] EXCEPT !.radius = Wider(@, elapsed)]]
  BY <1>1 DEF Grown
<1> HIDE DEF new
<1>5. new \in [1 .. Len(v) -> Packets]
  BY <1>3, <1>4
<1>6. new \in Seq(Packets) /\ Len(new) = Len(v)
  BY <1>1, <1>5, FunctionIsSequence
<1>7. \A i \in 1 .. Len(v) : new[i].id = v[i].id /\ new[i].message = v[i].message
  BY <1>3, <1>4
<1>8. QED BY <1>6, <1>7 DEF new

(* What side k, once t, is after it was offered the packets v: it has      *)
(* heard those that are near and whose number it did not remember.         *)
HasReceived(t, side, v) ==
    /\ t.connection = side.connection /\ t.station = side.station /\ t.since = side.since
    /\ t.toSend = side.toSend
    /\ \A x : x \in t.receivedIds <=>
         \/ x \in side.receivedIds
         \/ \E a \in 1 .. Len(v) : v[a].id = x /\ IsNear(side, v[a]) /\ v[a].id \notin side.receivedIds
    /\ \A n : n \in ToSet(HeardOf(t)) <=>
         \/ n \in ToSet(HeardOf(side))
         \/ \E a \in 1 .. Len(v) : v[a].message = n /\ IsNear(side, v[a]) /\ v[a].id \notin side.receivedIds
    /\ (/\ IsInjective(HeardOf(side))
        /\ \A a, b \in 1 .. Len(v) : a # b => v[a].message # v[b].message
        /\ \A a \in 1 .. Len(v) : v[a].id \notin side.receivedIds => v[a].message \notin ToSet(HeardOf(side)))
       => IsInjective(HeardOf(t))

LEMMA ReceiveEffect ==
  ASSUME NEW side \in SideRecords, NEW v \in Seq(Packets)
  PROVE  Receive(side, v) \in SideRecords /\ HasReceived(Receive(side, v), side, v)
<1> DEFINE near == {p \in ToSet(v) : IsNear(side, p) /\ p.id \notin side.receivedIds}
           heard == Heard(side, v)
           msgs == [i \in DOMAIN heard |-> heard[i].message]
           ids == {p.id : p \in ToSet(heard)}
           t == Receive(side, v)
<1>1. t = [side EXCEPT !.toReceive = @ \o msgs, !.receivedIds = @ \cup ids]
  BY DEF Receive
<1>2. heard = Only(v, near)
  BY DEF Heard
<1> HIDE DEF near, heard, msgs, ids, t
<1>3. /\ side.receivedIds \subseteq Nat /\ side.toReceive \in Seq(Nat) /\ side.taken \in Seq(Nat)
  BY DEF SideRecords
<1>4. /\ Len(v) \in Nat /\ DOMAIN v = 1 .. Len(v) /\ \A a \in 1 .. Len(v) : v[a] \in Packets
      /\ \A e : e \in ToSet(v) <=> \E a \in 1 .. Len(v) : v[a] = e
  BY ElementsByPlace
<1>5. /\ heard \in Seq(Packets) /\ ToSet(heard) = ToSet(v) \cap near
      /\ \A i, j \in 1 .. Len(heard) : i # j =>
           \E a, b \in 1 .. Len(v) : a # b /\ heard[i] = v[a] /\ heard[j] = v[b]
  <2>1. v \in Seq(Packets)
    OBVIOUS
  <2>2. /\ Only(v, near) \in Seq(Packets) /\ ToSet(Only(v, near)) = ToSet(v) \cap near
        /\ \A i, j \in 1 .. Len(Only(v, near)) : i # j =>
             \E a, b \in 1 .. Len(v) : a # b /\ Only(v, near)[i] = v[a] /\ Only(v, near)[j] = v[b]
    BY ONLY <2>1, OnlyApart
  <2>3. QED BY <2>2, <1>2
<1>6. /\ Len(heard) \in Nat /\ DOMAIN heard = 1 .. Len(heard)
      /\ \A e : e \in ToSet(heard) <=> \E i \in 1 .. Len(heard) : heard[i] = e
  BY <1>5, ElementsByPlace
<1>7. \A e : e \in ToSet(heard) <=>
        \E a \in 1 .. Len(v) : v[a] = e /\ IsNear(side, v[a]) /\ v[a].id \notin side.receivedIds
  BY <1>4, <1>5 DEF near
<1>8. /\ \A i \in 1 .. Len(heard) : heard[i].message \in Nat /\ heard[i].id \in Nat
      /\ \A e \in ToSet(heard) : e.id \in Nat
  <2>1. \A i \in 1 .. Len(heard) : heard[i] \in Packets
    BY <1>5
  <2>2. \A e \in ToSet(heard) : e \in Packets
    BY <2>1, <1>6
  <2>3. \A e \in Packets : e.id \in Nat /\ e.message \in Nat
    BY DEF Packets
  <2>4. QED BY <2>1, <2>2, <2>3
<1>9. msgs \in Seq(Nat) /\ Len(msgs) = Len(heard) /\ \A i \in 1 .. Len(heard) : msgs[i] = heard[i].message
  <2>1. msgs \in [1 .. Len(heard) -> Nat]
    BY <1>6, <1>8 DEF msgs
  <2>2. msgs \in Seq(Nat) /\ Len(msgs) = Len(heard)
    BY <2>1, <1>6, FunctionIsSequence
  <2>3. QED BY <2>2, <1>6 DEF msgs
<1>10. ids \subseteq Nat
  BY <1>8 DEF ids
<1>11. /\ t \in SideRecords /\ t.connection = side.connection /\ t.station = side.station
       /\ t.since = side.since /\ t.toSend = side.toSend /\ t.taken = side.taken
       /\ t.toReceive = side.toReceive \o msgs /\ t.receivedIds = side.receivedIds \cup ids
  <2>1. side.toReceive \o msgs \in Seq(Nat)
    BY <1>3, <1>9
  <2>2. side.receivedIds \cup ids \in SUBSET Nat
    BY <1>3, <1>10
  <2>3. QED BY <1>1, <2>1, <2>2 DEF SideRecords
<1>12. HeardOf(side) \in Seq(Nat) /\ HeardOf(t) = HeardOf(side) \o msgs
  <2> DEFINE x == side.taken
             y == side.toReceive
  <2>1. x \in Seq(Nat) /\ y \in Seq(Nat) /\ msgs \in Seq(Nat)
    BY <1>3, <1>9
  <2> HIDE DEF x, y
  <2>2. (x \o y) \o msgs = x \o (y \o msgs)
    BY ONLY <2>1, ConcatAssociative, SMTT(30)
  <2>3. HeardOf(t) = x \o (y \o msgs) /\ HeardOf(side) = x \o y
    BY <1>11 DEF HeardOf, x, y
  <2>4. x \o y \in Seq(Nat)
    BY <2>1
  <2>5. QED BY <2>2, <2>3, <2>4
<1>13. \A n : n \in ToSet(msgs) <=>
         \E a \in 1 .. Len(v) : v[a].message = n /\ IsNear(side, v[a]) /\ v[a].id \notin side.receivedIds
  <2>1. \A n : n \in ToSet(msgs) <=> \E i \in 1 .. Len(heard) : heard[i].message = n
    <3>1. DOMAIN msgs = 1 .. Len(heard)
      BY <1>9
    <3>2. QED BY <3>1, <1>9 DEF ToSet
  <2>2. ASSUME NEW n PROVE (\E i \in 1 .. Len(heard) : heard[i].message = n) <=> \E e \in ToSet(heard) : e.message = n
    BY <1>6
  <2>3. ASSUME NEW n
        PROVE  (\E e \in ToSet(heard) : e.message = n) <=>
               \E a \in 1 .. Len(v) : v[a].message = n /\ IsNear(side, v[a]) /\ v[a].id \notin side.receivedIds
    BY <1>7
  <2>4. QED BY <2>1, <2>2, <2>3
<1>14. \A x : x \in ids <=>
         \E a \in 1 .. Len(v) : v[a].id = x /\ IsNear(side, v[a]) /\ v[a].id \notin side.receivedIds
  BY <1>7 DEF ids
<1>15. /\ ToSet(HeardOf(t)) = ToSet(HeardOf(side)) \cup ToSet(msgs)
       /\ (IsInjective(HeardOf(side)) /\ IsInjective(msgs) /\ ToSet(HeardOf(side)) \cap ToSet(msgs) = {})
            => IsInjective(HeardOf(t))
  <2> DEFINE old == HeardOf(side)
  <2>1. old \in Seq(Nat) /\ msgs \in Seq(Nat)
    BY <1>9, <1>12
  <2> HIDE DEF old
  <2>2. /\ ToSet(old \o msgs) = ToSet(old) \cup ToSet(msgs)
        /\ (IsInjective(old) /\ IsInjective(msgs) /\ ToSet(old) \cap ToSet(msgs) = {}) => IsInjective(old \o msgs)
    BY ONLY <2>1, JoinedInjective
  <2>3. QED BY <2>2, <1>12 DEF old
<1>16. ASSUME \A a, b \in 1 .. Len(v) : a # b => v[a].message # v[b].message
       PROVE  IsInjective(msgs)
  <2>1. ASSUME NEW i \in 1 .. Len(heard), NEW j \in 1 .. Len(heard), i # j PROVE msgs[i] # msgs[j]
    <3>1. PICK a, b \in 1 .. Len(v) : a # b /\ heard[i] = v[a] /\ heard[j] = v[b]
      BY <2>1, <1>5
    <3>2. v[a].message # v[b].message
      BY <3>1, <1>16
    <3>3. msgs[i] = heard[i].message /\ msgs[j] = heard[j].message
      BY <1>9
    <3>4. QED BY <3>1, <3>2, <3>3
  <2>2. DOMAIN msgs = 1 .. Len(heard)
    BY <1>9, ElementsByPlace
  <2>3. QED BY <2>1, <2>2 DEF IsInjective
<1>17. ASSUME IsInjective(HeardOf(side)),
              \A a, b \in 1 .. Len(v) : a # b => v[a].message # v[b].message,
              \A a \in 1 .. Len(v) : v[a].id \notin side.receivedIds => v[a].message \notin ToSet(HeardOf(side))
       PROVE  IsInjective(HeardOf(t))
  <2>1. ToSet(HeardOf(side)) \cap ToSet(msgs) = {}
    BY <1>13, <1>17
  <2>2. QED BY <2>1, <1>15, <1>16, <1>17
<1>18. \A x : x \in t.receivedIds <=>
         \/ x \in side.receivedIds
         \/ \E a \in 1 .. Len(v) : v[a].id = x /\ IsNear(side, v[a]) /\ v[a].id \notin side.receivedIds
  BY <1>11, <1>14
<1>19. \A n : n \in ToSet(HeardOf(t)) <=>
         \/ n \in ToSet(HeardOf(side))
         \/ \E a \in 1 .. Len(v) : v[a].message = n /\ IsNear(side, v[a]) /\ v[a].id \notin side.receivedIds
  BY <1>13, <1>15
<1>20. HasReceived(t, side, v)
  BY <1>11, <1>17, <1>18, <1>19 DEF HasReceived
<1>21. QED BY <1>11, <1>20 DEF t

(* What the sides of a connection hear is new to them, since they remember *)
(* the number of all they have heard.                                      *)
AllReceive(T, S, K, J, v) ==
    /\ \A k \in J : HasReceived(T[k], S[k], v)
    /\ \A k \in K \ J : T[k] = S[k]

LEMMA ReceiveKeeps ==
  ASSUME NEW N \in Nat, NEW M \in Nat, NEW S, NEW C, Air(N, M, S, C), NEW c \in 1 .. M,
         NEW T \in [1 .. N -> SideRecords],
         AllReceive(T, S, 1 .. N, ToSet(C[c].sides), C[c].packets)
  PROVE  Air(N, M, T, C)
<1> DEFINE v == C[c].packets
           J == ToSet(C[c].sides)
<1>1. /\ v \in Seq(Packets) /\ Len(v) \in Nat /\ J \subseteq 1 .. N /\ \A k \in J : S[k].connection = c
  <2>1. v \in Seq(Packets) /\ Len(v) \in Nat
    BY ConnectionFacts
  <2>2. \A k \in J : k \in 1 .. N /\ S[k].connection = c
    BY MatchFacts
  <2>3. QED BY <2>1, <2>2
<1>2. \A a \in 1 .. Len(v) :
        /\ v[a].id \in Nat /\ v[a].id < C[c].sentPacketId /\ v[a].message \in 1 .. Len(senders)
        /\ senders[v[a].message].side \in 1 .. N
        /\ v[a].message \notin Waiting(S[senders[v[a].message].side])
  <2>1. FlyingInv(M, S, C)
    BY DEF Air
  <2>2. QED BY <2>1, PacketFacts DEF FlyingInv
<1>3. \A a, b \in 1 .. Len(v) : a # b => v[a].id # v[b].id /\ v[a].message # v[b].message
  BY DEF Air, DistinctInv
<1>4. \A k \in J : \A a \in 1 .. Len(v) :
        v[a].message \in ToSet(HeardOf(S[k])) \/ senders[v[a].message].side = k => v[a].id \in S[k].receivedIds
  BY DEF Air, RememberedInv
<1>5. (\A k \in J : HasReceived(T[k], S[k], v)) /\ \A k \in 1 .. N : k \notin J => T[k] = S[k]
  BY DEF AllReceive
<1> HIDE DEF v, J
<1>6. ASSUME NEW k \in J
      PROVE  /\ T[k].connection = S[k].connection /\ T[k].station = S[k].station /\ T[k].since = S[k].since
             /\ T[k].toSend = S[k].toSend
             /\ \A x : x \in T[k].receivedIds <=>
                  \/ x \in S[k].receivedIds
                  \/ \E a \in 1 .. Len(v) : v[a].id = x /\ IsNear(S[k], v[a]) /\ v[a].id \notin S[k].receivedIds
             /\ \A n : n \in ToSet(HeardOf(T[k])) <=>
                  \/ n \in ToSet(HeardOf(S[k]))
                  \/ \E a \in 1 .. Len(v) : v[a].message = n /\ IsNear(S[k], v[a]) /\ v[a].id \notin S[k].receivedIds
  BY <1>5, <1>6 DEF HasReceived
<1>7. ASSUME NEW k \in 1 .. N
      PROVE  /\ T[k].connection = S[k].connection /\ T[k].since = S[k].since /\ T[k].toSend = S[k].toSend
             /\ Waiting(T[k]) = Waiting(S[k]) /\ \A x \in S[k].receivedIds : x \in T[k].receivedIds
             /\ \A x \in T[k].receivedIds : x \in S[k].receivedIds \/ (k \in J /\ \E a \in 1 .. Len(v) : v[a].id = x)
  <2>1. CASE k \in J
    BY <2>1, <1>6 DEF Waiting
  <2>2. CASE k \notin J
    BY <2>2, <1>5
  <2>3. QED BY <2>1, <2>2
<1>8. ASSUME NEW k \in J PROVE IsInjective(HeardOf(T[k]))
  <2>1. IsInjective(HeardOf(S[k]))
    BY <1>1 DEF Air, HeardInv
  <2>2. HasReceived(T[k], S[k], v)
    BY <1>5
  <2>3. \A a \in 1 .. Len(v) : v[a].id \notin S[k].receivedIds => v[a].message \notin ToSet(HeardOf(S[k]))
    BY <1>4
  <2>4. QED BY <2>1, <2>2, <2>3, <1>3 DEF HasReceived
<1>9. AirTypes(N, M, T, C)
  <2>1. AirTypes(N, M, S, C)
    BY DEF Air
  <2>2. ASSUME NEW k \in 1 .. N, NEW x \in T[k].receivedIds PROVE x < C[T[k].connection].sentPacketId
    <3>1. CASE x \in S[k].receivedIds
      BY <2>1, <3>1, <1>7 DEF AirTypes
    <3>2. CASE k \in J /\ \E a \in 1 .. Len(v) : v[a].id = x
      BY <3>2, <1>1, <1>2, <1>7, ZenonT(60)
    <3>3. QED BY <3>1, <3>2, <1>7
  <2>3. QED BY <2>1, <2>2, <1>7 DEF AirTypes
<1>10. SidesMatch(N, M, T, C)
  BY <1>7 DEF Air, SidesMatch
<1>11. WaitingInv(N, T)
  BY <1>7 DEF Air, WaitingInv
<1>12. FlyingInv(M, T, C)
  <2>1. FlyingInv(M, S, C)
    BY DEF Air
  <2>2. \A d \in 1 .. M : \A i \in 1 .. Len(C[d].packets) : senders[C[d].packets[i].message].side \in 1 .. N
    BY PacketFacts
  <2>3. QED BY <2>1, <2>2, <1>7 DEF FlyingInv
<1>13. DistinctInv(M, C)
  BY DEF Air
<1>14. HeardInv(N, T)
  <2>1. HeardInv(N, S)
    BY DEF Air
  <2>2. \A n \in 1 .. Len(senders) : senders[n].side \in 1 .. N
    BY SenderFacts
  <2>3. ASSUME NEW k \in J, NEW n \in ToSet(HeardOf(T[k]))
        PROVE  n \in 1 .. Len(senders) /\ senders[n].side # k /\ n \notin Waiting(S[senders[n].side])
    <3>1. CASE n \in ToSet(HeardOf(S[k]))
      BY <3>1, <2>1, <1>1 DEF HeardInv
    <3>2. CASE \E a \in 1 .. Len(v) : v[a].message = n /\ IsNear(S[k], v[a]) /\ v[a].id \notin S[k].receivedIds
      BY <3>2, <1>2, <1>4
    <3>3. QED BY <3>1, <3>2, <1>6, <2>3
  <2>4. ASSUME NEW k \in 1 .. N
        PROVE  /\ IsInjective(HeardOf(T[k]))
               /\ \A n \in ToSet(HeardOf(T[k])) :
                     n \in 1 .. Len(senders) /\ senders[n].side # k /\ n \notin Waiting(T[senders[n].side])
    <3>1. CASE k \in J
      BY <3>1, <2>2, <2>3, <1>7, <1>8
    <3>2. CASE k \notin J
      BY <3>2, <2>1, <2>2, <1>5, <1>7 DEF HeardInv
    <3>3. QED BY <3>1, <3>2
  <2>5. QED BY <2>4 DEF HeardInv
<1>15. RememberedInv(M, T, C)
  <2>1. RememberedInv(M, S, C)
    BY DEF Air
  <2>2. ASSUME NEW d \in 1 .. M, NEW k \in ToSet(C[d].sides), NEW i \in 1 .. Len(C[d].packets),
               \/ C[d].packets[i].message \in ToSet(HeardOf(T[k]))
               \/ senders[C[d].packets[i].message].side = k
        PROVE  C[d].packets[i].id \in T[k].receivedIds
    <3>1. k \in 1 .. N /\ S[k].connection = d
      <4>1. SidesMatch(N, M, S, C)
        BY DEF Air
      <4>2. QED BY <4>1 DEF SidesMatch
    <3>2. CASE \/ C[d].packets[i].message \in ToSet(HeardOf(S[k]))
               \/ senders[C[d].packets[i].message].side = k
      <4>1. C[d].packets[i].id \in S[k].receivedIds
        BY <2>1, <3>2 DEF RememberedInv
      <4>2. QED BY <4>1, <3>1, <1>7
    <3>3. CASE /\ C[d].packets[i].message \notin ToSet(HeardOf(S[k]))
               /\ senders[C[d].packets[i].message].side # k
      <4>1. C[d].packets[i].message \in ToSet(HeardOf(T[k])) /\ k \in J
        BY <2>2, <3>1, <3>3, <1>5
      <4>2. d = c /\ i \in 1 .. Len(v) /\ C[d].packets = v
        BY <4>1, <3>1, <1>1 DEF v
      <4>3. PICK a \in 1 .. Len(v) : /\ v[a].message = C[d].packets[i].message
                                     /\ IsNear(S[k], v[a]) /\ v[a].id \notin S[k].receivedIds
        BY <4>1, <3>3, <1>6, ZenonT(60)
      <4>4. a = i
        BY <4>2, <4>3, <1>3
      <4>5. v[a].id \in T[k].receivedIds
        BY <4>1, <4>3, <1>6
      <4>6. QED BY <4>2, <4>4, <4>5
    <3>4. QED BY <3>2, <3>3
  <2>3. QED BY <2>2 DEF RememberedInv
<1>16. GoneInv(M, T, C)
  <2>1. GoneInv(M, S, C)
    BY DEF Air
  <2>2. \A d \in 1 .. M : \A k \in ToSet(C[d].sides) : k \in 1 .. N
    BY MatchFacts
  <2>3. QED BY <2>1, <2>2, <1>7 DEF GoneInv
<1>17. QED BY <1>9, <1>10, <1>11, <1>12, <1>13, <1>14, <1>15, <1>16 DEF Air

(* A circle wider than the screen has passed every station.                *)
LEMMA PassedAll ==
  ASSUME NEW side \in SideRecords, NEW p \in Packets, p.radius > LongestLine,
         station \in [Stations -> StationRecords]
  PROVE  IsNear(side, p)
<1> DEFINE a == station[side.station].place
           b == p.center
           r == p.radius
<1>1. /\ a \in Places /\ b \in Places /\ r \in 0 .. LongestLine + 1
  BY DEF SideRecords, StationRecords, Packets
<1>2. /\ a \in 0 .. LongestLine /\ b \in 0 .. LongestLine /\ LongestLine \in Nat /\ Near \in Nat
  BY <1>1, Constants
<1> HIDE DEF a, b, r
<1>3. Distance(a, b) \in 0 .. LongestLine
  BY <1>2 DEF Distance
<1>4. r > LongestLine
  BY DEF r
<1>5. Distance(a, b) - r # 0 /\ Distance(a, b) - r < Near
  BY <1>1, <1>2, <1>3, <1>4
<1>6. QED BY <1>5 DEF IsNear, a, b, r

(* The sides and the connection, one side after the other.                 *)
SentBy(h, S, x) ==
    /\ h[0] = [sides |-> S, connection |-> x]
    /\ h[Len(x.sides)] = FoldLeft(SendPacketsFromSide, [sides |-> S, connection |-> x], x.sides)
    /\ \A i \in 1 .. Len(x.sides) : h[i] = SendPacketsFromSide(h[i-1], x.sides[i])

InTheAir(N) == [sides : [1 .. N -> SideRecords], connection : ConnectionRecords(N)]

LEMMA SendHistory ==
  ASSUME NEW N \in Nat, NEW S \in [1 .. N -> SideRecords], NEW x \in ConnectionRecords(N),
         station \in [Stations -> StationRecords]
  PROVE  \E h \in [0 .. Len(x.sides) -> InTheAir(N)] : SentBy(h, S, x)
<1> DEFINE A == InTheAir(N)
           B == 1 .. N
           q == x.sides
           base == [sides |-> S, connection |-> x]
           op(a, k) == SendPacketsFromSide(a, k)
           f == [z \in A \X B |-> op(z[1], z[2])]
           Steps(it) == [s \in SUBSET (DOMAIN q) |->
                           IF s = {} THEN base ELSE op(it[s \ {Max(s)}], q[Max(s)])]
           Iter == CHOOSE it : it = Steps(it)
<1>1. q \in Seq(B) /\ base \in A
  BY DEF ConnectionRecords, InTheAir
<1>2. ASSUME NEW a \in A, NEW k \in B PROVE op(a, k) \in A
  <2>1. a.sides \in [1 .. N -> SideRecords] /\ a.connection \in ConnectionRecords(N)
        /\ a = [sides |-> a.sides, connection |-> a.connection]
    BY DEF InTheAir
  <2>2. op(a, k) = SendPacketsFromSide([sides |-> a.sides, connection |-> a.connection], k)
    BY <2>1
  <2> HIDE DEF op
  <2>3. /\ op(a, k) = [sides |-> op(a, k).sides, connection |-> op(a, k).connection]
        /\ op(a, k).sides \in [1 .. N -> SideRecords] /\ op(a, k).connection \in ConnectionRecords(N)
    BY <2>1, <2>2, SendEffect
  <2>4. QED BY <2>3 DEF InTheAir
<1>3. FoldLeft(SendPacketsFromSide, base, q) = Iter[DOMAIN q]
  BY DEF FoldLeft, MapThenFoldSet
<1> HIDE DEF op, base, q, A, B
<1>4. f \in [A \X B -> A]
  BY <1>2
<1>5. \A a \in A, e \in B : f[<<a, e>>] = op(a, e)
  OBVIOUS
<1> HIDE DEF f
<1>6. PICK it \in [SUBSET (DOMAIN q) -> A] : IsFold(it, f, base, q)
  BY <1>1, <1>4, FoldExists
<1>7. \A s \in SUBSET (DOMAIN q) : s # {} => q[Max(s)] \in B /\ s \ {Max(s)} \in SUBSET (DOMAIN q)
  BY <1>1, InitialIntervals
<1>8. \A s \in SUBSET (DOMAIN q) : it[s] = IF s = {} THEN base ELSE op(it[s \ {Max(s)}], q[Max(s)])
  BY <1>5, <1>6, <1>7 DEF IsFold
<1>9. it = Steps(it)
  BY <1>8
<1>10. Iter = Steps(Iter)
  BY <1>9
<1> HIDE DEF Iter
<1>11. Iter[{}] = base
  BY <1>10
<1>12. \A s \in SUBSET (DOMAIN q) : (s # {} /\ Iter[s \ {Max(s)}] \in A) =>
          Iter[s] = f[<<Iter[s \ {Max(s)}], q[Max(s)]>>]
  <2>1. ASSUME NEW s \in SUBSET (DOMAIN q), s # {}, Iter[s \ {Max(s)}] \in A
        PROVE  Iter[s] = f[<<Iter[s \ {Max(s)}], q[Max(s)]>>]
    <3>1. Iter[s] = op(Iter[s \ {Max(s)}], q[Max(s)])
      BY <2>1, <1>10
    <3>2. q[Max(s)] \in B
      BY <2>1, <1>7
    <3>3. QED BY <2>1, <3>1, <3>2, <1>5
  <2>2. QED BY <2>1
<1>13. PICK h \in [0 .. Len(q) -> A] : FoldedBy(h, f, base, q, Iter[DOMAIN q])
  BY <1>1, <1>4, <1>11, <1>12, FoldHistory
<1>14. h[0] = base /\ h[Len(q)] = Iter[DOMAIN q] /\ \A i \in 1 .. Len(q) : h[i] = f[<<h[i-1], q[i]>>]
  BY <1>13 DEF FoldedBy
<1>15. ASSUME NEW i \in 1 .. Len(q) PROVE h[i] = op(h[i-1], q[i])
  <2>1. h[i-1] \in A /\ q[i] \in B
    BY <1>1
  <2>2. QED BY <2>1, <1>5, <1>14
<1>16. SentBy(h, S, x)
  BY <1>3, <1>14, <1>15 DEF SentBy, op, base, q
<1>17. QED BY <1>16 DEF q, A

(* What a frame leaves as it is.                                           *)
KeptSides(T, S, K) == \A k \in K : T[k].connection = S[k].connection /\ T[k].station = S[k].station
KeptConnection(y, x) == y.frequency = x.frequency /\ y.sides = x.sides

LEMMA SendAllKeeps ==
  ASSUME NEW N \in Nat, NEW M \in Nat, NEW S, NEW C, Air(N, M, S, C), NEW c \in 1 .. M,
         station \in [Stations -> StationRecords],
         NEW b, b = FoldLeft(SendPacketsFromSide, [sides |-> S, connection |-> C[c]], C[c].sides)
  PROVE  /\ b \in InTheAir(N) /\ Air(N, M, b.sides, [C EXCEPT ![c] = b.connection])
         /\ KeptSides(b.sides, S, 1 .. N) /\ KeptConnection(b.connection, C[c])
<1> DEFINE x == C[c]
           q == C[c].sides
<1>1. S \in [1 .. N -> SideRecords] /\ x \in ConnectionRecords(N) /\ C \in [1 .. M -> ConnectionRecords(N)]
      /\ q \in Seq(1 .. N) /\ Len(q) \in Nat /\ x.sides = q
  BY AirTyped, ConnectionFacts
<1>2. PICK h \in [0 .. Len(x.sides) -> InTheAir(N)] : SentBy(h, S, x)
  BY <1>1, SendHistory
<1>3. /\ h[0] = [sides |-> S, connection |-> x] /\ h[Len(q)] = b
      /\ \A i \in 1 .. Len(q) : h[i] = SendPacketsFromSide(h[i-1], q[i])
  BY <1>2 DEF SentBy
<1> HIDE DEF x, q
<1> DEFINE D(i) == [C EXCEPT ![c] = h[i].connection]
           Kept(i) == /\ Air(N, M, h[i].sides, D(i)) /\ KeptSides(h[i].sides, S, 1 .. N)
                      /\ KeptConnection(h[i].connection, x)
           G == {i \in 0 .. Len(q) : Kept(i)}
<1>4. ASSUME NEW i \in 0 .. Len(q)
      PROVE  /\ h[i].sides \in [1 .. N -> SideRecords] /\ h[i].connection \in ConnectionRecords(N)
             /\ h[i] = [sides |-> h[i].sides, connection |-> h[i].connection]
             /\ D(i) \in [1 .. M -> ConnectionRecords(N)] /\ D(i)[c] = h[i].connection
  <2>1. h[i] \in InTheAir(N)
    BY <1>1, <1>2
  <2>2. /\ h[i].sides \in [1 .. N -> SideRecords] /\ h[i].connection \in ConnectionRecords(N)
        /\ h[i] = [sides |-> h[i].sides, connection |-> h[i].connection]
    BY <2>1 DEF InTheAir
  <2>3. QED BY <2>2, <1>1
<1>5. 0 \in G
  <2>1. D(0) = C /\ h[0].sides = S /\ h[0].connection = x
    BY <1>1, <1>3 DEF x
  <2>2. KeptSides(S, S, 1 .. N) /\ KeptConnection(x, x)
    BY DEF KeptSides, KeptConnection
  <2> HIDE DEF D
  <2>3. QED BY <2>1, <2>2, <1>1
<1>6. ASSUME NEW i \in 1 .. Len(q), i - 1 \in G PROVE i \in G
  <2> DEFINE S1 == h[i-1].sides
             C1 == D(i-1)
             T == h[i].sides
             y == h[i].connection
             k == q[i]
  <2>1. i - 1 \in 0 .. Len(q) /\ i \in 0 .. Len(q) /\ k \in 1 .. N
    BY <1>1
  <2>2. Air(N, M, S1, C1) /\ KeptSides(S1, S, 1 .. N) /\ KeptConnection(h[i-1].connection, x)
    BY <1>6
  <2>3. /\ S1 \in [1 .. N -> SideRecords] /\ C1[c] = h[i-1].connection /\ C1[c] \in ConnectionRecords(N)
        /\ h[i-1] = [sides |-> S1, connection |-> C1[c]]
    BY <2>1, <1>4
  <2>4. h[i] = SendPacketsFromSide([sides |-> S1, connection |-> C1[c]], k)
    BY <2>3, <1>3
  <2>5. [C1 EXCEPT ![c] = y] = D(i)
    BY <1>1
  <2>6. C1[c].sides = q /\ k \in ToSet(q)
    BY <2>2, <2>3, <1>1, ElementsByPlace DEF KeptConnection
  <2> HIDE DEF S1, C1, D, k
  <2>7. T \in [1 .. N -> SideRecords] /\ y \in ConnectionRecords(N) /\ HasSent(T, y, S1, C1[c], k)
    BY <2>1, <2>3, <2>4, SendEffect, SMTT(30)
  <2> HIDE DEF T, y
  <2>8. Air(N, M, T, [C1 EXCEPT ![c] = y])
    BY <2>2, <2>6, <2>7, SendKeeps
  <2>9. KeptSides(T, S1, 1 .. N) /\ KeptConnection(y, C1[c])
    <3>1. DOMAIN S1 = 1 .. N
      BY <2>3
    <3>2. QED BY <2>7, <3>1 DEF HasSent, KeptSides, KeptConnection
  <2>10. KeptSides(T, S, 1 .. N) /\ KeptConnection(y, x)
    BY <2>2, <2>3, <2>9 DEF KeptSides, KeptConnection
  <2>11. Air(N, M, T, D(i))
    BY <2>5, <2>8
  <2>12. QED BY <2>1, <2>10, <2>11 DEF T, y
<1> HIDE DEF G
<1>7. \A i \in 0 .. Len(q) : i \in G
  BY <1>1, <1>5, <1>6, Induction
<1> HIDE DEF Kept
<1>8. Kept(Len(q)) /\ Len(q) \in 0 .. Len(q)
  <2>1. Len(q) \in 0 .. Len(q)
    BY <1>1
  <2>2. QED BY <2>1, <1>7 DEF G
<1>9. h[Len(q)] \in InTheAir(N)
  BY <1>1, <1>2, <1>8
<1>10. QED BY <1>3, <1>8, <1>9 DEF x, Kept

(* The packets that stay on the screen.                                    *)
LEMMA OnTheScreenEffect ==
  ASSUME NEW v \in Seq(Packets)
  PROVE  /\ OnTheScreen(v) \in Seq(Packets)
         /\ \A i \in 1 .. Len(OnTheScreen(v)) : OnTheScreen(v)[i].radius \in 0 .. LongestLine
         /\ SomeOf(OnTheScreen(v), v)
         /\ \A a \in 1 .. Len(v) : \/ v[a].radius > LongestLine
                                   \/ \E i \in 1 .. Len(OnTheScreen(v)) : OnTheScreen(v)[i].id = v[a].id
<1> DEFINE r == OnTheScreen(v)
           narrow == {p \in ToSet(v) : p.radius <= LongestLine}
<1>1. r = Only(v, narrow) /\ v \in Seq(Packets)
  BY DEF OnTheScreen
<1> HIDE DEF r, narrow
<1>2. /\ r \in Seq(Packets) /\ ToSet(r) = ToSet(v) \cap narrow
      /\ \A i, j \in 1 .. Len(r) : i # j => \E a, b \in 1 .. Len(v) : a # b /\ r[i] = v[a] /\ r[j] = v[b]
  <2>1. v \in Seq(Packets)
    OBVIOUS
  <2>2. /\ Only(v, narrow) \in Seq(Packets) /\ ToSet(Only(v, narrow)) = ToSet(v) \cap narrow
        /\ \A i, j \in 1 .. Len(Only(v, narrow)) : i # j =>
             \E a, b \in 1 .. Len(v) : a # b /\ Only(v, narrow)[i] = v[a] /\ Only(v, narrow)[j] = v[b]
    BY ONLY <2>1, OnlyApart
  <2>3. QED BY <2>2, <1>1
<1>3. /\ \A e : e \in ToSet(r) <=> \E i \in 1 .. Len(r) : r[i] = e
      /\ \A e : e \in ToSet(v) <=> \E a \in 1 .. Len(v) : v[a] = e
      /\ \A a \in 1 .. Len(v) : v[a] \in Packets
  <2>1. \A e : e \in ToSet(r) <=> \E i \in 1 .. Len(r) : r[i] = e
    BY <1>2, ElementsByPlace
  <2>2. \A e : e \in ToSet(v) <=> \E a \in 1 .. Len(v) : v[a] = e
    BY <1>1, ElementsByPlace
  <2>3. QED BY <2>1, <2>2
<1>4. \A p \in Packets : p.radius \in 0 .. LongestLine + 1
  BY DEF Packets
<1>5. LongestLine \in Nat
  BY Constants
<1>6. ASSUME NEW i \in 1 .. Len(r)
      PROVE  r[i].radius \in 0 .. LongestLine /\ \E a \in 1 .. Len(v) : r[i] = v[a]
  <2>1. r[i] \in ToSet(v) /\ r[i] \in narrow
    BY <1>2, <1>3
  <2>2. r[i].radius <= LongestLine /\ r[i] \in Packets
    BY <2>1, <1>3 DEF narrow
  <2>3. r[i].radius \in 0 .. LongestLine
    BY <2>2, <1>4, <1>5
  <2>4. QED BY <2>1, <2>3, <1>3
<1>7. SomeOf(r, v)
  <2>1. ASSUME NEW i \in 1 .. Len(r), NEW j \in 1 .. Len(r), i # j
        PROVE  \E a, b \in 1 .. Len(v) : /\ a # b /\ r[i].id = v[a].id /\ r[j].id = v[b].id
                                         /\ r[i].message = v[a].message /\ r[j].message = v[b].message
    <3>1. PICK a, b \in 1 .. Len(v) : a # b /\ r[i] = v[a] /\ r[j] = v[b]
      BY <2>1, <1>2
    <3>2. QED BY <3>1
  <2>2. ASSUME NEW i \in 1 .. Len(r)
        PROVE  \E a \in 1 .. Len(v) : r[i].id = v[a].id /\ r[i].message = v[a].message
    <3>1. PICK a \in 1 .. Len(v) : r[i] = v[a]
      BY <1>6
    <3>2. QED BY <3>1
  <2>3. QED BY <2>1, <2>2 DEF SomeOf
<1>8. ASSUME NEW a \in 1 .. Len(v), ~(v[a].radius > LongestLine)
      PROVE  \E i \in 1 .. Len(r) : r[i].id = v[a].id
  <2>1. v[a].radius \in 0 .. LongestLine + 1
    BY <1>3, <1>4
  <2>2. v[a].radius <= LongestLine
    BY <2>1, <1>5, <1>8
  <2>3. v[a] \in ToSet(r)
    BY <2>2, <1>2, <1>3 DEF narrow
  <2>4. QED BY <2>3, <1>3
<1>9. QED BY <1>2, <1>6, <1>7, <1>8 DEF r

(* The parts of MovePackets.                                               *)
GrownConnection(c, elapsed) == [connections[c] EXCEPT !.packets = Grown(@, elapsed)]
AllSent(S, x) == FoldLeft(SendPacketsFromSide, [sides |-> S, connection |-> x], x.sides)

LEMMA MoveTypes ==
  ASSUME NEW N \in Nat, NEW S \in [1 .. N -> SideRecords], NEW c, connections[c] \in ConnectionRecords(N),
         NEW elapsed \in Nat, station \in [Stations -> StationRecords],
         NEW x, x = GrownConnection(c, elapsed), NEW a, a = AllSent(S, x),
         NEW m, m = MovePackets(S, c, elapsed)
  PROVE  /\ x \in ConnectionRecords(N) /\ KeptConnection(x, connections[c])
         /\ x.packets = Grown(connections[c].packets, elapsed)
         /\ x.sentPacketId = connections[c].sentPacketId
         /\ a \in InTheAir(N) /\ m \in InTheAir(N)
         /\ AllReceive(m.sides, a.sides, 1 .. N, ToSet(x.sides), a.connection.packets)
         /\ KeptConnection(m.connection, a.connection)
         /\ m.connection.sentPacketId = a.connection.sentPacketId
         /\ m.connection.packets = OnTheScreen(a.connection.packets)
<1> DEFINE v == connections[c].packets
           T == [k \in DOMAIN S |-> IF k \in ToSet(x.sides) THEN Receive(a.sides[k], a.connection.packets)
                                    ELSE a.sides[k]]
           y == [a.connection EXCEPT !.packets = OnTheScreen(@)]
<1>1. m = [sides |-> T, connection |-> y]
  BY DEF MovePackets, GrownConnection, AllSent
<1>2. v \in Seq(Packets)
  BY DEF ConnectionRecords
<1>3. Grown(v, elapsed) \in Seq(Packets)
  BY <1>2, GrownEffect
<1>4. /\ x \in ConnectionRecords(N) /\ KeptConnection(x, connections[c])
      /\ x.packets = Grown(v, elapsed) /\ x.sentPacketId = connections[c].sentPacketId
  BY <1>3 DEF ConnectionRecords, KeptConnection, GrownConnection
<1>5. a \in InTheAir(N)
  <2>1. PICK h \in [0 .. Len(x.sides) -> InTheAir(N)] : SentBy(h, S, x)
    BY <1>4, SendHistory
  <2>2. Len(x.sides) \in 0 .. Len(x.sides)
    <3>1. x.sides \in Seq(1 .. N)
      BY <1>4 DEF ConnectionRecords
    <3>2. Len(x.sides) \in Nat
      BY <3>1
    <3>3. QED BY <3>2
  <2>3. a = h[Len(x.sides)]
    BY <2>1 DEF SentBy, AllSent
  <2>4. QED BY <2>2, <2>3
<1>6. /\ a.sides \in [1 .. N -> SideRecords] /\ a.connection \in ConnectionRecords(N)
      /\ a.connection.packets \in Seq(Packets)
  BY <1>5 DEF InTheAir, ConnectionRecords
<1>7. ASSUME NEW k \in 1 .. N
      PROVE  /\ Receive(a.sides[k], a.connection.packets) \in SideRecords
             /\ HasReceived(Receive(a.sides[k], a.connection.packets), a.sides[k], a.connection.packets)
  BY <1>6, ReceiveEffect
<1>8. T = [k \in 1 .. N |-> IF k \in ToSet(x.sides) THEN Receive(a.sides[k], a.connection.packets)
                            ELSE a.sides[k]]
  OBVIOUS
<1> HIDE DEF T
<1>9. T \in [1 .. N -> SideRecords]
  BY <1>6, <1>7, <1>8
<1>10. AllReceive(T, a.sides, 1 .. N, ToSet(x.sides), a.connection.packets)
  <2>1. ToSet(x.sides) \subseteq 1 .. N
    <3>1. x.sides \in Seq(1 .. N)
      BY <1>4 DEF ConnectionRecords
    <3>2. QED BY <3>1, ElementsByPlace
  <2>2. QED BY <2>1, <1>7, <1>8 DEF AllReceive
<1>11. OnTheScreen(a.connection.packets) \in Seq(Packets)
  BY <1>6, OnTheScreenEffect
<1>12. /\ y \in ConnectionRecords(N) /\ KeptConnection(y, a.connection)
       /\ y.sentPacketId = a.connection.sentPacketId
       /\ y.packets = OnTheScreen(a.connection.packets)
  BY <1>6, <1>11 DEF ConnectionRecords, KeptConnection
<1> HIDE DEF y
<1>13. m \in InTheAir(N) /\ m.sides = T /\ m.connection = y
  BY <1>1, <1>9, <1>12 DEF InTheAir
<1>14. QED BY <1>4, <1>5, <1>10, <1>12, <1>13

(* The packets of one connection move.                                     *)
LEMMA MoveKeeps ==
  ASSUME NEW N \in Nat, NEW M \in Nat, NEW S, NEW C, Air(N, M, S, C), NEW c \in 1 .. M,
         C[c] = connections[c], NEW elapsed \in Nat, station \in [Stations -> StationRecords],
         NEW m, m = MovePackets(S, c, elapsed)
  PROVE  /\ m \in InTheAir(N) /\ Air(N, M, m.sides, [C EXCEPT ![c] = m.connection])
         /\ KeptSides(m.sides, S, 1 .. N) /\ KeptConnection(m.connection, C[c])
         /\ \A i \in 1 .. Len(m.connection.packets) : m.connection.packets[i].radius \in 0 .. LongestLine
<1> DEFINE x == GrownConnection(c, elapsed)
           a == AllSent(S, x)
           C1 == [C EXCEPT ![c] = x]
           C2 == [C1 EXCEPT ![c] = a.connection]
           v == C[c].packets
           u == a.connection.packets
<1>1. /\ S \in [1 .. N -> SideRecords] /\ C \in [1 .. M -> ConnectionRecords(N)]
      /\ C[c] \in ConnectionRecords(N) /\ v \in Seq(Packets)
  BY AirTyped, ConnectionFacts
<1> HIDE DEF x, a
<1>2. /\ x \in ConnectionRecords(N) /\ KeptConnection(x, C[c]) /\ x.packets = Grown(v, elapsed)
      /\ x.sentPacketId = C[c].sentPacketId
      /\ a \in InTheAir(N) /\ m \in InTheAir(N)
      /\ AllReceive(m.sides, a.sides, 1 .. N, ToSet(x.sides), u)
      /\ KeptConnection(m.connection, a.connection)
      /\ m.connection.sentPacketId = a.connection.sentPacketId /\ m.connection.packets = OnTheScreen(u)
  BY <1>1, MoveTypes DEF x, a
<1>3. x.sides = C[c].sides /\ x.frequency = C[c].frequency
  BY <1>2 DEF KeptConnection
<1>4. /\ Len(x.packets) = Len(v) /\ \A i \in 1 .. Len(v) : x.packets[i].id = v[i].id
      /\ \A i \in 1 .. Len(v) : x.packets[i].message = v[i].message
  BY <1>1, <1>2, GrownEffect
<1>5. SomeOf(x.packets, v)
  BY <1>4 DEF SomeOf
<1>6. OthersHeard(x.packets, v, S, ToSet(C[c].sides))
  BY <1>4 DEF OthersHeard
<1> HIDE DEF v
<1>7. Air(N, M, S, C1)
  BY <1>2, <1>3, <1>5, <1>6, FewerPackets DEF v
<1>8. C1[c] = x
  BY <1>1
<1>9. a = FoldLeft(SendPacketsFromSide, [sides |-> S, connection |-> C1[c]], C1[c].sides)
  BY <1>8 DEF a, AllSent
<1> HIDE DEF C1
<1>10. /\ Air(N, M, a.sides, C2) /\ KeptSides(a.sides, S, 1 .. N) /\ KeptConnection(a.connection, C1[c])
  BY <1>7, <1>9, SendAllKeeps
<1>11. C2[c] = a.connection /\ a.connection.sides = x.sides /\ a.connection.frequency = x.frequency
       /\ \A y : [C2 EXCEPT ![c] = y] = [C EXCEPT ![c] = y]
  BY <1>1, <1>8, <1>10 DEF KeptConnection, C1
<1> HIDE DEF C2
<1>12. /\ m.sides \in [1 .. N -> SideRecords] /\ m.connection \in ConnectionRecords(N)
       /\ a.sides \in [1 .. N -> SideRecords]
       /\ u \in Seq(Packets) /\ Len(u) \in Nat
  <2>1. m.sides \in [1 .. N -> SideRecords] /\ m.connection \in ConnectionRecords(N)
        /\ a.sides \in [1 .. N -> SideRecords] /\ a.connection \in ConnectionRecords(N)
    BY <1>2 DEF InTheAir
  <2>2. u \in Seq(Packets)
    BY <2>1 DEF ConnectionRecords
  <2>3. QED BY <2>1, <2>2
<1>13. C2[c].packets = u /\ C2[c].sides = x.sides
  BY <1>11
<1> HIDE DEF u
<1>14. Air(N, M, m.sides, C2)
  <2>1. AllReceive(m.sides, a.sides, 1 .. N, ToSet(C2[c].sides), C2[c].packets)
    BY <1>2, <1>13
  <2>2. QED BY <2>1, <1>10, <1>12, ReceiveKeeps
<1>15. /\ SomeOf(m.connection.packets, u)
       /\ \A i \in 1 .. Len(m.connection.packets) : m.connection.packets[i].radius \in 0 .. LongestLine
       /\ \A i \in 1 .. Len(u) : \/ u[i].radius > LongestLine
                                 \/ \E j \in 1 .. Len(m.connection.packets) : m.connection.packets[j].id = u[i].id
  BY <1>2, <1>12, OnTheScreenEffect
<1>16. OthersHeard(m.connection.packets, u, m.sides, ToSet(x.sides))
  <2>1. ASSUME NEW k \in ToSet(x.sides), NEW i \in 1 .. Len(u), u[i].radius > LongestLine
        PROVE  u[i].id \in m.sides[k].receivedIds
    <3>1. HasReceived(m.sides[k], a.sides[k], u)
      BY <1>2 DEF AllReceive
    <3>2. k \in 1 .. N
      <4>1. k \in ToSet(C2[c].sides)
        BY <1>13
      <4>2. C2[c].sides \in Seq(1 .. N)
        BY <1>14, ConnectionFacts
      <4>3. QED BY <4>1, <4>2, ElementsByPlace
    <3>3. IsNear(a.sides[k], u[i])
      BY <2>1, <3>2, <1>12, PassedAll, SMTT(30)
    <3>4. QED BY <3>1, <3>3 DEF HasReceived
  <2>2. QED BY <2>1, <1>15 DEF OthersHeard
<1>17. m.connection.sides = x.sides /\ m.connection.frequency = x.frequency
  BY <1>2, <1>11 DEF KeptConnection
<1>18. Air(N, M, m.sides, [C2 EXCEPT ![c] = m.connection])
  <2>1. m.connection.sides = C2[c].sides /\ m.connection.sentPacketId = C2[c].sentPacketId
    BY <1>2, <1>11, <1>17
  <2>2. SomeOf(m.connection.packets, C2[c].packets)
    BY <1>13, <1>15
  <2>3. OthersHeard(m.connection.packets, C2[c].packets, m.sides, ToSet(C2[c].sides))
    BY <1>13, <1>16
  <2>4. QED BY <2>1, <2>2, <2>3, <1>12, <1>14, FewerPackets
<1>19. KeptSides(m.sides, S, 1 .. N)
  <2>1. \A k \in 1 .. N : m.sides[k].connection = a.sides[k].connection /\ m.sides[k].station = a.sides[k].station
    BY <1>2 DEF AllReceive, HasReceived
  <2>2. QED BY <2>1, <1>10 DEF KeptSides
<1>20. KeptConnection(m.connection, C[c])
  BY <1>3, <1>17 DEF KeptConnection
<1>21. QED BY <1>2, <1>11, <1>15, <1>18, <1>19, <1>20

(* The connections, one after the other.                                   *)
MovedFrom(base, elapsed) ==
    FoldLeft(LAMBDA a, c : MovedNext(a, c, elapsed), base, [c \in DOMAIN connections |-> c])

MovedBy(h, base, elapsed, M) ==
    /\ h[0] = base
    /\ h[M] = MovedFrom(base, elapsed)
    /\ \A i \in 1 .. M : h[i] = MovedNext(h[i-1], i, elapsed)

MovedSoFar(N) == [sides : [1 .. N -> SideRecords], connections : Seq(ConnectionRecords(N))]

LEMMA MovedHistory ==
  ASSUME NEW N \in Nat, connections \in Seq(ConnectionRecords(N)), NEW base \in MovedSoFar(N),
         NEW elapsed \in Nat, station \in [Stations -> StationRecords]
  PROVE  \E h \in [0 .. Len(connections) -> MovedSoFar(N)] : MovedBy(h, base, elapsed, Len(connections))
<1> DEFINE A == MovedSoFar(N)
           M == Len(connections)
           B == 1 .. M
           q == [c \in DOMAIN connections |-> c]
           op(a, c) == MovedNext(a, c, elapsed)
           f == [z \in A \X B |-> op(z[1], z[2])]
           Steps(it) == [s \in SUBSET (DOMAIN q) |->
                           IF s = {} THEN base ELSE op(it[s \ {Max(s)}], q[Max(s)])]
           Iter == CHOOSE it : it = Steps(it)
<1>1. M \in Nat /\ DOMAIN connections = 1 .. M /\ \A c \in 1 .. M : connections[c] \in ConnectionRecords(N)
  OBVIOUS
<1>2. q \in [1 .. M -> B] /\ \A i \in 1 .. M : q[i] = i
  BY <1>1
<1>3. MovedFrom(base, elapsed) = Iter[DOMAIN q]
  BY DEF MovedFrom, FoldLeft, MapThenFoldSet
<1> HIDE DEF q, B
<1>4. q \in Seq(B) /\ Len(q) = M
  BY <1>1, <1>2, FunctionIsSequence
<1>5. ASSUME NEW a \in A, NEW c \in B PROVE op(a, c) \in A
  <2> DEFINE m == MovePackets(a.sides, c, elapsed)
             x == GrownConnection(c, elapsed)
             b == AllSent(a.sides, x)
  <2>1. a.sides \in [1 .. N -> SideRecords] /\ a.connections \in Seq(ConnectionRecords(N))
    BY DEF MovedSoFar
  <2>2. connections[c] \in ConnectionRecords(N)
    BY <1>1 DEF B
  <2> HIDE DEF m, x, b
  <2>3. m \in InTheAir(N)
    BY <2>1, <2>2, MoveTypes DEF m, x, b
  <2>4. m.sides \in [1 .. N -> SideRecords] /\ m.connection \in ConnectionRecords(N)
    BY <2>3 DEF InTheAir
  <2>5. Append(a.connections, m.connection) \in Seq(ConnectionRecords(N))
    BY <2>1, <2>4
  <2>6. op(a, c) = [sides |-> m.sides, connections |-> Append(a.connections, m.connection)]
    BY DEF MovedNext, m
  <2> HIDE DEF op
  <2>7. QED BY <2>4, <2>5, <2>6 DEF MovedSoFar
<1> HIDE DEF op, A, M
<1>6. f \in [A \X B -> A]
  BY <1>5
<1>7. \A a \in A, e \in B : f[<<a, e>>] = op(a, e)
  OBVIOUS
<1> HIDE DEF f
<1>8. base \in A
  BY DEF A
<1>9. PICK it \in [SUBSET (DOMAIN q) -> A] : IsFold(it, f, base, q)
  BY <1>4, <1>6, <1>8, FoldExists
<1>10. \A s \in SUBSET (DOMAIN q) : s # {} => q[Max(s)] \in B /\ s \ {Max(s)} \in SUBSET (DOMAIN q)
  BY <1>4, InitialIntervals
<1>11. \A s \in SUBSET (DOMAIN q) : it[s] = IF s = {} THEN base ELSE op(it[s \ {Max(s)}], q[Max(s)])
  BY <1>7, <1>9, <1>10 DEF IsFold
<1>12. it = Steps(it)
  BY <1>11
<1>13. Iter = Steps(Iter)
  BY <1>12
<1> HIDE DEF Iter
<1>14. Iter[{}] = base
  BY <1>13
<1>15. \A s \in SUBSET (DOMAIN q) : (s # {} /\ Iter[s \ {Max(s)}] \in A) =>
          Iter[s] = f[<<Iter[s \ {Max(s)}], q[Max(s)]>>]
  <2>1. ASSUME NEW s \in SUBSET (DOMAIN q), s # {}, Iter[s \ {Max(s)}] \in A
        PROVE  Iter[s] = f[<<Iter[s \ {Max(s)}], q[Max(s)]>>]
    <3>1. Iter[s] = op(Iter[s \ {Max(s)}], q[Max(s)])
      BY <2>1, <1>13
    <3>2. q[Max(s)] \in B
      BY <2>1, <1>10
    <3>3. QED BY <2>1, <3>1, <3>2, <1>7
  <2>2. QED BY <2>1
<1>16. PICK h \in [0 .. Len(q) -> A] : FoldedBy(h, f, base, q, Iter[DOMAIN q])
  BY <1>4, <1>6, <1>8, <1>14, <1>15, FoldHistory
<1>17. h[0] = base /\ h[Len(q)] = Iter[DOMAIN q] /\ \A i \in 1 .. Len(q) : h[i] = f[<<h[i-1], q[i]>>]
  BY <1>16 DEF FoldedBy
<1>18. ASSUME NEW i \in 1 .. M PROVE h[i] = op(h[i-1], i)
  <2>1. h[i-1] \in A /\ q[i] \in B /\ q[i] = i
    BY <1>1, <1>2, <1>4
  <2>2. QED BY <2>1, <1>4, <1>7, <1>17
<1>19. MovedBy(h, base, elapsed, M)
  BY <1>3, <1>4, <1>17, <1>18 DEF MovedBy, op, q
<1>20. QED BY <1>4, <1>19 DEF A, M

(* All connections move, in whatever order they came into the main loop.   *)
LEMMA MovedKeeps ==
  ASSUME NEW N \in Nat, connections \in Seq(ConnectionRecords(N)), NEW S,
         Air(N, Len(connections), S, connections), NEW elapsed \in Nat,
         station \in [Stations -> StationRecords],
         NEW a, a = MovedFrom([sides |-> S, connections |-> <<>>], elapsed)
  PROVE  /\ a \in MovedSoFar(N) /\ Len(a.connections) = Len(connections)
         /\ Air(N, Len(connections), a.sides, a.connections) /\ KeptSides(a.sides, S, 1 .. N)
         /\ \A c \in 1 .. Len(connections) :
              /\ KeptConnection(a.connections[c], connections[c])
              /\ \A i \in 1 .. Len(a.connections[c].packets) :
                    a.connections[c].packets[i].radius \in 0 .. LongestLine
<1> DEFINE M == Len(connections)
           base == [sides |-> S, connections |-> <<>>]
           OnScreen(y) == \A i \in 1 .. Len(y.packets) : y.packets[i].radius \in 0 .. LongestLine
<1>1. /\ M \in Nat /\ S \in [1 .. N -> SideRecords] /\ connections \in [1 .. M -> ConnectionRecords(N)]
  BY AirTyped
<1>2. base \in MovedSoFar(N)
  BY <1>1 DEF MovedSoFar
<1>3. PICK h \in [0 .. M -> MovedSoFar(N)] : MovedBy(h, base, elapsed, M)
  BY <1>2, MovedHistory
<1>4. h[0] = base /\ h[M] = a /\ \A i \in 1 .. M : h[i] = MovedNext(h[i-1], i, elapsed)
  BY <1>3 DEF MovedBy
<1> DEFINE D(i) == [c \in 1 .. M |-> IF c <= i THEN h[i].connections[c] ELSE connections[c]]
           Kept(i) == /\ Air(N, M, h[i].sides, D(i)) /\ KeptSides(h[i].sides, S, 1 .. N)
                      /\ Len(h[i].connections) = i
                      /\ \A c \in 1 .. i : /\ KeptConnection(h[i].connections[c], connections[c])
                                           /\ OnScreen(h[i].connections[c])
           G == {i \in 0 .. M : Kept(i)}
<1>5. \A i \in 0 .. M : h[i].sides \in [1 .. N -> SideRecords] /\ h[i].connections \in Seq(ConnectionRecords(N))
  BY <1>3 DEF MovedSoFar
<1> HIDE DEF M
<1>6. 0 \in G
  <2>1. h[0].sides = S /\ h[0].connections = <<>>
    BY <1>4
  <2>2. D(0) = connections
    BY <1>1
  <2> HIDE DEF D
  <2>3. KeptSides(S, S, 1 .. N)
    BY DEF KeptSides
  <2>4. Air(N, M, S, connections)
    BY DEF M
  <2>5. 0 \in 0 .. M /\ 1 .. 0 = {} /\ Len(<<>>) = 0
    BY <1>1
  <2>6. QED BY <2>1, <2>2, <2>3, <2>4, <2>5
<1>7. ASSUME NEW i \in 1 .. M, i - 1 \in G PROVE i \in G
  <2> DEFINE S1 == h[i-1].sides
             C1 == D(i-1)
             m == MovePackets(S1, i, elapsed)
             cs == h[i-1].connections
  <2>1. i - 1 \in 0 .. M /\ i \in 0 .. M /\ i \in Nat /\ ~(i <= i - 1)
    BY <1>1
  <2>2. Kept(i - 1)
    BY <1>7
  <2>3. h[i] = [sides |-> m.sides, connections |-> Append(cs, m.connection)]
    BY <1>4 DEF MovedNext
  <2>4. C1[i] = connections[i]
    BY <2>1
  <2>5. cs \in Seq(ConnectionRecords(N)) /\ Len(cs) = i - 1
    BY <2>1, <2>2, <1>5
  <2> HIDE DEF S1, C1, m, cs
  <2>6. Air(N, M, S1, C1) /\ KeptSides(S1, S, 1 .. N)
    BY <2>2 DEF S1, C1
  <2>7. /\ m \in InTheAir(N) /\ Air(N, M, m.sides, [C1 EXCEPT ![i] = m.connection])
        /\ KeptSides(m.sides, S1, 1 .. N) /\ KeptConnection(m.connection, C1[i])
        /\ OnScreen(m.connection)
    BY <2>4, <2>6, <1>1, MoveKeeps DEF m
  <2>8. m.connection \in ConnectionRecords(N)
    BY <2>7 DEF InTheAir
  <2>9. h[i].sides = m.sides /\ h[i].connections = Append(cs, m.connection)
    BY <2>3
  <2>10. /\ Len(h[i].connections) = i /\ h[i].connections[i] = m.connection
         /\ \A c \in 1 .. (i - 1) : h[i].connections[c] = cs[c]
    BY <2>1, <2>5, <2>8, <2>9
  <2>11. [C1 EXCEPT ![i] = m.connection] = D(i)
    <3>1. C1 = [c \in 1 .. M |-> IF c <= i - 1 THEN cs[c] ELSE connections[c]]
      BY DEF C1, cs
    <3>2. ASSUME NEW c \in 1 .. M
          PROVE  (IF c = i THEN m.connection ELSE C1[c]) = D(i)[c]
      <4>1. CASE c = i
        BY <4>1, <2>1, <2>10
      <4>2. CASE c < i
        <5>1. c <= i - 1 /\ c <= i /\ c \in 1 .. (i - 1)
          BY <4>2, <2>1, <1>1
        <5>2. C1[c] = cs[c]
          BY <5>1, <3>1
        <5>3. D(i)[c] = h[i].connections[c]
          BY <5>1
        <5>4. QED BY <4>2, <5>1, <5>2, <5>3, <2>10
      <4>3. CASE c > i
        <5>1. ~(c <= i - 1) /\ ~(c <= i) /\ c # i
          BY <4>3, <2>1, <1>1
        <5>2. QED BY <5>1, <3>1
      <4>4. QED BY <4>1, <4>2, <4>3, <2>1, <1>1
    <3>3. DOMAIN C1 = 1 .. M
      BY <3>1
    <3>4. [C1 EXCEPT ![i] = m.connection] = [c \in 1 .. M |-> IF c = i THEN m.connection ELSE C1[c]]
      BY <3>1
    <3>5. QED BY <3>2, <3>4
  <2> HIDE DEF D
  <2>12. Air(N, M, h[i].sides, D(i)) /\ KeptSides(h[i].sides, S, 1 .. N)
    BY <2>6, <2>7, <2>9, <2>11 DEF KeptSides
  <2> HIDE DEF OnScreen
  <2>13. ASSUME NEW c \in 1 .. i
         PROVE  KeptConnection(h[i].connections[c], connections[c]) /\ OnScreen(h[i].connections[c])
    <3>1. CASE c = i
      BY <3>1, <2>4, <2>7, <2>10
    <3>2. CASE c # i
      <4>1. c \in 1 .. (i - 1)
        BY <3>2, <2>1
      <4>2. KeptConnection(cs[c], connections[c]) /\ OnScreen(cs[c])
        BY <4>1, <2>2 DEF cs
      <4>3. QED BY <4>1, <4>2, <2>10
    <3>3. QED BY <3>1, <3>2
  <2>14. QED BY <2>1, <2>10, <2>12, <2>13
<1> HIDE DEF G, Kept
<1>8. \A i \in 0 .. M : i \in G
  BY <1>1, <1>6, <1>7, Induction
<1>9. Kept(M) /\ M \in 0 .. M
  <2>1. M \in 0 .. M
    BY <1>1
  <2>2. QED BY <2>1, <1>8 DEF G
<1>10. a \in MovedSoFar(N) /\ a.connections \in Seq(ConnectionRecords(N)) /\ Len(a.connections) = M
  BY <1>4, <1>5, <1>9, <1>3 DEF Kept
<1>11. D(M) = a.connections
  <2>1. \A c \in 1 .. M : c <= M
    BY <1>1
  <2>2. D(M) = [c \in 1 .. M |-> a.connections[c]]
    BY <2>1, <1>4
  <2>3. DOMAIN a.connections = 1 .. M
    BY <1>10
  <2>4. a.connections = [c \in 1 .. M |-> a.connections[c]]
    BY <2>3, <1>10
  <2>5. QED BY <2>2, <2>4
<1> HIDE DEF D
<1>12. QED BY <1>4, <1>9, <1>10, <1>11 DEF Kept, M

-----------------------------------------------------------------------------
(* What the invariant says of the sides and connections there are.         *)
LEMMA IInvFacts ==
  ASSUME IInv
  PROVE  /\ sides \in Seq(SideRecords) /\ Len(sides) \in Nat /\ sides \in [1 .. Len(sides) -> SideRecords]
         /\ connections \in Seq(ConnectionRecords(Len(sides))) /\ Len(connections) \in Nat
         /\ DOMAIN sides = 1 .. Len(sides) /\ DOMAIN connections = 1 .. Len(connections)
         /\ Air(Len(sides), Len(connections), sides, connections)
         /\ station \in [Stations -> StationRecords]
         /\ senders \in Seq(SenderRecords(Len(sides))) /\ Len(senders) \in Nat
<1>1. /\ sides \in Seq(SideRecords) /\ connections \in Seq(ConnectionRecords(Len(sides)))
      /\ Air(Len(sides), Len(connections), sides, connections) /\ station \in [Stations -> StationRecords]
  BY DEF IInv, StationInv
<1>2. Len(sides) \in Nat /\ Len(connections) \in Nat
  BY <1>1
<1>3. senders \in Seq(SenderRecords(Len(sides))) /\ Len(senders) \in Nat
  BY <1>1, <1>2, AirTyped
<1>4. QED BY <1>1, <1>2, <1>3

(* What is true of the air with the messages sent so far stays true as     *)
(* long as none is sent.                                                   *)
LEMMA AirNext ==
  ASSUME senders' = senders, Air(Len(sides'), Len(connections'), sides', connections')
  PROVE  Air(Len(sides), Len(connections), sides, connections)'
<1>1. AirTypes(Len(sides), Len(connections), sides, connections)'
  BY DEF Air, AirTypes
<1>2. SidesMatch(Len(sides), Len(connections), sides, connections)'
  BY DEF Air, SidesMatch
<1>3. WaitingInv(Len(sides), sides)'
  BY DEF Air, WaitingInv, Waiting
<1>4. FlyingInv(Len(connections), sides, connections)'
  BY DEF Air, FlyingInv, Waiting
<1>5. DistinctInv(Len(connections), connections)'
  BY DEF Air, DistinctInv
<1>6. HeardInv(Len(sides), sides)'
  BY DEF Air, HeardInv, HeardOf, Waiting
<1>7. RememberedInv(Len(connections), sides, connections)'
  BY DEF Air, RememberedInv, HeardOf
<1>8. GoneInv(Len(connections), sides, connections)'
  BY DEF Air, GoneInv
<1>9. QED BY <1>1, <1>2, <1>3, <1>4, <1>5, <1>6, <1>7, <1>8 DEF Air

-----------------------------------------------------------------------------
(* A frame. *)

(* A computer that reads takes what was received, or throws it away.       *)
LEMMA LogicKeeps ==
  ASSUME IInv, NEW T, T = [k \in DOMAIN sides |-> Logic(k)]
  PROVE  /\ Air(Len(sides), Len(connections), T, connections) /\ KeptSides(T, sides, 1 .. Len(sides))
         /\ T \in [1 .. Len(sides) -> SideRecords]
<1> DEFINE N == Len(sides)
<1>1. /\ sides \in [1 .. N -> SideRecords] /\ DOMAIN sides = 1 .. N /\ N \in Nat /\ Len(connections) \in Nat
      /\ Air(N, Len(connections), sides, connections)
  BY IInvFacts
<1> HIDE DEF N
<1>2. ASSUME NEW k \in 1 .. N
      PROVE  /\ Logic(k) \in SideRecords
             /\ Logic(k).connection = sides[k].connection /\ Logic(k).station = sides[k].station
             /\ Logic(k).since = sides[k].since /\ Logic(k).toSend = sides[k].toSend
             /\ Logic(k).receivedIds = sides[k].receivedIds
             /\ IsInjective(HeardOf(Logic(k))) /\ ToSet(HeardOf(Logic(k))) \subseteq ToSet(HeardOf(sides[k]))
  <2> DEFINE x == sides[k].taken
             y == sides[k].toReceive
             z == IF station[sides[k].station].isBlocked THEN <<>> ELSE y
             t == [sides[k] EXCEPT !.toReceive = <<>>, !.taken = @ \o z]
  <2>1. sides[k] \in SideRecords
    BY <1>1
  <2>2. x \in Seq(Nat) /\ y \in Seq(Nat) /\ HeardOf(sides[k]) = x \o y
    BY <2>1 DEF SideRecords, HeardOf
  <2>3. IsInjective(x \o y)
    BY <1>1, <2>2 DEF Air, HeardInv
  <2>4. Logic(k) = IF ~Reads(k) THEN sides[k] ELSE t
    BY DEF Logic
  <2>5. z = <<>> \/ z = y
    OBVIOUS
  <2> HIDE DEF x, y, z, t
  <2>6. x \o <<>> = x /\ (x \o y) \o <<>> = x \o y
    BY <2>2
  <2>7. /\ IsInjective(x) /\ ToSet(x) \subseteq ToSet(x \o y)
    <3>1. ToSet(x \o y) = ToSet(x) \cup ToSet(y) /\ (IsInjective(x \o y) => IsInjective(x))
      BY ONLY <2>2, JoinedInjective
    <3>2. QED BY <3>1, <2>3
  <2>8. x \o z \in Seq(Nat) /\ <<>> \in Seq(Nat)
    <3>1. <<>> \in Seq(Nat) /\ y \in Seq(Nat) /\ x \in Seq(Nat)
      BY <2>2
    <3>2. CASE z = <<>>
      BY <3>1, <3>2, <2>6
    <3>3. CASE z = y
      BY <3>1, <3>3
    <3>4. QED BY <2>5, <3>2, <3>3
  <2>9. /\ t \in SideRecords /\ t.connection = sides[k].connection /\ t.station = sides[k].station
        /\ t.since = sides[k].since /\ t.toSend = sides[k].toSend /\ t.receivedIds = sides[k].receivedIds
        /\ t.taken = x \o z /\ t.toReceive = <<>>
    BY <2>1, <2>8 DEF SideRecords, t, x
  <2>10. HeardOf(t) = x \/ HeardOf(t) = x \o y
    BY <2>5, <2>6, <2>9 DEF HeardOf
  <2>11. CASE ~Reads(k)
    BY <2>1, <2>2, <2>3, <2>4, <2>11
  <2>12. CASE Reads(k)
    BY <2>2, <2>3, <2>4, <2>7, <2>9, <2>10, <2>12
  <2>13. QED BY <2>11, <2>12
<1>3. T \in [1 .. N -> SideRecords] /\ \A k \in 1 .. N : T[k] = Logic(k)
  BY <1>1, <1>2
<1>4. Air(N, Len(connections), T, connections)
  BY <1>1, <1>2, <1>3, LessHeard
<1>5. KeptSides(T, sides, 1 .. N)
  BY <1>2, <1>3 DEF KeptSides
<1>6. QED BY <1>3, <1>4, <1>5 DEF N

LEMMA FrameKeeps ==
  ASSUME IInv, Frame
  PROVE  IInv'
<1> DEFINE N == Len(sides)
           M == Len(connections)
           T == [k \in DOMAIN sides |-> Logic(k)]
<1>1. PICK elapsed \in 1 .. MaxStep : sides' = Moved(elapsed).sides /\ connections' = Moved(elapsed).connections
  BY DEF Frame
<1>2. /\ beat' = ~beat /\ station' = station /\ computers' = computers /\ running' = running
      /\ listed' = listed /\ senders' = senders /\ events' = events /\ raised' = raised
  BY DEF Frame, screen
<1> DEFINE a == Moved(elapsed)
<1>3. a = MovedFrom([sides |-> T, connections |-> <<>>], elapsed)
  BY DEF Moved, MovedFrom
<1>4. /\ Air(N, M, T, connections) /\ KeptSides(T, sides, 1 .. N) /\ N \in Nat /\ M \in Nat
      /\ connections \in Seq(ConnectionRecords(N)) /\ station \in [Stations -> StationRecords]
      /\ DOMAIN connections = 1 .. M
  BY IInvFacts, LogicKeeps
<1>5. elapsed \in Nat
  BY Constants
<1> HIDE DEF a, T, N, M
<1>6. /\ a \in MovedSoFar(N) /\ Len(a.connections) = M
      /\ Air(N, M, a.sides, a.connections) /\ KeptSides(a.sides, T, 1 .. N)
      /\ \A c \in 1 .. M :
           /\ KeptConnection(a.connections[c], connections[c])
           /\ \A i \in 1 .. Len(a.connections[c].packets) :
                 a.connections[c].packets[i].radius \in 0 .. LongestLine
  BY <1>3, <1>4, <1>5, MovedKeeps DEF M
<1>7. sides' = a.sides /\ connections' = a.connections
  BY <1>1 DEF a
<1>8. sides' \in [1 .. N -> SideRecords] /\ connections' \in Seq(ConnectionRecords(N))
  BY <1>6, <1>7 DEF MovedSoFar
<1>9. /\ sides' \in Seq(SideRecords) /\ Len(sides') = N /\ Len(connections') = M
      /\ DOMAIN connections' = 1 .. M
  BY <1>4, <1>6, <1>7, <1>8, FunctionIsSequence
<1>10. /\ \A k \in 1 .. N : sides'[k].connection = sides[k].connection /\ sides'[k].station = sides[k].station
       /\ \A c \in 1 .. M : /\ connections'[c].frequency = connections[c].frequency
                            /\ connections'[c].sides = connections[c].sides
                            /\ \A i \in 1 .. Len(connections'[c].packets) :
                                  connections'[c].packets[i].radius \in 0 .. LongestLine
  BY <1>4, <1>6, <1>7 DEF KeptSides, KeptConnection
<1>11. Air(Len(sides), Len(connections), sides, connections)'
  BY <1>2, <1>6, <1>7, <1>9, AirNext
<1>12. OnScreenInv'
  BY <1>9, <1>10 DEF OnScreenInv
<1>13. /\ \A c \in 1 .. M : \A k \in ToSet(connections[c].sides) : k \in 1 .. N
       /\ \A k \in 1 .. N : sides[k].connection \in 1 .. M
  BY IInvFacts, MatchFacts, SideFacts DEF N, M
<1>14. StationInv'
  <2>1. StationInv
    BY DEF IInv
  <2>2. \A s \in Stations : Connected(s)' <=> Connected(s)
    BY <1>2 DEF Connected
  <2>3. station' \in [Stations -> StationRecords]
    BY <1>2, <1>4
  <2>4. ASSUME NEW s \in Stations, Connected(s)'
        PROVE  /\ station'[s].side \in 1 .. N /\ sides'[station'[s].side].station = s
               /\ station'[s].side \in ToSet(connections'[sides'[station'[s].side].connection].sides)
    <3>1. /\ station[s].side \in 1 .. N /\ sides[station[s].side].station = s
          /\ station[s].side \in ToSet(connections[sides[station[s].side].connection].sides)
      BY <2>1, <2>2, <2>4 DEF StationInv, N
    <3>2. sides[station[s].side].connection \in 1 .. M
      BY <3>1, <1>13
    <3>3. QED BY <3>1, <3>2, <1>2, <1>10
  <2>5. ASSUME NEW c \in 1 .. M, NEW k \in ToSet(connections'[c].sides)
        PROVE  k # NoSide /\ station'[sides'[k].station].side = k
    <3>1. k \in ToSet(connections[c].sides) /\ k \in 1 .. N
      BY <2>5, <1>10, <1>13
    <3>2. k # NoSide /\ station[sides[k].station].side = k
      BY <2>1, <3>1, <1>4 DEF StationInv
    <3>3. QED BY <3>1, <3>2, <1>2, <1>10
  <2>6. QED BY <2>3, <2>4, <2>5, <1>9 DEF StationInv
<1>15. ListedInv'
  <2>1. ListedInv /\ computers \subseteq Stations
    BY DEF IInv, ScreenTypes
  <2>2. \A s \in Stations : Connected(s)' <=> Connected(s)
    BY <1>2 DEF Connected
  <2>3. \A s \in Stations : Connected(s) => station[s].side \in 1 .. N
    BY DEF IInv, StationInv, N
  <2>4. QED BY <2>1, <2>2, <2>3, <1>2, <1>4, <1>9, <1>10 DEF ListedInv
<1>16. ScreenTypes'
  BY <1>2 DEF IInv, ScreenTypes
<1>17. QED BY <1>8, <1>9, <1>11, <1>12, <1>14, <1>15, <1>16 DEF IInv

-----------------------------------------------------------------------------
(* The actions that leave the air alone. *)

LEMMA SideKept ==
  ASSUME IInv, sides' = sides, connections' = connections, senders' = senders,
         station' \in [Stations -> StationRecords], \A s \in Stations : station'[s].side = station[s].side,
         computers' \subseteq {s \in Stations : s \in computers \/ ~Connected(s)},
         listed' = listed \/ (listed' = {} /\ computers' = {}), ScreenTypes'
  PROVE  IInv'
<1>1. /\ sides' \in Seq(SideRecords) /\ connections' \in Seq(ConnectionRecords(Len(sides')))
      /\ Air(Len(sides'), Len(connections'), sides', connections')
      /\ \A k \in 1 .. Len(sides) : sides[k].station \in Stations /\ sides[k].connection \in 1 .. Len(connections)
      /\ DOMAIN connections = 1 .. Len(connections)
      /\ \A c \in 1 .. Len(connections) : \A k \in ToSet(connections[c].sides) : k \in 1 .. Len(sides)
  BY IInvFacts, SideFacts, MatchFacts
<1>2. Air(Len(sides), Len(connections), sides, connections)'
  BY <1>1, AirNext
<1>3. OnScreenInv'
  BY DEF IInv, OnScreenInv
<1>4. \A s \in Stations : Connected(s)' <=> Connected(s)
  BY DEF Connected
<1>5. StationInv'
  <2>1. StationInv
    BY DEF IInv
  <2>2. ASSUME NEW s \in Stations, Connected(s)'
        PROVE  /\ station'[s].side \in 1 .. Len(sides) /\ sides[station'[s].side].station = s
               /\ station'[s].side \in ToSet(connections[sides[station'[s].side].connection].sides)
    BY <2>1, <2>2, <1>4 DEF StationInv
  <2>3. ASSUME NEW c \in 1 .. Len(connections), NEW k \in ToSet(connections[c].sides)
        PROVE  k # NoSide /\ station'[sides[k].station].side = k
    BY <2>1, <1>1 DEF StationInv
  <2>4. QED BY <2>2, <2>3, <1>1 DEF StationInv
<1>6. ListedInv'
  <2>1. ListedInv
    BY DEF IInv
  <2>2. CASE listed' = listed
    BY <2>1, <2>2, <1>4 DEF ListedInv
  <2>3. CASE listed' = {} /\ computers' = {}
    BY <2>3 DEF ListedInv
  <2>4. QED BY <2>2, <2>3
<1>7. QED BY <1>1, <1>2, <1>3, <1>5, <1>6 DEF IInv

LEMMA PowerKeeps ==
  ASSUME IInv, NEW s \in Stations, Power(s), events' \in 0 .. MaxEvents, beat' = beat
  PROVE  IInv'
<1> USE DEF Power, screen, air
<1>1. station \in [Stations -> StationRecords] /\ station[s] \in StationRecords /\ ScreenTypes
  BY IInvFacts DEF IInv
<1> DEFINE new == [station[s] EXCEPT !.isOn = ~@]
<1>2. station' = [station EXCEPT ![s] = new]
  OBVIOUS
<1>3. new \in StationRecords /\ new.side = station[s].side
  BY <1>1 DEF StationRecords
<1> HIDE DEF new
<1>4. station' \in [Stations -> StationRecords] /\ \A t \in Stations : station'[t].side = station[t].side
  BY <1>1, <1>2, <1>3
<1>5. ScreenTypes'
  BY <1>1 DEF ScreenTypes
<1>6. QED BY <1>1, <1>4, <1>5, SideKept DEF ScreenTypes

LEMMA ToggleBlockKeeps ==
  ASSUME IInv, NEW s \in Stations, ToggleBlock(s), events' \in 0 .. MaxEvents, beat' = beat
  PROVE  IInv'
<1> USE DEF ToggleBlock, screen, air
<1>1. station \in [Stations -> StationRecords] /\ station[s] \in StationRecords /\ ScreenTypes
  BY IInvFacts DEF IInv
<1> DEFINE new == [station[s] EXCEPT !.isBlocked = ~@]
<1>2. station' = [station EXCEPT ![s] = new]
  OBVIOUS
<1>3. new \in StationRecords /\ new.side = station[s].side
  BY <1>1 DEF StationRecords
<1> HIDE DEF new
<1>4. station' \in [Stations -> StationRecords] /\ \A t \in Stations : station'[t].side = station[t].side
  BY <1>1, <1>2, <1>3
<1>5. ScreenTypes'
  BY <1>1 DEF ScreenTypes
<1>6. QED BY <1>1, <1>4, <1>5, SideKept DEF ScreenTypes

LEMMA DragKeeps ==
  ASSUME IInv, NEW s \in Stations, NEW p \in Places, Drag(s, p), events' \in 0 .. MaxEvents, beat' = beat
  PROVE  IInv'
<1> USE DEF Drag, screen, air
<1>1. station \in [Stations -> StationRecords] /\ station[s] \in StationRecords /\ ScreenTypes
  BY IInvFacts DEF IInv
<1> DEFINE new == [station[s] EXCEPT !.place = p]
<1>2. station' = [station EXCEPT ![s] = new]
  OBVIOUS
<1>3. new \in StationRecords /\ new.side = station[s].side
  BY <1>1 DEF StationRecords
<1> HIDE DEF new
<1>4. station' \in [Stations -> StationRecords] /\ \A t \in Stations : station'[t].side = station[t].side
  BY <1>1, <1>2, <1>3
<1>5. ScreenTypes'
  BY <1>1 DEF ScreenTypes
<1>6. QED BY <1>1, <1>4, <1>5, SideKept DEF ScreenTypes

LEMMA RemoveInterfaceKeeps ==
  ASSUME IInv, NEW s \in Stations, RemoveInterface(s), events' \in 0 .. MaxEvents, beat' = beat
  PROVE  IInv'
<1> USE DEF RemoveInterface, screen, air
<1>1. station \in [Stations -> StationRecords] /\ station[s] \in StationRecords /\ ScreenTypes
  BY IInvFacts DEF IInv
<1> DEFINE new == [station[s] EXCEPT !.owned = FALSE]
<1>2. station' = station \/ station' = [station EXCEPT ![s] = new]
  OBVIOUS
<1>3. new \in StationRecords /\ new.side = station[s].side
  BY <1>1 DEF StationRecords
<1> HIDE DEF new
<1>4. station' \in [Stations -> StationRecords] /\ \A t \in Stations : station'[t].side = station[t].side
  BY <1>1, <1>2, <1>3
<1>5. ScreenTypes'
  BY <1>1 DEF ScreenTypes
<1>6. QED BY <1>1, <1>4, <1>5, SideKept DEF ScreenTypes

LEMMA CreateComputerKeeps ==
  ASSUME IInv, NEW s \in Stations, NEW p \in Places, CreateComputer(s, p), events' \in 0 .. MaxEvents, beat' = beat
  PROVE  IInv'
<1> USE DEF CreateComputer, screen, air
<1>1. station \in [Stations -> StationRecords] /\ station[s] \in StationRecords /\ ScreenTypes
  BY IInvFacts DEF IInv
<1>2. NewInterface(p) \in StationRecords /\ NewInterface(p).side = station[s].side
  BY DEF NewInterface, StationRecords, Connected, NoSide
<1>3. station' \in [Stations -> StationRecords] /\ \A t \in Stations : station'[t].side = station[t].side
  BY <1>1, <1>2
<1>4. ScreenTypes'
  BY <1>1 DEF ScreenTypes
<1>5. QED BY <1>1, <1>3, <1>4, SideKept DEF ScreenTypes

LEMMA DeleteAllKeeps ==
  ASSUME IInv, DeleteAll, events' \in 0 .. MaxEvents, beat' = beat
  PROVE  IInv'
<1> USE DEF DeleteAll, air
<1>1. station \in [Stations -> StationRecords] /\ ScreenTypes
  BY IInvFacts DEF IInv
<1>2. ScreenTypes'
  BY <1>1 DEF ScreenTypes
<1>3. QED BY <1>1, <1>2, SideKept

(* The message that is sent is new, and waits at the side of its sender.   *)
LEMMA SendMessageKeeps ==
  ASSUME IInv, NEW s \in Stations, Send(s)
  PROVE  IInv'
<1> DEFINE N == Len(sides)
           M == Len(connections)
           n == Len(senders) + 1
           k == station[s].side
           w == sides[k].toSend
           t == [sides[k] EXCEPT !.toSend = Append(w, n)]
<1>1. /\ station' = station /\ computers' = computers /\ running' = running /\ listed' = listed
      /\ connections' = connections /\ events' = events /\ raised' = raised /\ beat' = beat
      /\ Connected(s) /\ Len(senders) < MaxMessages
  BY DEF Send, screen
<1>2. senders' = Append(senders, [side |-> k, sidesMade |-> N])
  BY DEF Send
<1>3. sides' = [sides EXCEPT ![k].toSend = Append(@, Len(senders'))]
  BY DEF Send
<1>4. /\ sides \in Seq(SideRecords) /\ N \in Nat /\ M \in Nat /\ sides \in [1 .. N -> SideRecords]
      /\ connections \in Seq(ConnectionRecords(N)) /\ DOMAIN sides = 1 .. N /\ DOMAIN connections = 1 .. M
      /\ Air(N, M, sides, connections) /\ station \in [Stations -> StationRecords]
      /\ senders \in Seq(SenderRecords(N)) /\ Len(senders) \in Nat
  BY IInvFacts
<1>5. k \in 1 .. N
  BY <1>1 DEF IInv, StationInv
<1>6. [side |-> k, sidesMade |-> N] \in SenderRecords(N)
  BY <1>4, <1>5 DEF SenderRecords
<1> HIDE DEF N, M, k
<1>7. /\ senders' \in Seq(SenderRecords(N)) /\ Len(senders') = n /\ senders'[n].side = k
      /\ \A i \in 1 .. Len(senders) : senders'[i] = senders[i]
  BY <1>2, <1>4, <1>6
<1>8. sides' = [sides EXCEPT ![k] = t]
  BY <1>3, <1>7
<1>9. sides[k] \in SideRecords /\ w \in Seq(Nat) /\ n \in Nat
  BY <1>4, <1>5, SMTT(30) DEF SideRecords
<1> HIDE DEF w, n
<1>10. Append(w, n) \in Seq(Nat)
  BY <1>9
<1>11. /\ t \in SideRecords /\ t.connection = sides[k].connection /\ t.station = sides[k].station
       /\ t.since = sides[k].since /\ t.toReceive = sides[k].toReceive /\ t.taken = sides[k].taken
       /\ t.receivedIds = sides[k].receivedIds /\ t.toSend = Append(w, n)
  BY <1>9, <1>10 DEF SideRecords
<1> HIDE DEF t
<1>12. sides' \in [1 .. N -> SideRecords] /\ sides'[k] = t /\ \A j \in 1 .. N : j # k => sides'[j] = sides[j]
  BY <1>4, <1>5, <1>8, <1>11
<1>13. sides' \in Seq(SideRecords) /\ Len(sides') = N
  BY <1>4, <1>12, FunctionIsSequence
<1>14. \A i : i \in 1 .. n <=> i \in 1 .. Len(senders) \/ i = n
  BY <1>4 DEF n
<1>15. n \notin 1 .. Len(senders)
  BY <1>4 DEF n
<1>16. /\ \A i : i \in ToSet(Append(w, n)) <=> i \in ToSet(w) \/ i = n
       /\ (IsInjective(w) /\ n \notin ToSet(w)) => IsInjective(Append(w, n))
  <2>1. <<n>> \in Seq(Nat) /\ Append(w, n) = w \o <<n>>
    BY <1>9
  <2>2. /\ ToSet(w \o <<n>>) = ToSet(w) \cup ToSet(<<n>>)
        /\ (IsInjective(w) /\ IsInjective(<<n>>) /\ ToSet(w) \cap ToSet(<<n>>) = {}) => IsInjective(w \o <<n>>)
    BY ONLY <2>1, <1>9, JoinedInjective, ZenonT(60)
  <2>3. ToSet(<<n>>) = {n} /\ IsInjective(<<n>>)
    BY DEF ToSet, IsInjective
  <2>4. QED BY <2>1, <2>2, <2>3
<1>17. \A j \in 1 .. N : /\ sides'[j].connection = sides[j].connection
                         /\ sides'[j].station = sides[j].station
                         /\ sides'[j].since = sides[j].since /\ sides'[j].receivedIds = sides[j].receivedIds
                         /\ HeardOf(sides'[j]) = HeardOf(sides[j])
                         /\ \A i : i \in Waiting(sides'[j]) <=> i \in Waiting(sides[j]) \/ (j = k /\ i = n)
  <2>1. HeardOf(t) = HeardOf(sides[k])
    BY <1>11 DEF HeardOf
  <2>2. \A i : i \in Waiting(t) <=> i \in Waiting(sides[k]) \/ i = n
    BY <1>11, <1>16 DEF Waiting, w
  <2>3. QED BY <2>1, <2>2, <1>11, <1>12
<1>18. \A i \in 1 .. Len(senders) : senders[i].side \in 1 .. N
  BY <1>4, SenderFacts
<1>19. Len(sides') = N /\ Len(connections') = M /\ DOMAIN connections' = 1 .. M
       /\ connections' \in [1 .. M -> ConnectionRecords(N)]
  BY <1>1, <1>4, <1>13 DEF M
<1>20. AirTypes(Len(sides), Len(connections), sides, connections)'
  <2>1. AirTypes(N, M, sides, connections)
    BY <1>4 DEF Air
  <2>2. \A j \in 1 .. N : /\ sides'[j].connection \in 1 .. M
                          /\ \A x \in sides'[j].receivedIds : x < connections'[sides'[j].connection].sentPacketId
    BY <2>1, <1>1, <1>17 DEF AirTypes
  <2>3. QED BY <2>2, <1>7, <1>12, <1>19 DEF AirTypes
<1>21. SidesMatch(Len(sides), Len(connections), sides, connections)'
  <2>1. SidesMatch(N, M, sides, connections)
    BY <1>4 DEF Air
  <2>2. ASSUME NEW c \in 1 .. M
        PROVE  /\ IsInjective(connections'[c].sides)
               /\ \A j \in ToSet(connections'[c].sides) : j \in 1 .. N /\ sides'[j].connection = c
    BY <2>1, <1>1, <1>17 DEF SidesMatch
  <2>3. QED BY <2>2, <1>19 DEF SidesMatch
<1>22. WaitingInv(Len(sides), sides)'
  <2>1. WaitingInv(N, sides)
    BY <1>4 DEF Air
  <2>2. IsInjective(sides'[k].toSend)
    <3>1. IsInjective(w) /\ n \notin ToSet(w)
      BY <2>1, <1>5, <1>15 DEF WaitingInv, Waiting, w
    <3>2. QED BY <3>1, <1>11, <1>12, <1>16
  <2>3. ASSUME NEW j \in 1 .. N
        PROVE  /\ IsInjective(sides'[j].toSend)
               /\ \A i \in Waiting(sides'[j]) : i \in 1 .. n /\ senders'[i].side = j
    <3>1. IsInjective(sides'[j].toSend)
      BY <2>1, <2>2, <1>12 DEF WaitingInv
    <3>2. ASSUME NEW i \in Waiting(sides'[j]) PROVE i \in 1 .. n /\ senders'[i].side = j
      <4>1. CASE i \in Waiting(sides[j])
        <5>1. i \in 1 .. Len(senders) /\ senders[i].side = j
          BY <2>1, <4>1 DEF WaitingInv
        <5>2. QED BY <5>1, <1>7, <1>14
      <4>2. CASE j = k /\ i = n
        BY <4>2, <1>7, <1>14
      <4>3. QED BY <3>2, <4>1, <4>2, <1>17
    <3>3. QED BY <3>1, <3>2
  <2>4. \A j \in 1 .. N : Waiting(sides[j])' = Waiting(sides'[j])
    BY DEF Waiting
  <2>5. QED BY <2>3, <1>7, <1>19 DEF WaitingInv, Waiting
<1>23. ASSUME NEW i \in 1 .. Len(senders), i \notin Waiting(sides[senders[i].side])
       PROVE  i \in 1 .. n /\ senders'[i] = senders[i] /\ i \notin Waiting(sides'[senders'[i].side])
  <2>1. senders[i].side \in 1 .. N /\ senders'[i] = senders[i] /\ i # n /\ i \in 1 .. n
    BY <1>7, <1>14, <1>15, <1>18
  <2>2. QED BY <2>1, <1>17, <1>23
<1>24. FlyingInv(Len(connections), sides, connections)'
  <2>1. FlyingInv(M, sides, connections)
    BY <1>4 DEF Air
  <2>2. ASSUME NEW c \in 1 .. M, NEW i \in 1 .. Len(connections[c].packets)
        PROVE  /\ connections[c].packets[i].id < connections[c].sentPacketId
               /\ connections[c].packets[i].message \in 1 .. n
               /\ sides'[senders'[connections[c].packets[i].message].side].connection = c
               /\ connections[c].packets[i].message \notin
                     Waiting(sides'[senders'[connections[c].packets[i].message].side])
    <3>1. /\ connections[c].packets[i].id < connections[c].sentPacketId
          /\ connections[c].packets[i].message \in 1 .. Len(senders)
          /\ sides[senders[connections[c].packets[i].message].side].connection = c
          /\ connections[c].packets[i].message \notin
                Waiting(sides[senders[connections[c].packets[i].message].side])
      BY <2>1 DEF FlyingInv
    <3> DEFINE p == connections[c].packets[i]
               m == p.message
    <3>2. /\ m \in 1 .. Len(senders) /\ sides[senders[m].side].connection = c
          /\ m \notin Waiting(sides[senders[m].side]) /\ p.id < connections[c].sentPacketId
      BY <3>1
    <3> HIDE DEF m
    <3>3. m \in 1 .. n /\ senders'[m] = senders[m] /\ m \notin Waiting(sides'[senders'[m].side])
      BY <3>2, <1>23
    <3>4. sides'[senders'[m].side].connection = c
      BY <3>2, <3>3, <1>17, <1>18
    <3>5. QED BY <3>2, <3>3, <3>4 DEF m
  <2>3. QED BY <2>2, <1>1, <1>7, <1>19, ZenonT(60) DEF FlyingInv, Waiting
<1>25. DistinctInv(Len(connections), connections)'
  <2>1. DistinctInv(M, connections)
    BY <1>4 DEF Air
  <2>2. QED BY <2>1, <1>1, <1>19 DEF DistinctInv
<1>26. HeardInv(Len(sides), sides)'
  <2>1. HeardInv(N, sides)
    BY <1>4 DEF Air
  <2>2. ASSUME NEW j \in 1 .. N
        PROVE  /\ IsInjective(HeardOf(sides'[j]))
               /\ \A i \in ToSet(HeardOf(sides'[j])) :
                    i \in 1 .. n /\ senders'[i].side # j /\ i \notin Waiting(sides'[senders'[i].side])
    <3>1. /\ IsInjective(HeardOf(sides[j]))
          /\ \A i \in ToSet(HeardOf(sides[j])) :
               i \in 1 .. Len(senders) /\ senders[i].side # j /\ i \notin Waiting(sides[senders[i].side])
      BY <2>1 DEF HeardInv
    <3>2. QED BY <3>1, <1>17, <1>23
  <2>3. QED BY <2>2, <1>7, <1>19 DEF HeardInv, HeardOf, Waiting
<1>27. RememberedInv(Len(connections), sides, connections)'
  <2>1. RememberedInv(M, sides, connections)
    BY <1>4 DEF Air
  <2>2. ASSUME NEW c \in 1 .. M, NEW j \in ToSet(connections[c].sides),
               NEW i \in 1 .. Len(connections[c].packets),
               \/ connections[c].packets[i].message \in ToSet(HeardOf(sides'[j]))
               \/ senders'[connections[c].packets[i].message].side = j
        PROVE  connections[c].packets[i].id \in sides'[j].receivedIds
    <3>1. j \in 1 .. N /\ connections[c].packets[i].message \in 1 .. Len(senders)
      <4>1. SidesMatch(N, M, sides, connections) /\ FlyingInv(M, sides, connections)
        BY <1>4 DEF Air
      <4>2. connections[c].packets[i].message \in 1 .. Len(senders)
        BY <4>1 DEF FlyingInv
      <4>3. QED BY <4>1, <4>2 DEF SidesMatch
    <3>2. \/ connections[c].packets[i].message \in ToSet(HeardOf(sides[j]))
          \/ senders[connections[c].packets[i].message].side = j
      BY <2>2, <3>1, <1>7, <1>17
    <3>3. connections[c].packets[i].id \in sides[j].receivedIds
      BY <2>1, <3>2 DEF RememberedInv
    <3>4. QED BY <3>1, <3>3, <1>17
  <2>3. QED BY <2>2, <1>1, <1>19, ZenonT(60) DEF RememberedInv, HeardOf
<1>28. GoneInv(Len(connections), sides, connections)'
  <2>1. GoneInv(M, sides, connections)
    BY <1>4 DEF Air
  <2>2. \A c \in 1 .. M : \A j \in ToSet(connections[c].sides) : j \in 1 .. N
    BY <1>4, MatchFacts
  <2>3. QED BY <2>1, <2>2, <1>1, <1>17, <1>19 DEF GoneInv
<1>29. Air(Len(sides), Len(connections), sides, connections)'
  BY <1>20, <1>21, <1>22, <1>24, <1>25, <1>26, <1>27, <1>28 DEF Air
<1>30. OnScreenInv'
  BY <1>1 DEF IInv, OnScreenInv
<1>31. /\ \A c \in 1 .. M : \A j \in ToSet(connections[c].sides) : j \in 1 .. N
       /\ \A j \in 1 .. N : sides[j].connection \in 1 .. M
  BY <1>4, MatchFacts, SideFacts
<1>32. StationInv'
  <2>1. StationInv
    BY DEF IInv
  <2>2. \A u \in Stations : Connected(u)' <=> Connected(u)
    BY <1>1 DEF Connected
  <2>3. ASSUME NEW u \in Stations, Connected(u)
        PROVE  /\ station[u].side \in 1 .. N /\ sides'[station[u].side].station = u
               /\ station[u].side \in ToSet(connections[sides'[station[u].side].connection].sides)
    <3>1. /\ station[u].side \in 1 .. N /\ sides[station[u].side].station = u
          /\ station[u].side \in ToSet(connections[sides[station[u].side].connection].sides)
      BY <2>1, <2>3 DEF StationInv, N
    <3>2. QED BY <3>1, <1>17
  <2>4. ASSUME NEW c \in 1 .. M, NEW j \in ToSet(connections[c].sides)
        PROVE  j # NoSide /\ station[sides'[j].station].side = j
    BY <2>1, <1>4, <1>17, <1>31 DEF StationInv
  <2>5. QED BY <2>2, <2>3, <2>4, <1>1, <1>4, <1>19 DEF StationInv
<1>33. ListedInv'
  <2>1. ListedInv /\ computers \subseteq Stations
    BY DEF IInv, ScreenTypes
  <2>2. \A u \in Stations : Connected(u)' <=> Connected(u)
    BY <1>1 DEF Connected
  <2>3. \A u \in Stations : Connected(u) => station[u].side \in 1 .. N
    BY DEF IInv, StationInv, N
  <2>4. \A u \in computers' : Connected(u)' => sides'[station'[u].side].connection \in listed'
    BY <2>1, <2>2, <2>3, <1>1, <1>17 DEF ListedInv
  <2>5. QED BY <2>1, <2>4, <1>1 DEF ListedInv
<1>34. ScreenTypes'
  <2>1. n <= MaxMessages
    BY <1>1, <1>4, Constants DEF n
  <2>2. QED BY <2>1, <1>1, <1>7 DEF IInv, ScreenTypes
<1>35. sides' \in Seq(SideRecords) /\ connections' \in Seq(ConnectionRecords(Len(sides')))
  BY <1>1, <1>4, <1>13
<1>36. QED BY <1>29, <1>30, <1>32, <1>33, <1>34, <1>35 DEF IInv

-----------------------------------------------------------------------------
(* Tuning and deleting. *)

(* T and D are the sides and connections when side k has left its          *)
(* connection, and nothing refers to it any more.                          *)
HasLeft(T, D, S, C, N, M, k) ==
    /\ T \in [1 .. N -> SideRecords] /\ D \in [1 .. M -> ConnectionRecords(N)]
    /\ \A j \in 1 .. N : j # k => T[j] = S[j]
    /\ T[k].connection = S[k].connection /\ T[k].station = S[k].station
    /\ T[k].toSend = <<>> /\ T[k].receivedIds = {} /\ T[k].taken = <<>> /\ T[k].toReceive = <<>>
    /\ \A c \in 1 .. M :
         /\ D[c].frequency = C[c].frequency /\ D[c].packets = C[c].packets
         /\ D[c].sentPacketId = C[c].sentPacketId /\ ToSet(D[c].sides) = ToSet(C[c].sides) \ {k}
         /\ (IsInjective(C[c].sides) => IsInjective(D[c].sides))

LEMMA LeaveEffect ==
  ASSUME NEW N \in Nat, NEW M \in Nat, NEW S, NEW C, Air(N, M, S, C), NEW k \in 1 .. N,
         NEW T, T = [S EXCEPT ![k] = NewSide(S[k].connection, S[k].station, 0)],
         NEW D, D = [C EXCEPT ![S[k].connection].sides = Only(@, ToSet(@) \ {k})]
  PROVE  HasLeft(T, D, S, C, N, M, k)
<1> DEFINE c == S[k].connection
           old == NewSide(c, S[k].station, 0)
           q == C[c].sides
           r == Only(q, ToSet(q) \ {k})
           y == [C[c] EXCEPT !.sides = r]
<1>1. /\ S \in [1 .. N -> SideRecords] /\ C \in [1 .. M -> ConnectionRecords(N)] /\ c \in 1 .. M
      /\ q \in Seq(1 .. N) /\ C[c] \in ConnectionRecords(N) /\ S[k].station \in Stations
  <2>1. /\ S \in [1 .. N -> SideRecords] /\ C \in [1 .. M -> ConnectionRecords(N)] /\ c \in 1 .. M
        /\ S[k].station \in Stations
    BY AirTyped, SideFacts
  <2>2. q \in Seq(1 .. N)
    BY <2>1, ConnectionFacts
  <2>3. QED BY <2>1, <2>2
<1>2. \A d \in 1 .. M : \A j \in ToSet(C[d].sides) : j \in 1 .. N /\ S[j].connection = d
  BY MatchFacts
<1>3. D = [C EXCEPT ![c] = y] /\ T = [S EXCEPT ![k] = old]
  OBVIOUS
<1>4. /\ old \in SideRecords /\ old.connection = c /\ old.station = S[k].station
      /\ old.toSend = <<>> /\ old.receivedIds = {} /\ old.taken = <<>> /\ old.toReceive = <<>>
  <2>1. <<>> \in Seq(Nat) /\ {} \in SUBSET Nat /\ c \in Nat /\ 0 \in Nat
    BY <1>1
  <2>2. QED BY <2>1, <1>1 DEF SideRecords, NewSide
<1> HIDE DEF c, old, r
<1>5. /\ r \in Seq(1 .. N) /\ ToSet(r) = ToSet(q) \ {k} /\ (IsInjective(q) => IsInjective(r))
  <2>1. q \in Seq(1 .. N)
    BY <1>1
  <2> HIDE DEF q
  <2>2. /\ Only(q, ToSet(q) \ {k}) \in Seq(1 .. N)
        /\ ToSet(Only(q, ToSet(q) \ {k})) = ToSet(q) \cap (ToSet(q) \ {k})
        /\ (IsInjective(q) => IsInjective(Only(q, ToSet(q) \ {k})))
    BY ONLY <2>1, OnlyApart
  <2>3. QED BY <2>2 DEF r
<1>6. /\ y \in ConnectionRecords(N) /\ y.sides = r /\ y.frequency = C[c].frequency
      /\ y.packets = C[c].packets /\ y.sentPacketId = C[c].sentPacketId
  BY <1>1, <1>5 DEF ConnectionRecords
<1> HIDE DEF y, q
<1>7. T \in [1 .. N -> SideRecords] /\ T[k] = old /\ \A j \in 1 .. N : j # k => T[j] = S[j]
  BY <1>1, <1>3, <1>4
<1>8. D \in [1 .. M -> ConnectionRecords(N)] /\ D[c] = y /\ \A d \in 1 .. M : d # c => D[d] = C[d]
  BY <1>1, <1>3, <1>6
<1>9. \A d \in 1 .. M :
        /\ D[d].frequency = C[d].frequency /\ D[d].packets = C[d].packets
        /\ D[d].sentPacketId = C[d].sentPacketId /\ ToSet(D[d].sides) = ToSet(C[d].sides) \ {k}
        /\ (IsInjective(C[d].sides) => IsInjective(D[d].sides))
  <2>1. ASSUME NEW d \in 1 .. M, d # c PROVE k \notin ToSet(C[d].sides)
    BY <2>1, <1>2 DEF c
  <2>2. QED BY <2>1, <1>5, <1>6, <1>8 DEF q
<1>10. QED BY <1>4, <1>7, <1>8, <1>9 DEF HasLeft, c

(* A side that has left is not remembered by anything in the air.          *)
LEMMA LeaveKeeps ==
  ASSUME NEW N \in Nat, NEW M \in Nat, NEW S, NEW C, Air(N, M, S, C), NEW k \in 1 .. N,
         NEW T, NEW D, HasLeft(T, D, S, C, N, M, k)
  PROVE  Air(N, M, T, D)
<1>1. /\ \A d \in 1 .. M : \A j \in ToSet(C[d].sides) : j \in 1 .. N /\ S[j].connection = d
      /\ \A n \in 1 .. Len(senders) : senders[n].side \in 1 .. N
      /\ \A d \in 1 .. M : \A i \in 1 .. Len(C[d].packets) : senders[C[d].packets[i].message].side \in 1 .. N
      /\ senders \in Seq(SenderRecords(N)) /\ \A d \in 1 .. M : C[d].sentPacketId \in Nat
  <2>1. senders \in Seq(SenderRecords(N)) /\ \A n \in 1 .. Len(senders) : senders[n].side \in 1 .. N
    BY AirTyped, SenderFacts
  <2>2. \A d \in 1 .. M : \A j \in ToSet(C[d].sides) : j \in 1 .. N /\ S[j].connection = d
    BY MatchFacts
  <2>3. \A d \in 1 .. M : \A i \in 1 .. Len(C[d].packets) : senders[C[d].packets[i].message].side \in 1 .. N
    BY PacketFacts
  <2>4. \A d \in 1 .. M : C[d].sentPacketId \in Nat
    BY ConnectionFacts
  <2>5. QED BY <2>1, <2>2, <2>3, <2>4
<1>2. T \in [1 .. N -> SideRecords] /\ D \in [1 .. M -> ConnectionRecords(N)]
  BY DEF HasLeft
<1>3. \A d \in 1 .. M :
        /\ D[d].packets = C[d].packets /\ D[d].sentPacketId = C[d].sentPacketId
        /\ \A j \in ToSet(D[d].sides) : j \in ToSet(C[d].sides) /\ j # k
        /\ (IsInjective(C[d].sides) => IsInjective(D[d].sides))
  BY DEF HasLeft
<1>4. \A j \in 1 .. N : /\ T[j].connection = S[j].connection
                        /\ \A n \in Waiting(T[j]) : n \in Waiting(S[j])
                        /\ \A n \in ToSet(HeardOf(T[j])) : n \in ToSet(HeardOf(S[j]))
                        /\ \A x \in T[j].receivedIds : x \in S[j].receivedIds
                        /\ (IsInjective(T[j].toSend) \/ T[j].toSend = S[j].toSend)
                        /\ (IsInjective(HeardOf(T[j])) \/ HeardOf(T[j]) = HeardOf(S[j]))
                        /\ (j # k => T[j] = S[j])
  <2>1. /\ T[k].connection = S[k].connection /\ T[k].toSend = <<>> /\ T[k].receivedIds = {}
        /\ T[k].taken = <<>> /\ T[k].toReceive = <<>>
    BY DEF HasLeft
  <2>2. HeardOf(T[k]) = <<>>
    BY <2>1 DEF HeardOf
  <2>3. /\ Waiting(T[k]) = {} /\ ToSet(HeardOf(T[k])) = {}
        /\ IsInjective(T[k].toSend) /\ IsInjective(HeardOf(T[k]))
    BY <2>1, <2>2 DEF Waiting, ToSet, IsInjective
  <2>4. \A j \in 1 .. N : j # k => T[j] = S[j]
    BY DEF HasLeft
  <2>5. QED BY <2>1, <2>3, <2>4
<1>5. AirTypes(N, M, T, D)
  <2>1. AirTypes(N, M, S, C)
    BY DEF Air
  <2>2. QED BY <2>1, <1>2, <1>3, <1>4 DEF AirTypes
<1>6. SidesMatch(N, M, T, D)
  <2>1. SidesMatch(N, M, S, C)
    BY DEF Air
  <2>2. QED BY <2>1, <1>3, <1>4 DEF SidesMatch
<1>7. WaitingInv(N, T)
  <2>1. WaitingInv(N, S)
    BY DEF Air
  <2>2. QED BY <2>1, <1>4 DEF WaitingInv
<1>8. FlyingInv(M, T, D)
  <2>1. FlyingInv(M, S, C)
    BY DEF Air
  <2>2. ASSUME NEW d \in 1 .. M, NEW i \in 1 .. Len(D[d].packets)
        PROVE  /\ D[d].packets[i].id < D[d].sentPacketId /\ D[d].packets[i].message \in 1 .. Len(senders)
               /\ T[senders[D[d].packets[i].message].side].connection = d
               /\ D[d].packets[i].message \notin Waiting(T[senders[D[d].packets[i].message].side])
    <3> DEFINE p == C[d].packets[i]
               j == senders[p.message].side
    <3>1. D[d].packets = C[d].packets /\ D[d].sentPacketId = C[d].sentPacketId /\ i \in 1 .. Len(C[d].packets)
      BY <1>3
    <3>2. /\ p.id < C[d].sentPacketId /\ p.message \in 1 .. Len(senders)
          /\ S[j].connection = d /\ p.message \notin Waiting(S[j])
      BY <2>1, <3>1 DEF FlyingInv
    <3>3. j \in 1 .. N
      BY <1>1, <3>1
    <3> HIDE DEF j
    <3>4. T[j].connection = d /\ p.message \notin Waiting(T[j])
      BY <3>2, <3>3, <1>4
    <3>5. QED BY <3>1, <3>2, <3>4 DEF j
  <2>3. QED BY <2>2 DEF FlyingInv
<1>9. DistinctInv(M, D)
  <2>1. DistinctInv(M, C)
    BY DEF Air
  <2>2. QED BY <2>1, <1>3, SMTT(30) DEF DistinctInv
<1>10. HeardInv(N, T)
  <2>1. HeardInv(N, S)
    BY DEF Air
  <2>2. QED BY <2>1, <1>1, <1>4 DEF HeardInv
<1>11. \A d \in 1 .. M : \A j \in ToSet(D[d].sides) : j \in ToSet(C[d].sides) /\ T[j] = S[j]
  BY <1>1, <1>3, <1>4
<1>12. RememberedInv(M, T, D)
  <2>1. RememberedInv(M, S, C)
    BY DEF Air
  <2>2. QED BY <2>1, <1>3, <1>11 DEF RememberedInv
<1>13. GoneInv(M, T, D)
  <2>1. GoneInv(M, S, C)
    BY DEF Air
  <2>2. ASSUME NEW d \in 1 .. M, NEW j \in ToSet(D[d].sides), NEW x \in T[j].since .. D[d].sentPacketId - 1
        PROVE  x \in T[j].receivedIds \/ \E i \in 1 .. Len(D[d].packets) : D[d].packets[i].id = x
    <3>1. /\ j \in ToSet(C[d].sides) /\ T[j] = S[j]
          /\ D[d].packets = C[d].packets /\ D[d].sentPacketId = C[d].sentPacketId
      BY <1>3, <1>11
    <3>2. x \in S[j].receivedIds \/ \E i \in 1 .. Len(C[d].packets) : C[d].packets[i].id = x
      BY <2>1, <2>2, <3>1 DEF GoneInv
    <3>3. QED BY <3>1, <3>2
  <2>3. QED BY <2>2 DEF GoneInv
<1>14. QED BY <1>5, <1>6, <1>7, <1>8, <1>9, <1>10, <1>12, <1>13 DEF Air

(* A new connection has no sides and no packets.                           *)
LEMMA NewConnectionKeeps ==
  ASSUME NEW N \in Nat, NEW M \in Nat, NEW S, NEW C, Air(N, M, S, C), NEW f \in Frequencies,
         NEW D \in [1 .. M + 1 -> ConnectionRecords(N)], D[M + 1] = NewConnection(f),
         \A c \in 1 .. M : D[c] = C[c]
  PROVE  Air(N, M + 1, S, D)
<1>1. \A c \in 1 .. M + 1 : c \in 1 .. M \/ c = M + 1
  OBVIOUS
<1>2. \A c \in 1 .. M : c \in 1 .. M + 1
  OBVIOUS
<1>3. D[M + 1].sides = <<>> /\ D[M + 1].packets = <<>>
  BY DEF NewConnection
<1>4. ToSet(D[M + 1].sides) = {} /\ Len(D[M + 1].packets) = 0 /\ IsInjective(D[M + 1].sides) /\ 1 .. 0 = {}
  BY <1>3 DEF ToSet, IsInjective
<1>5. AirTypes(N, M + 1, S, D)
  BY <1>2 DEF Air, AirTypes
<1>6. SidesMatch(N, M + 1, S, D)
  BY <1>1, <1>4 DEF Air, SidesMatch
<1>7. FlyingInv(M + 1, S, D)
  <2>1. FlyingInv(M, S, C)
    BY DEF Air
  <2>2. QED BY <2>1, <1>1, <1>4 DEF FlyingInv
<1>8. DistinctInv(M + 1, D)
  BY <1>1, <1>4, SMTT(30) DEF Air, DistinctInv
<1>9. RememberedInv(M + 1, S, D)
  <2>1. RememberedInv(M, S, C)
    BY DEF Air
  <2>2. QED BY <2>1, <1>1, <1>4 DEF RememberedInv
<1>10. GoneInv(M + 1, S, D)
  <2>1. GoneInv(M, S, C)
    BY DEF Air
  <2>2. ASSUME NEW c \in 1 .. M + 1, NEW k \in ToSet(D[c].sides), NEW x \in S[k].since .. D[c].sentPacketId - 1
        PROVE  x \in S[k].receivedIds \/ \E i \in 1 .. Len(D[c].packets) : D[c].packets[i].id = x
    <3>1. c \in 1 .. M
      BY <1>1, <1>4
    <3>2. D[c] = C[c]
      BY <3>1
    <3>3. x \in S[k].receivedIds \/ \E i \in 1 .. Len(C[c].packets) : C[c].packets[i].id = x
      BY <2>1, <2>2, <3>1, <3>2 DEF GoneInv
    <3>4. QED BY <3>2, <3>3
  <2>3. QED BY <2>2 DEF GoneInv
<1>11. WaitingInv(N, S) /\ HeardInv(N, S)
  BY DEF Air
<1>12. QED BY <1>5, <1>6, <1>7, <1>8, <1>9, <1>10, <1>11 DEF Air

(* T and D are the sides and connections when station s has got a new side *)
(* in c.                                                                   *)
HasJoined(T, D, S, C, N, M, c, s) ==
    /\ T \in [1 .. N + 1 -> SideRecords] /\ D \in [1 .. M -> ConnectionRecords(N + 1)]
    /\ \A k \in 1 .. N : T[k] = S[k]
    /\ T[N + 1].connection = c /\ T[N + 1].station = s /\ T[N + 1].since = C[c].sentPacketId
    /\ T[N + 1].toSend = <<>> /\ T[N + 1].receivedIds = {} /\ T[N + 1].taken = <<>>
    /\ T[N + 1].toReceive = <<>>
    /\ \A d \in 1 .. M :
         /\ D[d].frequency = C[d].frequency /\ D[d].packets = C[d].packets
         /\ D[d].sentPacketId = C[d].sentPacketId
         /\ ToSet(D[d].sides) = IF d = c THEN ToSet(C[d].sides) \cup {N + 1} ELSE ToSet(C[d].sides)
         /\ (IsInjective(C[d].sides) => IsInjective(D[d].sides))

LEMMA JoinEffect ==
  ASSUME NEW N \in Nat, NEW M \in Nat, NEW S, NEW C, Air(N, M, S, C), NEW c \in 1 .. M, NEW s \in Stations,
         NEW T \in [1 .. N + 1 -> SideRecords], T[N + 1] = NewSide(c, s, C[c].sentPacketId),
         \A k \in 1 .. N : T[k] = S[k],
         NEW D, D = [C EXCEPT ![c].sides = Append(@, N + 1)]
  PROVE  HasJoined(T, D, S, C, N, M, c, s)
<1> DEFINE q == C[c].sides
           r == Append(q, N + 1)
           y == [C[c] EXCEPT !.sides = r]
<1>1. /\ C \in [1 .. M -> ConnectionRecords(N)] /\ q \in Seq(1 .. N) /\ C[c] \in ConnectionRecords(N)
      /\ C[c].sentPacketId \in Nat
  <2>1. /\ C \in [1 .. M -> ConnectionRecords(N)] /\ q \in Seq(1 .. N) /\ C[c].sentPacketId \in Nat
    BY AirTyped, ConnectionFacts
  <2>2. QED BY <2>1
<1>2. \A d \in 1 .. M : \A j \in ToSet(C[d].sides) : j \in 1 .. N
  BY MatchFacts
<1>3. 1 .. N \subseteq 1 .. N + 1 /\ N + 1 \in 1 .. N + 1 /\ N + 1 \notin 1 .. N /\ N + 1 \in Nat
      /\ \A k \in 1 .. N + 1 : k \in 1 .. N \/ k = N + 1
  OBVIOUS
<1>4. Seq(1 .. N) \subseteq Seq(1 .. N + 1) /\ SenderRecords(N) \subseteq SenderRecords(N + 1)
  BY <1>3, SeqMonotonic DEF SenderRecords
<1>5. Seq(SenderRecords(N)) \subseteq Seq(SenderRecords(N + 1)) /\ ConnectionRecords(N) \subseteq ConnectionRecords(N + 1)
  BY <1>4, SeqMonotonic DEF ConnectionRecords
<1>6. D = [C EXCEPT ![c] = y]
  OBVIOUS
<1> HIDE DEF q, r
<1>7. r \in Seq(1 .. N + 1) /\ ToSet(r) = ToSet(q) \cup {N + 1} /\ (IsInjective(q) => IsInjective(r))
  <2> DEFINE e == N + 1
             B == 1 .. N + 1
  <2>1. q \in Seq(B) /\ <<e>> \in Seq(B) /\ r = q \o <<e>>
    BY <1>1, <1>3, <1>4 DEF r
  <2>2. e \notin ToSet(q)
    BY <1>2, <1>3 DEF q
  <2> HIDE DEF e, B
  <2>3. /\ q \o <<e>> \in Seq(B) /\ ToSet(q \o <<e>>) = ToSet(q) \cup ToSet(<<e>>)
        /\ (IsInjective(q) /\ IsInjective(<<e>>) /\ ToSet(q) \cap ToSet(<<e>>) = {}) => IsInjective(q \o <<e>>)
    BY ONLY <2>1, JoinedInjective, ZenonT(60)
  <2>4. ToSet(<<e>>) = {e} /\ IsInjective(<<e>>)
    BY DEF ToSet, IsInjective
  <2>5. /\ r \in Seq(B) /\ ToSet(r) = ToSet(q) \cup {e} /\ (IsInjective(q) => IsInjective(r))
    BY <2>1, <2>2, <2>3, <2>4
  <2>6. QED BY <2>5 DEF e, B
<1>8. C[c] \in ConnectionRecords(N + 1)
  BY <1>1, <1>5
<1>9. /\ y \in ConnectionRecords(N + 1) /\ y.sides = r /\ y.frequency = C[c].frequency
      /\ y.packets = C[c].packets /\ y.sentPacketId = C[c].sentPacketId
  BY <1>7, <1>8 DEF ConnectionRecords
<1> HIDE DEF y
<1>10. D \in [1 .. M -> ConnectionRecords(N + 1)] /\ D[c] = y /\ \A d \in 1 .. M : d # c => D[d] = C[d]
  BY <1>1, <1>5, <1>6, <1>9
<1>11. \A d \in 1 .. M :
        /\ D[d].frequency = C[d].frequency /\ D[d].packets = C[d].packets
        /\ D[d].sentPacketId = C[d].sentPacketId
        /\ ToSet(D[d].sides) = IF d = c THEN ToSet(C[d].sides) \cup {N + 1} ELSE ToSet(C[d].sides)
        /\ (IsInjective(C[d].sides) => IsInjective(D[d].sides))
  BY <1>7, <1>9, <1>10 DEF q
<1>12. /\ T[N + 1].connection = c /\ T[N + 1].station = s /\ T[N + 1].since = C[c].sentPacketId
       /\ T[N + 1].toSend = <<>> /\ T[N + 1].receivedIds = {} /\ T[N + 1].taken = <<>>
       /\ T[N + 1].toReceive = <<>>
  BY DEF NewSide
<1>13. QED BY <1>10, <1>11, <1>12 DEF HasJoined

(* A new side has nothing to remember: no packet was sent since it is there. *)
LEMMA JoinKeeps ==
  ASSUME NEW N \in Nat, NEW M \in Nat, NEW S, NEW C, Air(N, M, S, C), NEW c \in 1 .. M, NEW s \in Stations,
         NEW T, NEW D, HasJoined(T, D, S, C, N, M, c, s)
  PROVE  Air(N + 1, M, T, D)
<1>1. /\ \A d \in 1 .. M : \A j \in ToSet(C[d].sides) : j \in 1 .. N /\ S[j].connection = d
      /\ \A n \in 1 .. Len(senders) : senders[n].side \in 1 .. N
      /\ \A d \in 1 .. M : \A i \in 1 .. Len(C[d].packets) :
           C[d].packets[i].message \in 1 .. Len(senders) /\ senders[C[d].packets[i].message].side \in 1 .. N
      /\ senders \in Seq(SenderRecords(N)) /\ \A d \in 1 .. M : C[d].sentPacketId \in Nat
  <2>1. senders \in Seq(SenderRecords(N)) /\ \A n \in 1 .. Len(senders) : senders[n].side \in 1 .. N
    BY AirTyped, SenderFacts
  <2>2. \A d \in 1 .. M : \A j \in ToSet(C[d].sides) : j \in 1 .. N /\ S[j].connection = d
    BY MatchFacts
  <2>3. \A d \in 1 .. M : \A i \in 1 .. Len(C[d].packets) :
          C[d].packets[i].message \in 1 .. Len(senders) /\ senders[C[d].packets[i].message].side \in 1 .. N
    BY PacketFacts
  <2>4. \A d \in 1 .. M : C[d].sentPacketId \in Nat
    BY ConnectionFacts
  <2>5. QED BY <2>1, <2>2, <2>3, <2>4
<1>2. T \in [1 .. N + 1 -> SideRecords] /\ D \in [1 .. M -> ConnectionRecords(N + 1)]
  BY DEF HasJoined
<1>3. /\ N + 1 \in 1 .. N + 1 /\ N + 1 \notin 1 .. N /\ \A k \in 1 .. N : k \in 1 .. N + 1
      /\ \A k \in 1 .. N + 1 : k \in 1 .. N \/ k = N + 1
  OBVIOUS
<1>4. \A k \in 1 .. N : T[k] = S[k]
  BY DEF HasJoined
<1>5. \A d \in 1 .. M :
        /\ D[d].packets = C[d].packets /\ D[d].sentPacketId = C[d].sentPacketId
        /\ \A j \in ToSet(D[d].sides) : j \in ToSet(C[d].sides) \/ (j = N + 1 /\ d = c)
        /\ (IsInjective(C[d].sides) => IsInjective(D[d].sides))
  <2>1. ASSUME NEW d \in 1 .. M
        PROVE  /\ D[d].packets = C[d].packets /\ D[d].sentPacketId = C[d].sentPacketId
               /\ ToSet(D[d].sides) = IF d = c THEN ToSet(C[d].sides) \cup {N + 1} ELSE ToSet(C[d].sides)
               /\ (IsInjective(C[d].sides) => IsInjective(D[d].sides))
    BY DEF HasJoined
  <2>2. ASSUME NEW d \in 1 .. M, NEW j \in ToSet(D[d].sides)
        PROVE  j \in ToSet(C[d].sides) \/ (j = N + 1 /\ d = c)
    BY <2>1
  <2>3. QED BY <2>1, <2>2
<1>6. /\ T[N + 1].connection = c /\ T[N + 1].since = C[c].sentPacketId /\ T[N + 1].receivedIds = {}
      /\ T[N + 1].toSend = <<>> /\ T[N + 1].taken = <<>> /\ T[N + 1].toReceive = <<>>
  BY DEF HasJoined
<1>7. /\ Waiting(T[N + 1]) = {} /\ ToSet(HeardOf(T[N + 1])) = {}
      /\ IsInjective(T[N + 1].toSend) /\ IsInjective(HeardOf(T[N + 1]))
  <2>1. HeardOf(T[N + 1]) = <<>>
    BY <1>6 DEF HeardOf
  <2>2. QED BY <2>1, <1>6 DEF Waiting, ToSet, IsInjective
<1>8. AirTypes(N + 1, M, T, D)
  <2>1. AirTypes(N, M, S, C)
    BY DEF Air
  <2>2. ASSUME NEW k \in 1 .. N + 1
        PROVE  T[k].connection \in 1 .. M /\ \A x \in T[k].receivedIds : x < D[T[k].connection].sentPacketId
    <3>1. CASE k = N + 1
      BY <3>1, <1>6
    <3>2. CASE k \in 1 .. N
      <4>1. /\ S[k].connection \in 1 .. M
            /\ \A x \in S[k].receivedIds : x < C[S[k].connection].sentPacketId
        BY <3>2, <2>1 DEF AirTypes
      <4>2. T[k] = S[k]
        BY <3>2, <1>4
      <4>3. QED BY <4>1, <4>2, <1>5
    <3>3. QED BY <3>1, <3>2, <1>3
  <2>3. senders \in Seq(SenderRecords(N + 1))
    <3>1. SenderRecords(N) \subseteq SenderRecords(N + 1)
      BY <1>3 DEF SenderRecords
    <3>2. QED BY <3>1, <1>1, SeqMonotonic
  <2>4. QED BY <2>2, <2>3, <1>2 DEF AirTypes
<1>9. SidesMatch(N + 1, M, T, D)
  <2>1. SidesMatch(N, M, S, C)
    BY DEF Air
  <2>2. ASSUME NEW d \in 1 .. M, NEW k \in ToSet(D[d].sides) PROVE k \in 1 .. N + 1 /\ T[k].connection = d
    <3>1. CASE k \in ToSet(C[d].sides)
      BY <3>1, <1>1, <1>3, <1>4
    <3>2. CASE k = N + 1 /\ d = c
      BY <3>2, <1>3, <1>6
    <3>3. QED BY <2>2, <3>1, <3>2, <1>5
  <2>3. \A d \in 1 .. M : IsInjective(D[d].sides)
    BY <2>1, <1>5 DEF SidesMatch
  <2>4. QED BY <2>2, <2>3 DEF SidesMatch
<1>10. WaitingInv(N + 1, T)
  <2>1. WaitingInv(N, S)
    BY DEF Air
  <2>2. QED BY <2>1, <1>3, <1>4, <1>7 DEF WaitingInv
<1>11. FlyingInv(M, T, D)
  <2>1. FlyingInv(M, S, C)
    BY DEF Air
  <2>2. ASSUME NEW d \in 1 .. M, NEW i \in 1 .. Len(D[d].packets)
        PROVE  /\ D[d].packets[i].id < D[d].sentPacketId /\ D[d].packets[i].message \in 1 .. Len(senders)
               /\ T[senders[D[d].packets[i].message].side].connection = d
               /\ D[d].packets[i].message \notin Waiting(T[senders[D[d].packets[i].message].side])
    <3> DEFINE p == C[d].packets[i]
               j == senders[p.message].side
    <3>1. D[d].packets = C[d].packets /\ D[d].sentPacketId = C[d].sentPacketId /\ i \in 1 .. Len(C[d].packets)
      BY <1>5
    <3>2. /\ p.id < C[d].sentPacketId /\ p.message \in 1 .. Len(senders)
          /\ S[j].connection = d /\ p.message \notin Waiting(S[j])
      BY <2>1, <3>1 DEF FlyingInv
    <3>3. j \in 1 .. N
      BY <1>1, <3>1
    <3> HIDE DEF j
    <3>4. T[j].connection = d /\ p.message \notin Waiting(T[j])
      BY <3>2, <3>3, <1>4
    <3>5. QED BY <3>1, <3>2, <3>4 DEF j
  <2>3. QED BY <2>2 DEF FlyingInv
<1>12. DistinctInv(M, D)
  <2>1. DistinctInv(M, C)
    BY DEF Air
  <2>2. ASSUME NEW d \in 1 .. M, NEW i \in 1 .. Len(D[d].packets), NEW j \in 1 .. Len(D[d].packets), i # j
        PROVE  D[d].packets[i].id # D[d].packets[j].id /\ D[d].packets[i].message # D[d].packets[j].message
    <3>1. D[d].packets = C[d].packets
      BY <1>5
    <3>2. QED BY <2>1, <2>2, <3>1 DEF DistinctInv
  <2>3. QED BY <2>2 DEF DistinctInv
<1>13. HeardInv(N + 1, T)
  <2>1. HeardInv(N, S)
    BY DEF Air
  <2>2. QED BY <2>1, <1>1, <1>3, <1>4, <1>7 DEF HeardInv
<1>14. RememberedInv(M, T, D)
  <2>1. RememberedInv(M, S, C)
    BY DEF Air
  <2>2. ASSUME NEW d \in 1 .. M, NEW k \in ToSet(D[d].sides), NEW i \in 1 .. Len(D[d].packets),
               \/ D[d].packets[i].message \in ToSet(HeardOf(T[k]))
               \/ senders[D[d].packets[i].message].side = k
        PROVE  D[d].packets[i].id \in T[k].receivedIds
    <3>1. D[d].packets = C[d].packets /\ senders[D[d].packets[i].message].side \in 1 .. N
      BY <1>1, <1>5
    <3>2. k # N + 1
      BY <2>2, <3>1, <1>3, <1>7
    <3>3. k \in ToSet(C[d].sides) /\ T[k] = S[k]
      BY <2>2, <3>2, <1>1, <1>4, <1>5
    <3>4. QED BY <2>1, <2>2, <3>1, <3>3 DEF RememberedInv
  <2>3. QED BY <2>2 DEF RememberedInv
<1>15. GoneInv(M, T, D)
  <2>1. GoneInv(M, S, C)
    BY DEF Air
  <2>2. ASSUME NEW d \in 1 .. M, NEW k \in ToSet(D[d].sides), NEW x \in T[k].since .. D[d].sentPacketId - 1
        PROVE  x \in T[k].receivedIds \/ \E i \in 1 .. Len(D[d].packets) : D[d].packets[i].id = x
    <3>1. D[d].packets = C[d].packets /\ D[d].sentPacketId = C[d].sentPacketId
      BY <1>5
    <3>2. CASE k \in ToSet(C[d].sides)
      <4>1. T[k] = S[k]
        BY <3>2, <1>1, <1>4
      <4>2. QED BY <2>1, <2>2, <3>1, <3>2, <4>1 DEF GoneInv
    <3>3. CASE k = N + 1 /\ d = c
      <4>1. x \in C[c].sentPacketId .. C[c].sentPacketId - 1
        BY <2>2, <3>1, <3>3, <1>6
      <4>2. QED BY <4>1, <1>1
    <3>4. QED BY <2>2, <3>2, <3>3, <1>5
  <2>3. QED BY <2>2 DEF GoneInv
<1>16. QED BY <1>8, <1>9, <1>10, <1>11, <1>12, <1>13, <1>14, <1>15 DEF Air

(* The sides T and connections D are without side k, which may be none.    *)
Without(T, D, S, C, N, M, k) ==
    /\ T \in [1 .. N -> SideRecords] /\ D \in [1 .. M -> ConnectionRecords(N)]
    /\ \A j \in 1 .. N : T[j].connection = S[j].connection /\ T[j].station = S[j].station
    /\ \A c \in 1 .. M :
         /\ D[c].frequency = C[c].frequency /\ D[c].packets = C[c].packets
         /\ ToSet(D[c].sides) = ToSet(C[c].sides) \ {k}

LEMMA WithoutKeeps ==
  ASSUME IInv, NEW M \in Nat, NEW C, Air(Len(sides), M, sides, C), NEW k \in 0 .. Len(sides),
         NEW T, T = Forget(sides, k), NEW D, D = RemoveSide(C, k)
  PROVE  Air(Len(sides), M, T, D) /\ Without(T, D, sides, C, Len(sides), M, k)
<1>1. Len(sides) \in Nat
  BY IInvFacts
<1>2. CASE k = NoSide
  <2>1. T = sides /\ D = C /\ k \notin 1 .. Len(sides)
    BY <1>2 DEF Forget, RemoveSide, NoSide
  <2>2. /\ sides \in [1 .. Len(sides) -> SideRecords] /\ C \in [1 .. M -> ConnectionRecords(Len(sides))]
        /\ \A c \in 1 .. M : \A j \in ToSet(C[c].sides) : j \in 1 .. Len(sides)
    BY <1>1, AirTyped, MatchFacts
  <2>3. \A c \in 1 .. M : ToSet(C[c].sides) = ToSet(C[c].sides) \ {k}
    BY <2>1, <2>2
  <2>4. Without(sides, C, sides, C, Len(sides), M, k)
    BY <2>2, <2>3 DEF Without
  <2>5. QED BY <2>1, <2>4
<1>3. CASE k # NoSide
  <2>1. k \in 1 .. Len(sides)
    BY <1>1, <1>3 DEF NoSide
  <2>2. T = [sides EXCEPT ![k] = NewSide(sides[k].connection, sides[k].station, 0)]
    BY <1>3 DEF Forget
  <2>3. D = [C EXCEPT ![sides[k].connection].sides = Only(@, ToSet(@) \ {k})]
    BY <1>3 DEF RemoveSide
  <2>4. HasLeft(T, D, sides, C, Len(sides), M, k)
    BY <1>1, <2>1, <2>2, <2>3, LeaveEffect
  <2>5. Air(Len(sides), M, T, D)
    BY <1>1, <2>1, <2>4, LeaveKeeps
  <2>6. \A j \in 1 .. Len(sides) : T[j].connection = sides[j].connection /\ T[j].station = sides[j].station
    BY <2>4 DEF HasLeft
  <2>7. QED BY <2>4, <2>5, <2>6 DEF HasLeft, Without
<1>4. QED BY <1>2, <1>3

(* The connection of a frequency, listed or new.                           *)
LEMMA ConnectionOfFrequency ==
  ASSUME IInv, NEW f \in Frequencies, NEW C, C = ConnectionsWith(f), NEW c, c = ConnectionOf(f)
  PROVE  /\ C \in Seq(ConnectionRecords(Len(sides))) /\ Len(C) \in Nat /\ c \in 1 .. Len(C)
         /\ Air(Len(sides), Len(C), sides, C) /\ C[c].frequency = f
         /\ \A d \in 1 .. Len(connections) : d \in 1 .. Len(C) /\ C[d] = connections[d]
         /\ \A d \in 1 .. Len(C) : \/ d \in 1 .. Len(connections)
                                   \/ ToSet(C[d].sides) = {} /\ Len(C[d].packets) = 0
         /\ \A d \in listed : connections[d].frequency = f => d = c
<1> DEFINE N == Len(sides)
           M == Len(connections)
<1>1. /\ connections \in Seq(ConnectionRecords(N)) /\ N \in Nat /\ M \in Nat /\ DOMAIN connections = 1 .. M
      /\ Air(N, M, sides, connections)
  BY IInvFacts
<1>2. /\ listed \subseteq 1 .. M
      /\ \A d, e \in listed : connections[d].frequency = connections[e].frequency => d = e
  BY <1>1 DEF IInv, ListedInv
<1> HIDE DEF N, M
<1>3. CASE WithFrequency(f) # {}
  <2>1. C = connections /\ c = CHOOSE e \in WithFrequency(f) : TRUE
    BY <1>3 DEF ConnectionsWith, ConnectionOf
  <2>2. c \in WithFrequency(f)
    BY <1>3, <2>1
  <2>3. c \in listed /\ connections[c].frequency = f
    BY <2>2 DEF WithFrequency
  <2>4. c \in 1 .. M /\ \A d \in listed : connections[d].frequency = f => d = c
    BY <2>3, <1>2
  <2>5. QED BY <2>1, <2>3, <2>4, <1>1 DEF N, M
<1>4. CASE WithFrequency(f) = {}
  <2> DEFINE new == NewConnection(f)
  <2>1. C = Append(connections, new) /\ c = M + 1
    BY <1>4 DEF ConnectionsWith, ConnectionOf, M
  <2>2. new \in ConnectionRecords(N) /\ new.frequency = f /\ new.sides = <<>> /\ new.packets = <<>>
    <3>1. <<>> \in Seq(1 .. N) /\ <<>> \in Seq(Packets) /\ 0 \in Nat
      OBVIOUS
    <3>2. QED BY <3>1 DEF NewConnection, ConnectionRecords
  <2> HIDE DEF new
  <2>3. /\ C \in Seq(ConnectionRecords(N)) /\ Len(C) = M + 1 /\ C[M + 1] = new
        /\ \A d \in 1 .. M : C[d] = connections[d]
    BY <2>1, <2>2, <1>1 DEF M
  <2>4. C \in [1 .. M + 1 -> ConnectionRecords(N)]
    BY <2>3, <1>1
  <2>5. Air(N, M + 1, sides, C)
    BY <2>3, <2>4, <1>1, NewConnectionKeeps DEF new
  <2>6. \A d \in listed : connections[d].frequency # f
    BY <1>4 DEF WithFrequency
  <2>7. ToSet(C[M + 1].sides) = {} /\ Len(C[M + 1].packets) = 0
    BY <2>2, <2>3 DEF ToSet
  <2>8. /\ c \in 1 .. M + 1 /\ \A d \in 1 .. M : d \in 1 .. M + 1
        /\ \A d \in 1 .. M + 1 : d \in 1 .. M \/ d = M + 1
    BY <2>1, <1>1
  <2>9. M + 1 \in Nat
    BY <1>1
  <2>10. QED BY <2>1, <2>2, <2>3, <2>5, <2>6, <2>7, <2>8, <2>9 DEF N, M
<1>5. QED BY <1>3, <1>4

(* Tuning: the new side is the one its interface has.                      *)
LEMMA SetInterfaceFrequencyKeeps ==
  ASSUME IInv, NEW s \in Stations, NEW f \in Frequencies, SetInterfaceFrequency(s, f),
         events' \in 0 .. MaxEvents, beat' = beat
  PROVE  IInv'
<1> DEFINE N == Len(sides)
           M == Len(connections)
           old == station[s].side
           C1 == ConnectionsWith(f)
           c == ConnectionOf(f)
           S2 == Forget(sides, old)
           C2 == RemoveSide(C1, old)
           new == NewSide(c, s, C2[c].sentPacketId)
           L == Len(C1)
<1>1. /\ computers' = computers /\ running' = running /\ senders' = senders /\ raised' = raised
      /\ listed' = listed \cup {c} /\ station' = [station EXCEPT ![s].side = N + 1]
      /\ sides' = Append(S2, new) /\ connections' = [C2 EXCEPT ![c].sides = Append(@, N + 1)]
  BY DEF SetInterfaceFrequency, Connect
<1>2. /\ N \in Nat /\ M \in Nat /\ sides \in [1 .. N -> SideRecords] /\ station \in [Stations -> StationRecords]
      /\ DOMAIN connections = 1 .. M /\ Air(N, M, sides, connections)
  BY IInvFacts
<1>3. StationInv /\ ListedInv /\ OnScreenInv /\ ScreenTypes
  BY DEF IInv
<1>4. old \in 0 .. N
  <2>1. Connected(s) => old \in 1 .. N
    BY <1>3 DEF StationInv
  <2>2. ~Connected(s) => old = 0
    BY DEF Connected, NoSide
  <2>3. QED BY <2>1, <2>2, <1>2
<1> HIDE DEF C1, c
<1>5. /\ C1 \in Seq(ConnectionRecords(N)) /\ L \in Nat /\ c \in 1 .. L
      /\ Air(N, L, sides, C1) /\ C1[c].frequency = f
      /\ \A d \in 1 .. M : d \in 1 .. L /\ C1[d] = connections[d]
      /\ \A d \in 1 .. L : d \in 1 .. M \/ (ToSet(C1[d].sides) = {} /\ Len(C1[d].packets) = 0)
      /\ \A d \in listed : connections[d].frequency = f => d = c
  BY ConnectionOfFrequency DEF C1, c
<1> HIDE DEF S2, C2, L
<1>6. Air(N, L, S2, C2) /\ Without(S2, C2, sides, C1, N, L, old)
  BY <1>4, <1>5, WithoutKeeps DEF S2, C2
<1> HIDE DEF old, N, M
<1>7. /\ S2 \in [1 .. N -> SideRecords] /\ C2 \in [1 .. L -> ConnectionRecords(N)]
      /\ \A j \in 1 .. N : S2[j].connection = sides[j].connection /\ S2[j].station = sides[j].station
      /\ \A d \in 1 .. L : /\ C2[d].frequency = C1[d].frequency /\ C2[d].packets = C1[d].packets
                           /\ ToSet(C2[d].sides) = ToSet(C1[d].sides) \ {old}
  BY <1>6 DEF Without
<1>8. new \in SideRecords
  <2>1. C2[c] \in ConnectionRecords(N)
    BY <1>5, <1>7
  <2>2. C2[c].sentPacketId \in Nat /\ c \in Nat
    BY <2>1, <1>5, SMTT(30) DEF ConnectionRecords
  <2>3. <<>> \in Seq(Nat) /\ {} \in SUBSET Nat
    OBVIOUS
  <2>4. QED BY <2>2, <2>3 DEF NewSide, SideRecords
<1> HIDE DEF new
<1>9. /\ sides' \in Seq(SideRecords) /\ Len(sides') = N + 1 /\ sides'[N + 1] = new
      /\ \A k \in 1 .. N : sides'[k] = S2[k]
  <2>1. S2 \in Seq(SideRecords) /\ Len(S2) = N
    BY <1>2, <1>7, FunctionIsSequence
  <2>2. QED BY <2>1, <1>1, <1>2, <1>8
<1>10. sides' \in [1 .. N + 1 -> SideRecords]
  BY <1>2, <1>9
<1>11. HasJoined(sides', connections', S2, C2, N, L, c, s)
  BY <1>1, <1>2, <1>5, <1>6, <1>9, <1>10, JoinEffect DEF new
<1>12. Air(N + 1, L, sides', connections')
  BY <1>2, <1>5, <1>6, <1>11, JoinKeeps
<1>13. /\ connections' \in [1 .. L -> ConnectionRecords(N + 1)]
       /\ sides'[N + 1].connection = c /\ sides'[N + 1].station = s
       /\ \A d \in 1 .. L :
            /\ connections'[d].frequency = C2[d].frequency /\ connections'[d].packets = C2[d].packets
            /\ ToSet(connections'[d].sides) = IF d = c THEN ToSet(C2[d].sides) \cup {N + 1} ELSE ToSet(C2[d].sides)
  BY <1>11 DEF HasJoined
<1>14. /\ connections' \in Seq(ConnectionRecords(N + 1)) /\ Len(connections') = L
       /\ DOMAIN connections' = 1 .. L
  BY <1>5, <1>13, FunctionIsSequence
<1>15. /\ \A j \in 1 .. N : /\ sides'[j].connection = sides[j].connection
                            /\ sides'[j].station = sides[j].station
       /\ \A d \in 1 .. L : /\ connections'[d].frequency = C1[d].frequency
                            /\ connections'[d].packets = C1[d].packets
  BY <1>7, <1>9, <1>13
<1>16. ASSUME NEW d \in 1 .. L, NEW k
       PROVE  k \in ToSet(connections'[d].sides) <=>
                 (k \in ToSet(C1[d].sides) /\ k # old) \/ (d = c /\ k = N + 1)
  <2> DEFINE A == ToSet(connections'[d].sides)
             B == ToSet(C2[d].sides)
             E == ToSet(C1[d].sides)
  <2>1. A = IF d = c THEN B \cup {N + 1} ELSE B
    BY <1>13
  <2>2. B = E \ {old}
    BY <1>7
  <2> HIDE DEF A, B, E
  <2>3. k \in A <=> (k \in E /\ k # old) \/ (d = c /\ k = N + 1)
    BY <2>1, <2>2
  <2>4. QED BY <2>3 DEF A, E
<1>17. /\ station' \in [Stations -> StationRecords] /\ station'[s].side = N + 1
       /\ \A t \in Stations : t # s => station'[t] = station[t]
  <2> DEFINE x == [station[s] EXCEPT !.side = N + 1]
  <2>1. station' = [station EXCEPT ![s] = x]
    BY <1>1
  <2>2. x \in StationRecords /\ x.side = N + 1
    <3>1. station[s] \in StationRecords /\ N + 1 \in Nat
      BY <1>2
    <3>2. QED BY <3>1 DEF StationRecords
  <2> HIDE DEF x
  <2>3. QED BY <2>1, <2>2, <1>2
<1>18. /\ N + 1 \in 1 .. N + 1 /\ N + 1 # NoSide /\ N + 1 \notin 1 .. N /\ \A j \in 1 .. N : j \in 1 .. N + 1
  BY <1>2 DEF NoSide
<1>19. \A t \in Stations : t # s => (Connected(t)' <=> Connected(t))
  BY <1>17 DEF Connected
<1>20. \A t \in Stations : Connected(t) =>
         /\ station[t].side \in 1 .. N /\ sides[station[t].side].station = t
         /\ sides[station[t].side].connection \in 1 .. M
         /\ station[t].side \in ToSet(connections[sides[station[t].side].connection].sides)
  <2>1. \A j \in 1 .. N : sides[j].connection \in 1 .. M
    BY <1>2, SideFacts
  <2>2. QED BY <2>1, <1>3 DEF StationInv, N
<1>21. Air(Len(sides), Len(connections), sides, connections)'
  BY <1>1, <1>9, <1>12, <1>14, AirNext
<1>22. OnScreenInv'
  <2>1. ASSUME NEW d \in 1 .. L, NEW i \in 1 .. Len(connections'[d].packets)
        PROVE  connections'[d].packets[i].radius \in 0 .. LongestLine
    <3>1. connections'[d].packets = C1[d].packets
      BY <1>15
    <3>2. CASE d \in 1 .. M
      BY <2>1, <3>1, <3>2, <1>2, <1>3, <1>5 DEF OnScreenInv
    <3>3. CASE Len(C1[d].packets) = 0
      BY <2>1, <3>1, <3>3
    <3>4. QED BY <3>2, <3>3, <1>5
  <2>2. QED BY <2>1, <1>14 DEF OnScreenInv
<1>23. StationInv'
  <2>1. ASSUME NEW t \in Stations, Connected(t)'
        PROVE  /\ station'[t].side \in 1 .. N + 1 /\ sides'[station'[t].side].station = t
               /\ station'[t].side \in ToSet(connections'[sides'[station'[t].side].connection].sides)
    <3>1. CASE t = s
      <4>1. station'[t].side = N + 1 /\ sides'[N + 1].connection = c /\ sides'[N + 1].station = s
        BY <3>1, <1>13, <1>17
      <4>2. N + 1 \in ToSet(connections'[c].sides)
        BY <1>5, <1>16
      <4>3. QED BY <3>1, <4>1, <4>2, <1>18
    <3>2. CASE t # s
      <4> DEFINE k == station[t].side
                 d == sides[k].connection
      <4>1. station'[t].side = k /\ Connected(t)
        BY <2>1, <3>2, <1>17, <1>19
      <4>2. k \in 1 .. N /\ sides[k].station = t /\ d \in 1 .. M /\ k \in ToSet(connections[d].sides)
        BY <4>1, <1>20
      <4>3. k # old
        <5>1. old # NoSide => sides[old].station = s
          BY <1>20 DEF Connected, old
        <5>2. k # NoSide
          BY <4>1 DEF Connected
        <5>3. QED BY <3>2, <4>2, <5>1, <5>2
      <4> HIDE DEF k, d
      <4>4. d \in 1 .. L /\ k \in ToSet(C1[d].sides)
        BY <4>2, <1>5
      <4>5. k \in ToSet(connections'[d].sides)
        BY <4>3, <4>4, <1>16
      <4>6. sides'[k].connection = d /\ sides'[k].station = t
        BY <4>2, <1>15 DEF d
      <4>7. QED BY <4>1, <4>2, <4>5, <4>6, <1>18
    <3>3. QED BY <3>1, <3>2
  <2>2. ASSUME NEW d \in 1 .. L, NEW k \in ToSet(connections'[d].sides)
        PROVE  k # NoSide /\ station'[sides'[k].station].side = k
    <3>1. CASE d = c /\ k = N + 1
      BY <3>1, <1>13, <1>17, <1>18
    <3>2. CASE k \in ToSet(C1[d].sides) /\ k # old
      <4>1. d \in 1 .. M /\ k \in ToSet(connections[d].sides)
        BY <3>2, <1>5
      <4>2. k \in 1 .. N /\ sides[k].station \in Stations
        BY <4>1, <1>2, MatchFacts, SideFacts
      <4>3. k # NoSide /\ station[sides[k].station].side = k
        BY <4>1, <1>2, <1>3 DEF StationInv
      <4>4. sides[k].station # s
        BY <3>2, <4>3 DEF old
      <4>5. QED BY <4>2, <4>3, <4>4, <1>15, <1>17
    <3>3. QED BY <2>2, <3>1, <3>2, <1>16
  <2>3. QED BY <2>1, <2>2, <1>9, <1>14, <1>17 DEF StationInv
<1>24. ListedInv'
  <2>1. /\ listed \subseteq 1 .. M
        /\ \A d, e \in listed : connections[d].frequency = connections[e].frequency => d = e
        /\ \A t \in computers : Connected(t) => sides[station[t].side].connection \in listed
    BY <1>2, <1>3 DEF ListedInv
  <2>2. listed' \subseteq 1 .. L
    BY <2>1, <1>1, <1>5
  <2>3. \A d \in listed : d \in 1 .. L /\ connections'[d].frequency = connections[d].frequency
    BY <2>1, <1>5, <1>15
  <2>4. connections'[c].frequency = f
    BY <1>5, <1>15
  <2>5. ASSUME NEW d \in listed', NEW e \in listed', connections'[d].frequency = connections'[e].frequency
        PROVE  d = e
    BY <2>1, <2>3, <2>4, <2>5, <1>1, <1>5
  <2>6. ASSUME NEW t \in computers', Connected(t)'
        PROVE  sides'[station'[t].side].connection \in listed'
    <3>1. CASE t = s
      <4>1. station'[t].side = N + 1
        BY <3>1, <1>17
      <4>2. sides'[N + 1].connection = c
        BY <1>13
      <4>3. c \in listed'
        BY <1>1
      <4>4. QED BY <4>1, <4>2, <4>3
    <3>2. CASE t # s
      <4>1. t \in computers /\ t \in Stations
        BY <2>6, <1>1, <1>3 DEF ScreenTypes
      <4>2. Connected(t) /\ station'[t] = station[t] /\ station[t].side \in 1 .. N
        BY <2>6, <3>2, <4>1, <1>17, <1>19, <1>20
      <4>3. sides[station[t].side].connection \in listed
        BY <2>1, <4>1, <4>2
      <4>4. sides'[station[t].side].connection = sides[station[t].side].connection
        BY <4>2, <1>15
      <4>5. listed \subseteq listed'
        BY <1>1
      <4>6. QED BY <4>2, <4>3, <4>4, <4>5
    <3>3. QED BY <3>1, <3>2
  <2>7. QED BY <2>2, <2>5, <2>6, <1>14 DEF ListedInv
<1>25. ScreenTypes'
  BY <1>1, <1>3 DEF ScreenTypes
<1>26. sides' \in Seq(SideRecords) /\ connections' \in Seq(ConnectionRecords(Len(sides')))
  BY <1>9, <1>14
<1>27. QED BY <1>21, <1>22, <1>23, <1>24, <1>25, <1>26 DEF IInv

(* Deleting a computer: its interface leaves, if it has one.               *)
LEMMA DisconnectedKeeps ==
  ASSUME IInv, NEW s \in Stations, NEW k \in 0 .. Len(sides), k = NoSide \/ k = station[s].side,
         sides' = Forget(sides, k), connections' = RemoveSide(connections, k),
         station' = [station EXCEPT ![s].side = IF @ = k THEN NoSide ELSE @],
         senders' = senders, listed' = listed, computers' \subseteq computers, ScreenTypes'
  PROVE  IInv'
<1> DEFINE N == Len(sides)
           M == Len(connections)
<1>1. /\ N \in Nat /\ M \in Nat /\ Air(N, M, sides, connections) /\ DOMAIN connections = 1 .. M
      /\ station \in [Stations -> StationRecords] /\ sides \in Seq(SideRecords)
      /\ connections \in Seq(ConnectionRecords(N))
  BY IInvFacts
<1>2. StationInv /\ ListedInv /\ OnScreenInv /\ ScreenTypes
  BY DEF IInv
<1>3. Air(N, M, sides', connections') /\ Without(sides', connections', sides, connections, N, M, k)
  BY <1>1, WithoutKeeps
<1> HIDE DEF N, M
<1>4. /\ sides' \in [1 .. N -> SideRecords] /\ connections' \in [1 .. M -> ConnectionRecords(N)]
      /\ \A j \in 1 .. N : sides'[j].connection = sides[j].connection /\ sides'[j].station = sides[j].station
      /\ \A c \in 1 .. M : /\ connections'[c].frequency = connections[c].frequency
                           /\ connections'[c].packets = connections[c].packets
                           /\ ToSet(connections'[c].sides) = ToSet(connections[c].sides) \ {k}
  BY <1>3 DEF Without
<1>5. /\ sides' \in Seq(SideRecords) /\ Len(sides') = N
      /\ connections' \in Seq(ConnectionRecords(N)) /\ Len(connections') = M /\ DOMAIN connections' = 1 .. M
  BY <1>1, <1>4, FunctionIsSequence
<1>6. ASSUME NEW c \in 1 .. M, NEW j
      PROVE  j \in ToSet(connections'[c].sides) <=> j \in ToSet(connections[c].sides) /\ j # k
  <2> DEFINE A == ToSet(connections'[c].sides)
             B == ToSet(connections[c].sides)
  <2>1. A = B \ {k}
    BY <1>4
  <2> HIDE DEF A, B
  <2>2. j \in A <=> j \in B /\ j # k
    BY <2>1
  <2>3. QED BY <2>2 DEF A, B
<1>7. /\ station' \in [Stations -> StationRecords] /\ \A t \in Stations : t # s => station'[t] = station[t]
      /\ station'[s].side = IF station[s].side = k THEN NoSide ELSE station[s].side
  <2> DEFINE e == IF station[s].side = k THEN NoSide ELSE station[s].side
             x == [station[s] EXCEPT !.side = e]
  <2>1. station' = [station EXCEPT ![s] = x]
    OBVIOUS
  <2>2. station[s] \in StationRecords
    BY <1>1
  <2>3. e \in Nat
    BY <2>2 DEF StationRecords, NoSide
  <2> HIDE DEF e
  <2>4. x \in StationRecords /\ x.side = e
    BY <2>2, <2>3 DEF StationRecords
  <2> HIDE DEF x
  <2>5. QED BY <2>1, <2>4, <1>1 DEF e
<1>8. \A t \in Stations : Connected(t) =>
        /\ station[t].side \in 1 .. N /\ sides[station[t].side].station = t
        /\ sides[station[t].side].connection \in 1 .. M
        /\ station[t].side \in ToSet(connections[sides[station[t].side].connection].sides)
  <2>1. \A j \in 1 .. N : sides[j].connection \in 1 .. M
    BY <1>1, SideFacts
  <2>2. QED BY <2>1, <1>2 DEF StationInv, N
<1>9. ASSUME NEW t \in Stations, Connected(t)'
      PROVE  Connected(t) /\ station'[t].side = station[t].side /\ station[t].side # k
  <2>1. station'[t].side # NoSide
    BY <1>9 DEF Connected
  <2>2. CASE t = s
    <3>1. station[s].side # k /\ station'[s].side = station[s].side
      BY <2>1, <2>2, <1>7
    <3>2. QED BY <2>1, <2>2, <3>1 DEF Connected
  <2>3. CASE t # s
    <3>1. station'[t].side = station[t].side /\ Connected(t)
      BY <2>1, <2>3, <1>7 DEF Connected
    <3>2. station[t].side # k
      <4>1. CASE k = NoSide
        BY <4>1, <3>1 DEF Connected
      <4>2. CASE k # NoSide /\ k = station[s].side
        BY <4>2, <3>1, <2>3, <1>8 DEF Connected
      <4>3. QED BY <4>1, <4>2
    <3>3. QED BY <3>1, <3>2
  <2>4. QED BY <2>2, <2>3
<1>10. Air(Len(sides), Len(connections), sides, connections)'
  BY <1>3, <1>5, AirNext
<1>11. OnScreenInv'
  BY <1>2, <1>1, <1>4, <1>5 DEF OnScreenInv
<1>12. StationInv'
  <2>1. ASSUME NEW t \in Stations, Connected(t)'
        PROVE  /\ station'[t].side \in 1 .. N /\ sides'[station'[t].side].station = t
               /\ station'[t].side \in ToSet(connections'[sides'[station'[t].side].connection].sides)
    <3> DEFINE j == station[t].side
               d == sides[j].connection
    <3>1. Connected(t) /\ station'[t].side = j /\ j # k
      BY <2>1, <1>9
    <3>2. j \in 1 .. N /\ sides[j].station = t /\ d \in 1 .. M /\ j \in ToSet(connections[d].sides)
      BY <3>1, <1>8
    <3> HIDE DEF j, d
    <3>3. j \in ToSet(connections'[d].sides)
      BY <3>1, <3>2, <1>6
    <3>4. sides'[j].connection = d /\ sides'[j].station = t
      BY <3>2, <1>4 DEF d
    <3>5. QED BY <3>1, <3>2, <3>3, <3>4
  <2>2. ASSUME NEW d \in 1 .. M, NEW j \in ToSet(connections'[d].sides)
        PROVE  j # NoSide /\ station'[sides'[j].station].side = j
    <3>1. j \in ToSet(connections[d].sides) /\ j # k
      BY <2>2, <1>6
    <3>2. j \in 1 .. N /\ sides[j].station \in Stations
      BY <3>1, <1>1, MatchFacts, SideFacts
    <3>3. j # NoSide /\ station[sides[j].station].side = j
      BY <3>1, <1>1, <1>2 DEF StationInv
    <3>4. station'[sides[j].station].side = j
      BY <3>1, <3>2, <3>3, <1>7
    <3>5. QED BY <3>2, <3>3, <3>4, <1>4
  <2>3. QED BY <2>1, <2>2, <1>5, <1>7 DEF StationInv
<1>13. ListedInv'
  <2>1. /\ listed \subseteq 1 .. M
        /\ \A d, e \in listed : connections[d].frequency = connections[e].frequency => d = e
        /\ \A t \in computers : Connected(t) => sides[station[t].side].connection \in listed
    BY <1>1, <1>2 DEF ListedInv
  <2>2. ASSUME NEW d \in listed', NEW e \in listed', connections'[d].frequency = connections'[e].frequency
        PROVE  d = e
    <3>1. d \in listed /\ e \in listed /\ d \in 1 .. M /\ e \in 1 .. M
      BY <2>1
    <3>2. connections[d].frequency = connections[e].frequency
      BY <2>2, <3>1, <1>4
    <3>3. QED BY <3>1, <3>2, <2>1
  <2>3. ASSUME NEW t \in computers', Connected(t)'
        PROVE  sides'[station'[t].side].connection \in listed'
    <3>1. t \in computers /\ t \in Stations
      BY <1>2 DEF ScreenTypes
    <3>2. Connected(t) /\ station'[t].side = station[t].side /\ station[t].side \in 1 .. N
      BY <2>3, <3>1, <1>8, <1>9
    <3>3. sides[station[t].side].connection \in listed
      BY <2>1, <3>1, <3>2
    <3>4. sides'[station[t].side].connection = sides[station[t].side].connection
      BY <3>2, <1>4
    <3>5. QED BY <3>2, <3>3, <3>4
  <2>4. listed' \subseteq 1 .. M
    BY <2>1
  <2>5. QED BY <2>2, <2>3, <2>4, <1>5 DEF ListedInv
<1>14. QED BY <1>5, <1>10, <1>11, <1>12, <1>13 DEF IInv

LEMMA DeleteComputerKeeps ==
  ASSUME IInv, NEW s \in Stations, DeleteComputer(s), events' \in 0 .. MaxEvents, beat' = beat
  PROVE  IInv'
<1>1. /\ computers' = computers \ {s} /\ running' = running /\ listed' = listed /\ senders' = senders
      /\ station \in [Stations -> StationRecords] /\ ScreenTypes /\ StationInv /\ Len(sides) \in Nat
  BY IInvFacts DEF DeleteComputer, IInv
<1>2. CASE station[s].owned /\ ~Connected(s)
  <2>1. raised' = "InterfaceNotConnectedError" /\ station' = station /\ sides' = sides /\ connections' = connections
    BY <1>2 DEF DeleteComputer, air
  <2>2. ScreenTypes'
    BY <1>1, <2>1 DEF ScreenTypes
  <2>3. computers' \subseteq {t \in Stations : t \in computers \/ ~Connected(t)}
    BY <1>1 DEF ScreenTypes
  <2>4. QED BY <1>1, <2>1, <2>2, <2>3, SideKept
<1>3. CASE ~(station[s].owned /\ ~Connected(s))
  <2> DEFINE k == IF station[s].owned THEN station[s].side ELSE NoSide
  <2>1. /\ connections' = RemoveSide(connections, k) /\ sides' = Forget(sides, k) /\ raised' = raised
        /\ station' = [station EXCEPT ![s].side = IF @ = k THEN NoSide ELSE @]
    BY <1>3 DEF DeleteComputer
  <2>2. k \in 0 .. Len(sides) /\ (k = NoSide \/ k = station[s].side)
    <3>1. Connected(s) => station[s].side \in 1 .. Len(sides)
      BY <1>1 DEF StationInv
    <3>2. QED BY <3>1, <1>1 DEF Connected, NoSide
  <2> HIDE DEF k
  <2>3. ScreenTypes'
    BY <1>1, <2>1 DEF ScreenTypes
  <2>4. computers' \subseteq computers
    BY <1>1
  <2>5. QED BY <1>1, <2>1, <2>2, <2>3, <2>4, DisconnectedKeeps
<1>4. QED BY <1>2, <1>3

-----------------------------------------------------------------------------
(* The first state. *)

(* The stations in some order.                                             *)
LEMMA InSomeOrder ==
  ASSUME NEW n \in 0 .. Cardinality(Stations), NEW q, q = SubSeq(SetToSeq(Stations), 1, n)
  PROVE  n \in Nat /\ q \in Seq(Stations) /\ Len(q) = n /\ IsInjective(q)
<1> DEFINE m == Cardinality(Stations)
           o == SetToSeq(Stations)
<1>1. m \in Nat /\ ExistsBijection(1 .. m, Stations)
  BY WirelessAssumption, FS_CardinalityType
<1>2. \E g \in [1 .. m -> Stations] : IsInjective(g)
  BY <1>1 DEF ExistsBijection, Bijection, Injection
<1>3. o \in [1 .. m -> Stations] /\ IsInjective(o)
  BY <1>2 DEF SetToSeq
<1> HIDE DEF o
<1>4. o \in Seq(Stations) /\ Len(o) = m
  BY <1>1, <1>3, FunctionIsSequence
<1>5. n \in Nat /\ n <= m
  BY <1>1
<1> HIDE DEF m
<1>6. q = SubSeq(o, 1, n)
  BY DEF o
<1>7. q \in Seq(Stations) /\ Len(q) = n /\ \A i \in 1 .. n : q[i] = o[i]
  BY <1>1, <1>4, <1>5, <1>6
<1>8. DOMAIN q = 1 .. n /\ DOMAIN o = 1 .. m /\ \A i \in 1 .. n : i \in 1 .. m
  BY <1>1, <1>3, <1>5, <1>7
<1>9. IsInjective(q)
  <2>1. ASSUME NEW i \in 1 .. n, NEW j \in 1 .. n, q[i] = q[j] PROVE i = j
    BY <2>1, <1>3, <1>7, <1>8 DEF IsInjective
  <2>2. QED BY <2>1, <1>8 DEF IsInjective
<1>10. QED BY <1>5, <1>7, <1>9

(* Nobody has sent anything.                                               *)
LEMMA SilentAir ==
  ASSUME NEW N \in Nat, NEW M \in Nat, NEW S \in [1 .. N -> SideRecords],
         NEW C \in [1 .. M -> ConnectionRecords(N)], senders = <<>>,
         \A k \in 1 .. N : /\ S[k].connection \in 1 .. M /\ S[k].since = 0 /\ S[k].toSend = <<>>
                           /\ S[k].toReceive = <<>> /\ S[k].receivedIds = {} /\ S[k].taken = <<>>,
         \A c \in 1 .. M : C[c].packets = <<>> /\ C[c].sentPacketId = 0,
         SidesMatch(N, M, S, C)
  PROVE  Air(N, M, S, C)
<1>1. \A k \in 1 .. N : /\ Waiting(S[k]) = {} /\ ToSet(HeardOf(S[k])) = {}
                        /\ IsInjective(S[k].toSend) /\ IsInjective(HeardOf(S[k]))
  <2>1. \A k \in 1 .. N : HeardOf(S[k]) = <<>>
    BY DEF HeardOf
  <2>2. QED BY <2>1 DEF Waiting, ToSet, IsInjective
<1>2. Len(senders) = 0 /\ senders \in Seq(SenderRecords(N)) /\ 1 .. 0 = {} /\ 0 .. 0 - 1 = {}
  OBVIOUS
<1>3. \A c \in 1 .. M : Len(C[c].packets) = 0
  OBVIOUS
<1>4. AirTypes(N, M, S, C)
  BY <1>2 DEF AirTypes
<1>5. WaitingInv(N, S) /\ HeardInv(N, S)
  BY <1>1 DEF WaitingInv, HeardInv
<1>6. FlyingInv(M, S, C) /\ DistinctInv(M, C) /\ RememberedInv(M, S, C)
  BY <1>2, <1>3 DEF FlyingInv, DistinctInv, RememberedInv
<1>7. \A c \in 1 .. M : \A k \in ToSet(C[c].sides) : k \in 1 .. N
  BY DEF SidesMatch
<1>8. GoneInv(M, S, C)
  BY <1>2, <1>7 DEF GoneInv
<1>9. QED BY <1>4, <1>5, <1>6, <1>8 DEF Air

LEMMA InitialStations ==
  ASSUME Init
  PROVE  IInv
<1> DEFINE f == CHOOSE f \in Frequencies : TRUE
           tunedBy(n) == SubSeq(SetToSeq(Stations), 1, n)
<1>1. PICK n \in 0 .. Cardinality(Stations), place \in [Stations -> Places] :
        /\ station = [s \in Stations |->
                        [NewInterface(place[s]) EXCEPT
                           !.side = IF s \in ToSet(tunedBy(n)) THEN CHOOSE k \in 1 .. n : tunedBy(n)[k] = s ELSE NoSide]]
        /\ sides = [k \in 1 .. n |-> NewSide(1, tunedBy(n)[k], 0)]
        /\ connections = IF n = 0 THEN <<>>
                         ELSE <<[NewConnection(f) EXCEPT !.sides = [k \in 1 .. n |-> k]]>>
  BY DEF Init
<1>2. /\ computers = Stations /\ running = Stations /\ listed = DOMAIN connections /\ senders = <<>>
      /\ events = 0 /\ beat = TRUE /\ raised = None
  BY DEF Init
<1>3. f \in Frequencies
  BY WirelessAssumption
<1> DEFINE q == tunedBy(n)
           all == [k \in 1 .. n |-> k]
           only == [NewConnection(f) EXCEPT !.sides = all]
           At(s) == IF s \in ToSet(q) THEN CHOOSE k \in 1 .. n : q[k] = s ELSE NoSide
           m == IF n = 0 THEN 0 ELSE 1
<1>4. n \in Nat /\ q \in Seq(Stations) /\ Len(q) = n /\ IsInjective(q)
  BY InSomeOrder
<1>5. connections = IF n = 0 THEN <<>> ELSE <<only>>
  BY <1>1
<1>6. sides = [k \in 1 .. n |-> NewSide(1, q[k], 0)]
  BY <1>1
<1>7. station = [s \in Stations |-> [NewInterface(place[s]) EXCEPT !.side = At(s)]]
  BY <1>1
<1> HIDE DEF f, tunedBy, q
<1>8. all \in Seq(1 .. n) /\ ToSet(all) = 1 .. n /\ IsInjective(all)
  <2>1. all \in [1 .. n -> 1 .. n]
    OBVIOUS
  <2>2. all \in Seq(1 .. n)
    BY <2>1, <1>4, FunctionIsSequence
  <2>3. QED BY <2>2 DEF ToSet, IsInjective
<1> HIDE DEF all
<1>9. /\ only \in ConnectionRecords(n) /\ only.sides = all /\ only.packets = <<>> /\ only.sentPacketId = 0
      /\ only.frequency = f
  <2>1. <<>> \in Seq(Packets) /\ 0 \in Nat
    OBVIOUS
  <2>2. QED BY <2>1, <1>3, <1>8 DEF NewConnection, ConnectionRecords
<1> HIDE DEF only
<1>10. /\ connections \in Seq(ConnectionRecords(n)) /\ Len(connections) = m /\ m \in Nat
       /\ \A c \in 1 .. m : c = 1 /\ n # 0 /\ connections[c] = only
  <2>1. CASE n = 0
    BY <2>1, <1>5
  <2>2. CASE n # 0
    <3>1. connections = <<only>> /\ m = 1
      BY <2>2, <1>5
    <3>2. <<only>> \in Seq(ConnectionRecords(n)) /\ Len(<<only>>) = 1 /\ <<only>>[1] = only
      BY <1>9
    <3>3. QED BY <2>2, <3>1, <3>2
  <2>3. QED BY <2>1, <2>2
<1>11. n # 0 => 1 \in 1 .. m
  OBVIOUS
<1> HIDE DEF m
<1>12. connections \in [1 .. m -> ConnectionRecords(n)] /\ DOMAIN connections = 1 .. m
  BY <1>10
<1>13. \A k \in 1 .. n : q[k] \in Stations /\ NewSide(1, q[k], 0) \in SideRecords
  <2>1. \A k \in 1 .. n : q[k] \in Stations
    BY <1>4
  <2>2. <<>> \in Seq(Nat) /\ {} \in SUBSET Nat /\ 0 \in Nat /\ 1 \in Nat
    OBVIOUS
  <2>3. QED BY <2>1, <2>2 DEF NewSide, SideRecords
<1>14. sides \in [1 .. n -> SideRecords] /\ sides \in Seq(SideRecords) /\ Len(sides) = n
  <2>1. sides \in [1 .. n -> SideRecords]
    BY <1>6, <1>13
  <2>2. QED BY <2>1, <1>4, FunctionIsSequence
<1>15. \A k \in 1 .. n : /\ sides[k].connection = 1 /\ sides[k].station = q[k] /\ sides[k].since = 0
                         /\ sides[k].toSend = <<>> /\ sides[k].toReceive = <<>>
                         /\ sides[k].receivedIds = {} /\ sides[k].taken = <<>>
  BY <1>6 DEF NewSide
<1>16. \A k \in 1 .. n : n # 0 /\ sides[k].connection \in 1 .. m
  BY <1>4, <1>11, <1>15
<1>17. SidesMatch(n, m, sides, connections)
  BY <1>8, <1>9, <1>10, <1>15 DEF SidesMatch
<1>18. Air(n, m, sides, connections)
  BY <1>2, <1>4, <1>9, <1>10, <1>12, <1>14, <1>15, <1>16, <1>17, SilentAir
<1>19. OnScreenInv
  BY <1>9, <1>10, <1>12 DEF OnScreenInv
<1>20. ASSUME NEW s \in Stations
       PROVE  /\ At(s) \in Nat /\ (At(s) # NoSide => At(s) \in 1 .. n /\ q[At(s)] = s)
              /\ \A k \in 1 .. n : q[k] = s => At(s) = k
  <2>1. \A e : e \in ToSet(q) <=> \E i \in 1 .. n : q[i] = e
    BY <1>4, ElementsByPlace
  <2>2. \A i, j \in 1 .. n : q[i] = q[j] => i = j
    BY <1>4 DEF IsInjective
  <2>3. CASE s \in ToSet(q)
    BY <2>1, <2>2, <2>3, <1>4
  <2>4. CASE s \notin ToSet(q)
    BY <2>1, <2>4 DEF NoSide
  <2>5. QED BY <2>3, <2>4
<1> HIDE DEF At
<1>21. ASSUME NEW s \in Stations
       PROVE  [NewInterface(place[s]) EXCEPT !.side = At(s)] \in StationRecords
  BY <1>20 DEF NewInterface, StationRecords
<1>22. /\ station \in [Stations -> StationRecords]
       /\ \A s \in Stations : station[s].side = At(s) /\ (Connected(s) <=> At(s) # NoSide)
  <2>1. station \in [Stations -> StationRecords]
    BY <1>7, <1>21
  <2>2. \A s \in Stations : station[s].side = At(s)
    BY <1>7 DEF NewInterface
  <2>3. QED BY <2>1, <2>2 DEF Connected
<1>23. StationInv
  <2>1. ASSUME NEW s \in Stations, Connected(s)
        PROVE  /\ station[s].side \in 1 .. Len(sides) /\ sides[station[s].side].station = s
               /\ station[s].side \in ToSet(connections[sides[station[s].side].connection].sides)
    <3> DEFINE k == At(s)
    <3>1. station[s].side = k /\ k \in 1 .. n /\ q[k] = s
      BY <2>1, <1>20, <1>22
    <3> HIDE DEF k
    <3>2. /\ sides[k].station = s /\ sides[k].connection = 1
          /\ connections[1] = only
      BY <3>1, <1>4, <1>10, <1>11, <1>15
    <3>3. k \in ToSet(connections[sides[k].connection].sides)
      BY <3>1, <3>2, <1>8, <1>9
    <3>4. QED BY <3>1, <3>2, <3>3, <1>14
  <2>2. ASSUME NEW c \in 1 .. m, NEW k \in ToSet(connections[c].sides)
        PROVE  k # NoSide /\ station[sides[k].station].side = k
    <3>1. k \in 1 .. n
      BY <1>8, <1>9, <1>10
    <3>2. sides[k].station = q[k] /\ q[k] \in Stations /\ At(q[k]) = k
      BY <3>1, <1>13, <1>15, <1>20
    <3>3. QED BY <3>1, <3>2, <1>22 DEF NoSide
  <2>3. QED BY <2>1, <2>2, <1>12, <1>22 DEF StationInv
<1>24. ListedInv
  <2>1. ASSUME NEW s \in Stations, Connected(s) PROVE sides[station[s].side].connection \in 1 .. m
    BY <2>1, <1>16, <1>20, <1>22
  <2>2. QED BY <2>1, <1>2, <1>10, <1>12 DEF ListedInv
<1>25. ScreenTypes
  BY <1>2, Constants DEF ScreenTypes
<1>26. QED BY <1>10, <1>12, <1>14, <1>18, <1>19, <1>23, <1>24, <1>25 DEF IInv

-----------------------------------------------------------------------------
(* What the steps keep, and what follows from it. *)

LEMMA StutterKeeps ==
  ASSUME IInv, vars' = vars
  PROVE  IInv'
<1>1. ScreenTypes'
  BY DEF IInv, ScreenTypes, vars, screen
<1>2. station \in [Stations -> StationRecords] /\ computers \subseteq Stations
  BY DEF IInv, StationInv, ScreenTypes
<1>3. QED BY <1>1, <1>2, SideKept DEF vars, screen, air

LEMMA StepKeeps ==
  ASSUME IInv, [Next]_vars
  PROVE  IInv'
<1>1. CASE Frame
  BY <1>1, FrameKeeps
<1>2. ASSUME NEW s \in Stations, Send(s) PROVE IInv'
  BY <1>2, SendMessageKeeps
<1>3. CASE Event
  <2>1. events' \in 0 .. MaxEvents /\ beat' = beat
    <3>1. events \in 0 .. MaxEvents
      BY DEF IInv, ScreenTypes
    <3>2. QED BY <3>1, <1>3, Constants DEF Event
  <2>2. ASSUME NEW s \in Stations, NEW f \in Frequencies, SetInterfaceFrequency(s, f) PROVE IInv'
    BY <2>1, <2>2, SetInterfaceFrequencyKeeps
  <2>3. ASSUME NEW s \in Stations, Power(s) PROVE IInv'
    BY <2>1, <2>3, PowerKeeps
  <2>4. ASSUME NEW s \in Stations, ToggleBlock(s) PROVE IInv'
    BY <2>1, <2>4, ToggleBlockKeeps
  <2>5. ASSUME NEW s \in Stations, NEW p \in Places, Drag(s, p) PROVE IInv'
    BY <2>1, <2>5, DragKeeps
  <2>6. ASSUME NEW s \in Stations, RemoveInterface(s) PROVE IInv'
    BY <2>1, <2>6, RemoveInterfaceKeeps
  <2>7. ASSUME NEW s \in Stations, DeleteComputer(s) PROVE IInv'
    BY <2>1, <2>7, DeleteComputerKeeps
  <2>8. ASSUME NEW s \in Stations, NEW p \in Places, CreateComputer(s, p) PROVE IInv'
    BY <2>1, <2>8, CreateComputerKeeps
  <2>9. CASE DeleteAll
    BY <2>1, <2>9, DeleteAllKeeps
  <2>10. QED BY <1>3, <2>2, <2>3, <2>4, <2>5, <2>6, <2>7, <2>8, <2>9 DEF Event
<1>4. CASE UNCHANGED vars
  BY <1>4, StutterKeeps
<1>5. QED BY <1>1, <1>2, <1>3, <1>4 DEF Next

(* The messages that wait or were heard have been sent.                    *)
LEMMA InvariantTypes ==
  ASSUME IInv
  PROVE  TypeOK
<1> DEFINE N == Len(sides)
           M == Len(connections)
<1>1. /\ N \in Nat /\ M \in Nat /\ DOMAIN sides = 1 .. N /\ DOMAIN connections = 1 .. M
      /\ Air(N, M, sides, connections) /\ senders \in Seq(SenderRecords(N)) /\ Len(senders) \in Nat
  BY IInvFacts
<1>2. StationInv /\ ListedInv /\ ScreenTypes /\ OnScreenInv /\ MaxMessages \in Nat
  BY Constants DEF IInv
<1>3. station \in [Stations -> [side : 0 .. Len(sides), place : Places, isOn : BOOLEAN,
                                isBlocked : BOOLEAN, owned : BOOLEAN]]
  <2>1. ASSUME NEW s \in Stations
        PROVE  station[s] \in [side : 0 .. N, place : Places, isOn : BOOLEAN, isBlocked : BOOLEAN, owned : BOOLEAN]
    <3>1. station[s] \in StationRecords
      BY <1>2 DEF StationInv
    <3>2. station[s].side \in 0 .. N
      BY <1>1, <1>2 DEF StationInv, Connected, NoSide
    <3>3. QED BY <3>1, <3>2 DEF StationRecords
  <2>2. QED BY <2>1, <1>2 DEF StationInv
<1> HIDE DEF N, M
<1>4. ASSUME NEW k \in 1 .. N
      PROVE  /\ sides[k].connection \in 1 .. M /\ sides[k].station \in Stations
             /\ sides[k].receivedIds \subseteq 0 .. connections[sides[k].connection].sentPacketId - 1
             /\ \A q \in {sides[k].toSend, sides[k].toReceive, sides[k].taken} : ToSet(q) \subseteq Messages
  <2>1. /\ sides[k].connection \in 1 .. M /\ sides[k].station \in Stations /\ sides[k].receivedIds \subseteq Nat
        /\ \A x \in sides[k].receivedIds : x < connections[sides[k].connection].sentPacketId
        /\ sides[k].taken \in Seq(Nat) /\ sides[k].toReceive \in Seq(Nat)
    BY <1>1, SideFacts
  <2>2. connections[sides[k].connection].sentPacketId \in Nat
    BY <1>1, <2>1, ConnectionFacts
  <2>3. sides[k].receivedIds \subseteq 0 .. connections[sides[k].connection].sentPacketId - 1
    BY <2>1, <2>2
  <2>4. \A n \in 1 .. Len(senders) : n \in Messages
    BY <1>1, <1>2 DEF ScreenTypes, Messages
  <2>5. ToSet(sides[k].toSend) \subseteq Messages
    <3>1. WaitingInv(N, sides)
      BY <1>1 DEF Air
    <3>2. QED BY <3>1, <2>4 DEF WaitingInv, Waiting
  <2>6. ToSet(HeardOf(sides[k])) \subseteq Messages
    <3>1. HeardInv(N, sides)
      BY <1>1 DEF Air
    <3>2. QED BY <3>1, <2>4 DEF HeardInv
  <2>7. ToSet(HeardOf(sides[k])) = ToSet(sides[k].taken) \cup ToSet(sides[k].toReceive)
    <3> DEFINE x == sides[k].taken
               y == sides[k].toReceive
    <3>1. x \in Seq(Nat) /\ y \in Seq(Nat)
      BY <2>1
    <3> HIDE DEF x, y
    <3>2. ToSet(x \o y) = ToSet(x) \cup ToSet(y)
      BY ONLY <3>1, JoinedInjective
    <3>3. QED BY <3>2 DEF x, y, HeardOf
  <2>8. QED BY <2>1, <2>3, <2>5, <2>6, <2>7
<1>5. ASSUME NEW c \in 1 .. M
      PROVE  /\ connections[c].frequency \in Frequencies
             /\ \A p \in ToSet(connections[c].packets) :
                  p.radius \in 0 .. LongestLine /\ p.id \in 0 .. connections[c].sentPacketId - 1
  <2>1. /\ connections[c].frequency \in Frequencies /\ connections[c].sentPacketId \in Nat
        /\ connections[c].packets \in Seq(Packets)
    BY <1>1, ConnectionFacts
  <2>2. FlyingInv(M, sides, connections)
    BY <1>1 DEF Air
  <2>3. ASSUME NEW i \in 1 .. Len(connections[c].packets)
        PROVE  /\ connections[c].packets[i].radius \in 0 .. LongestLine
               /\ connections[c].packets[i].id \in 0 .. connections[c].sentPacketId - 1
    <3> DEFINE e == connections[c].packets[i].id
    <3>1. e \in Nat /\ e < connections[c].sentPacketId
      BY <1>1, <2>2, PacketFacts DEF FlyingInv
    <3>2. connections[c].packets[i].radius \in 0 .. LongestLine
      BY <1>1, <1>2 DEF OnScreenInv
    <3> HIDE DEF e
    <3>3. e \in 0 .. connections[c].sentPacketId - 1
      BY <3>1, <2>1
    <3>4. QED BY <3>2, <3>3 DEF e
  <2>4. QED BY <2>1, <2>3, ElementsByPlace
<1>6. senders \in Seq([side : DOMAIN sides, sidesMade : DOMAIN sides])
  BY <1>1 DEF SenderRecords
<1>7. QED BY <1>1, <1>2, <1>3, <1>4, <1>5, <1>6 DEF TypeOK, ListedInv, ScreenTypes

LEMMA InvariantTuned ==
  ASSUME IInv
  PROVE  TunedTogether
<1>1. /\ DOMAIN connections = 1 .. Len(connections) /\ Len(sides) \in Nat /\ Len(connections) \in Nat
      /\ Air(Len(sides), Len(connections), sides, connections)
  BY IInvFacts
<1>2. StationInv /\ ListedInv /\ ScreenTypes
  BY DEF IInv
<1>3. SidesAreTuned
  <2>1. ASSUME NEW c \in 1 .. Len(connections), NEW k \in ToSet(connections[c].sides)
        PROVE  \E s \in Stations : Connected(s) /\ sides[station[s].side].connection = c /\ k = station[s].side
    <3> DEFINE s == sides[k].station
    <3> HIDE DEF s
    <3>1. k \in 1 .. Len(sides) /\ sides[k].connection = c
      <4>1. SidesMatch(Len(sides), Len(connections), sides, connections)
        BY <1>1 DEF Air
      <4>2. QED BY <4>1 DEF SidesMatch
    <3>2. s \in Stations
      BY <3>1, <1>1, SideFacts DEF s
    <3>3. k # NoSide /\ station[s].side = k
      BY <1>1, <1>2 DEF StationInv, s
    <3>4. QED BY <3>1, <3>2, <3>3 DEF Connected
  <2>2. ASSUME NEW c \in 1 .. Len(connections), NEW s \in Stations,
               Connected(s), sides[station[s].side].connection = c
        PROVE  station[s].side \in ToSet(connections[c].sides)
    BY <2>2, <1>2 DEF StationInv
  <2>3. \A c \in 1 .. Len(connections) : IsInjective(connections[c].sides)
    BY <1>1 DEF Air, SidesMatch
  <2>4. ASSUME NEW c \in 1 .. Len(connections)
        PROVE  ToSet(connections[c].sides) =
                 {station[s].side : s \in {s \in Stations : Connected(s) /\ sides[station[s].side].connection = c}}
    <3> DEFINE T == {s \in Stations : Connected(s) /\ sides[station[s].side].connection = c}
               A == ToSet(connections[c].sides)
               B == {station[s].side : s \in T}
    <3>1. ASSUME NEW k \in A PROVE k \in B
      <4>1. PICK s \in Stations : Connected(s) /\ sides[station[s].side].connection = c /\ k = station[s].side
        BY <2>1
      <4>2. s \in T
        BY <4>1
      <4>3. QED BY <4>1, <4>2
    <3>2. ASSUME NEW k \in B PROVE k \in A
      <4>1. PICK s \in T : k = station[s].side
        OBVIOUS
      <4>2. QED BY <4>1, <2>2
    <3>3. QED BY <3>1, <3>2
  <2>5. QED BY <2>3, <2>4, <1>1 DEF SidesAreTuned
<1>4. SameFrequency
  BY <1>2 DEF SameFrequency, ListedInv
<1>5. QED BY <1>3, <1>4, InvariantTypes DEF TunedTogether

LEMMA InvariantHeard ==
  ASSUME IInv
  PROVE  HeardOnce /\ GoneWasHeard
<1>1. /\ DOMAIN connections = 1 .. Len(connections) /\ DOMAIN sides = 1 .. Len(sides)
      /\ Len(sides) \in Nat /\ Len(connections) \in Nat
      /\ Air(Len(sides), Len(connections), sides, connections)
  BY IInvFacts
<1>2. HeardInv(Len(sides), sides) /\ GoneInv(Len(connections), sides, connections)
  BY <1>1 DEF Air
<1>3. HeardOnce
  BY <1>1, <1>2 DEF HeardInv, HeardOf, HeardOnce
<1>4. GoneWasHeard
  <2>1. ASSUME NEW c \in 1 .. Len(connections), NEW k \in ToSet(connections[c].sides),
               NEW x \in sides[k].since .. connections[c].sentPacketId - 1, x \notin sides[k].receivedIds
        PROVE  x \in {p.id : p \in ToSet(connections[c].packets)}
    <3>1. PICK i \in 1 .. Len(connections[c].packets) : connections[c].packets[i].id = x
      BY <2>1, <1>2 DEF GoneInv
    <3>2. connections[c].packets \in Seq(Packets)
      BY <1>1, ConnectionFacts
    <3>3. connections[c].packets[i] \in ToSet(connections[c].packets)
      BY <3>2, ElementsByPlace
    <3>4. QED BY <3>1, <3>3
  <2>2. QED BY <2>1, <1>1 DEF GoneWasHeard
<1>5. QED BY <1>3, <1>4

-----------------------------------------------------------------------------
(* The invariant holds of every behaviour, whatever the user does between  *)
(* frames and however long these take.                                     *)
THEOREM WirelessInvariant == Spec => []IInv
<1>1. Init => IInv
  BY InitialStations
<1>2. IInv /\ [Next]_vars => IInv'
  BY StepKeeps
<1>3. QED BY <1>1, <1>2, PTL DEF Spec

(* Interfaces, sides and the list of connections of the user interface     *)
(* agree, whatever is tuned, dragged, deleted, removed or made again.      *)
THEOREM EndsAgree == Spec => []TunedTogether
<1>1. IInv => TunedTogether
  BY InvariantTuned
<1>2. QED BY <1>1, WirelessInvariant, PTL

(* No interface hears a packet twice as long as it stays tuned, or one of  *)
(* its own, at whatever speed the circles grow.                            *)
THEOREM NothingTwice == Spec => []HeardOnce
<1>1. IInv => HeardOnce
  BY InvariantHeard
<1>2. QED BY <1>1, WirelessInvariant, PTL

(* No packet leaves the screen unheard by a side that was there when it    *)
(* was sent and still is: between two frames a circle may grow past a      *)
(* station, but a packet is heard by all it has passed.                    *)
THEOREM NothingMissed == Spec => []GoneWasHeard
<1>1. IInv => GoneWasHeard
  BY InvariantHeard
<1>2. QED BY <1>1, WirelessInvariant, PTL
=============================================================================
