----------------------------- MODULE RoutingTable -----------------------------
(***************************************************************************)
(* IPAddress and RoutingTable.  An address is a number of AddressBits      *)
(* bits; a subnet, the key of a table, is an address with the length of    *)
(* its mask.  A table is a function from subnets to routes.                *)
(***************************************************************************)
EXTENDS Integers, FiniteSets, FiniteSetsExt

CONSTANTS
    AddressBits,    \* BIT_LENGTH
    LastByteBits,   \* the bits of the last byte of an address
    Loopback,       \* the address 127.0.0.1
    LoopbackMask    \* the length of its mask

ASSUME BitsAssumption == AddressBits \in Nat /\ LastByteBits \in 0 .. AddressBits

Addresses == 0 .. 2 ^ AddressBits - 1
Masks == 0 .. AddressBits
Subnets == [address : Addresses, mask : Masks]
BroadcastAddress == 2 ^ AddressBits - 1

\* The block of addresses that a mask leaves open.
Block(mask) == 2 ^ (AddressBits - mask)

\* is_same_subnet: by the mask of the one that is asked.
IsSameSubnet(subnet, address) ==
    subnet.address \div Block(subnet.mask) = address \div Block(subnet.mask)

Subnet(address, mask) ==
    [address |-> (address \div Block(mask)) * Block(mask), mask |-> mask]

Host(address) == [address |-> address, mask |-> AddressBits]
Everything == [address |-> 0, mask |-> 0]

\* expected_gateway: the last byte becomes 1, whatever the mask is.
ExpectedGateway(address) == (address \div 2 ^ LastByteBits) * 2 ^ LastByteBits + 1

-----------------------------------------------------------------------------
OnLink == -1
Route(gateway, interface) == [gateway |-> gateway, interface |-> interface]
NoRoute == Route(OnLink, OnLink)

RouteAdd(table, subnet, route) ==
    [s \in DOMAIN table \cup {subnet} |-> IF s = subnet THEN route ELSE table[s]]

EmptyTable ==
    [s \in {Subnet(Loopback, LoopbackMask)} |-> Route(OnLink, Loopback)]

SetDefaultGateway(table, gateway, interface) ==
    RouteAdd(RouteAdd(table, Everything, Route(gateway, interface)),
             Host(BroadcastAddress), Route(gateway, interface))

\* An interface: [ip |-> its address, mask |-> the length of its mask].
AddInterface(table, i) ==
    RouteAdd(RouteAdd(table, Host(i.ip), Route(Loopback, Loopback)),
             Subnet(i.ip, i.mask), Route(OnLink, i.ip))

Matching(table, address) == {s \in DOMAIN table : IsSameSubnet(s, address)}

\* Mutant of Lookup: the shortest prefix wins.
LookupShortest(table, address) ==
    LET matching == Matching(table, address)
    IN  IF matching = {} THEN NoRoute
        ELSE LET s == CHOOSE m \in matching : \A n \in matching : m.mask <= n.mask
             IN  IF table[s].gateway = OnLink THEN [table[s] EXCEPT !.gateway = address]
                 ELSE table[s]

\* __getitem__: the longest prefix; a route on the link leads to the address itself.
Lookup(table, address) ==
    LET matching == Matching(table, address)
    IN  IF matching = {} THEN NoRoute
        ELSE LET s == CHOOSE m \in matching : \A n \in matching : n.mask <= m.mask
             IN  IF table[s].gateway = OnLink THEN [table[s] EXCEPT !.gateway = address]
                 ELSE table[s]
=============================================================================
