----------------------------- MODULE AddressLeases -----------------------------
(***************************************************************************)
(* DHCP on one subnet: computers that ask for an address and routers that  *)
(* give them.  A client broadcasts a DISCOVER, takes the first packet that *)
(* comes for an OFFER, sends a REQUEST to its sender and takes the next    *)
(* one for the PACK; it never looks at what it received and waits without  *)
(* a timeout.  A server keeps the last address it gave and one offer for   *)
(* each client, until it starts again.                                     *)
(*                                                                         *)
(* Cables keep the order of packets, may lose them, and keep those for a   *)
(* computer that is switched off until it is on.  A process that raises    *)
(* an exception ends the program.                                          *)
(***************************************************************************)
EXTENDS Naturals, Sequences, SequencesExt, Functions, FiniteSetsExt

CONSTANTS
  Clients, Servers,
  None,
  OwnAddress,   \* of each server; addresses are their numbers in the subnet
  LastAddress,  \* the largest of the subnet
  AtFirst,      \* the servers that are on at the start
  MaxEvents     \* bound: askings, settings and how often a host is switched on

ASSUME AddressLeasesConstants ==
  /\ Clients \cap Servers = {} /\ AtFirst \subseteq Servers /\ IsFiniteSet(Servers)
  /\ LastAddress \in Nat /\ OwnAddress \in [Servers -> 0..LastAddress] /\ MaxEvents \in Nat

Hosts == Clients \cup Servers
Channels == (Clients \X Servers) \cup (Servers \X Clients)

VARIABLES
  proc,         \* where the DHCP client or server process of a host is
  isPoweredOn,
  net,          \* the packets on their way from a host to another
  given,        \* the last address a server gave
  inSessionWith,\* what a server offered to each client
  runs,         \* how often a server began to give its addresses again
  address,      \* the address of each client
  raised,       \* the exception that ended the program, and for which client
  calm,         \* whether nothing disturbed a client since it asked
  lost,         \* whether one of its packets was lost since
  events

vars == <<proc, isPoweredOn, net, given, inSessionWith, runs, address, raised, calm, lost, events>>

Discover == [type |-> "discover"]
Request == [type |-> "request"]

(* An address is remembered with the run of the server that offered it.    *)
Offer(offered) == [type |-> "offer", offered |-> offered]
Pack(offered) == [type |-> "pack", offered |-> offered]

IsListening(h) == proc[h] \in {"selecting", "requesting", "serving"}

-----------------------------------------------------------------------------
(* The client.  In one tick it receives what has arrived, from any server, *)
(* and looks at the first packet only.                                     *)

StartAsking(c) ==
  /\ raised = None /\ isPoweredOn[c] /\ proc[c] = "starting"
  /\ proc' = [proc EXCEPT ![c] = "selecting"]
  /\ net' = [ch \in Channels |-> IF ch[1] = c THEN Append(net[ch], Discover) ELSE net[ch]]
  /\ UNCHANGED <<isPoweredOn, given, inSessionWith, runs, address, raised, calm, lost, events>>

(* What is left when c received a packet of s first, and perhaps others.   *)
Received(c, s) ==
  {left \in [Servers -> UNION {Suffixes(net[<<r, c>>]) : r \in Servers}] :
     /\ \A r \in Servers : left[r] \in Suffixes(net[<<r, c>>])
     /\ left[s] # net[<<s, c>>]}

TakeOffer(c, s) ==
  /\ raised = None /\ isPoweredOn[c] /\ proc[c] = "selecting"
  /\ \E left \in Received(c, s) :
       net' = [ch \in Channels |-> IF ch[2] = c THEN left[ch[1]]
                                   ELSE IF ch = <<c, s>> THEN Append(net[ch], Request) ELSE net[ch]]
  /\ proc' = [proc EXCEPT ![c] = "requesting"]
  /\ UNCHANGED <<isPoweredOn, given, inSessionWith, runs, address, raised, calm, lost, events>>

(* update_routing_table: whatever the packet is, its address is the new one. *)
Configure(c, packet) == address' = [address EXCEPT ![c] = packet.offered]

(* An OFFER has no option with a router.                                   *)
TakePack(c, s) ==
  /\ raised = None /\ isPoweredOn[c] /\ proc[c] = "requesting"
  /\ \E left \in Received(c, s) :
       net' = [ch \in Channels |-> IF ch[2] = c THEN left[ch[1]] ELSE net[ch]]
  /\ LET packet == Head(net[<<s, c>>]) IN
     IF packet.type = "offer"
     THEN raised' = [error |-> "AttributeError", client |-> c] /\ UNCHANGED <<proc, address>>
     ELSE /\ Configure(c, packet)
          /\ proc' = [proc EXCEPT ![c] = "none"] /\ UNCHANGED raised
  /\ UNCHANGED <<isPoweredOn, given, inSessionWith, runs, calm, lost, events>>

-----------------------------------------------------------------------------
(* The server. *)

StartServing(s) ==
  /\ raised = None /\ isPoweredOn[s] /\ proc[s] = "starting"
  /\ proc' = [proc EXCEPT ![s] = "serving"]
  /\ UNCHANGED <<isPoweredOn, net, given, inSessionWith, runs, address, raised, calm, lost, events>>

(* What a server does with a packet: its state after it and its answer.    *)
Outcome(last, session, answer) == [given |-> last, session |-> session, answer |-> answer, error |-> None]
Failure(error) == [given |-> LastAddress, session |-> None, answer |-> <<>>, error |-> error]

(* increased: the last address of the subnet, the broadcast address, counts *)
(* as an address; there is none after it.                                  *)
AtMaximum(s) == given[s] = LastAddress

NextOffer(s) == [ip |-> given[s] + 1, run |-> <<s, runs[s]>>]

(* mutant: the address that is offered is not remembered *)
OfferSame(s, c) ==
  IF AtMaximum(s) THEN Failure("AddressTooLargeError")
  ELSE Outcome(given[s], NextOffer(s), <<Offer(NextOffer(s))>>)

(* mutant: two sockets of the server receive the DISCOVER *)
OfferTwice(s, c) ==
  IF AtMaximum(s) THEN Failure("AddressTooLargeError")
  ELSE Outcome(given[s] + 1, NextOffer(s), <<Offer(NextOffer(s)), Offer(NextOffer(s))>>)

(* mutant: a client that was offered an address is offered no other *)
OfferOnce(s, c) ==
  IF inSessionWith[s][c] # None THEN Outcome(given[s], inSessionWith[s][c], <<>>)
  ELSE IF AtMaximum(s) THEN Failure("AddressTooLargeError")
  ELSE Outcome(given[s] + 1, NextOffer(s), <<Offer(NextOffer(s))>>)

SendOffer(s, c) ==
  IF AtMaximum(s) THEN Failure("AddressTooLargeError")
  ELSE Outcome(given[s] + 1, NextOffer(s), <<Offer(NextOffer(s))>>)

SendPack(s, c) ==
  IF inSessionWith[s][c] = None THEN Failure("KeyError")
  ELSE Outcome(given[s], None, <<Pack(inSessionWith[s][c])>>)

Serve(s, c) ==
  /\ raised = None /\ isPoweredOn[s] /\ proc[s] = "serving" /\ net[<<c, s>>] # <<>>
  /\ \E outcome \in {IF Head(net[<<c, s>>]) = Discover THEN SendOffer(s, c) ELSE SendPack(s, c)} :
       /\ given' = [given EXCEPT ![s] = outcome.given]
       /\ inSessionWith' = [inSessionWith EXCEPT ![s][c] = outcome.session]
       /\ net' = [net EXCEPT ![<<c, s>>] = Tail(@), ![<<s, c>>] = @ \o outcome.answer]
       /\ raised' = IF outcome.error = None THEN None ELSE [error |-> outcome.error, client |-> c]
  /\ UNCHANGED <<proc, isPoweredOn, runs, address, calm, lost, events>>

-----------------------------------------------------------------------------
(* The network. *)

ClientOf(ch) == IF ch[1] \in Clients THEN ch[1] ELSE ch[2]

Gone(ch) ==
  /\ net[ch] # <<>> /\ isPoweredOn[ch[2]]
  /\ net' = [net EXCEPT ![ch] = Tail(@)] /\ lost' = [lost EXCEPT ![ClientOf(ch)] = TRUE]
  /\ UNCHANGED <<proc, isPoweredOn, given, inSessionWith, runs, address, raised, calm>>

(* A packet that comes when no process has a socket for it.                *)
Ignore(ch) == raised = None /\ ~IsListening(ch[2]) /\ Gone(ch) /\ UNCHANGED events

Lose(ch) == raised = None /\ IsListening(ch[2]) /\ Gone(ch) /\ UNCHANGED events

-----------------------------------------------------------------------------
(* The user. *)

Event == raised = None /\ events < MaxEvents /\ events' = events + 1

OnServers == {s \in Servers : isPoweredOn[s]}

UnderWay(c) ==
  \/ \E s \in OnServers : net[<<c, s>>] # <<>>
  \/ \E s \in Servers : net[<<s, c>>] # <<>>

(* A computer that asks already is stopped and starts to ask anew.         *)
AskForDhcp ==
  /\ Event
  /\ \E asking \in {{c \in Clients : address[c] = None}} :
       /\ asking # {}
       /\ proc' = [h \in Hosts |-> IF h \in asking THEN "starting" ELSE proc[h]]
       /\ calm' = [c \in Clients |->
            IF c \notin asking THEN calm[c]
            ELSE isPoweredOn[c] /\ ~UnderWay(c) /\ Cardinality(OnServers) = 1 /\ \A s \in OnServers : proc[s] = "serving"]
       /\ lost' = [c \in Clients |-> lost[c] /\ c \notin asking]
  /\ UNCHANGED <<isPoweredOn, net, given, inSessionWith, runs, address, raised>>

Disturb(h) == calm' = [c \in Clients |-> calm[c] /\ h \in Clients \ {c}]

(* Its processes are killed. *)
PowerOffClient(c) ==
  /\ raised = None /\ isPoweredOn[c] /\ isPoweredOn' = [isPoweredOn EXCEPT ![c] = FALSE]
  /\ proc' = [proc EXCEPT ![c] = "none"]
  /\ Disturb(c)
  /\ UNCHANGED <<net, given, inSessionWith, runs, address, raised, lost, events>>

(* A router that runs no server starts one, even when it is switched off.  *)
PowerOffServer(s) ==
  /\ raised = None /\ isPoweredOn[s] /\ isPoweredOn' = [isPoweredOn EXCEPT ![s] = FALSE]
  /\ proc' = [proc EXCEPT ![s] = "starting"]
  /\ given' = [given EXCEPT ![s] = OwnAddress[s]] /\ runs' = [runs EXCEPT ![s] = @ + 1]
  /\ inSessionWith' = [inSessionWith EXCEPT ![s] = [c \in Clients |-> None]]
  /\ Disturb(s)
  /\ UNCHANGED <<net, address, raised, lost, events>>

PowerOn(h) ==
  /\ Event /\ ~isPoweredOn[h] /\ isPoweredOn' = [isPoweredOn EXCEPT ![h] = TRUE]
  /\ Disturb(h)
  /\ UNCHANGED <<proc, net, given, inSessionWith, runs, address, raised, lost>>

(* When the address of any of its interfaces is set, a server begins with  *)
(* its addresses again.                                                    *)
SetIp(s) ==
  /\ Event /\ given[s] # OwnAddress[s]
  /\ given' = [given EXCEPT ![s] = OwnAddress[s]] /\ runs' = [runs EXCEPT ![s] = @ + 1]
  /\ UNCHANGED <<proc, isPoweredOn, net, inSessionWith, address, raised, calm, lost>>

-----------------------------------------------------------------------------

Init ==
  /\ proc = [h \in Hosts |-> IF h \in Servers THEN "starting" ELSE "none"]
  /\ isPoweredOn = [h \in Hosts |-> h \in Clients \cup AtFirst]
  /\ net = [ch \in Channels |-> <<>>]
  /\ given = OwnAddress /\ inSessionWith = [s \in Servers |-> [c \in Clients |-> None]]
  /\ runs = [s \in Servers |-> 0] /\ address = [c \in Clients |-> None]
  /\ raised = None /\ calm = [c \in Clients |-> FALSE] /\ lost = [c \in Clients |-> FALSE]
  /\ events = 0

ClientTick(c) == StartAsking(c) \/ \E s \in Servers : TakeOffer(c, s) \/ TakePack(c, s)
ServerTick(s) == StartServing(s) \/ \E c \in Clients : Serve(s, c)

Next ==
  \/ \E c \in Clients : ClientTick(c) \/ PowerOffClient(c)
  \/ \E s \in Servers : ServerTick(s) \/ PowerOffServer(s) \/ SetIp(s)
  \/ \E h \in Hosts : PowerOn(h)
  \/ \E ch \in Channels : Ignore(ch) \/ Lose(ch)
  \/ AskForDhcp

(* The main loop runs every computer and moves every packet.               *)
Fairness ==
  /\ \A c \in Clients : WF_vars(ClientTick(c))
  /\ \A s \in Servers : WF_vars(ServerTick(s))
  /\ \A ch \in Channels : WF_vars(Ignore(ch))

Spec == Init /\ [][Next]_vars /\ Fairness

-----------------------------------------------------------------------------
(* Properties. *)

Offered == [ip : 0..LastAddress, run : Servers \X (0..MaxEvents + 1)]
ASSUME NoneIsNotOffered == None \notin Offered

PacketsOf(ch) == IF ch[1] \in Clients THEN {Discover, Request} ELSE [type : {"offer", "pack"}, offered : Offered]

(* Type invariant.                                                         *)
TypeOK ==
  /\ proc \in [Hosts -> {"none", "starting", "selecting", "requesting", "serving"}]
  /\ isPoweredOn \in [Hosts -> BOOLEAN]
  /\ DOMAIN net = Channels /\ \A ch \in Channels : net[ch] \in Seq(PacketsOf(ch))
  /\ given \in [Servers -> 0..LastAddress] /\ runs \in [Servers -> 0..MaxEvents + 1]
  /\ inSessionWith \in [Servers -> [Clients -> Offered \cup {None}]]
  /\ address \in [Clients -> Offered \cup {None}]
  /\ raised \in {None} \cup [error : {"KeyError", "AttributeError", "AddressTooLargeError"}, client : Clients]
  /\ calm \in [Clients -> BOOLEAN] /\ lost \in [Clients -> BOOLEAN] /\ events \in 0..MaxEvents

(* Two computers have the same address only when different servers gave    *)
(* it to them, or one that began with its addresses again in between:      *)
(* asking again, late answers and lost packets never bring it about, nor   *)
(* does a computer get the address of the router that gives it.            *)
UniqueAddresses ==
  /\ \A c, d \in Clients : c # d /\ address[c] # None => address[c] # address[d]
  /\ \A c \in Clients : address[c] # None => address[c].ip # OwnAddress[address[c].run[1]]

(* A client's asking ends the program only when packets of an earlier      *)
(* asking were still on their way, a second router was on, a computer was  *)
(* switched off or on meanwhile, or the addresses have run out.  A lost    *)
(* packet does not: one may ask again.                                     *)
RaisesOnlyWhenDisturbed ==
  raised # None =>
    \/ ~calm[raised.client]
    \/ raised.error = "AddressTooLargeError" /\ \E s \in Servers : given[s] = LastAddress

(* A computer that asks one router, with nothing left of an earlier asking *)
(* and no packet lost, gets an address, however others ask at the time.    *)
Served ==
  \A c \in Clients :
    proc[c] = "starting" /\ calm[c] ~> address[c] # None \/ raised # None \/ ~calm[c] \/ lost[c]

=============================================================================
