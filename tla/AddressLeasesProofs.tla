-------------------------- MODULE AddressLeasesProofs --------------------------
(***************************************************************************)
(* Proofs about AddressLeases, for any number of clients and servers, any  *)
(* subnet and any addresses of the servers in it.                          *)
(***************************************************************************)
EXTENDS AddressLeases, SequenceLemmas, FiniteSetTheorems, TLAPS

(* Where c may have an offered address from, now or later: its own address, *)
(* what a server has offered to it, and the packets that come to it.        *)
Holds(c, o) ==
  \/ address[c] = o
  \/ \E s \in Servers : inSessionWith[s][c] = o
  \/ \E s \in Servers : \E p \in Range(net[<<s, c>>]) : p.offered = o

(* A server has given o: in an earlier run, or in this one, and not more    *)
(* than the last address it gave.                                           *)
WasGiven(o) ==
  /\ OwnAddress[o.run[1]] < o.ip
  /\ o.run[2] <= runs[o.run[1]]
  /\ o.run[2] = runs[o.run[1]] => o.ip <= given[o.run[1]]

GivenOnce ==
  \A c \in Clients, o \in Offered :
    o # None /\ Holds(c, o) => WasGiven(o) /\ \A d \in Clients : Holds(d, o) => d = c

(* Each run of a server costs an event, but the first that a server that    *)
(* was on at the start may lose.                                            *)
RunsCounted ==
  \A s \in Servers :
    /\ OwnAddress[s] <= given[s]
    /\ runs[s] + (IF isPoweredOn[s] THEN 1 ELSE 0) <= events + 1

(* What is left of the conversation of a client and the server s, when      *)
(* nothing disturbed it: at most one packet is on its way, the one that the *)
(* client's state calls for.                                                *)
Conversation(c, s) ==
  LET asked == net[<<c, s>>]
      answers == net[<<s, c>>]
  IN  \/ asked = <<>> /\ answers = <<>>
      \/ /\ proc[c] = "selecting" /\ asked = <<Discover>> /\ answers = <<>>
      \/ /\ proc[c] = "selecting" /\ asked = <<>> /\ inSessionWith[s][c] # None
         /\ \E o \in Offered : answers = <<Offer(o)>>
      \/ /\ proc[c] = "requesting" /\ asked = <<Request>> /\ answers = <<>> /\ inSessionWith[s][c] # None
      \/ /\ proc[c] = "requesting" /\ asked = <<>>
         /\ \E o \in Offered : answers = <<Pack(o)>>

(* The server s is the only one that c can hear of.                         *)
OnlyServer(c, s) ==
  /\ isPoweredOn[s] /\ proc[s] = "serving"
  /\ \A r \in Servers \ {s} : ~isPoweredOn[r] /\ net[<<r, c>>] = <<>>

CalmInv ==
  \A c \in Clients : calm[c] => isPoweredOn[c] /\ \E s \in Servers : OnlyServer(c, s) /\ Conversation(c, s)

IInv == TypeOK /\ RunsCounted /\ GivenOnce /\ CalmInv /\ RaisesOnlyWhenDisturbed

-----------------------------------------------------------------------------
(* The channels. *)

(* A channel has a client at one end and a server at the other.            *)
LEMMA ChannelEnds ==
    ASSUME NEW c \in Clients, NEW s \in Servers
    PROVE  /\ c \notin Servers /\ s \notin Clients /\ c \in Hosts /\ s \in Hosts
           /\ <<c, s>> \in Channels /\ <<s, c>> \in Channels
  BY AddressLeasesConstants DEF Channels, Hosts

LEMMA ChannelPackets ==
    ASSUME NEW c \in Clients, NEW s \in Servers
    PROVE  /\ PacketsOf(<<c, s>>) = {Discover, Request}
           /\ PacketsOf(<<s, c>>) = [type : {"offer", "pack"}, offered : Offered]
<1>1. s \notin Clients /\ <<c, s>>[1] = c /\ <<s, c>>[1] = s
  BY ChannelEnds
<1>2. \A ch : ch[1] \in Clients => PacketsOf(ch) = {Discover, Request}
  BY DEF PacketsOf
<1>3. \A ch : ch[1] \notin Clients => PacketsOf(ch) = [type : {"offer", "pack"}, offered : Offered]
  BY DEF PacketsOf
<1>4. QED BY <1>1, <1>2, <1>3

(* A channel is one from a client to a server or one back.                 *)
LEMMA ChannelCases ==
    ASSUME NEW ch \in Channels
    PROVE  \/ \E c \in Clients, s \in Servers : ch = <<c, s>>
           \/ \E c \in Clients, s \in Servers : ch = <<s, c>>
  BY DEF Channels

(* The channels hold packets of their kinds, said of each pair of hosts.   *)
LEMMA NetTypes ==
    ASSUME NEW n, DOMAIN n = Channels
    PROVE  (\A ch \in Channels : n[ch] \in Seq(PacketsOf(ch))) <=>
             \A c \in Clients, s \in Servers :
               /\ n[<<c, s>>] \in Seq({Discover, Request})
               /\ n[<<s, c>>] \in Seq([type : {"offer", "pack"}, offered : Offered])
<1>1. ASSUME \A ch \in Channels : n[ch] \in Seq(PacketsOf(ch)), NEW c \in Clients, NEW s \in Servers
      PROVE  /\ n[<<c, s>>] \in Seq({Discover, Request})
             /\ n[<<s, c>>] \in Seq([type : {"offer", "pack"}, offered : Offered])
  <2>1. <<c, s>> \in Channels /\ <<s, c>> \in Channels
    BY ChannelEnds
  <2>2. n[<<c, s>>] \in Seq(PacketsOf(<<c, s>>)) /\ n[<<s, c>>] \in Seq(PacketsOf(<<s, c>>))
    BY <1>1, <2>1
  <2>3. /\ PacketsOf(<<c, s>>) = {Discover, Request}
        /\ PacketsOf(<<s, c>>) = [type : {"offer", "pack"}, offered : Offered]
    BY ChannelPackets
  <2>4. QED BY <2>2, <2>3, Zenon
<1>2. ASSUME \A c \in Clients, s \in Servers :
               /\ n[<<c, s>>] \in Seq({Discover, Request})
               /\ n[<<s, c>>] \in Seq([type : {"offer", "pack"}, offered : Offered]),
             NEW ch \in Channels
      PROVE  n[ch] \in Seq(PacketsOf(ch))
  <2>1. CASE \E c \in Clients, s \in Servers : ch = <<c, s>>
    <3>1. PICK c \in Clients, s \in Servers : ch = <<c, s>>
      BY <2>1
    <3>2. PacketsOf(ch) = {Discover, Request}
      BY <3>1, ChannelEnds, ChannelPackets
    <3>3. QED BY <1>2, <3>1, <3>2, Zenon
  <2>2. CASE \E c \in Clients, s \in Servers : ch = <<s, c>>
    <3>1. PICK c \in Clients, s \in Servers : ch = <<s, c>>
      BY <2>2
    <3>2. PacketsOf(ch) = [type : {"offer", "pack"}, offered : Offered]
      BY <3>1, ChannelEnds, ChannelPackets
    <3>3. QED BY <1>2, <3>1, <3>2, Zenon
  <2>3. QED BY <2>1, <2>2, ChannelCases
<1>3. QED BY <1>1, <1>2

(* A client that receives takes packets away and adds none, and the server *)
(* whose packet is the first had sent one.                                 *)
LEMMA ReceivedEffect ==
    ASSUME TypeOK, NEW c \in Clients, NEW s \in Servers, NEW left \in Received(c, s)
    PROVE  /\ \A r \in Servers : /\ left[r] \in Seq([type : {"offer", "pack"}, offered : Offered])
                                 /\ Range(left[r]) \subseteq Range(net[<<r, c>>])
                                 /\ Len(left[r]) <= Len(net[<<r, c>>])
           /\ Len(left[s]) < Len(net[<<s, c>>])
           /\ net[<<s, c>>] # <<>> /\ Head(net[<<s, c>>]) \in Range(net[<<s, c>>])
           /\ Head(net[<<s, c>>]) \in [type : {"offer", "pack"}, offered : Offered]
<1> DEFINE Answers == [type : {"offer", "pack"}, offered : Offered]
<1>1. \A r \in Servers : left[r] \in Suffixes(net[<<r, c>>])
  BY DEF Received
<1>2. \A r \in Servers : net[<<r, c>>] \in Seq(Answers)
  BY NetTypes DEF TypeOK
<1>3. left[s] # net[<<s, c>>]
  BY DEF Received
<1> HIDE DEF Answers
<1>4. Len(left[s]) < Len(net[<<s, c>>])
  <2>1. CASE left[s] = <<>>
    BY <1>2, <1>3, <2>1
  <2>2. CASE left[s] # <<>>
    <3>1. PICK l \in 1..Len(net[<<s, c>>]) : left[s] = SubSeq(net[<<s, c>>], l, Len(net[<<s, c>>]))
      BY <1>1, <2>2 DEF Suffixes
    <3>2. l # 1
      BY <1>2, <1>3, <3>1, SubSeqFull
    <3>3. Len(left[s]) = Len(net[<<s, c>>]) - l + 1
      BY <1>2, <3>1
    <3>4. QED BY <1>2, <3>1, <3>2, <3>3
  <2>3. QED BY <2>1, <2>2
<1>5. \A r \in Servers : /\ left[r] \in Seq(Answers)
                         /\ Range(left[r]) \subseteq Range(net[<<r, c>>])
                         /\ Len(left[r]) <= Len(net[<<r, c>>])
  BY <1>1, <1>2, SuffixElements
<1>6. net[<<s, c>>] # <<>>
  BY <1>2, <1>4, <1>5
<1>7. Head(net[<<s, c>>]) \in Range(net[<<s, c>>]) /\ Head(net[<<s, c>>]) \in Answers
  BY <1>2, <1>6, TailElements
<1>8. QED BY <1>4, <1>5, <1>6, <1>7 DEF Answers

-----------------------------------------------------------------------------
(* What each action does to the channels of each pair of hosts. *)

LEMMA StartAskingNet ==
    ASSUME TypeOK, NEW c \in Clients, StartAsking(c)
    PROVE  /\ DOMAIN net' = Channels
           /\ \A d \in Clients, r \in Servers :
                /\ net'[<<d, r>>] = IF d = c THEN Append(net[<<d, r>>], Discover) ELSE net[<<d, r>>]
                /\ net'[<<r, d>>] = net[<<r, d>>]
  BY ChannelEnds DEF StartAsking

LEMMA TakeOfferNet ==
    ASSUME TypeOK, NEW c \in Clients, NEW s \in Servers, TakeOffer(c, s)
    PROVE  /\ DOMAIN net' = Channels
           /\ \E left \in Received(c, s) : \A d \in Clients, r \in Servers :
                /\ net'[<<d, r>>] = IF d = c /\ r = s THEN Append(net[<<d, r>>], Request) ELSE net[<<d, r>>]
                /\ net'[<<r, d>>] = IF d = c THEN left[r] ELSE net[<<r, d>>]
  BY ZenonT(60), ChannelEnds DEF TakeOffer

LEMMA TakePackNet ==
    ASSUME TypeOK, NEW c \in Clients, NEW s \in Servers, TakePack(c, s)
    PROVE  /\ DOMAIN net' = Channels
           /\ \E left \in Received(c, s) : \A d \in Clients, r \in Servers :
                /\ net'[<<d, r>>] = net[<<d, r>>]
                /\ net'[<<r, d>>] = IF d = c THEN left[r] ELSE net[<<r, d>>]
  BY ChannelEnds DEF TakePack

LEMMA GoneNet ==
    ASSUME TypeOK, NEW ch \in Channels, Gone(ch)
    PROVE  /\ net[ch] # <<>>
           /\ \A h \in Channels : net'[h] = IF h = ch THEN Tail(net[h]) ELSE net[h]
  BY DEF Gone, TypeOK

(* What a server does with a packet.                                       *)
Outcomes(c, s) == {IF Head(net[<<c, s>>]) = Discover THEN SendOffer(s, c) ELSE SendPack(s, c)}

LEMMA ServeEffect ==
    ASSUME TypeOK, NEW c \in Clients, NEW s \in Servers, Serve(s, c)
    PROVE  \E outcome \in Outcomes(c, s) :
             /\ given' = [given EXCEPT ![s] = outcome.given]
             /\ inSessionWith' = [inSessionWith EXCEPT ![s][c] = outcome.session]
             /\ raised' = IF outcome.error = None THEN None ELSE [error |-> outcome.error, client |-> c]
             /\ DOMAIN net' = Channels
             /\ \A d \in Clients, r \in Servers :
                  /\ net'[<<d, r>>] = IF d = c /\ r = s THEN Tail(net[<<d, r>>]) ELSE net[<<d, r>>]
                  /\ net'[<<r, d>>] = IF d = c /\ r = s THEN net[<<r, d>>] \o outcome.answer ELSE net[<<r, d>>]
             /\ net[<<c, s>>] # <<>>
<1>1. DOMAIN net = Channels
  BY DEF TypeOK
<1>2. <<c, s>> # <<s, c>>
  BY ChannelEnds
<1>3. ASSUME NEW d \in Clients, NEW r \in Servers
      PROVE  /\ <<d, r>> # <<s, c>> /\ <<r, d>> # <<c, s>>
             /\ <<d, r>> = <<c, s>> <=> d = c /\ r = s
             /\ <<r, d>> = <<s, c>> <=> d = c /\ r = s
  BY ChannelEnds
<1>4. PICK outcome \in Outcomes(c, s) :
        /\ given' = [given EXCEPT ![s] = outcome.given]
        /\ inSessionWith' = [inSessionWith EXCEPT ![s][c] = outcome.session]
        /\ net' = [net EXCEPT ![<<c, s>>] = Tail(@), ![<<s, c>>] = @ \o outcome.answer]
        /\ raised' = IF outcome.error = None THEN None ELSE [error |-> outcome.error, client |-> c]
  BY DEF Serve, Outcomes
<1>5. /\ DOMAIN net' = Channels
      /\ \A d \in Clients, r \in Servers :
           /\ net'[<<d, r>>] = IF d = c /\ r = s THEN Tail(net[<<d, r>>]) ELSE net[<<d, r>>]
           /\ net'[<<r, d>>] = IF d = c /\ r = s THEN net[<<r, d>>] \o outcome.answer ELSE net[<<r, d>>]
  BY <1>1, <1>2, <1>3, <1>4, ChannelEnds
<1>6. net[<<c, s>>] # <<>>
  BY DEF Serve
<1>7. QED BY <1>4, <1>5, <1>6

(* A server offers the next address, answers with the one it offered, or    *)
(* fails: then it has no address left, or has offered none to this client.  *)
Offers(c, s, outcome) ==
  /\ Head(net[<<c, s>>]) = Discover /\ given[s] < LastAddress /\ NextOffer(s) \in Offered
  /\ outcome.given = given[s] + 1 /\ outcome.session = NextOffer(s)
  /\ outcome.answer = <<Offer(NextOffer(s))>> /\ outcome.error = None

Confirms(c, s, outcome) ==
  /\ Head(net[<<c, s>>]) # Discover /\ inSessionWith[s][c] \in Offered
  /\ outcome.given = given[s] /\ outcome.session = None
  /\ outcome.answer = <<Pack(inSessionWith[s][c])>> /\ outcome.error = None

Fails(c, s, outcome) ==
  /\ outcome.given = LastAddress /\ outcome.session = None /\ outcome.answer = <<>>
  /\ \/ outcome.error = "AddressTooLargeError"
     \/ outcome.error = "KeyError" /\ Head(net[<<c, s>>]) # Discover /\ inSessionWith[s][c] = None

LEMMA OutcomeCases ==
    ASSUME TypeOK, NEW c \in Clients, NEW s \in Servers, NEW outcome \in Outcomes(c, s)
    PROVE  Offers(c, s, outcome) \/ Confirms(c, s, outcome) \/ Fails(c, s, outcome)
<1>1. given[s] \in 0..LastAddress /\ runs[s] \in 0..MaxEvents + 1 /\ LastAddress \in Nat
  BY AddressLeasesConstants DEF TypeOK
<1>2. CASE Head(net[<<c, s>>]) = Discover
  <2>1. outcome = SendOffer(s, c)
    BY <1>2 DEF Outcomes
  <2>2. CASE given[s] = LastAddress
    BY <2>1, <2>2 DEF SendOffer, AtMaximum, Failure, Fails
  <2>3. CASE given[s] # LastAddress
    <3>1. given[s] < LastAddress /\ given[s] + 1 \in 0..LastAddress
      BY <1>1, <2>3
    <3>2. NextOffer(s) \in Offered
      BY <1>1, <3>1 DEF NextOffer, Offered
    <3>3. QED BY <1>2, <2>1, <2>3, <3>1, <3>2 DEF SendOffer, AtMaximum, Outcome, Offers
  <2>4. QED BY <2>2, <2>3
<1>3. CASE Head(net[<<c, s>>]) # Discover
  <2>1. outcome = SendPack(s, c)
    BY <1>3 DEF Outcomes
  <2>2. CASE inSessionWith[s][c] = None
    BY <1>3, <2>1, <2>2 DEF SendPack, Failure, Fails
  <2>3. CASE inSessionWith[s][c] # None
    <3>1. inSessionWith[s][c] \in Offered
      BY <2>3 DEF TypeOK
    <3>2. QED BY <1>3, <2>1, <2>3, <3>1 DEF SendPack, Outcome, Confirms
  <2>4. QED BY <2>2, <2>3
<1>4. QED BY <1>2, <1>3

-----------------------------------------------------------------------------
(* Types, and how often a server began again. *)

LEMMA TypeInit == Init => TypeOK /\ RunsCounted
<1> SUFFICES ASSUME Init PROVE TypeOK /\ RunsCounted
  OBVIOUS
<1>1. TypeOK
  BY AddressLeasesConstants DEF Init, TypeOK, Hosts
<1>2. RunsCounted
  BY AddressLeasesConstants DEF Init, RunsCounted, Hosts
<1>3. QED BY <1>1, <1>2

(* What a step does to the channels keeps their types.                     *)
NetOK(n) == DOMAIN n = Channels /\ \A ch \in Channels : n[ch] \in Seq(PacketsOf(ch))

LEMMA AnswersAreTyped ==
    ASSUME NEW o \in Offered
    PROVE  LET Answers == [type : {"offer", "pack"}, offered : Offered] IN
           /\ Offer(o) \in Answers /\ <<Offer(o)>> \in Seq(Answers) /\ Range(<<Offer(o)>>) = {Offer(o)}
           /\ Pack(o) \in Answers /\ <<Pack(o)>> \in Seq(Answers) /\ Range(<<Pack(o)>>) = {Pack(o)}
<1> DEFINE Answers == [type : {"offer", "pack"}, offered : Offered]
<1>1. Offer(o) \in Answers /\ Pack(o) \in Answers
  BY DEF Offer, Pack
<1> HIDE DEF Answers
<1>2. ASSUME NEW p \in Answers PROVE <<p>> \in Seq(Answers) /\ Range(<<p>>) = {p}
  <2>1. <<p>> \in Seq(Answers) /\ Len(<<p>>) = 1 /\ <<p>>[1] = p
    OBVIOUS
  <2>2. DOMAIN <<p>> = {1}
    OBVIOUS
  <2>3. QED BY <2>1, <2>2 DEF Range
<1>3. QED BY <1>1, <1>2 DEF Answers

LEMMA ServeTypes ==
    ASSUME TypeOK, RunsCounted, NEW c \in Clients, NEW s \in Servers, Serve(s, c)
    PROVE  TypeOK' /\ RunsCounted'
<1> USE AddressLeasesConstants
<1>1. PICK outcome \in Outcomes(c, s) :
        /\ given' = [given EXCEPT ![s] = outcome.given]
        /\ inSessionWith' = [inSessionWith EXCEPT ![s][c] = outcome.session]
        /\ raised' = IF outcome.error = None THEN None ELSE [error |-> outcome.error, client |-> c]
        /\ DOMAIN net' = Channels
        /\ \A d \in Clients, r \in Servers :
             /\ net'[<<d, r>>] = IF d = c /\ r = s THEN Tail(net[<<d, r>>]) ELSE net[<<d, r>>]
             /\ net'[<<r, d>>] = IF d = c /\ r = s THEN net[<<r, d>>] \o outcome.answer ELSE net[<<r, d>>]
        /\ net[<<c, s>>] # <<>>
  BY ServeEffect
<1>2. Offers(c, s, outcome) \/ Confirms(c, s, outcome) \/ Fails(c, s, outcome)
  BY OutcomeCases
<1>3. /\ outcome.given \in 0..LastAddress /\ given[s] <= outcome.given
      /\ outcome.session \in Offered \cup {None}
      /\ outcome.answer \in Seq([type : {"offer", "pack"}, offered : Offered])
      /\ outcome.error \in {None, "KeyError", "AddressTooLargeError"}
  <2>1. given[s] \in 0..LastAddress
    BY DEF TypeOK
  <2>2. CASE Offers(c, s, outcome)
    <3>1. NextOffer(s) \in Offered /\ outcome.answer = <<Offer(NextOffer(s))>>
      BY <2>2 DEF Offers
    <3>2. outcome.answer \in Seq([type : {"offer", "pack"}, offered : Offered])
      BY <3>1, AnswersAreTyped
    <3>3. QED BY <2>1, <2>2, <3>1, <3>2 DEF Offers
  <2>3. CASE Confirms(c, s, outcome)
    <3>1. inSessionWith[s][c] \in Offered /\ outcome.answer = <<Pack(inSessionWith[s][c])>>
      BY <2>3 DEF Confirms
    <3>2. outcome.answer \in Seq([type : {"offer", "pack"}, offered : Offered])
      BY ZenonT(60), <3>1, AnswersAreTyped
    <3>3. QED BY <2>1, <2>3, <3>1, <3>2 DEF Confirms
  <2>4. CASE Fails(c, s, outcome)
    BY <2>1, <2>4 DEF Fails
  <2>5. QED BY <1>2, <2>2, <2>3, <2>4
<1>4. NetOK(net')
  <2> DEFINE Answers == [type : {"offer", "pack"}, offered : Offered]
             Questions == {Discover, Request}
  <2>1. \A d \in Clients, r \in Servers : net[<<d, r>>] \in Seq(Questions) /\ net[<<r, d>>] \in Seq(Answers)
    BY NetTypes DEF TypeOK
  <2>2. outcome.answer \in Seq(Answers)
    BY <1>3
  <2> HIDE DEF Answers, Questions
  <2>3. Tail(net[<<c, s>>]) \in Seq(Questions) /\ net[<<s, c>>] \o outcome.answer \in Seq(Answers)
    BY <1>1, <2>1, <2>2, TailElements, ConcatElements
  <2>4. \A d \in Clients, r \in Servers : net'[<<d, r>>] \in Seq(Questions) /\ net'[<<r, d>>] \in Seq(Answers)
    BY ZenonT(60), <1>1, <2>1, <2>3
  <2>5. QED BY <1>1, <2>4, NetTypes DEF NetOK, Answers, Questions
<1>5. given' \in [Servers -> 0..LastAddress] /\ \A r \in Servers : given[r] <= given'[r]
  BY <1>1, <1>3 DEF TypeOK
<1>6. inSessionWith' \in [Servers -> [Clients -> Offered \cup {None}]]
  BY <1>1, <1>3 DEF TypeOK
<1>7. raised' \in {None} \cup [error : {"KeyError", "AttributeError", "AddressTooLargeError"}, client : Clients]
  BY <1>1, <1>3
<1>8. UNCHANGED <<proc, isPoweredOn, runs, address, calm, lost, events>>
  BY DEF Serve
<1>9. TypeOK'
  BY <1>4, <1>5, <1>6, <1>7, <1>8 DEF TypeOK, NetOK
<1>10. RunsCounted'
  <2>1. ASSUME NEW r \in Servers PROVE OwnAddress[r] <= given'[r]
    BY <1>5 DEF RunsCounted, TypeOK
  <2>2. QED BY <2>1, <1>8 DEF RunsCounted
<1>11. QED BY <1>9, <1>10

(* Packets that are taken away or sent are of their channels' kinds.       *)
LEMMA TakeTypes ==
    ASSUME TypeOK, NEW c \in Clients, NEW s \in Servers, TakeOffer(c, s) \/ TakePack(c, s)
    PROVE  NetOK(net')
<1> DEFINE Answers == [type : {"offer", "pack"}, offered : Offered]
           Questions == {Discover, Request}
<1>1. PICK left \in Received(c, s) : \A d \in Clients, r \in Servers :
        /\ net'[<<d, r>>] \in {net[<<d, r>>], Append(net[<<d, r>>], Request)}
        /\ net'[<<r, d>>] = IF d = c THEN left[r] ELSE net[<<r, d>>]
  <2>1. CASE TakeOffer(c, s)
    <3>1. PICK left \in Received(c, s) : \A d \in Clients, r \in Servers :
            /\ net'[<<d, r>>] = IF d = c /\ r = s THEN Append(net[<<d, r>>], Request) ELSE net[<<d, r>>]
            /\ net'[<<r, d>>] = IF d = c THEN left[r] ELSE net[<<r, d>>]
      BY <2>1, TakeOfferNet
    <3>2. QED BY <3>1
  <2>2. CASE TakePack(c, s)
    <3>1. PICK left \in Received(c, s) : \A d \in Clients, r \in Servers :
            /\ net'[<<d, r>>] = net[<<d, r>>]
            /\ net'[<<r, d>>] = IF d = c THEN left[r] ELSE net[<<r, d>>]
      BY <2>2, TakePackNet
    <3>2. QED BY <3>1
  <2>3. QED BY <2>1, <2>2
<1>2. DOMAIN net' = Channels
  <2>1. CASE TakeOffer(c, s)
    BY <2>1, TakeOfferNet
  <2>2. CASE TakePack(c, s)
    BY <2>2, TakePackNet
  <2>3. QED BY <2>1, <2>2
<1>3. \A d \in Clients, r \in Servers : net[<<d, r>>] \in Seq(Questions) /\ net[<<r, d>>] \in Seq(Answers)
  BY NetTypes DEF TypeOK
<1>4. \A r \in Servers : left[r] \in Seq(Answers)
  BY ReceivedEffect
<1>5. Request \in Questions
  OBVIOUS
<1> HIDE DEF Answers, Questions
<1>6. \A d \in Clients, r \in Servers : Append(net[<<d, r>>], Request) \in Seq(Questions)
  BY <1>3, <1>5, AppendElements
<1>7. \A d \in Clients, r \in Servers : net'[<<d, r>>] \in Seq(Questions) /\ net'[<<r, d>>] \in Seq(Answers)
  BY <1>1, <1>3, <1>4, <1>6
<1>8. QED BY <1>2, <1>7, NetTypes DEF NetOK, Answers, Questions

LEMMA StartAskingTypes ==
    ASSUME TypeOK, NEW c \in Clients, StartAsking(c)
    PROVE  NetOK(net')
<1> DEFINE Answers == [type : {"offer", "pack"}, offered : Offered]
           Questions == {Discover, Request}
<1>1. /\ DOMAIN net' = Channels
      /\ \A d \in Clients, r \in Servers :
           /\ net'[<<d, r>>] = IF d = c THEN Append(net[<<d, r>>], Discover) ELSE net[<<d, r>>]
           /\ net'[<<r, d>>] = net[<<r, d>>]
  BY StartAskingNet
<1>2. \A d \in Clients, r \in Servers : net[<<d, r>>] \in Seq(Questions) /\ net[<<r, d>>] \in Seq(Answers)
  BY NetTypes DEF TypeOK
<1>3. Discover \in Questions
  OBVIOUS
<1> HIDE DEF Answers, Questions
<1>4. \A d \in Clients, r \in Servers : Append(net[<<d, r>>], Discover) \in Seq(Questions)
  BY <1>2, <1>3, AppendElements
<1>5. \A d \in Clients, r \in Servers : net'[<<d, r>>] \in Seq(Questions) /\ net'[<<r, d>>] \in Seq(Answers)
  BY <1>1, <1>2, <1>4
<1>6. QED BY <1>1, <1>5, NetTypes DEF NetOK, Answers, Questions

LEMMA GoneTypes ==
    ASSUME TypeOK, NEW ch \in Channels, Gone(ch)
    PROVE  NetOK(net') /\ ClientOf(ch) \in Clients /\ ch[2] \in Hosts
<1>1. \A h \in Channels : net[h] \in Seq(PacketsOf(h))
  BY DEF TypeOK
<1>2. DOMAIN net = Channels /\ net[ch] # <<>> /\ net' = [net EXCEPT ![ch] = Tail(@)]
  BY DEF Gone, TypeOK
<1>3. Tail(net[ch]) \in Seq(PacketsOf(ch))
  BY <1>1, <1>2, TailElements
<1>4. NetOK(net')
  BY <1>1, <1>2, <1>3 DEF NetOK
<1>5. ClientOf(ch) \in Clients /\ ch[2] \in Hosts
  BY AddressLeasesConstants DEF Channels, ClientOf, Hosts
<1>6. QED BY <1>4, <1>5

LEMMA TypeStep == TypeOK /\ RunsCounted /\ [Next]_vars => TypeOK' /\ RunsCounted'
<1> SUFFICES ASSUME TypeOK, RunsCounted, [Next]_vars PROVE TypeOK' /\ RunsCounted'
  OBVIOUS
<1> USE AddressLeasesConstants
<1>1. ASSUME NEW c \in Clients, StartAsking(c) PROVE TypeOK' /\ RunsCounted'
  <2>1. NetOK(net')
    BY <1>1, StartAskingTypes
  <2>2. QED BY <2>1, <1>1 DEF StartAsking, TypeOK, NetOK, RunsCounted
<1>2. ASSUME NEW c \in Clients, NEW s \in Servers, TakeOffer(c, s) PROVE TypeOK' /\ RunsCounted'
  <2>1. NetOK(net')
    BY <1>2, TakeTypes
  <2>2. QED BY <2>1, <1>2 DEF TakeOffer, TypeOK, NetOK, RunsCounted
<1>3. ASSUME NEW c \in Clients, NEW s \in Servers, TakePack(c, s) PROVE TypeOK' /\ RunsCounted'
  <2>1. NetOK(net')
    BY <1>3, TakeTypes
  <2>2. Head(net[<<s, c>>]).offered \in Offered
    <3>1. PICK left : left \in Received(c, s)
      BY <1>3 DEF TakePack
    <3>2. Head(net[<<s, c>>]) \in [type : {"offer", "pack"}, offered : Offered]
      BY <3>1, ReceivedEffect
    <3>3. QED BY <3>2
  <2>3. address' \in [Clients -> Offered \cup {None}]
    BY <1>3, <2>2 DEF TakePack, Configure, TypeOK
  <2>4. raised' \in {None} \cup [error : {"KeyError", "AttributeError", "AddressTooLargeError"}, client : Clients]
    BY <1>3 DEF TakePack, TypeOK
  <2>5. proc' \in [Hosts -> {"none", "starting", "selecting", "requesting", "serving"}]
    <3>1. proc' = proc \/ proc' = [proc EXCEPT ![c] = "none"]
      BY <1>3 DEF TakePack
    <3>2. QED BY <3>1 DEF TypeOK
  <2>6. UNCHANGED <<isPoweredOn, given, inSessionWith, runs, calm, lost, events>>
    BY <1>3 DEF TakePack
  <2>7. QED BY <2>1, <2>3, <2>4, <2>5, <2>6 DEF TypeOK, NetOK, RunsCounted
<1>4. ASSUME NEW s \in Servers, StartServing(s) PROVE TypeOK' /\ RunsCounted'
  BY <1>4 DEF StartServing, TypeOK, RunsCounted
<1>5. ASSUME NEW s \in Servers, NEW c \in Clients, Serve(s, c) PROVE TypeOK' /\ RunsCounted'
  BY <1>5, ServeTypes
<1>6. ASSUME NEW ch \in Channels, Ignore(ch) \/ Lose(ch) PROVE TypeOK' /\ RunsCounted'
  <2>1. Gone(ch) /\ UNCHANGED events
    BY <1>6 DEF Ignore, Lose
  <2>2. NetOK(net') /\ ClientOf(ch) \in Clients
    BY <2>1, GoneTypes
  <2>3. QED BY <2>1, <2>2 DEF Gone, TypeOK, NetOK, RunsCounted
<1>7. CASE AskForDhcp
  <2>1. calm' \in [Clients -> BOOLEAN]
    BY ZenonT(60), <1>7 DEF AskForDhcp, TypeOK
  <2>2. lost' \in [Clients -> BOOLEAN]
    BY <1>7 DEF AskForDhcp, TypeOK
  <2>3. proc' \in [Hosts -> {"none", "starting", "selecting", "requesting", "serving"}]
    BY <1>7 DEF AskForDhcp, TypeOK
  <2>4. /\ events' \in 0..MaxEvents /\ events' = events + 1 /\ events \in 0..MaxEvents
        /\ UNCHANGED <<isPoweredOn, net, given, inSessionWith, runs, address, raised>>
    BY <1>7 DEF AskForDhcp, Event, TypeOK
  <2>5. TypeOK'
    BY <2>1, <2>2, <2>3, <2>4 DEF TypeOK
  <2>6. RunsCounted'
    <3>1. ASSUME NEW s \in Servers
          PROVE runs[s] + (IF isPoweredOn[s] THEN 1 ELSE 0) <= events' + 1
      BY <2>4 DEF RunsCounted, TypeOK
    <3>2. QED BY <3>1, <2>4 DEF RunsCounted
  <2>7. QED BY <2>5, <2>6
<1>8. ASSUME NEW c \in Clients, PowerOffClient(c) PROVE TypeOK' /\ RunsCounted'
  BY <1>8, ChannelEnds DEF PowerOffClient, Disturb, TypeOK, RunsCounted, Hosts
<1>9. ASSUME NEW s \in Servers, PowerOffServer(s) PROVE TypeOK' /\ RunsCounted'
  BY <1>9 DEF PowerOffServer, Disturb, TypeOK, RunsCounted, Hosts
<1>10. ASSUME NEW h \in Hosts, PowerOn(h) PROVE TypeOK' /\ RunsCounted'
  BY <1>10 DEF PowerOn, Event, Disturb, TypeOK, RunsCounted, Hosts
<1>11. ASSUME NEW s \in Servers, SetIp(s) PROVE TypeOK' /\ RunsCounted'
  BY <1>11 DEF SetIp, Event, TypeOK, RunsCounted, Hosts
<1>12. CASE UNCHANGED vars
  BY <1>12 DEF vars, TypeOK, RunsCounted
<1>13. QED
  BY <1>1, <1>2, <1>3, <1>4, <1>5, <1>6, <1>7, <1>8, <1>9, <1>10, <1>11, <1>12 DEF Next, ClientTick, ServerTick

-----------------------------------------------------------------------------
(* One client for each address. *)

LEMMA GivenInit == Init => GivenOnce
<1> SUFFICES ASSUME Init, NEW c \in Clients, NEW o \in Offered, o # None PROVE ~Holds(c, o)
  BY DEF GivenOnce
<1>1. address[c] = None /\ \A s \in Servers : inSessionWith[s][c] = None
  BY DEF Init
<1>2. \A s \in Servers : net[<<s, c>>] = <<>>
  BY ChannelEnds DEF Init
<1>3. Range(<<>>) = {}
  BY DEF Range
<1>4. QED BY <1>1, <1>2, <1>3 DEF Holds

(* What is given stays given: in a run the last address only grows.        *)
LEMMA StaysGiven ==
    ASSUME TypeOK,
           \A s \in Servers :
             \/ runs'[s] = runs[s] /\ given'[s] \in Nat /\ given[s] <= given'[s]
             \/ runs'[s] = runs[s] + 1,
           NEW o \in Offered, WasGiven(o)
    PROVE  WasGiven(o)'
<1>1. /\ o.run[1] \in Servers /\ o.run[2] \in 0..MaxEvents + 1 /\ o.ip \in 0..LastAddress
      /\ MaxEvents \in Nat /\ LastAddress \in Nat
  BY AddressLeasesConstants DEF Offered
<1>2. given[o.run[1]] \in 0..LastAddress /\ runs[o.run[1]] \in 0..MaxEvents + 1
  BY <1>1 DEF TypeOK
<1>3. QED BY <1>1, <1>2 DEF WasGiven

(* A step that gives nothing: what a client holds after it, it held before. *)
LEMMA NothingNew ==
    ASSUME TypeOK, GivenOnce,
           \A s \in Servers :
             \/ runs'[s] = runs[s] /\ given'[s] \in Nat /\ given[s] <= given'[s]
             \/ runs'[s] = runs[s] + 1,
           \A c \in Clients, o \in Offered : o # None /\ Holds(c, o)' => Holds(c, o)
    PROVE  GivenOnce'
  BY StaysGiven DEF GivenOnce

LEMMA GivenUnchanged ==
    ASSUME TypeOK, UNCHANGED <<given, runs>>
    PROVE  \A s \in Servers : runs'[s] = runs[s] /\ given'[s] \in Nat /\ given[s] <= given'[s]
  BY AddressLeasesConstants DEF TypeOK

(* The server that serves gives a new address, or confirms to the client    *)
(* the one it has offered to it, or fails and ends the program.             *)
LEMMA ServeGiven ==
    ASSUME TypeOK, RunsCounted, GivenOnce, NEW c \in Clients, NEW s \in Servers, Serve(s, c)
    PROVE  GivenOnce'
<1> DEFINE Answers == [type : {"offer", "pack"}, offered : Offered]
<1>1. PICK outcome \in Outcomes(c, s) :
        /\ given' = [given EXCEPT ![s] = outcome.given]
        /\ inSessionWith' = [inSessionWith EXCEPT ![s][c] = outcome.session]
        /\ raised' = IF outcome.error = None THEN None ELSE [error |-> outcome.error, client |-> c]
        /\ DOMAIN net' = Channels
        /\ \A d \in Clients, r \in Servers :
             /\ net'[<<d, r>>] = IF d = c /\ r = s THEN Tail(net[<<d, r>>]) ELSE net[<<d, r>>]
             /\ net'[<<r, d>>] = IF d = c /\ r = s THEN net[<<r, d>>] \o outcome.answer ELSE net[<<r, d>>]
        /\ net[<<c, s>>] # <<>>
  BY ServeEffect
<1>2. UNCHANGED <<runs, address>>
  BY DEF Serve
<1>3. \A d \in Clients, r \in Servers : net[<<r, d>>] \in Seq(Answers)
  BY NetTypes DEF TypeOK
<1>4. /\ given \in [Servers -> 0..LastAddress] /\ runs \in [Servers -> 0..MaxEvents + 1]
      /\ inSessionWith \in [Servers -> [Clients -> Offered \cup {None}]]
      /\ LastAddress \in Nat /\ MaxEvents \in Nat
  BY AddressLeasesConstants DEF TypeOK
<1>5. CASE Offers(c, s, outcome)
  <2>1. PICK new \in Offered :
          /\ new = NextOffer(s)
          /\ outcome.answer = <<Offer(new)>> /\ outcome.session = new /\ outcome.given = given[s] + 1
    BY <1>5 DEF Offers
  <2>2. new.ip = given[s] + 1 /\ new.run[1] = s /\ new.run[2] = runs[s]
    BY <2>1 DEF NextOffer
  <2>3. ~WasGiven(new)
    BY <1>4, <2>2 DEF WasGiven
  <2>4. new # None
    BY <2>1, NoneIsNotOffered
  <2>5. \A d \in Clients : ~Holds(d, new)
    BY <2>1, <2>3, <2>4 DEF GivenOnce
  <2>6. outcome.answer \in Seq(Answers) /\ Range(outcome.answer) = {Offer(new)} /\ Offer(new).offered = new
    BY <2>1, AnswersAreTyped DEF Offer
  <2> HIDE DEF Answers
  <2>7. ASSUME NEW d \in Clients, NEW o \in Offered, o # None, Holds(d, o)'
        PROVE  Holds(d, o) \/ (d = c /\ o = new)
    <3>1. CASE address'[d] = o
      BY <3>1, <1>2 DEF Holds
    <3>2. CASE \E r \in Servers : inSessionWith'[r][d] = o
      BY <3>2, <1>1, <1>4, <2>1 DEF Holds
    <3>3. CASE \E r \in Servers : \E p \in Range(net'[<<r, d>>]) : p.offered = o
      <4>1. PICK r \in Servers : \E p \in Range(net'[<<r, d>>]) : p.offered = o
        BY <3>3
      <4>2. Range(net[<<s, c>>] \o outcome.answer) = Range(net[<<s, c>>]) \cup {Offer(new)}
        BY <1>3, <2>6, ConcatElements
      <4>3. PICK p \in Range(net'[<<r, d>>]) : p.offered = o
        BY <4>1
      <4>4. p \in Range(net[<<r, d>>]) \/ (d = c /\ r = s /\ p = Offer(new))
        BY <1>1, <4>2, <4>3
      <4>5. QED BY <4>3, <4>4, <2>6 DEF Holds
    <3>4. QED BY <2>7, <3>1, <3>2, <3>3 DEF Holds
  <2>8. \A r \in Servers : runs'[r] = runs[r] /\ given'[r] \in Nat /\ given[r] <= given'[r]
    BY <1>1, <1>2, <1>4, <2>1
  <2>9. WasGiven(new)'
    <3>1. OwnAddress[s] < given[s] + 1
      BY <1>4, AddressLeasesConstants DEF RunsCounted
    <3>2. given'[s] = given[s] + 1
      BY <1>1, <1>4, <2>1
    <3>3. QED BY <1>2, <1>4, <2>2, <3>1, <3>2 DEF WasGiven
  <2>10. ASSUME NEW d \in Clients, NEW o \in Offered, o # None, Holds(d, o)'
         PROVE  WasGiven(o)' /\ \A e \in Clients : Holds(e, o)' => e = d
    <3>1. CASE o = new
      BY <2>5, <2>7, <2>9, <2>10, <3>1
    <3>2. CASE o # new
      <4>1. Holds(d, o)
        BY <2>7, <2>10, <3>2
      <4>2. WasGiven(o) /\ \A e \in Clients : Holds(e, o) => e = d
        BY <4>1, <2>10 DEF GivenOnce
      <4>3. QED BY <4>2, <2>7, <2>8, <2>10, <3>2, StaysGiven
    <3>3. QED BY <3>1, <3>2
  <2>11. QED BY <2>10 DEF GivenOnce
<1>6. CASE Confirms(c, s, outcome) \/ Fails(c, s, outcome)
  <2>1. /\ outcome.session = None /\ outcome.given \in Nat /\ given[s] <= outcome.given
        /\ \/ outcome.answer = <<>>
           \/ inSessionWith[s][c] \in Offered /\ outcome.answer = <<Pack(inSessionWith[s][c])>>
    BY <1>4, <1>6 DEF Confirms, Fails
  <2>2. outcome.answer \in Seq(Answers) /\ \A p \in Range(outcome.answer) : p.offered = inSessionWith[s][c]
    <3>1. CASE outcome.answer = <<>>
      BY <3>1 DEF Range
    <3>2. CASE inSessionWith[s][c] \in Offered /\ outcome.answer = <<Pack(inSessionWith[s][c])>>
      <4>1. outcome.answer \in Seq(Answers) /\ Range(outcome.answer) = {Pack(inSessionWith[s][c])}
        BY <3>2, AnswersAreTyped
      <4>2. QED BY <4>1 DEF Pack
    <3>3. QED BY <2>1, <3>1, <3>2
  <2> HIDE DEF Answers
  <2>3. ASSUME NEW d \in Clients, NEW o \in Offered, o # None, Holds(d, o)'
        PROVE  Holds(d, o)
    <3>1. CASE address'[d] = o
      BY <3>1, <1>2 DEF Holds
    <3>2. CASE \E r \in Servers : inSessionWith'[r][d] = o
      BY <3>2, <1>1, <1>4, <2>1, <2>3 DEF Holds
    <3>3. CASE \E r \in Servers : \E p \in Range(net'[<<r, d>>]) : p.offered = o
      <4>1. PICK r \in Servers : \E p \in Range(net'[<<r, d>>]) : p.offered = o
        BY <3>3
      <4>2. Range(net[<<s, c>>] \o outcome.answer) = Range(net[<<s, c>>]) \cup Range(outcome.answer)
        BY <1>3, <2>2, ConcatElements
      <4>3. PICK p \in Range(net'[<<r, d>>]) : p.offered = o
        BY <4>1
      <4>4. \/ p \in Range(net[<<r, d>>])
            \/ d = c /\ r = s /\ p \in Range(outcome.answer)
        BY <1>1, <4>2, <4>3
      <4>5. QED BY <4>3, <4>4, <2>2 DEF Holds
    <3>4. QED BY <2>3, <3>1, <3>2, <3>3 DEF Holds
  <2>4. \A r \in Servers : runs'[r] = runs[r] /\ given'[r] \in Nat /\ given[r] <= given'[r]
    BY <1>1, <1>2, <1>4, <2>1
  <2>5. QED BY <2>3, <2>4, NothingNew
<1>7. QED BY <1>5, <1>6, OutcomeCases

LEMMA FewerHolds ==
    ASSUME \A d \in Clients, r \in Servers :
             /\ Range(net'[<<r, d>>]) \subseteq Range(net[<<r, d>>])
             /\ inSessionWith'[r][d] \in {inSessionWith[r][d], None},
           \A d \in Clients, o \in Offered : address'[d] = o => Holds(d, o),
           NEW c \in Clients, NEW o \in Offered, o # None, Holds(c, o)'
    PROVE  Holds(c, o)
<1>1. CASE address'[c] = o
  BY <1>1
<1>2. CASE \E r \in Servers : inSessionWith'[r][c] = o
  BY <1>2 DEF Holds
<1>3. CASE \E r \in Servers : \E p \in Range(net'[<<r, c>>]) : p.offered = o
  BY <1>3 DEF Holds
<1>4. QED BY <1>1, <1>2, <1>3 DEF Holds

LEMMA GivenStep == TypeOK /\ RunsCounted /\ GivenOnce /\ [Next]_vars => GivenOnce'
<1> SUFFICES ASSUME TypeOK, RunsCounted, GivenOnce, [Next]_vars PROVE GivenOnce'
  OBVIOUS
<1> DEFINE Fewer == \A d \in Clients, r \in Servers : Range(net'[<<r, d>>]) \subseteq Range(net[<<r, d>>])
           Grows == \A s \in Servers :
                      \/ runs'[s] = runs[s] /\ given'[s] \in Nat /\ given[s] <= given'[s]
                      \/ runs'[s] = runs[s] + 1
<1>0. \A d \in Clients, o \in Offered : address[d] = o => Holds(d, o)
  BY DEF Holds
<1>1. ASSUME NEW c \in Clients, NEW s \in Servers, TakeOffer(c, s) PROVE GivenOnce'
  <2>1. UNCHANGED <<given, inSessionWith, runs, address>>
    BY <1>1 DEF TakeOffer
  <2>2. Fewer
    <3>1. PICK left \in Received(c, s) : \A d \in Clients, r \in Servers :
            /\ net'[<<d, r>>] = IF d = c /\ r = s THEN Append(net[<<d, r>>], Request) ELSE net[<<d, r>>]
            /\ net'[<<r, d>>] = IF d = c THEN left[r] ELSE net[<<r, d>>]
      BY <1>1, TakeOfferNet
    <3>2. \A r \in Servers : Range(left[r]) \subseteq Range(net[<<r, c>>])
      BY ReceivedEffect
    <3>3. QED BY <3>1, <3>2
  <2>3. QED BY <2>1, <2>2, <1>0, GivenUnchanged, FewerHolds, NothingNew
<1>2. ASSUME NEW c \in Clients, NEW s \in Servers, TakePack(c, s) PROVE GivenOnce'
  <2>1. UNCHANGED <<given, inSessionWith, runs>>
    BY <1>2 DEF TakePack
  <2>2. PICK left \in Received(c, s) : \A d \in Clients, r \in Servers :
          /\ net'[<<d, r>>] = net[<<d, r>>]
          /\ net'[<<r, d>>] = IF d = c THEN left[r] ELSE net[<<r, d>>]
    BY <1>2, TakePackNet
  <2>3. Fewer
    <3>1. \A r \in Servers : Range(left[r]) \subseteq Range(net[<<r, c>>])
      BY ReceivedEffect
    <3>2. QED BY <2>2, <3>1
  <2>4. ASSUME NEW d \in Clients, NEW o \in Offered, address'[d] = o PROVE Holds(d, o)
    <3>1. Head(net[<<s, c>>]) \in Range(net[<<s, c>>])
      BY ReceivedEffect
    <3>2. Holds(c, Head(net[<<s, c>>]).offered)
      BY <3>1 DEF Holds
    <3>3. address' = address \/ address' = [address EXCEPT ![c] = Head(net[<<s, c>>]).offered]
      BY <1>2 DEF TakePack, Configure
    <3>4. QED BY <1>0, <2>4, <3>2, <3>3 DEF TypeOK
  <2>5. QED BY <2>1, <2>3, <2>4, GivenUnchanged, FewerHolds, NothingNew
<1>3. ASSUME NEW s \in Servers, NEW c \in Clients, Serve(s, c) PROVE GivenOnce'
  BY <1>3, ServeGiven
<1>4. ASSUME NEW ch \in Channels, Gone(ch) PROVE GivenOnce'
  <2>1. UNCHANGED <<given, inSessionWith, runs, address>>
    BY <1>4 DEF Gone
  <2>2. Fewer
    <3>1. \A h \in Channels : net[h] \in Seq(PacketsOf(h))
      BY DEF TypeOK
    <3>2. Range(Tail(net[ch])) \subseteq Range(net[ch])
      BY <1>4, <3>1, TailElements DEF Gone
    <3>3. \A h \in Channels : Range(net'[h]) \subseteq Range(net[h])
      BY <1>4, <3>2, GoneNet
    <3>4. QED BY <3>3, ChannelEnds
  <2>3. QED BY <2>1, <2>2, <1>0, GivenUnchanged, FewerHolds, NothingNew
<1>5. ASSUME NEW s \in Servers, PowerOffServer(s) \/ SetIp(s) PROVE GivenOnce'
  <2>1. UNCHANGED <<net, address>> /\ runs' = [runs EXCEPT ![s] = @ + 1] /\ given' = [given EXCEPT ![s] = OwnAddress[s]]
    BY <1>5 DEF PowerOffServer, SetIp
  <2>2. Fewer
    BY <2>1
  <2>3. \A d \in Clients, r \in Servers : inSessionWith'[r][d] \in {inSessionWith[r][d], None}
    BY <1>5 DEF PowerOffServer, SetIp, TypeOK
  <2>4. Grows
    BY <2>1, AddressLeasesConstants DEF TypeOK
  <2>5. QED BY <2>1, <2>2, <2>3, <2>4, <1>0, FewerHolds, NothingNew
<1>6. ASSUME UNCHANGED <<given, inSessionWith, runs, address>>,
             \A d \in Clients, r \in Servers : net'[<<r, d>>] = net[<<r, d>>]
      PROVE GivenOnce'
  BY <1>6, <1>0, GivenUnchanged, FewerHolds, NothingNew
<1>7. ASSUME NEW c \in Clients, StartAsking(c) PROVE GivenOnce'
  <2>1. UNCHANGED <<given, inSessionWith, runs, address>>
    BY <1>7 DEF StartAsking
  <2>2. \A d \in Clients, r \in Servers : net'[<<r, d>>] = net[<<r, d>>]
    BY <1>7, StartAskingNet
  <2>3. QED BY <1>6, <2>1, <2>2
<1>8. ASSUME \/ \E s \in Servers : StartServing(s)
             \/ \E c \in Clients : PowerOffClient(c)
             \/ \E h \in Hosts : PowerOn(h)
             \/ AskForDhcp \/ UNCHANGED vars
      PROVE GivenOnce'
  <2>1. UNCHANGED <<net, given, inSessionWith, runs, address>>
    BY <1>8 DEF StartServing, PowerOffClient, PowerOn, AskForDhcp, vars
  <2>2. QED BY <1>6, <2>1
<1>9. QED
  BY <1>1, <1>2, <1>3, <1>4, <1>5, <1>7, <1>8 DEF Next, ClientTick, ServerTick, Ignore, Lose

-----------------------------------------------------------------------------
(* What ends the program. *)

(* What a client that nothing disturbed depends on does not change.        *)
LEMMA StaysCalm ==
    ASSUME CalmInv, NEW c \in Clients, calm'[c] => calm[c],
           proc'[c] = proc[c], isPoweredOn'[c] = isPoweredOn[c],
           \A s \in Servers :
             /\ isPoweredOn'[s] = isPoweredOn[s] /\ (proc[s] = "serving" => proc'[s] = "serving")
             /\ net'[<<s, c>>] = net[<<s, c>>] /\ net'[<<c, s>>] = net[<<c, s>>]
             /\ inSessionWith'[s][c] = inSessionWith[s][c]
    PROVE  calm'[c] => isPoweredOn'[c] /\ \E s \in Servers : OnlyServer(c, s)' /\ Conversation(c, s)'
<1> SUFFICES ASSUME calm'[c]
             PROVE  isPoweredOn'[c] /\ \E s \in Servers : OnlyServer(c, s)' /\ Conversation(c, s)'
  OBVIOUS
<1>1. PICK s \in Servers : isPoweredOn[c] /\ OnlyServer(c, s) /\ Conversation(c, s)
  BY DEF CalmInv
<1>2. OnlyServer(c, s)'
  BY <1>1 DEF OnlyServer
<1>3. Conversation(c, s)'
  BY <1>1 DEF Conversation
<1>4. QED BY <1>1, <1>2, <1>3

(* The client takes the only packet there is.                              *)
LEMMA TakesTheOnly ==
    ASSUME TypeOK, NEW c \in Clients, NEW s \in Servers, NEW left \in Received(c, s),
           NEW t \in Servers, OnlyServer(c, t), Conversation(c, t)
    PROVE  /\ s = t /\ net[<<c, s>>] = <<>>
           /\ proc[c] = "selecting" => inSessionWith[s][c] # None
           /\ proc[c] = "requesting" => Head(net[<<s, c>>]).type = "pack"
           /\ \A r \in Servers : left[r] = <<>>
<1>1. s = t
  BY ReceivedEffect DEF OnlyServer
<1>2. net[<<s, c>>] # <<>>
  BY ReceivedEffect
<1>3. /\ net[<<c, s>>] = <<>>
      /\ \/ /\ proc[c] = "selecting" /\ inSessionWith[s][c] # None
            /\ \E o \in Offered : net[<<s, c>>] = <<Offer(o)>>
         \/ /\ proc[c] = "requesting"
            /\ \E o \in Offered : net[<<s, c>>] = <<Pack(o)>>
  BY <1>1, <1>2 DEF Conversation
<1>4. Len(net[<<s, c>>]) = 1
  <2>1. \E p : net[<<s, c>>] = <<p>>
    BY <1>3
  <2>2. QED BY <2>1
<1>5. ASSUME NEW r \in Servers PROVE left[r] = <<>>
  <2>1. /\ left[r] \in Seq([type : {"offer", "pack"}, offered : Offered])
        /\ Len(left[r]) <= Len(net[<<r, c>>]) /\ Len(left[s]) < Len(net[<<s, c>>])
    BY ReceivedEffect
  <2>2. r # s => net[<<r, c>>] = <<>>
    BY <1>1 DEF OnlyServer
  <2>3. Len(left[r]) = 0
    BY <2>1, <2>2, <1>4
  <2>4. QED BY <2>1, <2>3
<1>6. proc[c] = "selecting" => inSessionWith[s][c] # None
  BY <1>3
<1>7. ASSUME proc[c] = "requesting" PROVE Head(net[<<s, c>>]).type = "pack"
  <2>1. PICK o \in Offered : net[<<s, c>>] = <<Pack(o)>>
    BY <1>3, <1>7
  <2>2. Head(net[<<s, c>>]) = Pack(o)
    BY <2>1
  <2>3. QED BY <2>2 DEF Pack
<1>8. QED BY <1>1, <1>3, <1>5, <1>6, <1>7

(* The server answers the only packet there is.                            *)
LEMMA ServedInTurn ==
    ASSUME TypeOK, NEW c \in Clients, NEW s \in Servers, Serve(s, c), Conversation(c, s)
    PROVE  Conversation(c, s)'
<1>1. PICK outcome \in Outcomes(c, s) :
        /\ given' = [given EXCEPT ![s] = outcome.given]
        /\ inSessionWith' = [inSessionWith EXCEPT ![s][c] = outcome.session]
        /\ raised' = IF outcome.error = None THEN None ELSE [error |-> outcome.error, client |-> c]
        /\ DOMAIN net' = Channels
        /\ \A e \in Clients, r \in Servers :
             /\ net'[<<e, r>>] = IF e = c /\ r = s THEN Tail(net[<<e, r>>]) ELSE net[<<e, r>>]
             /\ net'[<<r, e>>] = IF e = c /\ r = s THEN net[<<r, e>>] \o outcome.answer ELSE net[<<r, e>>]
        /\ net[<<c, s>>] # <<>>
  BY ServeEffect
<1>2. UNCHANGED proc
  BY DEF Serve
<1>3. \E p : net[<<c, s>>] = <<p>>
  BY <1>1 DEF Conversation
<1>4. net[<<s, c>>] = <<>>
  BY <1>1 DEF Conversation
<1>5. inSessionWith'[s][c] = outcome.session
  BY <1>1 DEF TypeOK
<1>6. \A o \in Offered : <<>> \o <<Offer(o)>> = <<Offer(o)>> /\ <<>> \o <<Pack(o)>> = <<Pack(o)>>
  BY OneElement
<1>7. net'[<<c, s>>] = <<>>
  BY <1>1, <1>3, OneElement
<1>8. CASE proc[c] = "selecting" /\ net[<<c, s>>] = <<Discover>>
  <2>1. Head(net[<<c, s>>]) = Discover
    BY <1>8
  <2>2. CASE Offers(c, s, outcome)
    <3>1. NextOffer(s) \in Offered /\ NextOffer(s) # None
      BY <2>2, NoneIsNotOffered DEF Offers
    <3>2. net'[<<s, c>>] = <<Offer(NextOffer(s))>>
      BY <1>1, <1>4, <1>6, <2>2 DEF Offers
    <3>3. inSessionWith'[s][c] # None
      BY <1>5, <2>2, <3>1 DEF Offers
    <3>4. QED BY <1>2, <1>7, <1>8, <3>1, <3>2, <3>3 DEF Conversation
  <2>3. CASE Fails(c, s, outcome)
    <3>1. net'[<<s, c>>] = <<>>
      BY <1>1, <1>4, <2>3 DEF Fails
    <3>2. QED BY <1>7, <3>1 DEF Conversation
  <2>4. QED BY <2>1, <2>2, <2>3, OutcomeCases DEF Confirms
<1>9. CASE proc[c] = "requesting" /\ net[<<c, s>>] = <<Request>> /\ inSessionWith[s][c] # None
  <2>1. Head(net[<<c, s>>]) # Discover
    BY <1>9 DEF Request, Discover
  <2>2. CASE Confirms(c, s, outcome)
    <3>1. net'[<<s, c>>] = <<Pack(inSessionWith[s][c])>> /\ inSessionWith[s][c] \in Offered
      BY <1>1, <1>4, <1>6, <2>2 DEF Confirms
    <3>2. QED BY <1>2, <1>7, <1>9, <3>1 DEF Conversation
  <2>3. CASE Fails(c, s, outcome)
    <3>1. net'[<<s, c>>] = <<>>
      BY <1>1, <1>4, <2>3 DEF Fails
    <3>2. QED BY <1>7, <3>1 DEF Conversation
  <2>4. QED BY <2>1, <2>2, <2>3, OutcomeCases DEF Offers
<1>10. QED BY <1>1, <1>8, <1>9 DEF Conversation

LEMMA CalmStep == TypeOK /\ CalmInv /\ [Next]_vars => CalmInv'
<1> SUFFICES ASSUME TypeOK, CalmInv, [Next]_vars, NEW d \in Clients
             PROVE  calm'[d] => isPoweredOn'[d] /\ \E s \in Servers : OnlyServer(d, s)' /\ Conversation(d, s)'
  BY DEF CalmInv
<1>1. ASSUME NEW c \in Clients, StartAsking(c)
      PROVE  calm'[d] => isPoweredOn'[d] /\ \E s \in Servers : OnlyServer(d, s)' /\ Conversation(d, s)'
  <2>1. /\ proc' = [proc EXCEPT ![c] = "selecting"] /\ proc[c] = "starting"
        /\ UNCHANGED <<isPoweredOn, inSessionWith, calm>>
    BY <1>1 DEF StartAsking
  <2>2. \A e \in Clients, r \in Servers :
          /\ net'[<<e, r>>] = IF e = c THEN Append(net[<<e, r>>], Discover) ELSE net[<<e, r>>]
          /\ net'[<<r, e>>] = net[<<r, e>>]
    BY <1>1, StartAskingNet
  <2>3. \A s \in Servers : proc'[s] = proc[s]
    BY <2>1, ChannelEnds DEF TypeOK
  <2>4. CASE d = c
    <3>1. SUFFICES ASSUME calm'[c]
                   PROVE  isPoweredOn'[c] /\ \E s \in Servers : OnlyServer(c, s)' /\ Conversation(c, s)'
      BY <2>4
    <3>2. PICK s \in Servers : isPoweredOn[c] /\ OnlyServer(c, s) /\ Conversation(c, s)
      BY <2>1, <3>1 DEF CalmInv
    <3>3. net[<<c, s>>] = <<>> /\ net[<<s, c>>] = <<>>
      BY <2>1, <3>2 DEF Conversation
    <3>4. net'[<<c, s>>] = <<Discover>> /\ net'[<<s, c>>] = <<>>
      BY <2>2, <3>3, OneElement
    <3>5. proc'[c] = "selecting"
      BY <2>1, ChannelEnds, <3>2 DEF TypeOK
    <3>6. Conversation(c, s)'
      BY <3>4, <3>5 DEF Conversation
    <3>7. OnlyServer(c, s)'
      BY <2>1, <2>2, <2>3, <3>2 DEF OnlyServer
    <3>8. QED BY <2>1, <3>2, <3>6, <3>7
  <2>5. CASE d # c
    <3>1. proc'[d] = proc[d]
      BY <2>1, <2>5 DEF TypeOK, Hosts
    <3>2. QED BY <2>1, <2>2, <2>3, <2>5, <3>1, StaysCalm
  <2>6. QED BY <2>4, <2>5
<1>2. ASSUME NEW c \in Clients, NEW t \in Servers, TakeOffer(c, t)
      PROVE  calm'[d] => isPoweredOn'[d] /\ \E s \in Servers : OnlyServer(d, s)' /\ Conversation(d, s)'
  <2>1. /\ proc' = [proc EXCEPT ![c] = "requesting"] /\ proc[c] = "selecting"
        /\ UNCHANGED <<isPoweredOn, inSessionWith, calm>>
    BY <1>2 DEF TakeOffer
  <2>2. PICK left \in Received(c, t) : \A e \in Clients, r \in Servers :
          /\ net'[<<e, r>>] = IF e = c /\ r = t THEN Append(net[<<e, r>>], Request) ELSE net[<<e, r>>]
          /\ net'[<<r, e>>] = IF e = c THEN left[r] ELSE net[<<r, e>>]
    BY <1>2, TakeOfferNet
  <2>3. \A s \in Servers : proc'[s] = proc[s]
    BY <2>1, ChannelEnds DEF TypeOK
  <2>4. CASE d = c
    <3>1. SUFFICES ASSUME calm'[c]
                   PROVE  isPoweredOn'[c] /\ \E s \in Servers : OnlyServer(c, s)' /\ Conversation(c, s)'
      BY <2>4
    <3>2. PICK s \in Servers : isPoweredOn[c] /\ OnlyServer(c, s) /\ Conversation(c, s)
      BY <2>1, <3>1 DEF CalmInv
    <3>3. /\ t = s /\ net[<<c, t>>] = <<>> /\ (proc[c] = "selecting" => inSessionWith[t][c] # None)
          /\ (proc[c] = "requesting" => Head(net[<<t, c>>]).type = "pack")
          /\ \A r \in Servers : left[r] = <<>>
      BY <3>2, TakesTheOnly
    <3>4. net'[<<c, s>>] = <<Request>> /\ \A r \in Servers : net'[<<r, c>>] = <<>>
      BY ZenonT(60), <2>2, <3>3, OneElement
    <3>5. proc'[c] = "requesting"
      BY <2>1, ChannelEnds, <3>2 DEF TypeOK
    <3>6. Conversation(c, s)'
      BY <2>1, <3>3, <3>4, <3>5 DEF Conversation
    <3>7. OnlyServer(c, s)'
      BY <2>1, <2>3, <3>2, <3>4 DEF OnlyServer
    <3>8. QED BY <2>1, <3>2, <3>6, <3>7
  <2>5. CASE d # c
    <3>1. proc'[d] = proc[d]
      BY <2>1, <2>5 DEF TypeOK, Hosts
    <3>2. QED BY <2>1, <2>2, <2>3, <2>5, <3>1, StaysCalm
  <2>6. QED BY <2>4, <2>5
<1>3. ASSUME NEW c \in Clients, NEW t \in Servers, TakePack(c, t)
      PROVE  calm'[d] => isPoweredOn'[d] /\ \E s \in Servers : OnlyServer(d, s)' /\ Conversation(d, s)'
  <2>1. /\ proc' \in {proc, [proc EXCEPT ![c] = "none"]}
        /\ UNCHANGED <<isPoweredOn, inSessionWith, calm>> /\ proc[c] = "requesting"
    BY <1>3 DEF TakePack
  <2>2. PICK left \in Received(c, t) : \A e \in Clients, r \in Servers :
          /\ net'[<<e, r>>] = net[<<e, r>>]
          /\ net'[<<r, e>>] = IF e = c THEN left[r] ELSE net[<<r, e>>]
    BY <1>3, TakePackNet
  <2>3. \A s \in Servers : proc'[s] = proc[s]
    BY ZenonT(60), <2>1, ChannelEnds DEF TypeOK
  <2>4. CASE d = c
    <3>1. SUFFICES ASSUME calm'[c]
                   PROVE  isPoweredOn'[c] /\ \E s \in Servers : OnlyServer(c, s)' /\ Conversation(c, s)'
      BY <2>4
    <3>2. PICK s \in Servers : isPoweredOn[c] /\ OnlyServer(c, s) /\ Conversation(c, s)
      BY <2>1, <3>1 DEF CalmInv
    <3>3. /\ t = s /\ net[<<c, t>>] = <<>> /\ (proc[c] = "selecting" => inSessionWith[t][c] # None)
          /\ (proc[c] = "requesting" => Head(net[<<t, c>>]).type = "pack")
          /\ \A r \in Servers : left[r] = <<>>
      BY <3>2, TakesTheOnly
    <3>4. net'[<<c, s>>] = <<>> /\ \A r \in Servers : net'[<<r, c>>] = <<>>
      BY <2>2, <3>3
    <3>5. Conversation(c, s)'
      BY <3>4 DEF Conversation
    <3>6. OnlyServer(c, s)'
      BY <2>1, <2>3, <3>2, <3>4 DEF OnlyServer
    <3>7. QED BY <2>1, <3>2, <3>5, <3>6
  <2>5. CASE d # c
    <3>1. proc'[d] = proc[d]
      BY <2>1, <2>5 DEF TypeOK, Hosts
    <3>2. QED BY <2>1, <2>2, <2>3, <2>5, <3>1, StaysCalm
  <2>6. QED BY <2>4, <2>5
<1>4. ASSUME NEW t \in Servers, StartServing(t)
      PROVE  calm'[d] => isPoweredOn'[d] /\ \E s \in Servers : OnlyServer(d, s)' /\ Conversation(d, s)'
  <2>1. /\ proc' = [proc EXCEPT ![t] = "serving"]
        /\ UNCHANGED <<isPoweredOn, net, inSessionWith, calm>>
    BY <1>4 DEF StartServing
  <2>2. proc'[d] = proc[d] /\ \A s \in Servers : proc[s] = "serving" => proc'[s] = "serving"
    BY <2>1, ChannelEnds DEF TypeOK, Hosts
  <2>3. QED BY <2>1, <2>2, StaysCalm
<1>5. ASSUME NEW t \in Servers, NEW c \in Clients, Serve(t, c)
      PROVE  calm'[d] => isPoweredOn'[d] /\ \E s \in Servers : OnlyServer(d, s)' /\ Conversation(d, s)'
  <2>1. PICK outcome \in Outcomes(c, t) :
          /\ given' = [given EXCEPT ![t] = outcome.given]
          /\ inSessionWith' = [inSessionWith EXCEPT ![t][c] = outcome.session]
          /\ raised' = IF outcome.error = None THEN None ELSE [error |-> outcome.error, client |-> c]
          /\ DOMAIN net' = Channels
          /\ \A e \in Clients, r \in Servers :
               /\ net'[<<e, r>>] = IF e = c /\ r = t THEN Tail(net[<<e, r>>]) ELSE net[<<e, r>>]
               /\ net'[<<r, e>>] = IF e = c /\ r = t THEN net[<<r, e>>] \o outcome.answer ELSE net[<<r, e>>]
          /\ net[<<c, t>>] # <<>>
    BY <1>5, ServeEffect
  <2>2. UNCHANGED <<proc, isPoweredOn, calm>> /\ isPoweredOn[t]
    BY <1>5 DEF Serve
  <2>3. CASE d = c
    <3>1. SUFFICES ASSUME calm'[c]
                   PROVE  isPoweredOn'[c] /\ \E s \in Servers : OnlyServer(c, s)' /\ Conversation(c, s)'
      BY <2>3
    <3>2. PICK s \in Servers : isPoweredOn[c] /\ OnlyServer(c, s) /\ Conversation(c, s)
      BY <2>2, <3>1 DEF CalmInv
    <3>3. s = t
      BY <2>2, <3>2 DEF OnlyServer
    <3>4. OnlyServer(c, s)'
      BY <2>1, <2>2, <3>2, <3>3 DEF OnlyServer
    <3>5. Conversation(c, s)'
      BY <1>5, <2>1, <2>2, <3>2, <3>3, ServedInTurn
    <3>6. QED BY <2>2, <3>2, <3>4, <3>5
  <2>4. CASE d # c
    <3>1. \A s \in Servers : inSessionWith'[s][d] = inSessionWith[s][d]
      BY <2>1, <2>4 DEF TypeOK
    <3>2. QED BY <2>1, <2>2, <2>4, <3>1, StaysCalm
  <2>5. QED BY <2>3, <2>4
<1>6. ASSUME NEW ch \in Channels, Gone(ch)
      PROVE  calm'[d] => isPoweredOn'[d] /\ \E s \in Servers : OnlyServer(d, s)' /\ Conversation(d, s)'
  <2>1. UNCHANGED <<proc, isPoweredOn, inSessionWith, calm>>
    BY <1>6 DEF Gone
  <2>2. SUFFICES ASSUME calm'[d]
                 PROVE  isPoweredOn'[d] /\ \E s \in Servers : OnlyServer(d, s)' /\ Conversation(d, s)'
    OBVIOUS
  <2>3. PICK s \in Servers : isPoweredOn[d] /\ OnlyServer(d, s) /\ Conversation(d, s)
    BY <2>1, <2>2 DEF CalmInv
  <2>4. net[ch] # <<>> /\ \A h \in Channels : net'[h] = IF h = ch THEN Tail(net[h]) ELSE net[h]
    BY <1>6, GoneNet
  <2>5. OnlyServer(d, s)'
    BY <2>1, <2>3, <2>4, ChannelEnds DEF OnlyServer
  <2>6. <<d, s>> # <<s, d>> /\ <<d, s>> \in Channels /\ <<s, d>> \in Channels
    BY ChannelEnds
  <2>7. CASE ch \in {<<d, s>>, <<s, d>>}
    <3>1. \E p : net[ch] = <<p>>
      BY <2>3, <2>4, <2>7 DEF Conversation
    <3>2. net'[ch] = <<>>
      BY <2>4, <3>1, OneElement
    <3>3. \A h \in {<<d, s>>, <<s, d>>} \ {ch} : net'[h] = <<>>
      BY <2>3, <2>4, <2>6, <2>7 DEF Conversation
    <3>4. QED BY <2>1, <2>3, <2>5, <3>2, <3>3 DEF Conversation
  <2>8. CASE ch \notin {<<d, s>>, <<s, d>>}
    <3>1. net'[<<d, s>>] = net[<<d, s>>] /\ net'[<<s, d>>] = net[<<s, d>>]
      BY <2>4, <2>6, <2>8
    <3>2. Conversation(d, s)'
      BY <2>1, <2>3, <3>1 DEF Conversation
    <3>3. QED BY <2>1, <2>3, <2>5, <3>2
  <2>9. QED BY <2>7, <2>8
<1>7. CASE AskForDhcp
  <2>1. PICK asking \in {{c \in Clients : address[c] = None}} :
          /\ proc' = [h \in Hosts |-> IF h \in asking THEN "starting" ELSE proc[h]]
          /\ calm' = [c \in Clients |->
               IF c \notin asking THEN calm[c]
               ELSE isPoweredOn[c] /\ ~UnderWay(c) /\ Cardinality(OnServers) = 1 /\ \A s \in OnServers : proc[s] = "serving"]
          /\ UNCHANGED <<isPoweredOn, net, inSessionWith>>
    BY <1>7 DEF AskForDhcp
  <2>2. \A s \in Servers : proc'[s] = proc[s]
    BY <2>1, ChannelEnds DEF Hosts
  <2>3. CASE d \notin asking
    <3>1. proc'[d] = proc[d] /\ calm'[d] = calm[d]
      BY <2>1, <2>3 DEF Hosts
    <3>2. QED BY <2>1, <2>2, <3>1, StaysCalm
  <2>4. CASE d \in asking
    <3>1. SUFFICES ASSUME calm'[d]
                   PROVE  isPoweredOn'[d] /\ \E s \in Servers : OnlyServer(d, s)' /\ Conversation(d, s)'
      OBVIOUS
    <3>2. /\ isPoweredOn[d] /\ ~UnderWay(d) /\ Cardinality(OnServers) = 1
          /\ \A s \in OnServers : proc[s] = "serving"
      BY <2>1, <2>4, <3>1
    <3>3. PICK s : OnServers = {s}
      <4>1. IsFiniteSet(OnServers)
        BY AddressLeasesConstants, FS_Subset DEF OnServers
      <4>2. QED BY <3>2, <4>1, FS_Singleton
    <3>4. s \in Servers /\ isPoweredOn[s] /\ proc[s] = "serving" /\ \A r \in Servers \ {s} : ~isPoweredOn[r]
      BY <3>2, <3>3 DEF OnServers
    <3>5. net[<<d, s>>] = <<>> /\ \A r \in Servers : net[<<r, d>>] = <<>>
      BY <3>2, <3>3 DEF UnderWay
    <3>6. OnlyServer(d, s)' /\ Conversation(d, s)'
      BY <2>1, <2>2, <3>4, <3>5 DEF OnlyServer, Conversation
    <3>7. QED BY <2>1, <3>2, <3>4, <3>6
  <2>5. QED BY <2>3, <2>4
<1>8. ASSUME NEW h \in Hosts, Disturb(h), calm'[d] PROVE h \in Clients /\ h # d /\ calm[d]
  BY <1>8 DEF Disturb
<1>9. ASSUME NEW c \in Clients, PowerOffClient(c)
      PROVE  calm'[d] => isPoweredOn'[d] /\ \E s \in Servers : OnlyServer(d, s)' /\ Conversation(d, s)'
  <2>1. SUFFICES ASSUME calm'[d]
                 PROVE  isPoweredOn'[d] /\ \E s \in Servers : OnlyServer(d, s)' /\ Conversation(d, s)'
    OBVIOUS
  <2>2. calm[d] /\ c # d
    BY <1>8, <1>9, <2>1 DEF PowerOffClient, Hosts
  <2>3. /\ proc' = [proc EXCEPT ![c] = "none"] /\ isPoweredOn' = [isPoweredOn EXCEPT ![c] = FALSE]
        /\ UNCHANGED <<net, inSessionWith>>
    BY <1>9 DEF PowerOffClient
  <2>4. /\ proc'[d] = proc[d] /\ isPoweredOn'[d] = isPoweredOn[d]
        /\ \A s \in Servers : proc'[s] = proc[s] /\ isPoweredOn'[s] = isPoweredOn[s]
    BY ZenonT(60), <2>2, <2>3, ChannelEnds DEF TypeOK, Hosts
  <2>5. QED BY <2>1, <2>2, <2>3, <2>4, StaysCalm
<1>10. ASSUME NEW s \in Servers, PowerOffServer(s)
       PROVE  calm'[d] => isPoweredOn'[d] /\ \E t \in Servers : OnlyServer(d, t)' /\ Conversation(d, t)'
  BY <1>8, <1>10, ChannelEnds DEF PowerOffServer
<1>11. ASSUME NEW h \in Hosts, PowerOn(h)
       PROVE  calm'[d] => isPoweredOn'[d] /\ \E s \in Servers : OnlyServer(d, s)' /\ Conversation(d, s)'
  <2>1. SUFFICES ASSUME calm'[d]
                 PROVE  isPoweredOn'[d] /\ \E s \in Servers : OnlyServer(d, s)' /\ Conversation(d, s)'
    OBVIOUS
  <2>2. calm[d] /\ h # d /\ h \in Clients
    BY <1>8, <1>11, <2>1 DEF PowerOn
  <2>3. UNCHANGED <<proc, net, inSessionWith>> /\ isPoweredOn' = [isPoweredOn EXCEPT ![h] = TRUE]
    BY <1>11 DEF PowerOn
  <2>4. isPoweredOn'[d] = isPoweredOn[d] /\ \A s \in Servers : isPoweredOn'[s] = isPoweredOn[s]
    BY ZenonT(60), <2>2, <2>3, ChannelEnds DEF TypeOK, Hosts
  <2>5. QED BY <2>1, <2>2, <2>3, <2>4, StaysCalm
<1>12. ASSUME (\E s \in Servers : SetIp(s)) \/ UNCHANGED vars
       PROVE  calm'[d] => isPoweredOn'[d] /\ \E s \in Servers : OnlyServer(d, s)' /\ Conversation(d, s)'
  <2>1. UNCHANGED <<proc, isPoweredOn, net, inSessionWith, calm>>
    BY <1>12 DEF SetIp, vars
  <2>2. QED BY <2>1, StaysCalm
<1>13. QED
  BY <1>1, <1>2, <1>3, <1>4, <1>5, <1>6, <1>7, <1>9, <1>10, <1>11, <1>12 DEF Next, ClientTick, ServerTick, Ignore, Lose

(* After a step that raises, its error is one of the two kinds.            *)
LEMMA RaisesStep == TypeOK /\ CalmInv /\ RaisesOnlyWhenDisturbed /\ [Next]_vars => RaisesOnlyWhenDisturbed'
<1> SUFFICES ASSUME TypeOK, CalmInv, RaisesOnlyWhenDisturbed, [Next]_vars, raised' # None
             PROVE  \/ ~calm'[raised'.client]
                    \/ raised'.error = "AddressTooLargeError" /\ \E s \in Servers : given'[s] = LastAddress
  BY DEF RaisesOnlyWhenDisturbed
<1>1. ASSUME NEW c \in Clients, NEW s \in Servers, TakePack(c, s) PROVE ~calm'[raised'.client]
  <2>1. raised = None /\ proc[c] = "requesting" /\ UNCHANGED calm
    BY <1>1 DEF TakePack
  <2>2. Head(net[<<s, c>>]).type = "offer" /\ raised' = [error |-> "AttributeError", client |-> c]
    BY <1>1, <2>1 DEF TakePack
  <2>3. SUFFICES ASSUME calm[c] PROVE FALSE
    BY <2>1, <2>2
  <2>4. PICK left : left \in Received(c, s)
    BY <1>1 DEF TakePack
  <2>5. PICK t \in Servers : OnlyServer(c, t) /\ Conversation(c, t)
    BY <2>3 DEF CalmInv
  <2>6. /\ s = t /\ net[<<c, s>>] = <<>> /\ (proc[c] = "selecting" => inSessionWith[s][c] # None)
        /\ (proc[c] = "requesting" => Head(net[<<s, c>>]).type = "pack")
        /\ \A r \in Servers : left[r] = <<>>
    BY <2>4, <2>5, TakesTheOnly
  <2>7. QED BY <2>1, <2>2, <2>6
<1>2. ASSUME NEW s \in Servers, NEW c \in Clients, Serve(s, c)
      PROVE  \/ ~calm'[raised'.client]
             \/ raised'.error = "AddressTooLargeError" /\ \E t \in Servers : given'[t] = LastAddress
  <2>1. PICK outcome \in Outcomes(c, s) :
          /\ given' = [given EXCEPT ![s] = outcome.given]
          /\ inSessionWith' = [inSessionWith EXCEPT ![s][c] = outcome.session]
          /\ raised' = IF outcome.error = None THEN None ELSE [error |-> outcome.error, client |-> c]
          /\ DOMAIN net' = Channels
          /\ \A d \in Clients, r \in Servers :
               /\ net'[<<d, r>>] = IF d = c /\ r = s THEN Tail(net[<<d, r>>]) ELSE net[<<d, r>>]
               /\ net'[<<r, d>>] = IF d = c /\ r = s THEN net[<<r, d>>] \o outcome.answer ELSE net[<<r, d>>]
          /\ net[<<c, s>>] # <<>>
    BY <1>2, ServeEffect
  <2>2. UNCHANGED calm /\ isPoweredOn[s]
    BY <1>2 DEF Serve
  <2>3. raised' = [error |-> outcome.error, client |-> c] /\ outcome.error # None
    BY <2>1
  <2>4. Fails(c, s, outcome)
    BY <2>3, OutcomeCases DEF Offers, Confirms
  <2>5. CASE outcome.error = "AddressTooLargeError"
    <3>1. given'[s] = LastAddress
      BY <2>1, <2>4 DEF Fails, TypeOK
    <3>2. QED BY <2>3, <2>5, <3>1
  <2>6. CASE Head(net[<<c, s>>]) # Discover /\ inSessionWith[s][c] = None
    <3>1. SUFFICES ASSUME calm[c] PROVE FALSE
      BY <2>2, <2>3
    <3>2. PICK t \in Servers : OnlyServer(c, t) /\ Conversation(c, t)
      BY <3>1 DEF CalmInv
    <3>3. t = s
      BY <2>2, <3>2 DEF OnlyServer
    <3>4. net[<<c, s>>] = <<Discover>>
      BY <2>1, <2>6, <3>2, <3>3 DEF Conversation
    <3>5. QED BY <2>6, <3>4
  <2>7. QED BY <2>4, <2>5, <2>6 DEF Fails
<1>3. ASSUME raised' = raised
      PROVE  \/ ~calm'[raised'.client]
             \/ raised'.error = "AddressTooLargeError" /\ \E s \in Servers : given'[s] = LastAddress
  <2>1. CASE UNCHANGED vars
    BY <1>3, <2>1 DEF vars, RaisesOnlyWhenDisturbed
  <2>2. CASE Next
    <3>1. raised = None
      BY <2>2 DEF Next, ClientTick, ServerTick, StartAsking, TakeOffer, TakePack, StartServing, Serve, Ignore, Lose,
                  AskForDhcp, PowerOffClient, PowerOffServer, PowerOn, SetIp, Event
    <3>2. QED BY <1>3, <3>1
  <2>3. QED BY <2>1, <2>2
<1>4. CASE \/ \E c \in Clients : StartAsking(c) \/ PowerOffClient(c) \/ \E s \in Servers : TakeOffer(c, s)
           \/ \E s \in Servers : StartServing(s) \/ PowerOffServer(s) \/ SetIp(s)
           \/ \E h \in Hosts : PowerOn(h)
           \/ \E ch \in Channels : Gone(ch)
           \/ AskForDhcp \/ UNCHANGED vars
  BY <1>3, <1>4 DEF StartAsking, PowerOffClient, TakeOffer, StartServing, PowerOffServer, SetIp, PowerOn, Gone, AskForDhcp, vars
<1>5. QED BY <1>1, <1>2, <1>4 DEF Next, ClientTick, ServerTick, Ignore, Lose

-----------------------------------------------------------------------------

(* In every reachable state: the types, how often each server began with    *)
(* its addresses again, who may have which address from where, and what is  *)
(* on its way between an undisturbed client and its server.                 *)
THEOREM LeasesInvariant == Spec => []IInv
<1>1. Init => IInv
  <2>1. Init => CalmInv /\ RaisesOnlyWhenDisturbed
    BY DEF Init, CalmInv, RaisesOnlyWhenDisturbed
  <2>2. QED BY <2>1, TypeInit, GivenInit DEF IInv
<1>2. IInv /\ [Next]_vars => IInv'
  BY TypeStep, GivenStep, CalmStep, RaisesStep DEF IInv
<1>3. QED BY <1>1, <1>2, PTL DEF Spec

(* The variables of the clients, the routers and the cables keep their     *)
(* types.                                                                  *)
THEOREM TypeCorrect == Spec => []TypeOK
<1>1. IInv => TypeOK
  BY DEF IInv
<1>2. QED BY <1>1, LeasesInvariant, PTL

(* DHCP gives no address to two computers but by different servers or       *)
(* different runs of one (DHCPServer.send_offer, IPAddress.increased), and  *)
(* none that is the server's own.                                           *)
THEOREM AddressesAreUnique == Spec => []UniqueAddresses
<1>1. IInv => UniqueAddresses
  <2> SUFFICES ASSUME IInv PROVE UniqueAddresses
    OBVIOUS
  <2>1. ASSUME NEW c \in Clients, address[c] # None
        PROVE  /\ address[c] \in Offered /\ WasGiven(address[c])
               /\ \A d \in Clients : address[d] = address[c] => d = c
    <3>1. address[c] \in Offered
      BY <2>1 DEF IInv, TypeOK
    <3>2. \A d \in Clients : address[d] = address[c] => Holds(d, address[c])
      BY DEF Holds
    <3>3. QED BY <2>1, <3>1, <3>2 DEF IInv, GivenOnce
  <2>2. ASSUME NEW c \in Clients, address[c] # None
        PROVE  address[c].ip # OwnAddress[address[c].run[1]]
    <3>1. address[c].ip \in Nat /\ OwnAddress[address[c].run[1]] \in Nat
      BY <2>1, <2>2, AddressLeasesConstants DEF Offered
    <3>2. QED BY <2>1, <2>2, <3>1 DEF WasGiven
  <2>3. QED BY <2>1, <2>2 DEF UniqueAddresses
<1>2. QED BY <1>1, LeasesInvariant, PTL

(* Asking for an address ends the program only when the client was          *)
(* disturbed since it asked, or when a router has no address left.          *)
THEOREM RaisesAreDisturbances == Spec => []RaisesOnlyWhenDisturbed
<1>1. IInv => RaisesOnlyWhenDisturbed
  BY DEF IInv
<1>2. QED BY <1>1, LeasesInvariant, PTL

=============================================================================
