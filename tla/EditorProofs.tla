----------------------------- MODULE EditorProofs -----------------------------
(***************************************************************************)
(* Proofs about the user interface, for any devices and names, and for     *)
(* users who do anything any number of times.                              *)
(***************************************************************************)
EXTENDS Editor, SequenceLemmas, TLAPS

-----------------------------------------------------------------------------
(* The inductive invariant: types first.                                   *)

Chosen == {o \in Objects : Kind(o) \in Selectables}
Functions == {"draw", "move", "logic", "move_packets"} \X Objects
AnyRegistry == [objects : Seq(Objects), functions : SUBSET Functions, leaving : SUBSET Objects]

AnyName == Names \cup {None}
Ports == {P \in SUBSET Nat : \E m \in Nat : P \subseteq 1..m}
Wirings == UNION {[D -> Nat] : D \in SUBSET AnyInterface}
AnyLink == [cable : Nat, left : AnyInterface, right : AnyInterface]
Subjects == [does : {"error"}, to : {None}] \cup [does : {"name", "interface"}, to : Devices]

(* What is in a saved file: the ends of the cables are interfaces of its   *)
(* computers, named by their computers, each of one cable.                 *)
Ends(c) == {<<c[1], c[2]>>, <<c[3], c[4]>>}
HasEnd(f, e) ==
  \E m \in 1..Len(f.computers) : f.computers[m].name = e[1] /\ e[2] \in f.computers[m].interfaces
FileOk(f) ==
  /\ \A n \in 1..Len(f.cables) : \A e \in Ends(f.cables[n]) : HasEnd(f, e)
  /\ ~SharedNames(f) =>
       \A m, n \in 1..Len(f.cables) : m # n => Ends(f.cables[m]) \cap Ends(f.cables[n]) = {}
AnyFile == [computers : Seq([name : AnyName, interfaces : Ports, switch : BOOLEAN]),
            cables : Seq(AnyName \X Nat \X AnyName \X Nat)]
Files == {f \in AnyFile : FileOk(f)}

Modes == {"NORMAL", "VIEW", "CONNECTING"}
Markable == {q \in Seq(Chosen) : IsInjective(q)}

Program ==
  [computers : Seq(Devices), made : [Devices -> Nat], interfaces : [Devices -> Ports],
   name : [Devices -> AnyName], existing : SUBSET AnyName, links : Seq(AnyLink), wired : Wirings,
   cables : Nat, sent : SUBSET Nat, carried : SUBSET Nat, loop : AnyRegistry, mode : Modes,
   selected : Chosen \cup {None}, marked : Markable, source : Objects \cup {None},
   view : Chosen \cup {None}, square : BOOLEAN, windows : Seq(Nat), active : Nat \cup {None},
   buttons : Seq(Nat), closing : SUBSET Nat, subject : Seq(Subjects), file : Files \cup {None},
   raised : Errors \cup {None}]

(* Computers C with interfaces I, of which M were made, the list of        *)
(* connections L and the wiring W by n cables.                             *)
Here(C, I, i) == i[2] \in ToSet(C) /\ i[3] \in I[i[2]]
CablesDiffer(L) == \A i, j \in 1..Len(L) : L[i].cable = L[j].cable => i = j
NetOk(C, I, M, L, W, n) ==
  /\ IsInjective(C) /\ CablesDiffer(L)
  /\ \A d \in Devices : I[d] \subseteq 1..M[d]
  /\ \A l \in ToSet(L) : /\ l.cable \in 1..n /\ Here(C, I, l.left) /\ Here(C, I, l.right)
                         /\ {i \in DOMAIN W : W[i] = l.cable} = {l.left, l.right}
  /\ \A i \in DOMAIN W : W[i] \in 1..n
  /\ \A i \in DOMAIN W : i[2] \in ToSet(C) => Here(C, I, i) /\ \E l \in ToSet(L) : l.cable = W[i]

(* The registry: nothing is in it twice; a computer on the screen exists   *)
(* or has asked to leave, and so for packets, which are in a cable that is *)
(* moved, and for windows, which are open.                                 *)
Shown(loop, o) == o \in ToSet(loop.objects)
ScreenOk(C, loop) ==
  /\ IsInjective(loop.objects)
  /\ \A d \in Devices : Shown(loop, Computer(d)) => d \in ToSet(C) \/ Computer(d) \in loop.leaving

PacketsOk(loop, sent, carried, n) ==
  /\ sent \subseteq carried /\ carried \subseteq 1..n
  /\ \A k \in 1..n : <<"move_packets", Cable(k)>> \in loop.functions
  /\ \A k \in Nat : Shown(loop, Cable(k)) => k \in 1..n
  /\ \A k \in Nat : Shown(loop, Packet(k)) => k \in sent \/ Packet(k) \in loop.leaving

WindowsOk(loop, windows, closing, active, buttons, n) ==
  /\ ToSet(windows) \subseteq ToSet(buttons) /\ ToSet(buttons) \subseteq 1..n
  /\ ToSet(windows) \subseteq 1..n /\ closing \subseteq 1..n
  /\ active \in ToSet(windows) \cup {None}
  /\ \A w \in ToSet(windows) \ closing : Shown(loop, Window(w))
  /\ \A w \in Nat : Shown(loop, Window(w)) => w \in ToSet(windows)
  /\ \A w \in Nat : Window(w) \in loop.leaving => w \in closing
  /\ \A w \in closing : Shown(loop, Window(w)) => Window(w) \in loop.leaving

ViewOk(raised, mode, view, selected) ==
  raised = None => /\ (mode = "VIEW") = (view # None)
                   /\ view # None /\ selected # None => view = selected

Net(t) == NetOk(t.computers, t.interfaces, t.made, t.links, t.wired, t.cables)
Packets(t) == PacketsOk(t.loop, t.sent, t.carried, t.cables)
Windows(t) == WindowsOk(t.loop, t.windows, t.closing, t.active, t.buttons, Len(t.subject))

(* Within an event, the side window may lag behind the selection.          *)
Sound == {t \in Program : Net(t) /\ ScreenOk(t.computers, t.loop) /\ Packets(t) /\ Windows(t)}
Good == {t \in Sound : ViewOk(t.raised, t.mode, t.view, t.selected)}

(* What a frame leaves behind: nothing but packets has still to leave.     *)
Answered(t) == \A o \in t.loop.leaving : Kind(o) = "packet"

(* The computer a connection starts from is there, and the interface on    *)
(* the screen.                                                             *)
StartsHere(t) ==
  t.mode = "CONNECTING" => /\ Is(t.source, {"computer"}) => t.source[2] \in ToSet(t.computers)
                           /\ Is(t.source, {"interface"}) => t.source \in OnScreen(t)

EditorInv ==
  /\ s \in Good
  /\ frame \in BOOLEAN /\ held \in BOOLEAN /\ events \in 0..MaxEvents
  /\ frame => Answered(s) /\ s.closing = {}
  /\ held => Answered(s) /\ StartsHere(s)

-----------------------------------------------------------------------------
(* The registry.                                                           *)

Registries == {l \in AnyRegistry : IsInjective(l.objects)}

(* Objects on the screen are known, each at one place.                     *)
LEMMA RegistryParts ==
  ASSUME NEW l \in Registries
  PROVE  /\ l \in AnyRegistry /\ l.objects \in Seq(Objects) /\ IsInjective(l.objects)
         /\ l.functions \subseteq Functions /\ l.leaving \subseteq Objects
         /\ ToSet(l.objects) \subseteq Objects
<1>1. l.objects \in Seq(Objects)
  BY DEF Registries, AnyRegistry
<1>2. ToSet(l.objects) \subseteq Objects
  BY <1>1, ElementsByPlace
<1>3. QED BY <1>1, <1>2 DEF Registries, AnyRegistry

(* The registry with other objects.                                        *)
LEMMA RegistryOf ==
  ASSUME NEW l \in Registries, NEW q \in Seq(Objects), IsInjective(q)
  PROVE  /\ [l EXCEPT !.objects = q] \in Registries /\ [l EXCEPT !.objects = q].objects = q
         /\ [l EXCEPT !.objects = q].functions = l.functions
         /\ [l EXCEPT !.objects = q].leaving = l.leaving
BY DEF Registries, AnyRegistry

(* The registry with other functions.                                      *)
LEMMA RegistryWith ==
  ASSUME NEW l \in Registries, NEW F \in SUBSET Functions
  PROVE  /\ [l EXCEPT !.functions = F] \in Registries /\ [l EXCEPT !.functions = F].objects = l.objects
         /\ [l EXCEPT !.functions = F].functions = F
         /\ [l EXCEPT !.functions = F].leaving = l.leaving
BY DEF Registries, AnyRegistry

(* The registry with other requests to leave.                              *)
LEMMA RegistryLeft ==
  ASSUME NEW l \in Registries, NEW G \in SUBSET Objects
  PROVE  /\ [l EXCEPT !.leaving = G] \in Registries /\ [l EXCEPT !.leaving = G].objects = l.objects
         /\ [l EXCEPT !.leaving = G].functions = l.functions
         /\ [l EXCEPT !.leaving = G].leaving = G
BY DEF Registries, AnyRegistry

(* What registering adds for each object is a set of functions.            *)
LEMMA Drawn ==
  ASSUME NEW S \in SUBSET Objects
  PROVE  {"draw", "move"} \X S \in SUBSET Functions
BY DEF Functions

(* What registering makes of the screen.                                   *)
LEMMA RegisterOneMakes ==
  ASSUME NEW l \in Registries, NEW o \in Objects, NEW background \in BOOLEAN,
         NEW others \in SUBSET Functions,
         NEW m, m = RegisterOne(l, o, background, others)
  PROVE  /\ m \in Registries /\ m.leaving = l.leaving
         /\ ToSet(m.objects) = ToSet(l.objects) \cup {o}
         /\ l.functions \subseteq m.functions
         /\ o \notin ToSet(l.objects) => others \subseteq m.functions
<1>1. CASE o \in ToSet(l.objects)
  BY <1>1 DEF RegisterOne, Registered
<1>2. CASE o \notin ToSet(l.objects)
  <2> DEFINE q == IF background THEN <<o>> \o l.objects ELSE Append(l.objects, o)
             F == l.functions \cup {<<"draw", o>>, <<"move", o>>} \cup others
  <2>1. q \in Seq(Objects) /\ IsInjective(q) /\ ToSet(q) = ToSet(l.objects) \cup {o}
    BY <1>2, RegistryParts, OneMore, OneBefore
  <2>2. F \in SUBSET Functions
    BY RegistryParts DEF Functions
  <2>3. m = [l EXCEPT !.objects = q, !.functions = F]
    BY <1>2 DEF RegisterOne, Registered
  <2>4. others \subseteq F /\ l.functions \subseteq F
    OBVIOUS
  <2> HIDE DEF q, F
  <2>5. m \in Registries /\ m.objects = q /\ m.functions = F /\ m.leaving = l.leaving
    BY <2>1, <2>2, <2>3 DEF Registries, AnyRegistry
  <2>6. QED BY <2>1, <2>4, <2>5
<1>3. QED BY <1>1, <1>2

(* The same for several objects.                                           *)
LEMMA RegisterAllMakes ==
  ASSUME NEW l \in Registries, NEW objects \in Seq(Objects), IsInjective(objects),
         NEW m, m = RegisterAll(l, objects)
  PROVE  /\ m \in Registries /\ m.leaving = l.leaving
         /\ ToSet(m.objects) = ToSet(l.objects) \cup ToSet(objects)
         /\ l.functions \subseteq m.functions
<1> DEFINE fresh == {o \in ToSet(objects) : ~Registered(l, o)}
           more == Only(objects, fresh)
           q == l.objects \o more
           F == l.functions \cup ({"draw", "move"} \X ToSet(more))
<1>1. more \in Seq(Objects) /\ IsInjective(more) /\ ToSet(more) = ToSet(objects) \cap fresh
  BY OnlyApart
<1>2. ToSet(l.objects) \cap ToSet(more) = {}
  BY <1>1 DEF Registered
<1>3. q \in Seq(Objects) /\ IsInjective(q) /\ ToSet(q) = ToSet(l.objects) \cup ToSet(more)
  <2> HIDE DEF more
  <2>1. QED BY <1>1, <1>2, RegistryParts, JoinedInjective
<1>4. F \in SUBSET Functions
  <2>1. ToSet(more) \in SUBSET Objects
    BY <1>1, ElementsByPlace
  <2> HIDE DEF more
  <2>2. QED BY <2>1, Drawn, RegistryParts
<1>5. m = [l EXCEPT !.objects = q, !.functions = F]
  BY DEF RegisterAll
<1>6. l.functions \subseteq F
  OBVIOUS
<1>7. ToSet(l.objects) \cup ToSet(more) = ToSet(l.objects) \cup ToSet(objects)
  BY <1>1 DEF Registered
<1> HIDE DEF q, F, more
<1>8. m \in Registries /\ m.objects = q /\ m.functions = F /\ m.leaving = l.leaving
  BY <1>3, <1>4, <1>5 DEF Registries, AnyRegistry
<1>9. QED BY <1>3, <1>6, <1>7, <1>8

(* Unregistering takes an object from the screen, and its draw and move    *)
(* from the loop, but none of its other functions.                         *)
LEMMA UnregisterMakes ==
  ASSUME NEW l \in Registries, NEW G \in SUBSET Objects, NEW m, m = UnregisterAll(l, G)
  PROVE  /\ m \in Registries /\ m.leaving = l.leaving
         /\ ToSet(m.objects) = ToSet(l.objects) \ G
         /\ m.functions = l.functions \ ({"draw", "move"} \X G)
<1> DEFINE q == Without(l, G)
           F == l.functions \ ({"draw", "move"} \X G)
<1>1. q \in Seq(Objects) /\ IsInjective(q) /\ ToSet(q) = ToSet(l.objects) \cap (ToSet(l.objects) \ G)
  BY RegistryParts, OnlyApart DEF Without
<1>2. F \in SUBSET Functions
  BY RegistryParts
<1>3. m = [l EXCEPT !.objects = q, !.functions = F]
  BY DEF UnregisterAll
<1>4. ToSet(q) = ToSet(l.objects) \ G
  BY <1>1
<1> HIDE DEF q, F
<1>5. m \in Registries /\ m.objects = q /\ m.functions = F /\ m.leaving = l.leaving
  BY <1>1, <1>2, <1>3 DEF Registries, AnyRegistry
<1>6. QED BY <1>4, <1>5 DEF F

(* Moving to the front changes the order only, or shows the object.        *)
LEMMA MoveToFrontMakes ==
  ASSUME NEW l \in Registries, NEW o \in Objects, NEW m, m = MoveToFront(l, o)
  PROVE  /\ m \in Registries /\ m.leaving = l.leaving /\ m.functions = l.functions
         /\ ToSet(m.objects) = ToSet(l.objects) \cup {o}
<1> DEFINE rest == Without(l, {o})
           q == Append(rest, o)
<1>1. /\ rest \in Seq(Objects) /\ IsInjective(rest)
      /\ ToSet(rest) = ToSet(l.objects) \cap (ToSet(l.objects) \ {o})
  BY RegistryParts, OnlyApart DEF Without
<1>2. o \notin ToSet(rest) /\ ToSet(rest) \cup {o} = ToSet(l.objects) \cup {o}
  BY <1>1
<1> HIDE DEF rest
<1>3. q \in Seq(Objects) /\ IsInjective(q) /\ ToSet(q) = ToSet(l.objects) \cup {o}
  BY <1>1, <1>2, OneMore
<1>4. m = [l EXCEPT !.objects = q]
  BY DEF MoveToFront, rest
<1> HIDE DEF q
<1>5. QED BY <1>3, <1>4, RegistryOf

(* Who asks to leave stays on the screen for now.                          *)
LEMMA RequestMakes ==
  ASSUME NEW l \in Registries, NEW G \in SUBSET Objects, NEW m, m = RequestToLeave(l, G)
  PROVE  /\ m \in Registries /\ m.objects = l.objects /\ m.functions = l.functions
         /\ m.leaving = l.leaving \cup G
<1> DEFINE H == l.leaving \cup G
<1>1. H \in SUBSET Objects
  BY RegistryParts
<1>2. m = [l EXCEPT !.leaving = H]
  BY DEF RequestToLeave
<1> HIDE DEF H
<1>3. m \in Registries /\ m.objects = l.objects /\ m.functions = l.functions /\ m.leaving = H
  BY <1>1, <1>2, RegistryLeft
<1>4. QED BY <1>3 DEF H

(* The constructors give objects of their kinds, and all different.        *)
LEMMA Kinds ==
  /\ \A d \in Devices : Computer(d) \in Objects /\ Kind(Computer(d)) = "computer" /\ Computer(d)[2] = d
  /\ \A d \in Devices, n \in Nat :
       /\ Interface(d, n) \in AnyInterface /\ Kind(Interface(d, n)) = "interface"
       /\ Interface(d, n)[2] = d /\ Interface(d, n)[3] = n
  /\ \A k \in Nat : /\ Cable(k) \in Objects /\ Kind(Cable(k)) = "cable" /\ Cable(k)[2] = k
                    /\ Packet(k) \in Objects /\ Kind(Packet(k)) = "packet" /\ Packet(k)[2] = k
                    /\ Window(k) \in Objects /\ Kind(Window(k)) = "window" /\ Window(k)[2] = k
  /\ Square \in Objects /\ Kind(Square) = "square"
BY DEF Computer, Interface, Cable, Packet, Window, Square, Kind, Objects, AnyInterface

(* Every object comes from the constructor of its kind.                    *)
LEMMA ObjectKinds ==
  ASSUME NEW o \in Objects
  PROVE  /\ Kind(o) \in Selectables \cup {"window", "square"}
         /\ Kind(o) = "computer" => o[2] \in Devices /\ o = Computer(o[2])
         /\ Kind(o) = "interface" => o \in AnyInterface
         /\ Kind(o) = "cable" => o[2] \in Nat /\ o = Cable(o[2])
         /\ Kind(o) = "packet" => o[2] \in Nat /\ o = Packet(o[2])
         /\ Kind(o) = "window" => o[2] \in Nat /\ o = Window(o[2])
         /\ o \in AnyInterface => Kind(o) = "interface"
<1>1. CASE o \in {"computer"} \X Devices
  BY <1>1 DEF Computer, Kind, AnyInterface, Selectables
<1>2. CASE o \in AnyInterface
  BY <1>2 DEF Kind, AnyInterface, Selectables
<1>3. CASE o \in {"cable", "packet", "window"} \X Nat
  BY <1>3 DEF Cable, Packet, Window, Kind, AnyInterface, Selectables
<1>4. CASE o = Square
  BY <1>4 DEF Square, Kind, AnyInterface, Selectables
<1>5. QED BY <1>1, <1>2, <1>3, <1>4 DEF Objects, Square

(* An interface is named by its computer and its number.                   *)
LEMMA InterfaceParts ==
  ASSUME NEW i \in AnyInterface
  PROVE  /\ i \in Objects /\ i[2] \in Devices /\ i[3] \in Nat /\ Kind(i) = "interface"
         /\ i = Interface(i[2], i[3])
BY DEF AnyInterface, Objects, Kind, Interface

(* A change of the registry that takes nothing from what the invariants    *)
(* need: windows stay, nothing comes but interfaces and the square.        *)
Harmless(l, m) ==
  /\ m \in Registries
  /\ \A d \in Devices : /\ Shown(m, Computer(d)) => Shown(l, Computer(d))
                        /\ Computer(d) \in l.leaving => Computer(d) \in m.leaving
  /\ \A k \in Nat : /\ Shown(m, Cable(k)) => Shown(l, Cable(k))
                    /\ Shown(m, Packet(k)) => Shown(l, Packet(k))
                    /\ Packet(k) \in l.leaving => Packet(k) \in m.leaving
                    /\ <<"move_packets", Cable(k)>> \in l.functions =>
                         <<"move_packets", Cable(k)>> \in m.functions
                    /\ Shown(m, Window(k)) <=> Shown(l, Window(k))
                    /\ Window(k) \in m.leaving <=> Window(k) \in l.leaving

(* A harmless change keeps what the invariant says of the registry.        *)
LEMMA HarmlessKeeps ==
  ASSUME NEW l, NEW m, Harmless(l, m)
  PROVE  /\ \A C : ScreenOk(C, l) => ScreenOk(C, m)
         /\ \A S, R : \A n \in Nat : PacketsOk(l, S, R, n) => PacketsOk(m, S, R, n)
         /\ \A W, G, a, B : \A n \in Nat : WindowsOk(l, W, G, a, B, n) => WindowsOk(m, W, G, a, B, n)
<1>1. \A C : ScreenOk(C, l) => ScreenOk(C, m)
  BY DEF ScreenOk, Harmless, Registries
<1>2. ASSUME NEW S, NEW R, NEW n \in Nat, PacketsOk(l, S, R, n) PROVE PacketsOk(m, S, R, n)
  <2>1. \A k \in 1..n : k \in Nat
    OBVIOUS
  <2>2. \A k \in 1..n : <<"move_packets", Cable(k)>> \in m.functions
    BY <1>2, <2>1 DEF PacketsOk, Harmless
  <2>3. \A k \in Nat : Shown(m, Cable(k)) => k \in 1..n
    BY <1>2 DEF PacketsOk, Harmless
  <2>4. \A k \in Nat : Shown(m, Packet(k)) => k \in S \/ Packet(k) \in m.leaving
    BY <1>2 DEF PacketsOk, Harmless
  <2>5. QED BY <1>2, <2>2, <2>3, <2>4 DEF PacketsOk
<1>3. ASSUME NEW W, NEW G, NEW a, NEW B, NEW n \in Nat, WindowsOk(l, W, G, a, B, n)
      PROVE  WindowsOk(m, W, G, a, B, n)
  <2>1. ToSet(W) \subseteq Nat /\ G \subseteq Nat
    BY <1>3 DEF WindowsOk
  <2>2. QED BY <1>3, <2>1 DEF WindowsOk, Harmless
<1>4. QED BY <1>1, <1>2, <1>3

(* Taking off what is no window is harmless,                               *)
LEMMA UnregisterHarmless ==
  ASSUME NEW l \in Registries, NEW G \in SUBSET Objects, \A o \in G : Kind(o) # "window"
  PROVE  Harmless(l, UnregisterAll(l, G))
<1> DEFINE m == UnregisterAll(l, G)
<1>1. /\ m \in Registries /\ m.leaving = l.leaving /\ ToSet(m.objects) = ToSet(l.objects) \ G
      /\ m.functions = l.functions \ ({"draw", "move"} \X G)
  BY UnregisterMakes
<1>2. \A k \in Nat : <<"move_packets", Cable(k)>> \notin {"draw", "move"} \X G
  OBVIOUS
<1>3. \A k \in Nat : Window(k) \notin G
  BY Kinds
<1> HIDE DEF m
<1>4. QED BY <1>1, <1>2, <1>3 DEF Harmless, Shown, m

(* so is showing an interface or the square,                               *)
LEMMA RegisterHarmless ==
  ASSUME NEW l \in Registries, NEW o \in AnyInterface \cup {Square}
  PROVE  Harmless(l, RegisterOne(l, o, FALSE, {}))
<1> DEFINE no == FALSE
           m == RegisterOne(l, o, no, {})
<1>1. o \in Objects /\ Kind(o) \in {"interface", "square"}
  BY Kinds, InterfaceParts
<1>2. no \in BOOLEAN /\ {} \in SUBSET Functions
  OBVIOUS
<1> HIDE DEF no
<1>3. /\ m \in Registries /\ m.leaving = l.leaving /\ ToSet(m.objects) = ToSet(l.objects) \cup {o}
      /\ l.functions \subseteq m.functions
  BY <1>1, <1>2, RegisterOneMakes
<1>4. /\ \A d \in Devices : Computer(d) # o
      /\ \A k \in Nat : Cable(k) # o /\ Packet(k) # o /\ Window(k) # o
  BY <1>1, Kinds
<1> HIDE DEF m
<1>5. Harmless(l, m)
  BY <1>3, <1>4 DEF Harmless, Shown
<1>6. QED BY <1>5 DEF m, no

(* moving an open window to the front,                                     *)
LEMMA FrontHarmless ==
  ASSUME NEW l \in Registries, NEW w \in Nat, Shown(l, Window(w))
  PROVE  Harmless(l, MoveToFront(l, Window(w)))
<1> DEFINE m == MoveToFront(l, Window(w))
<1>1. /\ m \in Registries /\ m.leaving = l.leaving /\ m.functions = l.functions
      /\ ToSet(m.objects) = ToSet(l.objects) \cup {Window(w)}
  BY Kinds, MoveToFrontMakes
<1>2. ToSet(m.objects) = ToSet(l.objects)
  BY <1>1 DEF Shown
<1> HIDE DEF m
<1>3. QED BY <1>1, <1>2 DEF Harmless, Shown, m

(* and asking anything but a window to leave.                              *)
LEMMA RequestHarmless ==
  ASSUME NEW l \in Registries, NEW G \in SUBSET Objects, \A o \in G : Kind(o) # "window"
  PROVE  Harmless(l, RequestToLeave(l, G))
<1> DEFINE m == RequestToLeave(l, G)
<1>1. /\ m \in Registries /\ m.objects = l.objects /\ m.functions = l.functions
      /\ m.leaving = l.leaving \cup G
  BY RequestMakes
<1>2. \A k \in Nat : Window(k) \notin G
  BY Kinds
<1> HIDE DEF m
<1>3. QED BY <1>1, <1>2 DEF Harmless, Shown, m

(* What has asked to leave is off the screen, with its interfaces.         *)
LEMMA RequestingMakes ==
  ASSUME NEW l \in Registries, NEW ch, \A o \in l.leaving : ch[o] \in SUBSET AnyInterface,
         NEW m, m = UnregisterRequesting(l, ch)
  PROVE  /\ m \in Registries /\ m.leaving = {}
         /\ \A o : Shown(m, o) => (Shown(l, o) /\ o \notin l.leaving)
         /\ \A o \in Objects : (Shown(l, o) /\ o \notin l.leaving /\ Kind(o) # "interface") => Shown(m, o)
         /\ \A k \in Nat : <<"move_packets", Cable(k)>> \in l.functions =>
                             <<"move_packets", Cable(k)>> \in m.functions
         /\ (\A o \in l.leaving : ch[o] = {}) =>
              \A o : (Shown(l, o) /\ o \notin l.leaving) => Shown(m, o)
<1> DEFINE asking == {o \in ToSet(l.objects) : o \in l.leaving}
           G == asking \cup UNION {ch[o] : o \in asking}
           u == UnregisterAll(l, G)
           none == {}
<1>1. asking \in SUBSET Objects /\ asking \subseteq l.leaving
  BY RegistryParts
<1>2. UNION {ch[o] : o \in asking} \in SUBSET AnyInterface
  BY <1>1
<1>3. G \in SUBSET Objects
  BY <1>1, <1>2 DEF Objects
<1>4. \A o \in Objects : (o \in G /\ Kind(o) # "interface") => o \in l.leaving
  BY <1>1, <1>2, InterfaceParts
<1>5. \A o : (o \in ToSet(l.objects) /\ o \in l.leaving) => o \in G
  OBVIOUS
<1> DEFINE alone == \A o \in l.leaving : ch[o] = {}
<1>6. alone => \A o \in G : o \in l.leaving
  BY <1>1
<1> HIDE DEF alone
<1>7. m = [u EXCEPT !.leaving = none] /\ none \in SUBSET Objects
  BY DEF UnregisterRequesting
<1> HIDE DEF G, none
<1>8. /\ u \in Registries /\ ToSet(u.objects) = ToSet(l.objects) \ G
      /\ u.functions = l.functions \ ({"draw", "move"} \X G)
  BY <1>3, UnregisterMakes
<1> HIDE DEF u
<1>9. m \in Registries /\ m.objects = u.objects /\ m.functions = u.functions /\ m.leaving = none
  BY <1>7, <1>8, RegistryLeft
<1>10. \A k \in Nat : <<"move_packets", Cable(k)>> \notin {"draw", "move"} \X G
  OBVIOUS
<1>11. \A o : Shown(m, o) <=> o \in ToSet(l.objects) /\ o \notin G
  BY <1>8, <1>9 DEF Shown
<1>12. \A o : Shown(m, o) => (Shown(l, o) /\ o \notin l.leaving)
  BY <1>5, <1>11 DEF Shown
<1>13. \A o \in Objects : (Shown(l, o) /\ o \notin l.leaving /\ Kind(o) # "interface") => Shown(m, o)
  BY <1>4, <1>11 DEF Shown
<1>14. alone => \A o : (Shown(l, o) /\ o \notin l.leaving) => Shown(m, o)
  BY <1>11, <1>6 DEF Shown
<1>15. QED BY <1>8, <1>9, <1>10, <1>12, <1>13, <1>14 DEF none, alone

-----------------------------------------------------------------------------
(* Programs.                                                               *)

(* What neither the selection nor the names of computers touch.            *)
SameWorld(t, u) ==
  /\ u.computers = t.computers /\ u.interfaces = t.interfaces /\ u.made = t.made
  /\ u.links = t.links /\ u.wired = t.wired /\ u.cables = t.cables
  /\ u.sent = t.sent /\ u.carried = t.carried /\ u.loop = t.loop /\ u.windows = t.windows
  /\ u.closing = t.closing /\ u.active = t.active /\ u.buttons = t.buttons /\ u.subject = t.subject

(* A program with the same network, registry, packets and windows is as    *)
(* sound,                                                                  *)
LEMMA SameIsSound ==
  ASSUME NEW t \in Sound, NEW u \in Program, SameWorld(t, u)
  PROVE  u \in Sound
BY DEF Sound, SameWorld, Net, Packets, Windows

SameView(t, u) ==
  /\ u.mode = t.mode /\ u.view = t.view /\ u.selected \in {t.selected, None}
  /\ u.raised = t.raised

(* and as good if its side window shows the same.                          *)
LEMMA SameIsGood ==
  ASSUME NEW t \in Good, NEW u \in Sound, SameView(t, u)
  PROVE  u \in Good
BY DEF Good, SameView, ViewOk

(* An exception ends the program and changes nothing else (Raise).         *)
LEMMA RaiseStays ==
  ASSUME NEW t \in Sound, NEW e \in Errors
  PROVE  /\ Raise(t, e) \in Good /\ SameWorld(t, Raise(t, e)) /\ Raise(t, e).raised # None
         /\ Raise(t, e).mode = t.mode /\ Raise(t, e).source = t.source
<1> DEFINE u == Raise(t, e)
<1>1. t \in Program
  BY DEF Sound
<1>2. u \in Program
  BY <1>1 DEF Program, Raise
<1>3. SameWorld(t, u) /\ u.raised = e /\ u.mode = t.mode /\ u.source = t.source
  BY <1>1 DEF Program, Raise, SameWorld
<1>4. e # None
  BY EditorConstants
<1> HIDE DEF u
<1>5. u \in Sound
  BY <1>2, <1>3, SameIsSound
<1>6. u \in Good
  BY <1>3, <1>4, <1>5 DEF Good, ViewOk
<1>7. QED BY <1>3, <1>4, <1>6 DEF u

Raised(t, u) == u.raised \in Errors /\ u = Raise(t, u.raised)

(* The same, said of the program after it.                                 *)
LEMMA RaisedStays ==
  ASSUME NEW t \in Sound, NEW u, Raised(t, u)
  PROVE  /\ u \in Good /\ SameWorld(t, u) /\ u.raised # None
         /\ u.mode = t.mode /\ u.source = t.source
BY RaiseStays DEF Raised

(* Every exception there is.                                               *)
LEMMA Raises ==
  ASSUME NEW t \in Program
  PROVE  /\ Raised(t, Raise(t, "ThisValueShouldNeverBeNone"))
         /\ Raised(t, Raise(t, "NoSuchInterfaceError"))
         /\ Raised(t, Raise(t, "WrongUsageError"))
         /\ Raised(t, Raise(t, "DeviceAlreadyConnectedError"))
         /\ Raised(t, Raise(t, "NoSuchPacketError"))
         /\ Raised(t, Raise(t, "ValueError"))
         /\ Raised(t, Raise(t, "KeyError"))
<1>1. \A e \in Errors : Raised(t, Raise(t, e))
  BY DEF Raised, Raise, Program
<1>2. QED BY <1>1 DEF Errors

(* The types of the fields, one by one.                                    *)
LEMMA ProgramParts ==
  ASSUME NEW t \in Program
  PROVE  /\ t.computers \in Seq(Devices) /\ t.made \in [Devices -> Nat]
         /\ t.interfaces \in [Devices -> Ports] /\ t.name \in [Devices -> AnyName]
         /\ t.existing \in SUBSET AnyName /\ t.links \in Seq(AnyLink) /\ t.wired \in Wirings
         /\ t.cables \in Nat /\ t.sent \in SUBSET Nat /\ t.carried \in SUBSET Nat
         /\ t.loop \in AnyRegistry /\ t.mode \in Modes /\ t.selected \in Chosen \cup {None}
         /\ t.marked \in Markable /\ t.source \in Objects \cup {None}
         /\ t.view \in Chosen \cup {None} /\ t.square \in BOOLEAN /\ t.windows \in Seq(Nat)
         /\ t.active \in Nat \cup {None} /\ t.buttons \in Seq(Nat) /\ t.closing \in SUBSET Nat
         /\ t.subject \in Seq(Subjects) /\ t.file \in Files \cup {None}
         /\ t.raised \in Errors \cup {None}
BY DEF Program

(* Another registry is no matter of types.                                 *)
LEMMA WithLoop ==
  ASSUME NEW t \in Program, NEW m \in AnyRegistry
  PROVE  [t EXCEPT !.loop = m] \in Program
BY DEF Program

(* Nothing marked is marked once.                                          *)
LEMMA NothingMarked == <<>> \in Markable
BY DEF Markable, IsInjective

(* What the proofs use of a sound program most often.                      *)
LEMMA SoundParts ==
  ASSUME NEW t \in Sound
  PROVE  /\ t \in Program /\ t.loop \in Registries /\ t.computers \in Seq(Devices)
         /\ ToSet(t.computers) \subseteq Devices /\ OnScreen(t) \subseteq Objects
         /\ Len(t.subject) \in Nat /\ t.cables \in Nat
<1>1. t \in Program
  BY DEF Sound
<1>2. /\ t.loop \in AnyRegistry /\ t.computers \in Seq(Devices) /\ t.subject \in Seq(Subjects)
      /\ t.cables \in Nat
  BY <1>1, ProgramParts
<1>3. t.loop \in Registries
  BY <1>2 DEF Sound, Registries, ScreenOk
<1>4. ToSet(t.computers) \subseteq Devices /\ Len(t.subject) \in Nat
  BY <1>2, ElementsByPlace
<1>5. OnScreen(t) \subseteq Objects
  BY <1>3, RegistryParts DEF OnScreen
<1>6. QED BY <1>1, <1>2, <1>3, <1>4, <1>5

SameNet(t, u) ==
  /\ u.computers = t.computers /\ u.interfaces = t.interfaces /\ u.made = t.made
  /\ u.links = t.links /\ u.wired = t.wired /\ u.cables = t.cables

SamePackets(t, u) == u.sent = t.sent /\ u.carried = t.carried
SameWindows(t, u) ==
  /\ u.windows = t.windows /\ u.closing = t.closing /\ u.buttons = t.buttons /\ u.subject = t.subject
  /\ u.active \in {t.active, None} \cup ToSet(t.windows)

(* A change of the network and a harmless one of the registry.             *)
LEMMA SoundAfter ==
  ASSUME NEW t \in Sound, NEW u \in Program, Harmless(t.loop, u.loop), Net(u),
         u.computers = t.computers, u.cables = t.cables, SamePackets(t, u), SameWindows(t, u)
  PROVE  u \in Sound
<1>1. Len(t.subject) \in Nat /\ t.cables \in Nat
  BY SoundParts
<1>2. ScreenOk(u.computers, u.loop)
  BY HarmlessKeeps DEF Sound
<1>3. Packets(u)
  BY <1>1, HarmlessKeeps DEF Sound, Packets, SamePackets
<1>4. WindowsOk(u.loop, t.windows, t.closing, t.active, t.buttons, Len(t.subject))
  BY <1>1, HarmlessKeeps DEF Sound, Windows
<1>5. Windows(u)
  BY <1>4 DEF Windows, WindowsOk, SameWindows
<1>6. QED BY <1>2, <1>3, <1>5 DEF Sound

(* A harmless change of the registry alone.                                *)
LEMMA SoundWithLoop ==
  ASSUME NEW t \in Sound, NEW u \in Program, Harmless(t.loop, u.loop),
         SameNet(t, u), SamePackets(t, u), SameWindows(t, u)
  PROVE  u \in Sound
<1>1. Net(u)
  BY DEF Sound, Net, SameNet
<1>2. QED BY <1>1, SoundAfter DEF SameNet

-----------------------------------------------------------------------------
(* Selecting and viewing.                                                  *)

(* Setting active_window to an open window that is on the screen, or to    *)
(* none.                                                                   *)
LEMMA ActivateStays ==
  ASSUME NEW t \in Sound, NEW w \in ToSet(t.windows) \cup {None},
         w # None => Shown(t.loop, Window(w)), NEW u, u = Activate(t, w)
  PROVE  /\ u \in Sound /\ SameNet(t, u) /\ SamePackets(t, u) /\ SameView(t, u)
         /\ u.selected = t.selected /\ u.source = t.source /\ u.marked = t.marked
         /\ u.raised = t.raised /\ u.square = t.square
         /\ u.loop.leaving = t.loop.leaving /\ ToSet(u.loop.objects) = ToSet(t.loop.objects)
         /\ u.windows = t.windows /\ u.closing = t.closing /\ u.active = w
         /\ u.subject = t.subject
<1> DEFINE m == IF w = None THEN t.loop ELSE MoveToFront(t.loop, Window(w))
           v == [t EXCEPT !.active = w]
<1>1. t \in Program /\ t.loop \in Registries /\ Windows(t)
  BY SoundParts DEF Sound
<1>2. w \in Nat \cup {None}
  BY <1>1 DEF Windows, WindowsOk
<1>3. /\ Harmless(t.loop, m) /\ m.leaving = t.loop.leaving
      /\ ToSet(m.objects) = ToSet(t.loop.objects)
  <2>1. CASE w = None
    BY <1>1, <2>1 DEF Harmless
  <2>2. CASE w # None
    <3>1. w \in Nat /\ Shown(t.loop, Window(w)) /\ m = MoveToFront(t.loop, Window(w))
      BY <1>2, <2>2
    <3>2. Harmless(t.loop, m)
      BY <1>1, <3>1, FrontHarmless
    <3>3. m.leaving = t.loop.leaving /\ ToSet(m.objects) = ToSet(t.loop.objects) \cup {Window(w)}
      BY ZenonT(60), <1>1, <3>1, Kinds, MoveToFrontMakes
    <3>4. QED BY <3>1, <3>2, <3>3 DEF Shown
  <2>3. QED BY <2>1, <2>2
<1>4. m \in AnyRegistry
  BY <1>3 DEF Harmless, Registries
<1>5. u = [t EXCEPT !.active = w, !.loop = m]
  BY DEF Activate
<1> HIDE DEF m
<1>6. u \in Program
  <2>1. v \in Program
    BY <1>1, <1>2 DEF Program
  <2>2. u = [v EXCEPT !.loop = m]
    BY <1>5
  <2> HIDE DEF v
  <2>3. QED BY <1>4, <2>1, <2>2, WithLoop
<1>7. /\ SameNet(t, u) /\ SamePackets(t, u) /\ u.windows = t.windows /\ u.closing = t.closing
      /\ u.buttons = t.buttons /\ u.subject = t.subject /\ u.active = w /\ u.loop = m
  BY <1>1, <1>5 DEF Program, SameNet, SamePackets
<1>8. /\ SameView(t, u) /\ u.selected = t.selected /\ u.source = t.source /\ u.marked = t.marked
      /\ u.raised = t.raised /\ u.square = t.square
  BY <1>1, <1>5 DEF Program, SameView
<1>9. SameWindows(t, u)
  BY <1>7 DEF SameWindows
<1>10. u \in Sound
  BY <1>3, <1>6, <1>7, <1>9, SoundWithLoop
<1>11. QED BY <1>3, <1>7, <1>8, <1>10

(* Changes of the selection, the view and the mode leave the rest alone.   *)
OnlyLooks(t, u) ==
  /\ SameNet(t, u) /\ SamePackets(t, u) /\ u.windows = t.windows /\ u.closing = t.closing
  /\ u.subject = t.subject
  /\ u.loop.leaving = t.loop.leaving /\ ToSet(u.loop.objects) = ToSet(t.loop.objects)

(* One such change after another is one, too.                              *)
LEMMA LooksCompose ==
  ASSUME NEW t, NEW u, NEW v, OnlyLooks(t, u), OnlyLooks(u, v)
  PROVE  OnlyLooks(t, v)
BY DEF OnlyLooks, SameNet, SamePackets

(* To change nothing of the world is one.                                  *)
LEMMA SameOnlyLooks ==
  ASSUME NEW t, NEW u, SameWorld(t, u)
  PROVE  OnlyLooks(t, u)
BY DEF OnlyLooks, SameNet, SamePackets, SameWorld

(* Setting selected_object leaves the view to what follows.                *)
LEMMA SelectStays ==
  ASSUME NEW t \in Sound, NEW o \in Chosen \cup {None}, NEW u, u = Select(t, o)
  PROVE  /\ u \in Sound /\ OnlyLooks(t, u) /\ u.selected = o /\ u.active = None
         /\ u.mode = t.mode /\ u.source = t.source /\ u.view = t.view /\ u.marked = t.marked
         /\ u.raised = t.raised
         /\ (t \in Good /\ o = None) => u \in Good
<1> DEFINE v == Activate(t, None)
           none == None
<1>1. none \in ToSet(t.windows) \cup {None} /\ (none # None => Shown(t.loop, Window(none)))
  OBVIOUS
<1>2. /\ v \in Sound /\ SameNet(t, v) /\ SamePackets(t, v) /\ SameView(t, v)
      /\ v.selected = t.selected /\ v.source = t.source /\ v.marked = t.marked
      /\ v.raised = t.raised /\ v.loop.leaving = t.loop.leaving
      /\ ToSet(v.loop.objects) = ToSet(t.loop.objects)
      /\ v.windows = t.windows /\ v.closing = t.closing /\ v.active = None
      /\ v.subject = t.subject
  <2> HIDE DEF none
  <2>1. v = Activate(t, none)
    BY DEF none
  <2> HIDE DEF v
  <2>2. QED BY <1>1, <2>1, ActivateStays DEF none
<1>3. u = [v EXCEPT !.selected = o]
  BY DEF Select
<1> HIDE DEF v
<1>4. v \in Program
  BY <1>2, SoundParts
<1>5. u \in Program
  BY ZenonT(60), <1>3, <1>4 DEF Program
<1>6. /\ SameWorld(v, u) /\ u.mode = v.mode /\ u.view = v.view /\ u.selected = o
      /\ u.marked = v.marked /\ u.source = v.source /\ u.raised = v.raised
  BY <1>3, <1>4 DEF Program, SameWorld
<1>7. u \in Sound
  BY <1>2, <1>5, <1>6, SameIsSound
<1>8. OnlyLooks(t, v)
  BY <1>2 DEF OnlyLooks
<1>9. OnlyLooks(t, u)
  BY <1>6, <1>8, SameOnlyLooks, LooksCompose
<1>10. u.active = None
  BY <1>2, <1>6 DEF SameWorld
<1>11. SameView(t, u) \/ o # None
  BY <1>2, <1>6 DEF SameView
<1>12. (t \in Good /\ o = None) => u \in Good
  BY <1>7, <1>11, SameIsGood
<1>13. QED BY <1>2, <1>6, <1>7, <1>9, <1>10, <1>12 DEF SameView

(* Without a selection nothing is selected, marked or active (Deselect).   *)
LEMMA DeselectStays ==
  ASSUME NEW t \in Sound, NEW u, u = Deselect(t)
  PROVE  /\ u \in Sound /\ OnlyLooks(t, u) /\ u.selected = None
         /\ u.mode = t.mode /\ u.source = t.source /\ u.view = t.view /\ u.raised = t.raised
<1>1. CASE t.selected = None
  <2>1. u = t
    BY <1>1 DEF Deselect
  <2>2. OnlyLooks(t, t)
    BY DEF OnlyLooks, SameNet, SamePackets
  <2>3. QED BY <1>1, <2>1, <2>2
<1>2. CASE t.selected # None
  <2> DEFINE none == None
  <2>1. u = Select(t, none) /\ none \in Chosen \cup {None}
    BY <1>2 DEF Deselect
  <2> HIDE DEF none
  <2>2. QED BY <2>1, SelectStays DEF none
<1>3. QED BY <1>1, <1>2

(* Starting to view the selected object ends the lag of the side window.   *)
LEMMA StartObjectViewStays ==
  ASSUME NEW t \in Sound, NEW o \in Chosen, o # None, t.selected = o, t.mode = "VIEW",
         NEW u, u = StartObjectView(t, o)
  PROVE  /\ u \in Good /\ OnlyLooks(t, u) /\ u.mode = t.mode /\ u.source = t.source
         /\ Exists(t, o) => u.raised = t.raised
<1>1. t \in Program
  BY SoundParts
<1>2. CASE u = [t EXCEPT !.view = o]
  <2>1. u \in Program
    BY ZenonT(60), <1>1, <1>2 DEF Program
  <2>2. /\ SameWorld(t, u) /\ u.view = o /\ u.mode = t.mode /\ u.selected = t.selected
        /\ u.source = t.source /\ u.raised = t.raised
    BY <1>1, <1>2 DEF Program, SameWorld
  <2>3. u \in Sound
    BY <2>1, <2>2, SameIsSound
  <2>4. u \in Good
    BY <2>2, <2>3 DEF Good, ViewOk
  <2>5. QED BY <2>2, <2>4, SameOnlyLooks
<1>3. CASE Raised(t, u) /\ ~Exists(t, o)
  BY <1>3, RaisedStays, SameOnlyLooks
<1>4. u = [t EXCEPT !.view = o] \/ (Raised(t, u) /\ ~Exists(t, o))
  <2>1. CASE Kind(o) = "packet" /\ o[2] \notin Carried(t)
    <3>1. u = Raise(t, "ThisValueShouldNeverBeNone") /\ ~Exists(t, o)
      BY <2>1 DEF StartObjectView, Exists
    <3>2. QED BY <1>1, <3>1, Raises
  <2>2. CASE Kind(o) = "interface" /\ ~Exists(t, o)
    <3>1. u = Raise(t, "NoSuchInterfaceError")
      BY <2>2 DEF StartObjectView
    <3>2. QED BY <1>1, <2>2, <3>1, Raises
  <2>3. QED BY <2>1, <2>2 DEF StartObjectView
<1>5. QED BY <1>2, <1>3, <1>4

(* What exists is a matter of the network and of the packets.              *)
LEMMA SameExists ==
  ASSUME NEW t, NEW u, NEW o, (SameNet(t, u) /\ SamePackets(t, u)) \/ SameWorld(t, u)
  PROVE  Exists(u, o) = Exists(t, o)
<1>1. /\ u.computers = t.computers /\ u.interfaces = t.interfaces /\ u.links = t.links
      /\ u.sent = t.sent
  BY DEF SameWorld, SameNet, SamePackets
<1>2. AllInterfaces(u) = AllInterfaces(t) /\ Carried(u) = Carried(t)
  BY <1>1 DEF AllInterfaces, InterfacesOf, Carried
<1>3. QED BY <1>1, <1>2 DEF Exists

(* Setting the mode makes the side window agree, whatever it was before.   *)
LEMMA SetModeStays ==
  ASSUME NEW t \in Sound, NEW mode \in Modes, NEW u, u = SetMode(t, mode)
  PROVE  /\ u \in Good /\ OnlyLooks(t, u) /\ u.mode = mode
         /\ mode # "VIEW" => u.marked = <<>>
         /\ (mode # "VIEW" \/ (t.selected # None /\ Exists(t, t.selected))) => u.raised = t.raised
<1> DEFINE src == IF mode = "VIEW" /\ t.mode # "CONNECTING" THEN t.source ELSE None
           none == None
           v == EndObjectView(t)
           x == [v EXCEPT !.mode = mode, !.source = src]
<1>1. t \in Program
  BY SoundParts
<1>2. v \in Program /\ SameWorld(t, v) /\ v.view = None /\ v.selected = t.selected
      /\ v.source = t.source /\ v.raised = t.raised
  BY ZenonT(60), <1>1 DEF EndObjectView, Program, SameWorld
<1>3. src \in Objects \cup {None}
  BY <1>1, ProgramParts
<1>4. u = IF mode # "VIEW" THEN [Deselect(x) EXCEPT !.marked = <<>>]
          ELSE IF x.selected = None THEN Raise(x, "WrongUsageError")
          ELSE StartObjectView(x, x.selected)
  BY <1>1, <1>2 DEF SetMode, EndObjectView, Program
<1> HIDE DEF v, src
<1>5. x \in Program
  <2> DEFINE y == [v EXCEPT !.mode = mode]
  <2>1. y \in Program
    <3>1. v \in Program /\ mode \in Modes
      BY <1>2
    <3>2. QED BY <3>1 DEF Program
  <2>2. x = [y EXCEPT !.source = src]
    OBVIOUS
  <2> HIDE DEF y, x
  <2>3. QED BY <1>3, <2>1, <2>2 DEF Program
<1>6. SameWorld(v, x) /\ x.view = None /\ x.selected = t.selected /\ x.mode = mode
      /\ x.raised = t.raised
  BY <1>2 DEF Program, SameWorld
<1> HIDE DEF x
<1>7. SameWorld(t, x)
  BY <1>2, <1>6 DEF SameWorld
<1>8. x \in Sound /\ OnlyLooks(t, x)
  BY <1>5, <1>7, SameIsSound, SameOnlyLooks
<1>9. CASE mode # "VIEW"
  <2> DEFINE y == Deselect(x)
             empty == <<>>
  <2>1. /\ y \in Sound /\ OnlyLooks(x, y) /\ y.selected = None /\ y.mode = mode /\ y.view = None
        /\ y.raised = t.raised
    BY <1>6, <1>8, DeselectStays
  <2>2. u = [y EXCEPT !.marked = empty] /\ empty \in Markable
    BY <1>4, <1>9, NothingMarked
  <2> HIDE DEF y, empty
  <2>3. y \in Program
    BY <2>1, SoundParts
  <2>4. u \in Program
    BY ZenonT(60), <2>2, <2>3 DEF Program
  <2>5. SameWorld(y, u) /\ u.mode = y.mode /\ u.view = y.view /\ u.selected = y.selected
        /\ u.raised = y.raised /\ u.marked = empty
    BY <2>2, <2>3 DEF Program, SameWorld
  <2>6. u \in Sound
    BY <2>1, <2>4, <2>5, SameIsSound
  <2>7. u \in Good
    BY <1>9, <2>1, <2>5, <2>6 DEF Good, ViewOk
  <2>8. OnlyLooks(t, u)
    BY <1>8, <2>1, <2>5, SameOnlyLooks, LooksCompose
  <2>9. QED BY <2>1, <2>5, <2>7, <2>8 DEF empty
<1>10. CASE mode = "VIEW" /\ x.selected = None
  <2>1. Raised(x, u)
    BY <1>4, <1>5, <1>10, Raises
  <2>2. u \in Good /\ SameWorld(x, u) /\ u.mode = mode
    BY <1>6, <1>8, <2>1, RaisedStays
  <2>3. QED BY <1>6, <1>8, <1>10, <2>2, SameOnlyLooks, LooksCompose
<1>11. CASE mode = "VIEW" /\ x.selected # None
  <2> DEFINE o == x.selected
  <2>1. u = StartObjectView(x, o) /\ o # None
    BY <1>4, <1>11
  <2>2. o \in Chosen
    BY <1>5, <2>1, ProgramParts
  <2>3. x.mode = "VIEW"
    BY <1>6, <1>11
  <2>4. u \in Good /\ OnlyLooks(x, u) /\ u.mode = x.mode /\ (Exists(x, o) => u.raised = x.raised)
    BY <1>8, <2>1, <2>2, <2>3, StartObjectViewStays
  <2>5. Exists(t, o) => Exists(x, o)
    BY <1>7, SameExists
  <2>6. QED BY <1>6, <1>8, <1>11, <2>4, <2>5, LooksCompose
<1>12. QED BY <1>9, <1>10, <1>11

(* Selecting and viewing does so, too.                                     *)
LEMMA SelectAndViewStays ==
  ASSUME NEW t \in Sound, NEW o \in Chosen, NEW u, u = SelectAndView(t, o)
  PROVE  u \in Good /\ (Exists(t, o) => u.raised = t.raised)
<1> DEFINE v == Select(t, o)
           view == "VIEW"
<1>1. v \in Sound /\ OnlyLooks(t, v) /\ v.selected = o /\ v.raised = t.raised
  BY SelectStays
<1>2. view \in Modes /\ u = SetMode(v, view)
  BY DEF Modes, SelectAndView
<1> HIDE DEF v, view
<1>3. o # None /\ (Exists(t, o) => Exists(v, o))
  BY <1>1, SameExists, EditorConstants DEF OnlyLooks, Chosen
<1>4. QED BY <1>1, <1>2, <1>3, SetModeStays

-----------------------------------------------------------------------------
(* The network.                                                            *)

(* One interface more or less, and two that a cable joins.                 *)
More(I, d, k) == [I EXCEPT ![d] = @ \cup {k}]
Less(I, d, k) == [I EXCEPT ![d] = @ \ {k}]
Put(M, d, m) == [M EXCEPT ![d] = m]
Joined(W, left, right, k) ==
  [i \in DOMAIN W \cup {left, right} |-> IF i \in {left, right} THEN k ELSE W[i]]

(* Without the cables S.                                                   *)
Listed(L, S) == Only(L, {l \in ToSet(L) : l.cable \notin S})
Unwired(W, S) == Restrict(W, {i \in DOMAIN W : W[i] \notin S})
EndIn(L, S, D) ==
  \A l \in ToSet(L) : l.cable \notin S => (l.left[2] \in ToSet(D) /\ l.right[2] \in ToSet(D))

(* A wiring gives cables to interfaces.                                    *)
LEMMA WiringParts ==
  ASSUME NEW W \in Wirings
  PROVE  DOMAIN W \subseteq AnyInterface /\ \A i \in DOMAIN W : W[i] \in Nat
BY DEF Wirings

(* A listed connection has a cable and two interfaces.                     *)
LEMMA LinkParts ==
  ASSUME NEW L \in Seq(AnyLink), NEW l \in ToSet(L)
  PROVE  l \in AnyLink /\ l.cable \in Nat /\ l.left \in AnyInterface /\ l.right \in AnyInterface
<1>1. l \in AnyLink
  BY ElementsByPlace
<1>2. QED BY <1>1 DEF AnyLink

(* No two listed connections are of one cable; a new cable is another,     *)
LEMMA AnotherCable ==
  ASSUME NEW L \in Seq(AnyLink), CablesDiffer(L), NEW new \in AnyLink,
         \A l \in ToSet(L) : l.cable # new.cable
  PROVE  CablesDiffer(Append(L, new))
<1> DEFINE K == Append(L, new)
<1>1. Len(L) \in Nat /\ Len(K) = Len(L) + 1 /\ K[Len(L) + 1] = new /\ \A i \in 1..Len(L) : K[i] = L[i]
  OBVIOUS
<1>2. \A i \in 1..Len(L) : L[i] \in ToSet(L)
  BY ElementsByPlace
<1> HIDE DEF K
<1>3. \A i \in 1..Len(K) : i \in 1..Len(L) \/ i = Len(L) + 1
  BY <1>1
<1>4. ASSUME NEW i \in 1..Len(K), NEW j \in 1..Len(K), K[i].cable = K[j].cable PROVE i = j
  <2>1. CASE i \in 1..Len(L) /\ j \in 1..Len(L)
    BY <1>1, <1>4, <2>1 DEF CablesDiffer
  <2>2. CASE i = Len(L) + 1 /\ j \in 1..Len(L)
    BY <1>1, <1>2, <1>4, <2>2
  <2>3. CASE i \in 1..Len(L) /\ j = Len(L) + 1
    BY <1>1, <1>2, <1>4, <2>3
  <2>4. QED BY <1>3, <2>1, <2>2, <2>3
<1>5. QED BY <1>4 DEF CablesDiffer, K

(* and what is left of the list has no more.                               *)
LEMMA CablesStillDiffer ==
  ASSUME NEW L \in Seq(AnyLink), CablesDiffer(L), NEW S, NEW K, K = Only(L, S)
  PROVE  CablesDiffer(K)
<1>1. K \in Seq(AnyLink)
  BY OnlyPlaces
<1>2. PICK m \in [1..Len(K) -> 1..Len(L)] : Selects(m, L, S, K)
  BY OnlyPlaces
<1>3. Len(K) \in Nat /\ Len(L) \in Nat
  BY <1>1
<1>4. ASSUME NEW i \in 1..Len(K), NEW j \in 1..Len(K), K[i].cable = K[j].cable PROVE i = j
  <2>1. K[i] = L[m[i]] /\ K[j] = L[m[j]] /\ m[i] \in 1..Len(L) /\ m[j] \in 1..Len(L)
    BY <1>2 DEF Selects
  <2>2. m[i] = m[j]
    BY <1>4, <2>1 DEF CablesDiffer
  <2>3. ~(m[i] < m[j]) /\ ~(m[j] < m[i])
    BY <1>3, <2>1, <2>2
  <2>4. ~(i < j) /\ ~(j < i)
    BY <1>2, <2>3 DEF Selects
  <2>5. QED BY <1>3, <2>4
<1>5. QED BY <1>4 DEF CablesDiffer

(* A new interface is one that was never wired.                            *)
LEMMA NetInterface ==
  ASSUME NEW C, NEW I \in [Devices -> Ports], NEW M \in [Devices -> Nat],
         NEW L \in Seq(AnyLink), NEW W \in Wirings, NEW n \in Nat, NetOk(C, I, M, L, W, n),
         NEW d \in Devices,
         NEW k, k = M[d] + 1, NEW J, J = More(I, d, k), NEW N, N = Put(M, d, k)
  PROVE  NetOk(C, J, N, L, W, n) /\ J \in [Devices -> Ports] /\ N \in [Devices -> Nat]
<1> USE DEF More, Put
<1>1. M[d] \in Nat /\ N \in [Devices -> Nat]
  OBVIOUS
<1>2. I[d] \cup {M[d] + 1} \subseteq 1..(M[d] + 1)
  BY <1>1 DEF NetOk
<1>3. I[d] \cup {M[d] + 1} \in Ports
  BY <1>1, <1>2 DEF Ports
<1>4. J \in [Devices -> Ports]
  BY <1>3
<1>5. \A e \in Devices : J[e] \subseteq 1..N[e]
  BY <1>1, <1>2 DEF NetOk
<1>6. \A e \in Devices : I[e] \subseteq J[e]
  OBVIOUS
<1>7. ASSUME NEW i \in AnyInterface, Here(C, I, i) PROVE Here(C, J, i)
  BY <1>6, <1>7, InterfaceParts DEF Here
<1>8. ASSUME NEW l \in ToSet(L)
      PROVE  /\ l.cable \in 1..n /\ Here(C, J, l.left) /\ Here(C, J, l.right)
             /\ {i \in DOMAIN W : W[i] = l.cable} = {l.left, l.right}
  BY <1>7, LinkParts DEF NetOk
<1>9. ASSUME NEW i \in DOMAIN W, i[2] \in ToSet(C)
      PROVE  Here(C, J, i) /\ \E l \in ToSet(L) : l.cable = W[i]
  BY <1>7, <1>9, WiringParts DEF NetOk
<1>10. QED BY <1>1, <1>4, <1>5, <1>8, <1>9 DEF NetOk

(* A new cable between two interfaces that have none.                      *)
LEMMA NetConnect ==
  ASSUME NEW C, NEW I \in [Devices -> Ports], NEW M \in [Devices -> Nat],
         NEW L \in Seq(AnyLink), NEW W \in Wirings, NEW n \in Nat, NetOk(C, I, M, L, W, n),
         NEW left \in AnyInterface, NEW right \in AnyInterface,
         Here(C, I, left), Here(C, I, right), left \notin DOMAIN W, right \notin DOMAIN W,
         NEW K, K = Append(L, [cable |-> n + 1, left |-> left, right |-> right]),
         NEW V, V = Joined(W, left, right, n + 1)
  PROVE  NetOk(C, I, M, K, V, n + 1) /\ K \in Seq(AnyLink) /\ V \in Wirings
<1> USE DEF Joined
<1> DEFINE new == [cable |-> n + 1, left |-> left, right |-> right]
<1>1. new \in AnyLink
  BY DEF AnyLink
<1>2. K \in Seq(AnyLink) /\ ToSet(K) = ToSet(L) \cup {new}
  BY <1>1, OneMore
<1>3. DOMAIN V \in SUBSET AnyInterface /\ V \in [DOMAIN V -> Nat]
  BY WiringParts
<1>4. V \in Wirings
  BY <1>3 DEF Wirings
<1>5. \A i \in DOMAIN W : i \in DOMAIN V /\ V[i] = W[i] /\ W[i] \in 1..n
  BY DEF NetOk
<1>6. \A i \in DOMAIN V : i \in DOMAIN W \/ (i \in {left, right} /\ V[i] = n + 1)
  OBVIOUS
<1>7. \A i \in DOMAIN V : V[i] \in 1..(n + 1)
  BY <1>5, <1>6
<1>8. {i \in DOMAIN V : V[i] = n + 1} = {left, right}
  <2>1. left \in DOMAIN V /\ right \in DOMAIN V /\ V[left] = n + 1 /\ V[right] = n + 1
    OBVIOUS
  <2>2. \A i \in DOMAIN W : V[i] # n + 1
    BY <1>5
  <2>3. QED BY <1>6, <2>1, <2>2
<1>9. ASSUME NEW l \in ToSet(L)
      PROVE  /\ l.cable \in 1..(n + 1) /\ Here(C, I, l.left) /\ Here(C, I, l.right)
             /\ {i \in DOMAIN V : V[i] = l.cable} = {l.left, l.right}
  <2>1. /\ l.cable \in 1..n /\ Here(C, I, l.left) /\ Here(C, I, l.right)
        /\ {i \in DOMAIN W : W[i] = l.cable} = {l.left, l.right}
    BY DEF NetOk
  <2>2. {i \in DOMAIN V : V[i] = l.cable} = {i \in DOMAIN W : W[i] = l.cable}
    <3>1. l.cable # n + 1
      BY <2>1
    <3>2. QED BY <1>5, <1>6, <3>1
  <2>3. QED BY <2>1, <2>2
<1>10. ASSUME NEW l \in ToSet(K)
       PROVE  /\ l.cable \in 1..(n + 1) /\ Here(C, I, l.left) /\ Here(C, I, l.right)
              /\ {i \in DOMAIN V : V[i] = l.cable} = {l.left, l.right}
  <2>1. CASE l = new
    <3>1. l.cable = n + 1 /\ l.left = left /\ l.right = right
      BY <2>1
    <3>2. n + 1 \in 1..(n + 1)
      OBVIOUS
    <3>3. QED BY Zenon, <1>8, <3>1, <3>2
  <2>2. QED BY <1>2, <1>9, <2>1
<1>11. ASSUME NEW i \in DOMAIN V, i[2] \in ToSet(C)
       PROVE  Here(C, I, i) /\ \E l \in ToSet(K) : l.cable = V[i]
  <2>1. CASE i \in DOMAIN W
    BY <1>2, <1>5, <1>11, <2>1 DEF NetOk
  <2>2. CASE i \in {left, right} /\ V[i] = n + 1
    <3>1. new \in ToSet(K) /\ new.cable = V[i]
      BY <1>2, <2>2
    <3>2. QED BY <2>2, <3>1
  <2>3. QED BY <1>6, <2>1, <2>2
<1>12. CablesDiffer(K)
  <2>1. CablesDiffer(L) /\ \A l \in ToSet(L) : l.cable \in 1..n
    BY DEF NetOk
  <2>2. new.cable = n + 1
    OBVIOUS
  <2> HIDE DEF new
  <2>3. \A l \in ToSet(L) : l.cable # new.cable
    BY <2>1, <2>2
  <2>4. K = Append(L, new)
    BY DEF new
  <2>5. QED BY <1>1, <2>1, <2>3, <2>4, AnotherCable
<1> HIDE DEF new
<1>13. QED BY <1>2, <1>4, <1>7, <1>10, <1>11, <1>12 DEF NetOk

(* Cables are taken away, and with them computers that had no other.       *)
LEMMA NetCut ==
  ASSUME NEW C, NEW I \in [Devices -> Ports], NEW M \in [Devices -> Nat],
         NEW L \in Seq(AnyLink), NEW W \in Wirings, NEW n \in Nat, NetOk(C, I, M, L, W, n),
         NEW S, NEW D, IsInjective(D), ToSet(D) \subseteq ToSet(C),
         EndIn(L, S, D)
  PROVE  /\ NetOk(D, I, M, Listed(L, S), Unwired(W, S), n)
         /\ Listed(L, S) \in Seq(AnyLink) /\ Unwired(W, S) \in Wirings
<1> DEFINE K == Listed(L, S)
           V == Unwired(W, S)
<1> USE DEF Listed, Unwired, EndIn
<1>1. K \in Seq(AnyLink) /\ ToSet(K) = {l \in ToSet(L) : l.cable \notin S}
  BY OnlyElements
<1>2. V = [i \in {i \in DOMAIN W : W[i] \notin S} |-> W[i]]
  BY DEF Restrict
<1>3. DOMAIN V \in SUBSET AnyInterface /\ V \in [DOMAIN V -> Nat]
  BY <1>2, WiringParts
<1>4. V \in Wirings
  BY <1>3 DEF Wirings
<1>5. \A i \in DOMAIN V : V[i] \in 1..n
  BY <1>2 DEF NetOk
<1>6. ASSUME NEW l \in ToSet(K)
      PROVE  /\ l.cable \in 1..n /\ Here(D, I, l.left) /\ Here(D, I, l.right)
             /\ {i \in DOMAIN V : V[i] = l.cable} = {l.left, l.right}
  <2>1. l \in ToSet(L) /\ l.cable \notin S
    BY <1>1
  <2>2. /\ l.cable \in 1..n /\ Here(C, I, l.left) /\ Here(C, I, l.right)
        /\ {i \in DOMAIN W : W[i] = l.cable} = {l.left, l.right}
    BY <2>1 DEF NetOk
  <2>3. Here(D, I, l.left) /\ Here(D, I, l.right)
    BY <2>1, <2>2 DEF Here
  <2>4. {i \in DOMAIN V : V[i] = l.cable} = {i \in DOMAIN W : W[i] = l.cable}
    BY <1>2, <2>1
  <2>5. QED BY <2>2, <2>3, <2>4
<1>7. ASSUME NEW i \in DOMAIN V, i[2] \in ToSet(D)
      PROVE  Here(D, I, i) /\ \E l \in ToSet(K) : l.cable = V[i]
  <2>1. i \in DOMAIN W /\ V[i] = W[i] /\ W[i] \notin S
    BY <1>2
  <2>2. Here(C, I, i) /\ \E l \in ToSet(L) : l.cable = W[i]
    BY <1>7, <2>1 DEF NetOk
  <2>3. Here(D, I, i)
    BY <1>7, <2>2 DEF Here
  <2>4. QED BY <1>1, <2>1, <2>2, <2>3
<1>8. \A d \in Devices : I[d] \subseteq 1..M[d]
  BY DEF NetOk
<1>9. CablesDiffer(K)
  BY CablesStillDiffer DEF NetOk
<1>10. QED BY <1>1, <1>4, <1>5, <1>6, <1>7, <1>8, <1>9 DEF NetOk

(* An interface without a cable is taken away.                             *)
LEMMA NetRemove ==
  ASSUME NEW C, NEW I \in [Devices -> Ports], NEW M \in [Devices -> Nat],
         NEW L \in Seq(AnyLink), NEW W \in Wirings, NEW n \in Nat, NetOk(C, I, M, L, W, n),
         NEW x \in AnyInterface, x \notin DOMAIN W,
         NEW J, J = Less(I, x[2], x[3])
  PROVE  NetOk(C, J, M, L, W, n) /\ J \in [Devices -> Ports]
<1> USE DEF Less
<1>1. x[2] \in Devices /\ x = Interface(x[2], x[3])
  BY InterfaceParts
<1>2. I[x[2]] \ {x[3]} \in Ports
  BY <1>1 DEF Ports
<1>3. J \in [Devices -> Ports]
  BY <1>2
<1>4. \A d \in Devices : J[d] \subseteq 1..M[d]
  BY DEF NetOk
<1>5. ASSUME NEW i \in AnyInterface, Here(C, I, i), i # x PROVE Here(C, J, i)
  <2>1. i[2] \in Devices /\ i = Interface(i[2], i[3])
    BY InterfaceParts
  <2>2. i[2] = x[2] => i[3] # x[3]
    BY <1>1, <1>5, <2>1
  <2>3. QED BY <1>1, <1>5, <2>1, <2>2 DEF Here
<1>6. ASSUME NEW l \in ToSet(L)
      PROVE  /\ l.cable \in 1..n /\ Here(C, J, l.left) /\ Here(C, J, l.right)
             /\ {i \in DOMAIN W : W[i] = l.cable} = {l.left, l.right}
  <2>1. /\ l.cable \in 1..n /\ Here(C, I, l.left) /\ Here(C, I, l.right)
        /\ {i \in DOMAIN W : W[i] = l.cable} = {l.left, l.right}
    BY DEF NetOk
  <2>2. l.left # x /\ l.right # x
    BY <2>1
  <2>3. QED BY <1>5, <2>1, <2>2, LinkParts
<1>7. ASSUME NEW i \in DOMAIN W, i[2] \in ToSet(C)
      PROVE  Here(C, J, i) /\ \E l \in ToSet(L) : l.cable = W[i]
  BY <1>5, <1>7, WiringParts DEF NetOk
<1>8. QED BY <1>3, <1>4, <1>6, <1>7 DEF NetOk

(* A computer that was not there, with interfaces that were never wired.   *)
Unplugged(W, d) == Restrict(W, {i \in DOMAIN W : i[2] # d})

UpTo(P, m) == P \subseteq 1..m
With(C, d) == Append(C, d)

(* A new computer is wired to nothing, even if another of its name was.    *)
LEMMA NetCreate ==
  ASSUME NEW C \in Seq(Devices), NEW I \in [Devices -> Ports], NEW M \in [Devices -> Nat],
         NEW L \in Seq(AnyLink), NEW W \in Wirings, NEW n \in Nat, NetOk(C, I, M, L, W, n),
         NEW d \in Devices, d \notin ToSet(C), NEW P \in Ports, NEW m \in Nat, UpTo(P, m)
  PROVE  /\ NetOk(With(C, d), Put(I, d, P), Put(M, d, m), L, Unplugged(W, d), n)
         /\ With(C, d) \in Seq(Devices) /\ Put(I, d, P) \in [Devices -> Ports]
         /\ Put(M, d, m) \in [Devices -> Nat] /\ Unplugged(W, d) \in Wirings
<1> USE DEF Put, Unplugged, UpTo, With
<1> DEFINE D == With(C, d)
           J == Put(I, d, P)
           N == Put(M, d, m)
           V == Unplugged(W, d)
<1>1. D \in Seq(Devices) /\ ToSet(D) = ToSet(C) \cup {d} /\ IsInjective(D)
  BY OneMore DEF NetOk
<1>2. /\ J \in [Devices -> Ports] /\ N \in [Devices -> Nat]
      /\ \A e \in Devices : J[e] \subseteq 1..N[e]
  BY DEF NetOk
<1>3. V = [i \in {i \in DOMAIN W : i[2] # d} |-> W[i]]
  BY DEF Restrict
<1>4. DOMAIN V \in SUBSET AnyInterface /\ V \in [DOMAIN V -> Nat]
  BY <1>3, WiringParts
<1>5. V \in Wirings
  BY <1>4 DEF Wirings
<1>6. \A i \in DOMAIN V : V[i] \in 1..n
  BY <1>3 DEF NetOk
<1>7. ASSUME NEW i \in AnyInterface, Here(C, I, i) PROVE Here(D, J, i) /\ i[2] # d
  BY <1>1, <1>7, InterfaceParts DEF Here
<1>8. ASSUME NEW l \in ToSet(L)
      PROVE  /\ l.cable \in 1..n /\ Here(D, J, l.left) /\ Here(D, J, l.right)
             /\ {i \in DOMAIN V : V[i] = l.cable} = {l.left, l.right}
  <2>1. /\ l.cable \in 1..n /\ Here(C, I, l.left) /\ Here(C, I, l.right)
        /\ {i \in DOMAIN W : W[i] = l.cable} = {l.left, l.right}
    BY DEF NetOk
  <2>2. /\ Here(D, J, l.left) /\ Here(D, J, l.right) /\ l.left[2] # d /\ l.right[2] # d
    BY <1>7, <2>1, LinkParts
  <2>3. {i \in DOMAIN V : V[i] = l.cable} = {i \in DOMAIN W : W[i] = l.cable}
    BY <1>3, <2>1, <2>2
  <2>4. QED BY <2>1, <2>2, <2>3
<1>9. ASSUME NEW i \in DOMAIN V, i[2] \in ToSet(D)
      PROVE  Here(D, J, i) /\ \E l \in ToSet(L) : l.cable = V[i]
  <2>1. i \in DOMAIN W /\ V[i] = W[i] /\ i[2] # d
    BY <1>3
  <2>2. Here(C, I, i) /\ \E l \in ToSet(L) : l.cable = W[i]
    BY <1>1, <1>9, <2>1 DEF NetOk
  <2>3. QED BY <1>7, <2>1, <2>2, WiringParts
<1>10. QED BY <1>1, <1>2, <1>5, <1>6, <1>8, <1>9 DEF NetOk

(* Nothing is left but the wires of the deleted.                           *)
LEMMA NetEmpty ==
  ASSUME NEW C, NEW I, NEW M, NEW L, NEW W, NEW n \in Nat, NetOk(C, I, M, L, W, n)
  PROVE  NetOk(<<>>, I, M, <<>>, W, n)
<1>1. ToSet(<<>>) = {} /\ IsInjective(<<>>) /\ CablesDiffer(<<>>)
  BY DEF ToSet, IsInjective, CablesDiffer
<1> DEFINE empty == <<>>
<1> HIDE DEF empty
<1>2. ToSet(empty) = {} /\ IsInjective(empty) /\ CablesDiffer(empty)
  BY <1>1 DEF empty
<1>3. NetOk(empty, I, M, empty, W, n)
  BY <1>2 DEF NetOk
<1>4. QED BY <1>3 DEF empty

-----------------------------------------------------------------------------
(* Interfaces and cables.                                                  *)

(* The interfaces of the computers that exist.                             *)
LEMMA InterfacesHere ==
  ASSUME NEW t \in Sound
  PROVE  /\ \A i : i \in AllInterfaces(t) <=>
                     \E d \in ToSet(t.computers) : \E n \in t.interfaces[d] : i = Interface(d, n)
         /\ \A i \in AnyInterface : i \in AllInterfaces(t) <=> Here(t.computers, t.interfaces, i)
         /\ AllInterfaces(t) \subseteq AnyInterface
<1>1. \A i : i \in AllInterfaces(t) <=>
               \E d \in ToSet(t.computers) : \E n \in t.interfaces[d] : i = Interface(d, n)
  BY DEF AllInterfaces, InterfacesOf
<1>2. t.interfaces \in [Devices -> Ports] /\ ToSet(t.computers) \subseteq Devices
  BY SoundParts, ProgramParts
<1>3. \A d \in ToSet(t.computers) : \A n \in t.interfaces[d] :
         /\ n \in Nat /\ Interface(d, n) \in AnyInterface
         /\ Interface(d, n)[2] = d /\ Interface(d, n)[3] = n
  <2>1. \A d \in Devices : t.interfaces[d] \subseteq Nat
    BY <1>2 DEF Ports
  <2>2. QED BY <1>2, <2>1, Kinds
<1>4. \A i \in AnyInterface : i \in AllInterfaces(t) <=> Here(t.computers, t.interfaces, i)
  BY <1>1, <1>3, InterfaceParts DEF Here
<1>5. AllInterfaces(t) \subseteq AnyInterface
  BY <1>1, <1>3
<1>6. QED BY <1>1, <1>4, <1>5

(* Adding an interface: its number was never used on this computer.        *)
LEMMA AddInterfaceStays ==
  ASSUME NEW t \in Good, NEW d \in Devices, NEW u, u = AddInterface(t, d)
  PROVE  /\ u \in Good /\ u.computers = t.computers /\ u.wired = t.wired
         /\ u.raised = t.raised /\ t.made[d] + 1 \in u.interfaces[d]
         /\ u.subject = t.subject
         /\ \A e \in Devices : t.interfaces[e] \subseteq u.interfaces[e]
<1> DEFINE n == t.made[d] + 1
           J == More(t.interfaces, d, n)
           N == Put(t.made, d, n)
           m == RegisterOne(t.loop, Interface(d, n), FALSE, {})
<1>1. t \in Sound /\ t \in Program /\ t.loop \in Registries /\ Net(t)
  BY SoundParts DEF Good, Sound
<1>2. /\ t.interfaces \in [Devices -> Ports] /\ t.made \in [Devices -> Nat]
      /\ t.links \in Seq(AnyLink) /\ t.wired \in Wirings /\ t.cables \in Nat
  BY <1>1, ProgramParts
<1>3. /\ NetOk(t.computers, J, N, t.links, t.wired, t.cables)
      /\ J \in [Devices -> Ports] /\ N \in [Devices -> Nat]
  <2>1. NetOk(t.computers, t.interfaces, t.made, t.links, t.wired, t.cables)
    BY <1>1 DEF Net
  <2>2. n = t.made[d] + 1 /\ J = More(t.interfaces, d, n) /\ N = Put(t.made, d, n)
    OBVIOUS
  <2> HIDE DEF n, J, N
  <2>3. QED BY <1>2, <2>1, <2>2, NetInterface
<1>4. n \in Nat /\ Interface(d, n) \in AnyInterface \cup {Square}
  BY <1>2, Kinds
<1>5. Harmless(t.loop, m) /\ m \in AnyRegistry
  <2>1. Harmless(t.loop, m)
    <3> DEFINE o == Interface(d, n)
    <3>1. o \in AnyInterface \cup {Square} /\ m = RegisterOne(t.loop, o, FALSE, {})
      BY <1>4
    <3> HIDE DEF o, m
    <3>2. QED BY <1>1, <3>1, RegisterHarmless
  <2>2. QED BY <2>1 DEF Harmless, Registries
<1>6. u = [t EXCEPT !.made = N, !.interfaces = J, !.loop = m]
  BY <1>1 DEF AddInterface, Program, More, Put
<1> HIDE DEF m, N, J
<1>7. u \in Program
  BY ZenonT(60), <1>1, <1>3, <1>5, <1>6 DEF Program
<1>8. /\ u.interfaces = J /\ u.made = N /\ u.loop = m /\ u.computers = t.computers
      /\ u.links = t.links /\ u.wired = t.wired /\ u.cables = t.cables
      /\ SamePackets(t, u) /\ SameView(t, u) /\ u.raised = t.raised
  BY <1>1, <1>6 DEF Program, SamePackets, SameView
<1>9. SameWindows(t, u)
  BY <1>1, <1>6 DEF Program, SameWindows
<1>10. Net(u)
  BY <1>3, <1>8 DEF Net
<1>11. u \in Sound
  BY <1>1, <1>5, <1>7, <1>8, <1>9, <1>10, SoundAfter
<1>12. u \in Good
  BY <1>8, <1>11, SameIsGood
<1>13. n \in u.interfaces[d] /\ \A e \in Devices : t.interfaces[e] \subseteq u.interfaces[e]
  BY <1>2, <1>8 DEF J, More
<1>14. QED BY <1>8, <1>9, <1>12, <1>13 DEF SameWindows

(* Interfaces of one computer are numbered.                                *)
LEMMA PortsAreNumbers ==
  ASSUME NEW t \in Program, NEW d \in Devices
  PROVE  t.interfaces[d] \subseteq Nat /\ t.interfaces[d] \in Ports /\ t.made[d] \in Nat
<1>1. t.interfaces \in [Devices -> Ports] /\ t.made \in [Devices -> Nat]
  BY ProgramParts
<1>2. QED BY <1>1 DEF Ports

(* A set of numbers has a least one, the one Min chooses.                  *)
LEMMA LeastIsMin ==
  ASSUME NEW T, T \subseteq Nat, T # {}
  PROVE  Min(T) \in T
<1>1. \E m \in T : \A k \in T : m <= k
  BY LeastNumber
<1>2. QED BY <1>1 DEF Min

(* available_interface finds a free interface of the computer, or adds     *)
(* one.                                                                    *)
LEMMA AvailableStays ==
  ASSUME NEW t \in Good, NEW d \in ToSet(t.computers), NEW u, u = WithAvailable(t, d)
  PROVE  /\ u \in Good /\ u.computers = t.computers /\ u.raised = t.raised /\ u.wired = t.wired
         /\ AllInterfaces(t) \subseteq AllInterfaces(u)
         /\ Available(t, d) \in AllInterfaces(u) /\ Available(t, d) \notin DOMAIN u.wired
         /\ Available(t, d)[2] = d
         /\ WithAvailable(u, d) = u /\ Available(u, d) = Available(t, d)
<1>1. t \in Sound /\ t \in Program /\ d \in Devices
  BY SoundParts DEF Good
<1>2. u \in Good /\ u.computers = t.computers /\ u.raised = t.raised /\ u.wired = t.wired
  BY <1>1, AddInterfaceStays DEF WithAvailable
<1>3. u \in Sound /\ u \in Program
  BY <1>2, SoundParts DEF Good
<1>4. \A e \in Devices : t.interfaces[e] \subseteq u.interfaces[e]
  <2>1. CASE u = t
    BY <2>1
  <2>2. CASE u = AddInterface(t, d)
    BY <1>1, <2>2, AddInterfaceStays
  <2>3. QED BY <2>1, <2>2 DEF WithAvailable
<1>5. AllInterfaces(t) \subseteq AllInterfaces(u)
  <2>1. ToSet(t.computers) \subseteq Devices
    BY <1>1, SoundParts
  <2>2. QED BY <1>1, <1>2, <1>3, <1>4, <2>1, InterfacesHere
<1>6. Free(u, d) # {} /\ Free(u, d) \subseteq u.interfaces[d]
  <2>1. CASE Free(t, d) # {}
    BY <2>1 DEF Free, WithAvailable
  <2>2. CASE Free(t, d) = {}
    <3>1. u = AddInterface(t, d)
      BY <2>2 DEF WithAvailable
    <3>4. t.made[d] \in Nat
      BY <1>1, PortsAreNumbers
    <3>5. t.made[d] + 1 \in u.interfaces[d]
      BY <1>1, <3>1, AddInterfaceStays
    <3>6. Interface(d, t.made[d] + 1) \notin DOMAIN t.wired
      <4> DEFINE x == Interface(d, t.made[d] + 1)
      <4>1. x \in AnyInterface /\ x[2] = d /\ x[3] = t.made[d] + 1
        BY <1>1, <3>4, Kinds
      <4>2. Net(t) /\ t.interfaces[d] \subseteq 1..t.made[d]
        BY <1>1 DEF Sound, Net, NetOk
      <4> HIDE DEF x
      <4>3. x \in DOMAIN t.wired => Here(t.computers, t.interfaces, x)
        BY <4>1, <4>2 DEF Net, NetOk
      <4>4. ~Here(t.computers, t.interfaces, x)
        BY <3>4, <4>1, <4>2 DEF Here
      <4>5. QED BY <4>3, <4>4 DEF x
    <3>7. QED BY <1>2, <3>5, <3>6 DEF Free, IsConnected
  <2>3. QED BY <2>1, <2>2
<1>7. Min(Free(u, d)) \in Free(u, d)
  <2>1. Free(u, d) \subseteq Nat
    BY <1>1, <1>3, <1>6, PortsAreNumbers
  <2>2. QED BY <1>6, <2>1, LeastIsMin
<1> DEFINE n == Min(Free(u, d))
<1>8. /\ n \in u.interfaces[d] /\ Interface(d, n) \notin DOMAIN u.wired
      /\ Available(t, d) = Interface(d, n)
  BY <1>7 DEF Free, IsConnected, Available
<1>9. n \in Nat
  BY <1>1, <1>3, <1>8, PortsAreNumbers
<1> HIDE DEF n
<1>10. Available(t, d) \in AllInterfaces(u)
  BY <1>2, <1>3, <1>8, InterfacesHere
<1>11. Available(t, d)[2] = d
  BY <1>1, <1>8, <1>9, Kinds
<1>12. WithAvailable(u, d) = u /\ Available(u, d) = Available(t, d)
  BY <1>6 DEF WithAvailable, Available
<1>13. QED BY <1>2, <1>5, <1>8, <1>10, <1>11, <1>12

MovesPackets(k) == <<"move_packets", Cable(k)>>

RegisterCable(l, k) == RegisterOne(l, Cable(k), TRUE, {MovesPackets(k)})

(* Registering a cable puts its move_packets into the loop,                *)
LEMMA CableMakes ==
  ASSUME NEW l \in Registries, NEW k \in Nat, ~Shown(l, Cable(k)), NEW m, m = RegisterCable(l, k)
  PROVE  /\ m \in Registries /\ m.leaving = l.leaving
         /\ ToSet(m.objects) = ToSet(l.objects) \cup {Cable(k)}
         /\ l.functions \subseteq m.functions /\ MovesPackets(k) \in m.functions
<1> DEFINE o == Cable(k)
           yes == TRUE
           others == {MovesPackets(k)}
<1>1. o \in Objects /\ yes \in BOOLEAN
  BY Kinds
<1>2. others \in SUBSET Functions
  BY <1>1 DEF Functions, MovesPackets
<1>3. m = RegisterOne(l, o, yes, others) /\ o \notin ToSet(l.objects)
  BY DEF Shown, RegisterCable
<1>4. MovesPackets(k) \in others
  OBVIOUS
<1> HIDE DEF o, yes, others
<1>5. /\ m \in Registries /\ m.leaving = l.leaving /\ ToSet(m.objects) = ToSet(l.objects) \cup {o}
      /\ l.functions \subseteq m.functions
  BY <1>1, <1>2, <1>3, RegisterOneMakes
<1>6. others \subseteq m.functions
  BY <1>3 DEF RegisterOne, Registered, Registries, AnyRegistry
<1>7. QED BY <1>4, <1>5, <1>6 DEF o

(* and keeps what the invariant says of the registry.                      *)
LEMMA CableKeeps ==
  ASSUME NEW l \in Registries, NEW n \in Nat, NEW m \in Registries, m.leaving = l.leaving,
         ToSet(m.objects) = ToSet(l.objects) \cup {Cable(n + 1)},
         l.functions \subseteq m.functions, MovesPackets(n + 1) \in m.functions
  PROVE  /\ \A C : ScreenOk(C, l) => ScreenOk(C, m)
         /\ \A S, R : PacketsOk(l, S, R, n) => PacketsOk(m, S, R, n + 1)
         /\ \A W, G, a, B : \A k \in Nat : WindowsOk(l, W, G, a, B, k) => WindowsOk(m, W, G, a, B, k)
<1>1. /\ \A d \in Devices : Shown(m, Computer(d)) <=> Shown(l, Computer(d))
      /\ \A k \in Nat : /\ Shown(m, Packet(k)) <=> Shown(l, Packet(k))
                        /\ Shown(m, Window(k)) <=> Shown(l, Window(k))
                        /\ Shown(m, Cable(k)) => Shown(l, Cable(k)) \/ k = n + 1
  BY Kinds DEF Shown
<1>2. \A C : ScreenOk(C, l) => ScreenOk(C, m)
  BY <1>1 DEF ScreenOk, Registries
<1>3. ASSUME NEW S, NEW R, PacketsOk(l, S, R, n) PROVE PacketsOk(m, S, R, n + 1)
  <2>1. \A k \in 1..(n + 1) : k \in Nat /\ (k \in 1..n \/ k = n + 1)
    OBVIOUS
  <2>2. \A k \in 1..n : MovesPackets(k) \in l.functions
    BY <1>3 DEF PacketsOk, MovesPackets
  <2>3. \A k \in 1..(n + 1) : MovesPackets(k) \in m.functions
    BY <2>1, <2>2
  <2>4. 1..n \subseteq 1..(n + 1) /\ n + 1 \in 1..(n + 1)
    OBVIOUS
  <2>5. \A k \in Nat : Shown(m, Cable(k)) => k \in 1..(n + 1)
    BY <1>1, <1>3, <2>4 DEF PacketsOk
  <2>6. \A k \in Nat : Shown(m, Packet(k)) => k \in S \/ Packet(k) \in m.leaving
    BY <1>1, <1>3 DEF PacketsOk
  <2>7. S \subseteq R /\ R \subseteq 1..(n + 1)
    BY <1>3, <2>4 DEF PacketsOk
  <2>8. QED BY <2>3, <2>5, <2>6, <2>7 DEF PacketsOk, MovesPackets
<1>4. ASSUME NEW W, NEW G, NEW a, NEW B, NEW k \in Nat, WindowsOk(l, W, G, a, B, k)
      PROVE  WindowsOk(m, W, G, a, B, k)
  <2>1. ToSet(W) \subseteq Nat /\ G \subseteq Nat
    BY <1>4 DEF WindowsOk
  <2>2. QED BY <1>1, <1>4, <2>1 DEF WindowsOk
<1>5. QED BY <1>2, <1>3, <1>4

Linked(L, k, left, right) == Append(L, [cable |-> k, left |-> left, right |-> right])

(* Connecting two interfaces: raises if one is wired, else a cable joins   *)
(* them.                                                                   *)
LEMMA ConnectStays ==
  ASSUME NEW t \in Good, NEW left \in AllInterfaces(t), NEW right \in AllInterfaces(t),
         NEW u, u = ConnectInterfaces(t, left, right)
  PROVE  /\ u \in Good /\ u.computers = t.computers
         /\ (left \notin DOMAIN t.wired /\ right \notin DOMAIN t.wired) =>
              /\ u.raised = t.raised /\ u.name = t.name /\ u.interfaces = t.interfaces
              /\ u.links = Linked(t.links, t.cables + 1, left, right)
<1>1. t \in Sound /\ t \in Program /\ t.loop \in Registries
  BY SoundParts DEF Good
<1>2. CASE IsConnected(t, left) \/ IsConnected(t, right)
  <2>1. Raised(t, u)
    BY <1>1, <1>2, Raises DEF ConnectInterfaces
  <2>2. QED BY <1>1, <1>2, <2>1, RaisedStays DEF SameWorld, IsConnected
<1>3. CASE ~(IsConnected(t, left) \/ IsConnected(t, right))
  <2> DEFINE n == t.cables
             K == Append(t.links, [cable |-> n + 1, left |-> left, right |-> right])
             V == Joined(t.wired, left, right, n + 1)
             k == n + 1
             m == RegisterCable(t.loop, k)
  <2>1. u = [t EXCEPT !.cables = n + 1, !.links = K, !.wired = V, !.loop = m]
    BY <1>1, <1>3 DEF ConnectInterfaces, Joined, MovesPackets, RegisterCable, Program
  <2>2. /\ t.interfaces \in [Devices -> Ports] /\ t.made \in [Devices -> Nat]
        /\ t.links \in Seq(AnyLink) /\ t.wired \in Wirings /\ n \in Nat
    BY <1>1, ProgramParts
  <2>3. /\ left \in AnyInterface /\ right \in AnyInterface
        /\ Here(t.computers, t.interfaces, left) /\ Here(t.computers, t.interfaces, right)
        /\ left \notin DOMAIN t.wired /\ right \notin DOMAIN t.wired
    BY <1>1, <1>3, InterfacesHere DEF IsConnected
  <2>4. NetOk(t.computers, t.interfaces, t.made, t.links, t.wired, n)
    BY <1>1 DEF Sound, Net
  <2>5. PacketsOk(t.loop, t.sent, t.carried, n) /\ ScreenOk(t.computers, t.loop) /\ Windows(t)
    BY <1>1 DEF Sound, Packets
  <2>6. ~Shown(t.loop, Cable(n + 1))
    BY <2>2, <2>5 DEF PacketsOk
  <2> HIDE DEF K, V
  <2>7. NetOk(t.computers, t.interfaces, t.made, K, V, n + 1) /\ K \in Seq(AnyLink) /\ V \in Wirings
    <3>1. K = Append(t.links, [cable |-> n + 1, left |-> left, right |-> right])
      BY DEF K
    <3>2. V = Joined(t.wired, left, right, n + 1)
      BY DEF V
    <3> HIDE DEF n
    <3>3. QED BY <2>2, <2>3, <2>4, <3>1, <3>2, NetConnect
  <2>8. /\ m \in Registries /\ m.leaving = t.loop.leaving
        /\ ToSet(m.objects) = ToSet(t.loop.objects) \cup {Cable(n + 1)}
        /\ t.loop.functions \subseteq m.functions /\ MovesPackets(n + 1) \in m.functions
    <3>1. k \in Nat /\ ~Shown(t.loop, Cable(k))
      BY <2>2, <2>6
    <3>2. k = n + 1
      OBVIOUS
    <3> HIDE DEF n, k
    <3>3. /\ m \in Registries /\ m.leaving = t.loop.leaving
          /\ ToSet(m.objects) = ToSet(t.loop.objects) \cup {Cable(k)}
          /\ t.loop.functions \subseteq m.functions /\ MovesPackets(k) \in m.functions
      BY <1>1, <3>1, CableMakes
    <3>4. QED BY <3>2, <3>3
  <2> HIDE DEF m
  <2>9. m \in AnyRegistry /\ n + 1 \in Nat
    BY <2>2, <2>8 DEF Registries
  <2>10. u \in Program
    <3> DEFINE v == [t EXCEPT !.cables = k, !.links = K, !.wired = V]
    <3>1. k \in Nat /\ K \in Seq(AnyLink) /\ V \in Wirings
      BY <2>7, <2>9
    <3>2. u = [v EXCEPT !.loop = m]
      BY <2>1
    <3> HIDE DEF k
    <3>3. v \in Program
      BY <1>1, <3>1 DEF Program
    <3> HIDE DEF v
    <3>4. QED BY <2>9, <3>2, <3>3, WithLoop
  <2>11. /\ u.cables = n + 1 /\ u.links = K /\ u.wired = V /\ u.loop = m /\ u.made = t.made
         /\ u.computers = t.computers /\ u.interfaces = t.interfaces
         /\ u.sent = t.sent /\ u.carried = t.carried /\ SameView(t, u)
    BY <1>1, <2>1 DEF Program, SameView
  <2>12. /\ u.windows = t.windows /\ u.closing = t.closing /\ u.buttons = t.buttons
         /\ u.subject = t.subject /\ u.active = t.active
         /\ u.raised = t.raised /\ u.name = t.name
    BY <1>1, <2>1 DEF Program
  <2>13. K = Linked(t.links, t.cables + 1, left, right)
    BY DEF K, Linked
  <2> HIDE DEF n
  <2>14. ScreenOk(u.computers, u.loop)
    BY <1>1, <2>2, <2>5, <2>8, <2>11, CableKeeps
  <2>15. PacketsOk(u.loop, u.sent, u.carried, n + 1)
    BY <1>1, <2>2, <2>5, <2>8, <2>11, CableKeeps
  <2>16. Windows(u)
    <3>1. Len(t.subject) \in Nat
      BY <1>1, SoundParts
    <3>2. QED BY <1>1, <2>2, <2>5, <2>8, <2>11, <2>12, <3>1, CableKeeps DEF Windows
  <2>17. Net(u) /\ Packets(u)
    BY <2>7, <2>11, <2>15 DEF Net, Packets
  <2>18. u \in Sound
    BY <2>10, <2>14, <2>16, <2>17 DEF Sound
  <2>19. u \in Good
    BY <2>11, <2>18, SameIsGood
  <2>20. QED BY <2>11, <2>12, <2>19, <2>13
<1>4. QED BY <1>2, <1>3

(* Connecting two computers, or one with itself.                           *)
LEMMA ConnectComputersStays ==
  ASSUME NEW t \in Good, NEW d \in ToSet(t.computers), NEW e \in ToSet(t.computers)
  PROVE  /\ ConnectComputers(t, d, e) \in Good
         /\ ConnectComputers(t, d, e).computers = t.computers
         /\ ConnectComputers(t, d, e).raised = t.raised
<1> DEFINE u == WithAvailable(t, d)
           v == WithAvailable(u, e)
           left == Available(u, d)
           right == Available(v, e)
<1>1. /\ u \in Good /\ u.computers = t.computers /\ left \in AllInterfaces(u)
      /\ u.raised = t.raised /\ left \notin DOMAIN u.wired
  BY AvailableStays
<1>2. e \in ToSet(u.computers)
  BY <1>1
<1>3. ConnectComputers(t, d, e) = ConnectInterfaces(v, left, right)
  BY DEF ConnectComputers
<1> HIDE DEF u, left
<1>4. /\ v \in Good /\ v.computers = u.computers /\ AllInterfaces(u) \subseteq AllInterfaces(v)
      /\ right \in AllInterfaces(v) /\ right \notin DOMAIN v.wired
      /\ v.raised = u.raised /\ v.wired = u.wired
  BY <1>1, <1>2, AvailableStays
<1> HIDE DEF v, right
<1>5. left \in AllInterfaces(v)
  BY <1>1, <1>4
<1>6. QED BY <1>1, <1>3, <1>4, <1>5, ConnectStays

-----------------------------------------------------------------------------
(* Taking cables and packets away.                                         *)

(* Packets stop, and those on the screen are asked to leave.               *)
LEMMA StopStays ==
  ASSUME NEW t \in Sound, NEW S, NEW u, u = StopPackets(t, S)
  PROVE  /\ u \in Sound /\ SameNet(t, u) /\ u.sent = t.sent \ S /\ u.carried = t.carried
         /\ SameWindows(t, u) /\ u.active = t.active
         /\ SameView(t, u) /\ u.source = t.source /\ u.raised = t.raised /\ u.selected = t.selected
         /\ u.marked = t.marked /\ OnScreen(u) = OnScreen(t)
         /\ u.loop.leaving = t.loop.leaving \cup {Packet(k) : k \in t.sent \cap S}
<1> DEFINE G == {Packet(k) : k \in t.sent \cap S}
           m == RequestToLeave(t.loop, G)
           rest == t.sent \ S
<1>1. t \in Program /\ t.loop \in Registries /\ Packets(t) /\ Windows(t) /\ Len(t.subject) \in Nat
  BY SoundParts DEF Sound
<1>2. t.sent \subseteq Nat
  BY <1>1, ProgramParts
<1>3. G \in SUBSET Objects /\ \A o \in G : Kind(o) # "window"
  BY <1>2, Kinds
<1>4. u = [t EXCEPT !.sent = rest, !.loop = m]
  BY <1>1 DEF StopPackets
<1>5. \A k \in t.sent \cap S : Packet(k) \in G
  OBVIOUS
<1> HIDE DEF G
<1>6. Harmless(t.loop, m)
  BY <1>1, <1>3, RequestHarmless
<1>7. /\ m \in Registries /\ m.objects = t.loop.objects /\ m.functions = t.loop.functions
      /\ m.leaving = t.loop.leaving \cup G
  BY <1>1, <1>3, RequestMakes
<1>8. m \in AnyRegistry
  BY <1>7 DEF Registries
<1>9. rest \subseteq Nat /\ rest \subseteq t.sent
  BY <1>2
<1>10. \A k \in t.sent : k \in rest \/ Packet(k) \in G
  BY <1>5
<1> HIDE DEF m, rest
<1>11. u \in Program
  <2> DEFINE v == [t EXCEPT !.sent = rest]
  <2>1. v \in Program
    BY <1>1, <1>9 DEF Program
  <2>2. u = [v EXCEPT !.loop = m]
    BY <1>4
  <2> HIDE DEF v
  <2>3. QED BY <1>8, <2>1, <2>2, WithLoop
<1>12. /\ SameNet(t, u) /\ u.sent = rest /\ u.carried = t.carried /\ u.loop = m /\ SameView(t, u)
       /\ u.source = t.source /\ u.raised = t.raised /\ u.selected = t.selected
       /\ u.cables = t.cables /\ u.computers = t.computers /\ u.marked = t.marked
  BY <1>1, <1>4 DEF Program, SameNet, SameView
<1>13. /\ u.windows = t.windows /\ u.closing = t.closing /\ u.buttons = t.buttons
       /\ u.subject = t.subject /\ u.active = t.active
  BY <1>1, <1>4 DEF Program
<1>14. Net(u)
  BY <1>12 DEF Net, SameNet, Sound
<1>15. ScreenOk(u.computers, u.loop)
  BY <1>6, <1>12, HarmlessKeeps DEF Sound
<1>16. WindowsOk(u.loop, t.windows, t.closing, t.active, t.buttons, Len(t.subject))
  BY <1>1, <1>6, <1>12, HarmlessKeeps DEF Windows
<1>17. Windows(u)
  BY <1>13, <1>16 DEF Windows
<1>18. Packets(u)
  <2>1. PacketsOk(t.loop, t.sent, t.carried, t.cables)
    BY <1>1 DEF Packets
  <2>2. \A k \in Nat : Shown(m, Packet(k)) => k \in rest \/ Packet(k) \in m.leaving
    BY <1>7, <1>10, <2>1 DEF PacketsOk, Shown
  <2>3. PacketsOk(m, rest, t.carried, t.cables)
    BY <1>7, <1>9, <2>1, <2>2 DEF PacketsOk, Shown
  <2>4. QED BY <1>12, <2>3 DEF Packets
<1>19. u \in Sound
  BY <1>11, <1>14, <1>15, <1>17, <1>18 DEF Sound
<1>20. SameWindows(t, u)
  BY <1>13 DEF SameWindows
<1>21. QED BY <1>7, <1>12, <1>13, <1>19, <1>20 DEF G, rest, OnScreen

(* What a change of the network alone keeps.                               *)
SameScreen(t, u) ==
  /\ u.loop = t.loop /\ u.windows = t.windows /\ u.closing = t.closing /\ u.buttons = t.buttons
  /\ u.subject = t.subject /\ u.active = t.active /\ u.source = t.source
  /\ u.raised = t.raised /\ u.selected = t.selected /\ u.mode = t.mode /\ u.view = t.view
  /\ u.marked = t.marked

(* Cables go, and with them computers that have asked to leave.            *)
LEMMA CutStays ==
  ASSUME NEW t \in Sound, NEW D \in Seq(Devices), IsInjective(D), ToSet(D) \subseteq ToSet(t.computers),
         \A d \in ToSet(t.computers) : d \in ToSet(D) \/ Computer(d) \in t.loop.leaving,
         NEW S, EndIn(t.links, S, D), NEW u, u = RemoveConnections([t EXCEPT !.computers = D], S)
  PROVE  /\ u \in Sound /\ SameScreen(t, u) /\ SamePackets(t, u) /\ u.computers = D
         /\ u.interfaces = t.interfaces /\ u.made = t.made /\ u.cables = t.cables
         /\ \A i \in DOMAIN u.wired : i \in DOMAIN t.wired /\ t.wired[i] \notin S
<1> DEFINE K == Listed(t.links, S)
           V == Unwired(t.wired, S)
<1>1. t \in Program /\ t.loop \in Registries /\ Packets(t) /\ Windows(t) /\ Len(t.subject) \in Nat
  BY SoundParts DEF Sound
<1>2. /\ t.interfaces \in [Devices -> Ports] /\ t.made \in [Devices -> Nat]
      /\ t.links \in Seq(AnyLink) /\ t.wired \in Wirings /\ t.cables \in Nat
  BY <1>1, ProgramParts
<1>3. u = [t EXCEPT !.computers = D, !.wired = V, !.links = K]
  BY <1>1 DEF RemoveConnections, Unlist, Disconnect, Listed, Unwired, Program
<1>4. NetOk(t.computers, t.interfaces, t.made, t.links, t.wired, t.cables)
  BY DEF Sound, Net
<1>5. \A i \in DOMAIN V : i \in DOMAIN t.wired /\ t.wired[i] \notin S
  BY DEF Restrict, Unwired
<1>6. /\ NetOk(D, t.interfaces, t.made, K, V, t.cables)
      /\ K \in Seq(AnyLink) /\ V \in Wirings
  BY <1>2, <1>4, NetCut
<1> HIDE DEF K, V
<1>7. u \in Program
  BY ZenonT(60), <1>1, <1>3, <1>6 DEF Program
<1>8. /\ u.computers = D /\ u.interfaces = t.interfaces /\ u.made = t.made /\ u.cables = t.cables
      /\ u.links = K /\ u.wired = V /\ SamePackets(t, u)
  BY <1>1, <1>3 DEF Program, SamePackets
<1>9. SameScreen(t, u)
  BY <1>1, <1>3 DEF Program, SameScreen
<1>10. Net(u)
  BY <1>6, <1>8 DEF Net
<1>11. Packets(u) /\ Windows(u)
  BY <1>1, <1>8, <1>9 DEF Packets, Windows, SamePackets, SameScreen
<1>12. ScreenOk(t.computers, t.loop)
  BY DEF Sound
<1>13. ScreenOk(D, t.loop)
  BY <1>12 DEF ScreenOk
<1>14. u \in Sound
  BY <1>7, <1>8, <1>9, <1>10, <1>11, <1>13 DEF Sound, SameScreen
<1>15. QED BY <1>5, <1>8, <1>9, <1>14

(* The same, if no computer goes.                                          *)
LEMMA RemoveStays ==
  ASSUME NEW t \in Sound, NEW S, NEW u, u = RemoveConnections(t, S)
  PROVE  /\ u \in Sound /\ SameScreen(t, u) /\ SamePackets(t, u) /\ u.computers = t.computers
         /\ u.interfaces = t.interfaces /\ u.made = t.made /\ u.cables = t.cables
         /\ \A i \in DOMAIN u.wired : i \in DOMAIN t.wired /\ t.wired[i] \notin S
<1> DEFINE D == t.computers
<1>1. t \in Program /\ D \in Seq(Devices)
  BY SoundParts
<1>2. [t EXCEPT !.computers = D] = t
  BY <1>1 DEF Program
<1>3. IsInjective(D)
  BY DEF Sound, Net, NetOk
<1>4. \A l \in ToSet(t.links) : l.left[2] \in ToSet(D) /\ l.right[2] \in ToSet(D)
  BY DEF Sound, Net, NetOk, Here
<1>5. u = RemoveConnections([t EXCEPT !.computers = D], S)
  BY <1>2
<1>6. ToSet(D) \subseteq ToSet(t.computers)
  OBVIOUS
<1>7. \A d \in ToSet(t.computers) : d \in ToSet(D) \/ Computer(d) \in t.loop.leaving
  OBVIOUS
<1>8. EndIn(t.links, S, D)
  BY <1>4 DEF EndIn
<1> HIDE DEF D
<1>9. /\ u \in Sound /\ SameScreen(t, u) /\ SamePackets(t, u) /\ u.computers = D
      /\ u.interfaces = t.interfaces /\ u.made = t.made /\ u.cables = t.cables
      /\ \A i \in DOMAIN u.wired : i \in DOMAIN t.wired /\ t.wired[i] \notin S
  BY <1>1, <1>3, <1>5, <1>6, <1>7, <1>8, CutStays
<1>10. QED BY <1>9 DEF D

SameChoice(t, u) ==
  /\ u.source = t.source /\ u.raised = t.raised /\ u.selected = t.selected
  /\ u.mode = t.mode /\ u.view = t.view /\ u.marked = t.marked /\ u.active = t.active

(* A handler whose only effect is a harmless change of the registry,       *)
LEMMA LoopStays ==
  ASSUME NEW t \in Sound, NEW m, Harmless(t.loop, m), NEW u, u = [t EXCEPT !.loop = m]
  PROVE  /\ u \in Sound /\ SameNet(t, u) /\ SamePackets(t, u) /\ SameChoice(t, u) /\ u.loop = m
         /\ u.windows = t.windows /\ u.closing = t.closing /\ u.subject = t.subject
         /\ t \in Good => u \in Good
<1>1. t \in Program
  BY SoundParts
<1>2. m \in AnyRegistry
  BY DEF Harmless, Registries
<1>3. u \in Program
  BY <1>1, <1>2, WithLoop
<1>4. /\ SameNet(t, u) /\ SamePackets(t, u) /\ u.loop = m /\ SameWindows(t, u)
      /\ u.windows = t.windows /\ u.closing = t.closing /\ u.subject = t.subject
  BY <1>1 DEF Program, SameNet, SamePackets, SameWindows
<1>5. SameChoice(t, u)
  BY <1>1 DEF Program, SameChoice
<1>6. u \in Sound
  BY <1>3, <1>4, SoundWithLoop
<1>7. SameView(t, u)
  BY <1>5 DEF SameView, SameChoice
<1>8. t \in Good => u \in Good
  BY <1>6, <1>7, SameIsGood
<1>9. QED BY <1>4, <1>5, <1>6, <1>8

(* as asking something to leave,                                           *)
LEMMA AskToLeaveStays ==
  ASSUME NEW t \in Sound, NEW G \in SUBSET Objects, \A o \in G : Kind(o) # "window",
         NEW u, u = [t EXCEPT !.loop = RequestToLeave(@, G)]
  PROVE  /\ u \in Sound /\ SameNet(t, u) /\ SamePackets(t, u) /\ SameChoice(t, u)
         /\ u.windows = t.windows /\ u.closing = t.closing /\ u.subject = t.subject
         /\ u.loop.leaving = t.loop.leaving \cup G
         /\ t \in Good => u \in Good
<1> DEFINE m == RequestToLeave(t.loop, G)
<1>1. t.loop \in Registries /\ t \in Program
  BY SoundParts
<1>2. Harmless(t.loop, m)
  BY <1>1, RequestHarmless
<1>3. m.leaving = t.loop.leaving \cup G
  BY <1>1, RequestMakes
<1>4. u = [t EXCEPT !.loop = m]
  BY <1>1 DEF Program
<1> HIDE DEF m
<1>5. /\ u \in Sound /\ SameNet(t, u) /\ SamePackets(t, u) /\ SameChoice(t, u) /\ u.loop = m
      /\ u.windows = t.windows /\ u.closing = t.closing /\ u.subject = t.subject
      /\ t \in Good => u \in Good
  BY <1>2, <1>4, LoopStays
<1>6. QED BY <1>3, <1>5

(* or taking it off at once.                                               *)
LEMMA TakenOffStays ==
  ASSUME NEW t \in Sound, NEW G \in SUBSET Objects, \A o \in G : Kind(o) # "window",
         NEW u, u = [t EXCEPT !.loop = UnregisterAll(@, G)]
  PROVE  /\ u \in Sound /\ SameNet(t, u) /\ SamePackets(t, u) /\ SameChoice(t, u)
         /\ u.windows = t.windows /\ u.closing = t.closing /\ u.subject = t.subject
         /\ t \in Good => u \in Good
<1> DEFINE m == UnregisterAll(t.loop, G)
<1>1. t.loop \in Registries /\ t \in Program
  BY SoundParts
<1>2. Harmless(t.loop, m)
  BY <1>1, UnregisterHarmless
<1>3. u = [t EXCEPT !.loop = m]
  BY <1>1 DEF Program
<1> HIDE DEF m
<1>4. QED BY <1>2, <1>3, LoopStays

(* A computer that has asked to leave goes with its cables.                *)
LEMMA DeleteComputerStays ==
  ASSUME NEW t \in Good, NEW d \in Devices, Computer(d) \in t.loop.leaving,
         NEW u, u = DeleteComputer(t, d)
  PROVE  /\ u \in Good
         /\ d \in ToSet(t.computers) =>
              /\ u.raised = t.raised /\ u.marked = t.marked /\ u.interfaces = t.interfaces
              /\ ToSet(u.computers) = ToSet(t.computers) \ {d}
<1>1. t \in Sound /\ t \in Program /\ t.computers \in Seq(Devices) /\ t.links \in Seq(AnyLink)
  BY SoundParts, ProgramParts DEF Good
<1>2. CASE d \notin ToSet(t.computers)
  <2>1. Raised(t, u)
    BY <1>1, <1>2, Raises DEF DeleteComputer
  <2>2. QED BY <1>1, <1>2, <2>1, RaisedStays
<1>3. CASE d \in ToSet(t.computers)
  <2> DEFINE D == Only(t.computers, ToSet(t.computers) \ {d})
             w == [t EXCEPT !.computers = D]
             S == {l.cable : l \in {l \in ToSet(t.links) : d \in {l.left[2], l.right[2]}}}
             G == {Cable(k) : k \in S}
             v == RemoveConnections(w, S)
             x == [v EXCEPT !.loop = UnregisterAll(@, G)]
  <2>1. D \in Seq(Devices) /\ ToSet(D) = ToSet(t.computers) \cap (ToSet(t.computers) \ {d})
    BY <1>1, OnlyElements
  <2>2. IsInjective(D)
    <3>1. IsInjective(t.computers)
      BY <1>1 DEF Sound, Net, NetOk
    <3>2. QED BY <1>1, <3>1, OnlyApart
  <2>3. ToSet(D) \subseteq ToSet(t.computers) /\ \A e \in ToSet(t.computers) : e \in ToSet(D) \/ e = d
    BY <2>1
  <2>4. EndIn(t.links, S, D)
    <3>1. ASSUME NEW l \in ToSet(t.links), l.cable \notin S
          PROVE  l.left[2] \in ToSet(D) /\ l.right[2] \in ToSet(D)
      <4>1. l.left[2] # d /\ l.right[2] # d
        BY <3>1
      <4>2. l.left[2] \in ToSet(t.computers) /\ l.right[2] \in ToSet(t.computers)
        BY <1>1 DEF Sound, Net, NetOk, Here
      <4>3. QED BY <2>3, <4>1, <4>2
    <3>2. QED BY <3>1 DEF EndIn
  <2>5. u = StopPackets(x, S)
    <3>1. w.links = t.links
      BY <1>1 DEF Program
    <3>2. u = DeleteConnectionsTo(w, d)
      BY <1>1, <1>3 DEF DeleteComputer, Program
    <3> HIDE DEF w
    <3>3. QED BY <3>1, <3>2 DEF DeleteConnectionsTo
  <2>6. G \in SUBSET Objects /\ \A o \in G : Kind(o) # "window"
    <3>1. S \subseteq Nat
      BY <1>1, LinkParts
    <3> HIDE DEF S
    <3>2. QED BY <3>1, Kinds
  <2> HIDE DEF D, S, G
  <2>7. v \in Sound /\ SameScreen(t, v) /\ v.computers = D /\ v.interfaces = t.interfaces
    <3>1. v = RemoveConnections([t EXCEPT !.computers = D], S)
      OBVIOUS
    <3>2. \A e \in ToSet(t.computers) : e \in ToSet(D) \/ Computer(e) \in t.loop.leaving
      BY <2>3
    <3> HIDE DEF v, w
    <3>3. QED BY <1>1, <2>1, <2>2, <2>3, <2>4, <3>1, <3>2, CutStays
  <2> HIDE DEF v
  <2>8. v \in Good
    BY <2>7 DEF SameScreen, Good, ViewOk
  <2>9. x \in Sound /\ x \in Good /\ SameNet(v, x) /\ SameChoice(v, x)
    BY <2>6, <2>7, <2>8, TakenOffStays
  <2> HIDE DEF x
  <2>10. /\ u \in Sound /\ SameView(x, u) /\ SameNet(x, u) /\ u.raised = x.raised
         /\ u.marked = x.marked
    BY <2>5, <2>9, StopStays
  <2>11. u \in Good
    BY <2>9, <2>10, SameIsGood
  <2>12. /\ u.raised = t.raised /\ u.marked = t.marked /\ u.interfaces = t.interfaces
         /\ u.computers = D
    BY <2>7, <2>9, <2>10 DEF SameScreen, SameChoice, SameNet
  <2>13. ToSet(D) = ToSet(t.computers) \ {d}
    BY <2>1
  <2>14. QED BY <2>11, <2>12, <2>13
<1>4. QED BY <1>2, <1>3

(* Deleting a cable takes its connection and its packets away.             *)
LEMMA DeleteCableStays ==
  ASSUME NEW t \in Good, NEW k \in Nat, NEW u, u = DeleteCable(t, k)
  PROVE  /\ u \in Good /\ u.computers = t.computers /\ u.interfaces = t.interfaces
         /\ u.subject = t.subject /\ u.raised = t.raised /\ u.marked = t.marked
         /\ \A i \in DOMAIN u.wired : i \in DOMAIN t.wired /\ t.wired[i] # k
<1> DEFINE S == {k}
           G == {Cable(k)}
           v == RemoveConnections(t, S)
           w == [v EXCEPT !.loop = RequestToLeave(@, G)]
           none == None
<1>1. t \in Sound
  BY DEF Good
<1>2. u = Select(w, none) /\ none \in Chosen \cup {None}
  BY DEF DeleteCable
<1>3. G \in SUBSET Objects /\ \A o \in G : Kind(o) # "window"
  BY Kinds
<1>4. k \in S
  OBVIOUS
<1> HIDE DEF S, G, none
<1>5. /\ v \in Sound /\ SameScreen(t, v) /\ v.computers = t.computers /\ v.interfaces = t.interfaces
      /\ \A i \in DOMAIN v.wired : i \in DOMAIN t.wired /\ t.wired[i] \notin S
  BY <1>1, RemoveStays
<1> HIDE DEF v
<1>6. v \in Good
  BY <1>5 DEF SameScreen, Good, ViewOk
<1>7. w \in Sound /\ w \in Good /\ SameNet(v, w) /\ SameChoice(v, w) /\ w.subject = v.subject
  BY <1>3, <1>5, <1>6, AskToLeaveStays
<1> HIDE DEF w
<1>8. u \in Sound /\ OnlyLooks(w, u) /\ u.raised = w.raised /\ u.marked = w.marked
  BY <1>2, <1>7, SelectStays
<1>9. u \in Good
  BY <1>2, <1>7, SelectStays DEF none
<1>10. /\ u.computers = t.computers /\ u.interfaces = t.interfaces /\ u.wired = v.wired
       /\ u.subject = t.subject /\ u.raised = t.raised /\ u.marked = t.marked
  BY <1>5, <1>7, <1>8 DEF OnlyLooks, SameNet, SameScreen, SameChoice
<1>11. QED BY <1>4, <1>5, <1>9, <1>10

(* Dropping a packet: its cable forgets it, and it is asked to leave.      *)
LEMMA DropPacketStays ==
  ASSUME NEW t \in Good, NEW k, NEW u, u = DropPacket(t, k)
  PROVE  u \in Good /\ (k \in Carried(t) => u.raised = t.raised /\ u.marked = <<>>)
<1>1. t \in Sound /\ t \in Program
  BY SoundParts DEF Good
<1>2. CASE k \notin Carried(t)
  <2>1. Raised(t, u)
    BY <1>1, <1>2, Raises DEF DropPacket
  <2>2. QED BY <1>1, <1>2, <2>1, RaisedStays
<1>3. CASE k \in Carried(t)
  <2> DEFINE none == None
             normal == "NORMAL"
             v == Select(t, none)
             w == SetMode(v, normal)
             S == {k}
  <2>1. u = StopPackets(w, S) /\ none \in Chosen \cup {None} /\ normal \in Modes
        /\ normal # "VIEW"
    BY <1>3 DEF DropPacket, Modes
  <2> HIDE DEF none, normal, S
  <2>2. v \in Sound /\ v.raised = t.raised
    BY <1>1, <2>1, SelectStays
  <2> HIDE DEF v
  <2>3. w \in Good /\ w.raised = t.raised /\ w.marked = <<>>
    BY <2>1, <2>2, SetModeStays
  <2> HIDE DEF w
  <2>4. w \in Sound
    BY <2>3 DEF Good
  <2>5. u \in Sound /\ SameView(w, u) /\ u.raised = w.raised /\ u.marked = w.marked
    BY <2>1, <2>4, StopStays
  <2>6. QED BY <2>3, <2>5, SameIsGood
<1>4. QED BY <1>2, <1>3

(* Computer.remove_interface raises for an interface it lacks or that is   *)
(* wired.                                                                  *)
LEMMA RemoveFromStays ==
  ASSUME NEW t \in Good, NEW x \in AnyInterface, NEW u, u = RemoveFromComputer(t, x)
  PROVE  /\ u \in Good /\ u.computers = t.computers /\ u.subject = t.subject
         /\ (x[3] \in t.interfaces[x[2]] /\ x \notin DOMAIN t.wired) =>
              /\ u.raised = t.raised /\ u.marked = t.marked
              /\ u.interfaces = Less(t.interfaces, x[2], x[3])
<1>1. t \in Sound /\ t \in Program /\ t.loop \in Registries
  BY SoundParts DEF Good
<1>2. CASE x[3] \notin t.interfaces[x[2]] \/ IsConnected(t, x)
  <2>1. Raised(t, u)
    BY <1>1, <1>2, Raises DEF RemoveFromComputer
  <2>2. QED BY <1>1, <1>2, <2>1, RaisedStays DEF SameWorld, IsConnected
<1>3. CASE ~(x[3] \notin t.interfaces[x[2]] \/ IsConnected(t, x))
  <2> DEFINE J == Less(t.interfaces, x[2], x[3])
             G == {x}
             m == UnregisterAll(t.loop, G)
  <2>1. u = [t EXCEPT !.interfaces = J, !.loop = m]
    BY <1>1, <1>3 DEF RemoveFromComputer, Less, Program
  <2>2. /\ t.interfaces \in [Devices -> Ports] /\ t.made \in [Devices -> Nat]
        /\ t.links \in Seq(AnyLink) /\ t.wired \in Wirings /\ t.cables \in Nat
    BY <1>1, ProgramParts
  <2>3. NetOk(t.computers, t.interfaces, t.made, t.links, t.wired, t.cables) /\ x \notin DOMAIN t.wired
    BY <1>1, <1>3 DEF Sound, Net, IsConnected
  <2>4. G \in SUBSET Objects /\ \A o \in G : Kind(o) # "window"
    BY InterfaceParts
  <2>5. J = Less(t.interfaces, x[2], x[3])
    OBVIOUS
  <2> HIDE DEF J, G
  <2>6. NetOk(t.computers, J, t.made, t.links, t.wired, t.cables) /\ J \in [Devices -> Ports]
    BY <2>2, <2>3, <2>5, NetRemove
  <2>7. Harmless(t.loop, m) /\ m \in AnyRegistry
    <3>1. Harmless(t.loop, m)
      BY <1>1, <2>4, UnregisterHarmless
    <3>2. QED BY <3>1 DEF Harmless, Registries
  <2> HIDE DEF m
  <2>8. u \in Program
    <3> DEFINE v == [t EXCEPT !.interfaces = J]
    <3>1. v \in Program
      BY <1>1, <2>6 DEF Program
    <3>2. u = [v EXCEPT !.loop = m]
      BY <2>1
    <3> HIDE DEF v
    <3>3. QED BY <2>7, <3>1, <3>2, WithLoop
  <2>9. /\ u.interfaces = J /\ u.loop = m /\ u.computers = t.computers /\ u.made = t.made
        /\ u.links = t.links /\ u.wired = t.wired /\ u.cables = t.cables
        /\ SamePackets(t, u) /\ SameView(t, u) /\ u.raised = t.raised /\ u.marked = t.marked
    BY <1>1, <2>1 DEF Program, SamePackets, SameView
  <2>10. SameWindows(t, u)
    BY <1>1, <2>1 DEF Program, SameWindows
  <2>11. Net(u)
    BY <2>6, <2>9 DEF Net
  <2>12. u \in Sound
    BY <1>1, <2>7, <2>8, <2>9, <2>10, <2>11, SoundAfter
  <2>13. QED BY <2>5, <2>9, <2>10, <2>12, SameIsGood DEF SameWindows
<1>4. QED BY <1>2, <1>3

(* Removing an interface cuts its cable first, so that it is free.         *)
LEMMA RemoveInterfaceStays ==
  ASSUME NEW t \in Good, NEW x \in AnyInterface, NEW u, u = RemoveInterface(t, x)
  PROVE  /\ u \in Good /\ u.subject = t.subject /\ u.computers = t.computers
         /\ x[3] \in t.interfaces[x[2]] =>
              /\ u.raised = t.raised /\ u.marked = t.marked
              /\ u.interfaces = Less(t.interfaces, x[2], x[3])
<1> DEFINE v == IF IsConnected(t, x) THEN DeleteCable(t, t.wired[x]) ELSE t
<1>1. /\ v \in Good /\ v.subject = t.subject /\ v.computers = t.computers
      /\ v.raised = t.raised /\ v.marked = t.marked /\ v.interfaces = t.interfaces
      /\ x \notin DOMAIN v.wired
  <2>1. CASE IsConnected(t, x)
    <3>1. t.wired[x] \in Nat
      BY <2>1, SoundParts, ProgramParts, WiringParts DEF Good, IsConnected
    <3> DEFINE k == t.wired[x]
    <3>2. k \in Nat /\ v = DeleteCable(t, k)
      BY <2>1, <3>1
    <3> HIDE DEF v, k
    <3>3. /\ v \in Good /\ v.subject = t.subject /\ v.computers = t.computers
          /\ v.raised = t.raised /\ v.marked = t.marked /\ v.interfaces = t.interfaces
          /\ \A i \in DOMAIN v.wired : i \in DOMAIN t.wired /\ t.wired[i] # k
      BY <3>2, DeleteCableStays
    <3>4. QED BY <3>3 DEF k
  <2>2. CASE ~IsConnected(t, x)
    BY <2>2 DEF IsConnected
  <2>3. QED BY <2>1, <2>2
<1>2. u = RemoveFromComputer(v, x)
  BY DEF RemoveInterface
<1> HIDE DEF v
<1>3. QED BY <1>1, <1>2, RemoveFromStays

(* Of computers and interfaces, those exist that are there.                *)
LEMMA ExistsHere ==
  ASSUME NEW t \in Sound
  PROVE  /\ \A d : Exists(t, Computer(d)) <=> d \in ToSet(t.computers)
         /\ \A i \in AnyInterface : Exists(t, i) <=> Here(t.computers, t.interfaces, i)
<1>1. \A d : Kind(Computer(d)) = "computer" /\ Computer(d)[2] = d
  BY DEF Kind, Computer
<1>2. \A d : Exists(t, Computer(d)) <=> d \in ToSet(t.computers)
  BY <1>1 DEF Exists
<1>3. \A i \in AnyInterface : Kind(i) = "interface"
  BY InterfaceParts
<1>4. \A i \in AnyInterface : Exists(t, i) <=> i \in AllInterfaces(t)
  BY <1>3 DEF Exists
<1>5. QED BY <1>2, <1>4, InterfacesHere

(* And takes it off the screen.                                            *)
LEMMA DeleteInterfaceStays ==
  ASSUME NEW t \in Good, NEW x \in AnyInterface, NEW u, u = DeleteInterface(t, x)
  PROVE  /\ u \in Good
         /\ Exists(t, x) =>
              /\ u.raised = t.raised /\ u.marked = t.marked /\ u.computers = t.computers
              /\ u.interfaces = Less(t.interfaces, x[2], x[3])
<1>1. t \in Sound /\ t \in Program
  BY SoundParts DEF Good
<1>2. CASE ~Exists(t, x)
  <2>1. Raised(t, u)
    BY <1>1, <1>2, Raises DEF DeleteInterface
  <2>2. QED BY <1>1, <1>2, <2>1, RaisedStays
<1>3. CASE Exists(t, x)
  <2>1. u = RemoveInterface(t, x)
    BY <1>3 DEF DeleteInterface
  <2>2. Here(t.computers, t.interfaces, x)
    BY <1>1, <1>3, ExistsHere
  <2>3. x[3] \in t.interfaces[x[2]]
    BY <2>2 DEF Here
  <2>4. QED BY <2>1, <2>3, RemoveInterfaceStays
<1>4. QED BY <1>2, <1>3

(* What can be selected is a computer, an interface, a cable or a packet.  *)
LEMMA ChosenKinds ==
  ASSUME NEW o \in Chosen
  PROVE  /\ o \in Objects /\ Kind(o) # "window" /\ Kind(o) # "square"
         /\ \/ Kind(o) = "computer" /\ o[2] \in Devices /\ o = Computer(o[2])
            \/ Kind(o) = "interface" /\ o \in AnyInterface
            \/ Kind(o) = "cable" /\ o[2] \in Nat
            \/ Kind(o) = "packet" /\ o[2] \in Nat
BY ObjectKinds DEF Chosen, Selectables

(* Deleting p raises no exception; deleting o leaves it so for what does   *)
(* not go with o, or unmarks everything.                                   *)
Deletable(t, p) == Kind(p) = "cable" \/ Exists(t, p)
Spares(t, o, u) ==
  \/ u.marked = <<>>
  \/ /\ u.marked = t.marked
     /\ \A p \in Chosen : (p # o /\ ~GoesWith(p, o) /\ Deletable(t, p)) => Deletable(u, p)

(* What a deletion has to keep of the network to spare the others.         *)
LEMMA SparesOthers ==
  ASSUME NEW t \in Sound, NEW u \in Sound, NEW o \in Chosen, u.marked = t.marked, Kind(o) # "packet",
         \A d \in ToSet(t.computers) : d \in ToSet(u.computers) \/ o = Computer(d),
         \A i \in AnyInterface : i[3] \in t.interfaces[i[2]] => (i[3] \in u.interfaces[i[2]] \/ i = o)
  PROVE  Spares(t, o, u)
<1>1. ASSUME NEW p \in Chosen, p # o, ~GoesWith(p, o), Deletable(t, p)
      PROVE  Deletable(u, p)
  <2>1. CASE Kind(p) = "computer"
    <3>1. p = Computer(p[2]) /\ Exists(t, p)
      BY <1>1, <2>1, ChosenKinds DEF Deletable
    <3>2. p[2] \in ToSet(t.computers)
      BY <2>1, <3>1 DEF Exists
    <3>3. p[2] \in ToSet(u.computers)
      BY <1>1, <3>1, <3>2
    <3>4. Exists(u, p)
      BY <2>1, <3>3 DEF Exists
    <3>5. QED BY <3>4 DEF Deletable
  <2>2. CASE Kind(p) = "interface"
    <3>1. p \in AnyInterface /\ Exists(t, p)
      BY <1>1, <2>2, ChosenKinds DEF Deletable
    <3>2. p[2] \in ToSet(t.computers) /\ p[3] \in t.interfaces[p[2]]
      BY <3>1, ExistsHere DEF Here
    <3>3. o # Computer(p[2])
      BY <1>1, <2>2 DEF GoesWith
    <3>4. p[2] \in ToSet(u.computers) /\ p[3] \in u.interfaces[p[2]]
      BY <1>1, <3>1, <3>2, <3>3
    <3>5. Exists(u, p)
      BY <3>1, <3>4, ExistsHere DEF Here
    <3>6. QED BY <3>5 DEF Deletable
  <2>3. CASE Kind(p) = "cable"
    BY <2>3 DEF Deletable
  <2>4. CASE Kind(p) = "packet"
    BY <1>1, <2>4 DEF GoesWith
  <2>5. QED BY <2>1, <2>2, <2>3, <2>4, ChosenKinds
<1>2. QED BY <1>1 DEF Spares

(* Deleting anything that can be selected.                                 *)
LEMMA DeleteStays ==
  ASSUME NEW t \in Good, NEW o \in Chosen
  PROVE  /\ Delete(t, o) \in Good
         /\ (t.raised = None /\ Deletable(t, o)) =>
              Delete(t, o).raised = None /\ Spares(t, o, Delete(t, o))
<1> DEFINE G == {o}
           none == None
           u == [t EXCEPT !.loop = RequestToLeave(@, G)]
           v == CASE Kind(o) = "computer" -> DeleteComputer(u, o[2])
                  [] Kind(o) = "cable" -> DeleteCable(u, o[2])
                  [] Kind(o) = "packet" -> DropPacket(u, o[2])
                  [] OTHER -> DeleteInterface(u, o)
<1>1. t \in Sound /\ t \in Program /\ o \in G /\ none \in Chosen \cup {None}
  BY SoundParts DEF Good
<1>2. G \in SUBSET Objects /\ \A p \in G : Kind(p) # "window"
  BY ChosenKinds
<1>3. Delete(t, o) = IF v.raised # None THEN v ELSE Select(v, none)
  BY DEF Delete, Then
<1> HIDE DEF G, none
<1>4. /\ u \in Good /\ G \subseteq u.loop.leaving
      /\ SameNet(t, u) /\ SamePackets(t, u) /\ u.raised = t.raised /\ u.marked = t.marked
  <2>1. u \in Good /\ SameNet(t, u) /\ SamePackets(t, u) /\ SameChoice(t, u)
    BY <1>1, <1>2, AskToLeaveStays
  <2>2. u.loop = RequestToLeave(t.loop, G) /\ t.loop \in Registries
    BY <1>1, SoundParts DEF Program
  <2> HIDE DEF u
  <2>3. u.loop.leaving = t.loop.leaving \cup G
    BY <1>2, <2>2, RequestMakes
  <2>4. QED BY <2>1, <2>3 DEF SameChoice
<1> HIDE DEF u
<1>5. Deletable(t, o) => Deletable(u, o)
  BY <1>4, SameExists DEF Deletable
<1>6. u \in Sound
  BY <1>4 DEF Good
<1>7. \A x \in Sound : Spares(u, o, x) => Spares(t, o, x)
  <2>1. \A p : Deletable(t, p) => Deletable(u, p)
    BY <1>4, SameExists DEF Deletable
  <2>2. QED BY <1>4, <2>1 DEF Spares
<1>8. v \in Good /\ (Deletable(t, o) => v.raised = t.raised /\ Spares(u, o, v))
  <2>1. CASE Kind(o) = "computer"
    <3>1. o[2] \in Devices /\ Computer(o[2]) \in u.loop.leaving
      BY <1>1, <1>4, <2>1, ChosenKinds
    <3>2. v = DeleteComputer(u, o[2])
      BY <2>1
    <3> DEFINE d == o[2]
    <3>3. d \in Devices /\ Computer(d) \in u.loop.leaving /\ v = DeleteComputer(u, d) /\ o = Computer(d)
      BY <2>1, <3>1, <3>2, ChosenKinds
    <3> HIDE DEF v, d
    <3>4. /\ v \in Good
          /\ d \in ToSet(u.computers) =>
               /\ v.raised = u.raised /\ v.marked = u.marked /\ v.interfaces = u.interfaces
               /\ ToSet(v.computers) = ToSet(u.computers) \ {d}
      BY <1>4, <3>3, DeleteComputerStays
    <3>5. ASSUME Deletable(t, o) PROVE v.raised = t.raised /\ Spares(u, o, v)
      <4>1. d \in ToSet(u.computers)
        BY <1>5, <2>1, <3>5 DEF Deletable, Exists, d
      <4>2. v \in Sound /\ Kind(o) # "packet"
        BY <2>1, <3>4 DEF Good
      <4>3. /\ \A e \in ToSet(u.computers) : e \in ToSet(v.computers) \/ o = Computer(e)
            /\ v.interfaces = u.interfaces /\ v.marked = u.marked /\ v.raised = u.raised
        BY <3>3, <3>4, <4>1
      <4>4. Spares(u, o, v)
        BY <1>6, <4>2, <4>3, SparesOthers
      <4>5. QED BY <1>4, <4>3, <4>4
    <3>6. QED BY <3>4, <3>5
  <2>2. CASE Kind(o) = "cable"
    <3> DEFINE k == o[2]
    <3>1. k \in Nat /\ v = DeleteCable(u, k)
      BY <2>2, ChosenKinds
    <3> HIDE DEF v, k
    <3>2. /\ v \in Good /\ v.computers = u.computers /\ v.interfaces = u.interfaces
          /\ v.raised = u.raised /\ v.marked = u.marked
      BY <1>4, <3>1, DeleteCableStays
    <3>3. v \in Sound /\ Kind(o) # "packet"
      BY <2>2, <3>2 DEF Good
    <3>4. Spares(u, o, v)
      BY <1>6, <3>2, <3>3, SparesOthers
    <3>5. QED BY <1>4, <3>2, <3>4
  <2>3. CASE Kind(o) = "packet"
    <3> DEFINE k == o[2]
    <3>1. v = DropPacket(u, k)
      BY <2>3
    <3> HIDE DEF v, k
    <3>2. v \in Good /\ (k \in Carried(u) => v.raised = u.raised /\ v.marked = <<>>)
      BY <1>4, <3>1, DropPacketStays
    <3>3. Deletable(t, o) => k \in Carried(u)
      BY <1>5, <2>3 DEF Deletable, Exists, k
    <3>4. QED BY <1>4, <3>2, <3>3 DEF Spares
  <2>4. CASE Kind(o) = "interface"
    <3>1. v = DeleteInterface(u, o) /\ o \in AnyInterface
      BY <2>4, ChosenKinds
    <3> HIDE DEF v
    <3>2. /\ v \in Good
          /\ Exists(u, o) =>
               /\ v.raised = u.raised /\ v.marked = u.marked /\ v.computers = u.computers
               /\ v.interfaces = Less(u.interfaces, o[2], o[3])
      BY <1>4, <3>1, DeleteInterfaceStays
    <3>3. ASSUME Deletable(t, o) PROVE v.raised = t.raised /\ Spares(u, o, v)
      <4>1. Exists(u, o)
        BY <1>5, <2>4, <3>3 DEF Deletable
      <4>2. v \in Sound /\ Kind(o) # "packet"
        BY <2>4, <3>2 DEF Good
      <4>3. u.interfaces \in [Devices -> Ports]
        BY <1>6, SoundParts, ProgramParts
      <4>4. ASSUME NEW i \in AnyInterface, i[3] \in u.interfaces[i[2]]
            PROVE  i[3] \in v.interfaces[i[2]] \/ i = o
        <5>1. i[2] \in Devices /\ o[2] \in Devices
          BY <3>1, InterfaceParts
        <5>2. CASE i[2] = o[2] /\ i[3] = o[3]
          BY <3>1, <5>2, InterfaceParts
        <5>3. CASE ~(i[2] = o[2] /\ i[3] = o[3])
          BY <3>2, <4>1, <4>3, <4>4, <5>1, <5>3 DEF Less
        <5>4. QED BY <5>2, <5>3
      <4>5. v.computers = u.computers /\ v.marked = u.marked /\ v.raised = u.raised
        BY <3>2, <4>1
      <4>6. Spares(u, o, v)
        BY <1>6, <4>2, <4>4, <4>5, SparesOthers
      <4>7. QED BY <1>4, <4>5, <4>6
    <3>4. QED BY <3>2, <3>3
  <2>5. QED BY <2>1, <2>2, <2>3, <2>4, ChosenKinds
<1> HIDE DEF v
<1>9. v \in Sound
  BY <1>8 DEF Good
<1> DEFINE x == Select(v, none)
<1>10. /\ x \in Sound /\ OnlyLooks(v, x) /\ x.raised = v.raised /\ x.marked = v.marked
      /\ x \in Good
  BY <1>1, <1>8, <1>9, SelectStays DEF none
<1> HIDE DEF x
<1>11. Spares(u, o, v) => Spares(u, o, x)
  <2>1. \A p : Exists(v, p) => Exists(x, p)
    BY <1>10, SameExists DEF OnlyLooks
  <2>2. QED BY <1>10, <2>1 DEF Spares, Deletable
<1>12. Delete(t, o) \in Good
  BY <1>3, <1>8, <1>10 DEF x
<1>13. ASSUME t.raised = None, Deletable(t, o)
       PROVE  Delete(t, o).raised = None /\ Spares(t, o, Delete(t, o))
  <2>1. Delete(t, o) = x
    BY <1>3, <1>8, <1>13 DEF x
  <2>2. Spares(t, o, x)
    BY <1>8, <1>10, <1>7, <1>11, <1>13
  <2>3. QED BY <1>8, <1>10, <1>13, <2>1, <2>2
<1>14. QED BY <1>12, <1>13

UnlessRaised(t, o) == IF t.marked = <<>> THEN t ELSE Then(t, LAMBDA v : Delete(v, o))

(* What is marked exists, and nothing of it goes with another.             *)
MarkedApart(t) ==
  /\ \A o \in ToSet(t.marked) : Exists(t, o)
  /\ \A o, p \in ToSet(t.marked) : ~GoesWith(p, o)

(* From the i-th on, the objects of q can still be deleted.                *)
StillDeletable(u, q, i) ==
  /\ u.raised = None
  /\ u.marked = <<>> \/ (u.marked = q /\ \A j \in (i+1)..Len(q) : Deletable(u, q[j]))

(* Deleting one marked object leaves those after it as they were.          *)
LEMMA OneMarkedLess ==
  ASSUME NEW u \in Good, NEW q \in Markable, NEW i \in 1..Len(q), StillDeletable(u, q, i - 1),
         \A o, p \in ToSet(q) : ~GoesWith(p, o), NEW v, v = UnlessRaised(u, q[i])
  PROVE  StillDeletable(v, q, i)
<1>1. q \in Seq(Chosen) /\ IsInjective(q) /\ i \in Nat /\ Len(q) \in Nat /\ q[i] \in Chosen
  BY DEF Markable
<1>2. CASE u.marked = <<>>
  BY <1>2 DEF UnlessRaised, StillDeletable
<1>3. CASE u.marked # <<>>
  <2> DEFINE o == q[i]
  <2>1. u.raised = None /\ u.marked = q /\ \A j \in ((i-1)+1)..Len(q) : Deletable(u, q[j])
    BY <1>3 DEF StillDeletable
  <2>2. v = Delete(u, o)
    BY <1>3, <2>1 DEF UnlessRaised, Then
  <2>3. Deletable(u, o) /\ o \in Chosen
    BY <1>1, <2>1
  <2>4. \A j \in (i+1)..Len(q) : q[j] \in Chosen /\ q[j] # o /\ ~GoesWith(q[j], o) /\ Deletable(u, q[j])
    <3> SUFFICES ASSUME NEW j \in (i+1)..Len(q)
                 PROVE  q[j] \in Chosen /\ q[j] # o /\ ~GoesWith(q[j], o) /\ Deletable(u, q[j])
      OBVIOUS
    <3>1. j \in 1..Len(q) /\ j # i /\ j \in ((i-1)+1)..Len(q)
      BY <1>1
    <3>2. q[j] \in ToSet(q) /\ o \in ToSet(q) /\ q[j] \in Chosen
      BY <1>1, <3>1, ElementsByPlace
    <3>3. q[j] # o
      BY <1>1, <3>1 DEF IsInjective
    <3>4. QED BY <2>1, <3>1, <3>2, <3>3
  <2> HIDE DEF o
  <2>5. v.raised = None /\ Spares(u, o, v)
    BY <2>1, <2>2, <2>3, DeleteStays
  <2>6. QED BY <2>1, <2>4, <2>5 DEF Spares, StillDeletable
<1>4. QED BY <1>2, <1>3

(* Deleting the marked ones, one after the other: some may be gone with an *)
(* earlier one.                                                            *)
LEMMA DeleteMarkedStays ==
  ASSUME NEW t \in Good
  PROVE  /\ DeleteMarked(t) \in Good
         /\ (t.raised = None /\ MarkedApart(t)) => DeleteMarked(t).raised = None
<1> DEFINE A == Good
           B == Chosen
           q == t.marked
           base == t
           f == [x \in A \X B |-> UnlessRaised(x[1], x[2])]
           Steps(it) == [p \in SUBSET (DOMAIN q) |->
                           IF p = {} THEN base ELSE UnlessRaised(it[p \ {Max(p)}], q[Max(p)])]
           Iter == CHOOSE it : it = Steps(it)
           end == Iter[DOMAIN q]
           empty == <<>>
<1>1. q \in Seq(B) /\ base \in A
  BY SoundParts, ProgramParts DEF Good, Markable
<1>2. f \in [A \X B -> A] /\ \A u \in A, o \in B : f[<<u, o>>] = UnlessRaised(u, o)
  BY DeleteStays DEF UnlessRaised, Then
<1>3. DeleteMarked(t) = [end EXCEPT !.marked = empty] /\ empty \in Markable
  BY NothingMarked DEF DeleteMarked, UnlessRaised, FoldLeft, MapThenFoldSet
<1> HIDE DEF f, base, q, A, B, empty
<1>4. PICK it \in [SUBSET (DOMAIN q) -> A] : IsFold(it, f, base, q)
  BY <1>1, <1>2, FoldExists
<1>5. \A p \in SUBSET (DOMAIN q) : p # {} =>
        q[Max(p)] \in B /\ p \ {Max(p)} \in SUBSET (DOMAIN q)
  BY <1>1, InitialIntervals
<1>6. \A p \in SUBSET (DOMAIN q) :
        it[p] = IF p = {} THEN base ELSE UnlessRaised(it[p \ {Max(p)}], q[Max(p)])
  BY <1>2, <1>4, <1>5 DEF IsFold
<1>7. it = Steps(it)
  BY <1>6
<1>8. Iter = Steps(Iter)
  BY <1>7
<1> HIDE DEF Iter
<1>9. Iter[{}] = base
  BY <1>8
<1>10. \A p \in SUBSET (DOMAIN q) : (p # {} /\ Iter[p \ {Max(p)}] \in A) =>
          Iter[p] = f[<<Iter[p \ {Max(p)}], q[Max(p)]>>]
  BY ZenonT(60), <1>2, <1>5, <1>8
<1>11. PICK g \in [0..Len(q) -> A] : FoldedBy(g, f, base, q, end)
  BY <1>1, <1>2, <1>9, <1>10, FoldHistory
<1>12. Len(q) \in 0..Len(q)
  BY <1>1
<1>13. end \in A
  BY <1>11, <1>12 DEF FoldedBy
<1> HIDE DEF end
<1>14. end \in Good /\ end \in Sound /\ end \in Program
  BY <1>13, SoundParts DEF A, Good
<1> DEFINE u == [end EXCEPT !.marked = empty]
<1>15. u \in Program
  BY <1>3, <1>14 DEF Program
<1>16. SameWorld(end, u) /\ SameView(end, u) /\ u.raised = end.raised
  BY <1>14 DEF Program, SameWorld, SameView
<1>17. u \in Sound
  BY <1>14, <1>15, <1>16, SameIsSound
<1>18. u \in Good
  BY <1>14, <1>16, <1>17, SameIsGood
<1>19. ASSUME t.raised = None, MarkedApart(t) PROVE end.raised = None
  <2> DEFINE n == Len(q)
             G == {i \in 0..n : StillDeletable(g[i], q, i)}
  <2>1. q \in Markable /\ n \in Nat /\ \A o, p \in ToSet(q) : ~GoesWith(p, o)
    BY <1>19, SoundParts, ProgramParts DEF Good, q, MarkedApart, Markable
  <2>2. \A i \in 1..n : g[i-1] \in Good /\ g[i] = UnlessRaised(g[i-1], q[i])
    <3>1. \A i \in 1..n : g[i-1] \in A /\ q[i] \in B
      BY <1>1, <1>11
    <3>2. QED BY <1>2, <1>11, <3>1 DEF FoldedBy, A
  <2>3. g[0] = t /\ g[n] = end
    BY <1>11 DEF FoldedBy, base
  <2>4. 0 \in G
    <3>1. \A j \in (0+1)..n : Deletable(t, q[j])
      <4>1. \A j \in 1..n : q[j] \in ToSet(q)
        BY <1>1, ElementsByPlace
      <4>2. QED BY <1>19, <4>1 DEF MarkedApart, Deletable, q
    <3>2. StillDeletable(t, q, 0)
      BY <1>19, <3>1 DEF StillDeletable, q
    <3>3. QED BY <2>1, <2>3, <3>2
  <2>5. \A i \in 1..n : i - 1 \in G => i \in G
    <3> SUFFICES ASSUME NEW i \in 1..n, i - 1 \in G PROVE i \in G
      OBVIOUS
    <3> DEFINE v == g[i]
               w == g[i-1]
    <3>1. w \in Good /\ v = UnlessRaised(w, q[i]) /\ StillDeletable(w, q, i - 1) /\ i \in 0..n
      BY <2>1, <2>2
    <3> HIDE DEF v, w
    <3>2. i \in 1..Len(q)
      OBVIOUS
    <3>3. StillDeletable(v, q, i)
      BY <2>1, <3>1, <3>2, OneMarkedLess
    <3>4. QED BY <3>1, <3>3 DEF v
  <2> HIDE DEF G
  <2>6. \A i \in 0..n : i \in G
    BY <2>1, <2>4, <2>5, Induction
  <2>7. n \in 0..n
    BY <2>1
  <2>8. QED BY <2>3, <2>6, <2>7 DEF G, StillDeletable
<1>20. QED BY <1>3, <1>16, <1>18, <1>19

(* The delete key.                                                         *)
LEMMA DeleteKeyStays ==
  ASSUME NEW t \in Good
  PROVE  /\ DeleteSelectedAndMarked(t) \in Good
         /\ (/\ t.raised = None /\ MarkedApart(t)
             /\ t.selected # None => Exists(t, t.selected)) =>
               DeleteSelectedAndMarked(t).raised = None
<1> DEFINE normal == "NORMAL"
           a == Delete(t, t.selected)
           b == IF a.raised # None THEN a ELSE SetMode(a, normal)
           c == IF t.selected = None THEN t ELSE b
           fine == /\ t.raised = None /\ MarkedApart(t)
                   /\ t.selected # None => Exists(t, t.selected)
<1>1. DeleteSelectedAndMarked(t) = IF c.raised # None THEN c ELSE DeleteMarked(c)
  BY DEF DeleteSelectedAndMarked, Then
<1>2. normal \in Modes /\ normal # "VIEW"
  BY DEF Modes
<1> HIDE DEF normal
<1>3. c \in Good /\ (fine => c.raised = None /\ MarkedApart(c))
  <2>1. CASE t.selected = None
    BY <2>1
  <2>2. CASE t.selected # None
    <3>1. t.selected \in Chosen
      BY <2>2, SoundParts, ProgramParts DEF Good
    <3>2. a \in Good /\ a \in Sound /\ (fine => a.raised = None)
      BY <2>2, <3>1, DeleteStays DEF Good, Deletable
    <3> HIDE DEF a
    <3> DEFINE x == SetMode(a, normal)
    <3>3. x \in Good /\ x.raised = a.raised /\ x.marked = <<>>
      BY <1>2, <3>2, SetModeStays
    <3> HIDE DEF x
    <3>4. ToSet(<<>>) = {}
      BY DEF ToSet
    <3>5. MarkedApart(x)
      BY <3>3, <3>4 DEF MarkedApart
    <3>6. QED BY <2>2, <3>2, <3>3, <3>5 DEF x
  <2>3. QED BY <2>1, <2>2
<1> HIDE DEF c
<1>4. DeleteMarked(c) \in Good /\ (fine => DeleteMarked(c).raised = None)
  BY <1>3, DeleteMarkedStays
<1>5. QED BY <1>1, <1>3, <1>4

(* Whatever the screen was, an empty one is in order.                      *)
LEMMA DeleteAllStays ==
  ASSUME NEW t \in Good
  PROVE  /\ DeleteAll(t) \in Good /\ DeleteAll(t).computers = <<>> /\ DeleteAll(t).links = <<>>
         /\ DeleteAll(t).raised = t.raised
<1> DEFINE G == OnScreen(t)
           none == None
           normal == "NORMAL"
           empty == <<>>
           m == UnregisterAll(t.loop, G)
           w == [t EXCEPT !.loop = m]
           a == [w EXCEPT !.active = none]
           u == [a EXCEPT !.selected = none]
           F == {<<"logic", Computer(d)>> : d \in ToSet(u.computers)}
           l == RemoveFromLoop(m, F)
           v == [u EXCEPT !.loop = l, !.computers = empty, !.links = empty, !.windows = empty]
<1>1. t \in Sound /\ t \in Program /\ t.loop \in Registries /\ G \in SUBSET Objects
  BY SoundParts DEF Good
<1>2. /\ m \in Registries /\ ToSet(m.objects) = ToSet(t.loop.objects) \ G /\ m.leaving = t.loop.leaving
      /\ m.functions = t.loop.functions \ ({"draw", "move"} \X G)
  BY SMTT(60), <1>1, UnregisterMakes
<1>3. ToSet(m.objects) = {}
  BY <1>2 DEF OnScreen
<1>4. \A k \in Nat : MovesPackets(k) \in t.loop.functions => MovesPackets(k) \in m.functions
  BY <1>2 DEF MovesPackets
<1> HIDE DEF m
<1>5. m \in AnyRegistry /\ none \in Nat \cup {None} /\ none \in Chosen \cup {None}
  BY <1>2 DEF Registries
<1>6. DeleteAll(t) = SetMode(v, normal)
  BY ZenonT(60), <1>1 DEF DeleteAll, Select, Activate, Program, m
<1> HIDE DEF none
<1>7. w \in Program
  BY <1>1, <1>5, WithLoop
<1>8. u \in Program
  <2> HIDE DEF w
  <2>1. a \in Program
    BY <1>5, <1>7 DEF Program
  <2> HIDE DEF a
  <2>2. QED BY <1>5, <2>1 DEF Program
<1>9. \A k \in Nat : MovesPackets(k) \notin F
  BY DEF MovesPackets
<1> HIDE DEF F
<1>10. /\ l \in Registries /\ l.objects = m.objects /\ l.leaving = m.leaving
       /\ l.functions = m.functions \ F
  <2> DEFINE rest == m.functions \ F
  <2>1. rest \in SUBSET Functions /\ l = [m EXCEPT !.functions = rest]
    BY <1>2, RegistryParts DEF RemoveFromLoop
  <2> HIDE DEF rest
  <2>2. l \in Registries /\ l.objects = m.objects /\ l.leaving = m.leaving /\ l.functions = rest
    BY <1>2, <2>1, RegistryWith
  <2>3. QED BY <2>2 DEF rest
<1>11. l \in AnyRegistry
  BY <1>10 DEF Registries
<1>12. /\ u.interfaces = t.interfaces /\ u.made = t.made /\ u.wired = t.wired /\ u.cables = t.cables
       /\ u.sent = t.sent /\ u.carried = t.carried /\ u.closing = t.closing /\ u.buttons = t.buttons
       /\ u.subject = t.subject /\ u.active = None /\ u.raised = t.raised
  BY <1>1, <1>5 DEF Program, none
<1> HIDE DEF l, u
<1>13. empty \in Seq(Devices) /\ empty \in Seq(AnyLink) /\ empty \in Seq(Nat)
  OBVIOUS
<1> HIDE DEF empty
<1>14. v \in Program
  <2> DEFINE x == [u EXCEPT !.computers = empty, !.links = empty, !.windows = empty]
  <2>1. x \in Program
    BY <1>8, <1>13 DEF Program
  <2>2. v = [x EXCEPT !.loop = l]
    BY <1>8 DEF Program
  <2> HIDE DEF x, v
  <2>3. QED BY <1>11, <2>1, <2>2, WithLoop
<1>15. /\ v.computers = empty /\ v.links = empty /\ v.windows = empty /\ v.loop = l
       /\ v.interfaces = u.interfaces /\ v.made = u.made /\ v.wired = u.wired /\ v.cables = u.cables
       /\ v.sent = u.sent /\ v.carried = u.carried /\ v.closing = u.closing /\ v.buttons = u.buttons
       /\ v.subject = u.subject /\ v.active = u.active /\ v.raised = u.raised
  BY <1>8 DEF Program
<1> HIDE DEF v
<1>16. Net(v)
  <2>1. NetOk(t.computers, t.interfaces, t.made, t.links, t.wired, t.cables) /\ t.cables \in Nat
    BY <1>1, SoundParts DEF Sound, Net
  <2>2. NetOk(empty, t.interfaces, t.made, empty, t.wired, t.cables)
    BY <2>1, NetEmpty DEF empty
  <2>3. QED BY <1>12, <1>15, <2>2 DEF Net
<1>17. \A o : ~Shown(l, o)
  <2>1. ToSet(l.objects) = {}
    BY <1>3, <1>10
  <2>2. QED BY <2>1 DEF Shown
<1>18. ScreenOk(v.computers, v.loop)
  BY <1>10, <1>15, <1>17 DEF ScreenOk, Registries
<1>19. Packets(v)
  <2>1. PacketsOk(t.loop, t.sent, t.carried, t.cables) /\ t.cables \in Nat
    BY <1>1, SoundParts DEF Sound, Packets
  <2>2. \A k \in 1..t.cables : k \in Nat
    BY <2>1
  <2>3. \A k \in 1..t.cables : MovesPackets(k) \in t.loop.functions
    BY <2>1 DEF PacketsOk, MovesPackets
  <2>4. \A k \in 1..t.cables : MovesPackets(k) \in l.functions
    BY <1>4, <1>9, <1>10, <2>2, <2>3
  <2>5. PacketsOk(l, t.sent, t.carried, t.cables)
    BY <1>17, <2>1, <2>4 DEF PacketsOk, MovesPackets
  <2>6. QED BY <1>12, <1>15, <2>5 DEF Packets
<1>20. Windows(v)
  <2>1. WindowsOk(t.loop, t.windows, t.closing, t.active, t.buttons, Len(t.subject))
    BY <1>1 DEF Sound, Windows
  <2>2. Len(t.subject) \in Nat /\ ToSet(empty) = {}
    BY <1>1, SoundParts DEF empty, ToSet
  <2>3. WindowsOk(l, empty, t.closing, None, t.buttons, Len(t.subject))
    BY <1>2, <1>10, <1>17, <2>1, <2>2 DEF WindowsOk
  <2>4. QED BY <1>12, <1>15, <2>3 DEF Windows
<1>21. v \in Sound
  BY <1>14, <1>16, <1>18, <1>19, <1>20 DEF Sound
<1>22. normal \in Modes /\ normal # "VIEW"
  BY DEF Modes
<1> HIDE DEF normal
<1>23. /\ SetMode(v, normal) \in Good /\ OnlyLooks(v, SetMode(v, normal))
       /\ SetMode(v, normal).raised = v.raised
  BY <1>21, <1>22, SetModeStays
<1>24. QED BY <1>6, <1>12, <1>15, <1>23 DEF OnlyLooks, SameNet, empty

-----------------------------------------------------------------------------
(* Popup windows.                                                          *)

RegisterPlain(l, o) == RegisterOne(l, o, FALSE, {})

(* Registering a thing without functions of its own.                       *)
LEMMA PlainMakes ==
  ASSUME NEW l \in Registries, NEW o \in Objects, NEW m, m = RegisterPlain(l, o)
  PROVE  /\ m \in Registries /\ m.leaving = l.leaving
         /\ ToSet(m.objects) = ToSet(l.objects) \cup {o}
         /\ l.functions \subseteq m.functions
<1> DEFINE no == FALSE
           others == {}
<1>1. no \in BOOLEAN /\ others \in SUBSET Functions
  OBVIOUS
<1>2. m = RegisterOne(l, o, no, others)
  BY DEF RegisterPlain
<1> HIDE DEF no, others
<1>3. QED BY <1>1, <1>2, RegisterOneMakes

(* A new window is open, active and on the screen.                         *)
LEMMA RegisterWindowStays ==
  ASSUME NEW t \in Good, NEW subject \in Subjects, NEW u, u = RegisterWindow(t, subject)
  PROVE  /\ u \in Good /\ u.computers = t.computers /\ Len(u.subject) = Len(t.subject) + 1
         /\ u.raised = t.raised
<1> DEFINE n == Len(t.subject)
           k == n + 1
           A == Append(t.subject, subject)
           B == Append(t.windows, k)
           C == Append(t.buttons, k)
           m == RegisterPlain(t.loop, Window(k))
           v == [t EXCEPT !.subject = A, !.windows = B, !.buttons = C, !.loop = m]
<1>1. t \in Sound /\ t \in Program /\ t.loop \in Registries /\ n \in Nat /\ k \in Nat
  BY SoundParts DEF Good
<1>2. t.subject \in Seq(Subjects) /\ t.windows \in Seq(Nat) /\ t.buttons \in Seq(Nat)
  BY <1>1, ProgramParts
<1>3. WindowsOk(t.loop, t.windows, t.closing, t.active, t.buttons, n)
  BY <1>1 DEF Sound, Windows
<1>4. A \in Seq(Subjects) /\ Len(A) = k
  BY <1>2
<1>5. B \in Seq(Nat) /\ ToSet(B) = ToSet(t.windows) \cup {k}
  BY <1>1, <1>2, OneMore
<1>6. C \in Seq(Nat) /\ ToSet(C) = ToSet(t.buttons) \cup {k}
  BY <1>1, <1>2, OneMore
<1>7. u = Activate(v, k)
  BY <1>1 DEF RegisterWindow, RegisterPlain, Program
<1>8. k = n + 1 /\ 1..n \subseteq 1..k /\ k \in 1..k /\ k \notin 1..n
  BY <1>1
<1> HIDE DEF n, k, A, B, C
<1>9. /\ m \in Registries /\ m.leaving = t.loop.leaving
      /\ ToSet(m.objects) = ToSet(t.loop.objects) \cup {Window(k)}
      /\ t.loop.functions \subseteq m.functions
  <2> DEFINE o == Window(k)
  <2>1. t.loop \in Registries /\ o \in Objects /\ m = RegisterPlain(t.loop, o)
    BY <1>1, Kinds
  <2> HIDE DEF m, v, o
  <2>2. /\ m \in Registries /\ m.leaving = t.loop.leaving
        /\ ToSet(m.objects) = ToSet(t.loop.objects) \cup {o}
        /\ t.loop.functions \subseteq m.functions
    BY <2>1, PlainMakes
  <2>3. QED BY <2>2 DEF o
<1> HIDE DEF m
<1>10. m \in AnyRegistry
  BY <1>9 DEF Registries
<1>11. v \in Program
  <2> DEFINE x == [t EXCEPT !.subject = A, !.windows = B, !.buttons = C]
  <2>1. x \in Program
    BY <1>1, <1>4, <1>5, <1>6 DEF Program
  <2>2. v = [x EXCEPT !.loop = m]
    BY <1>1 DEF Program
  <2> HIDE DEF x, v
  <2>3. QED BY <1>10, <2>1, <2>2, WithLoop
<1>12. /\ SameNet(t, v) /\ SamePackets(t, v) /\ v.subject = A /\ v.windows = B /\ v.buttons = C
       /\ v.loop = m /\ v.closing = t.closing /\ v.active = t.active /\ SameView(t, v)
  BY <1>1 DEF Program, SameNet, SamePackets, SameView
<1> HIDE DEF v
<1>13. \A o \in Objects : Kind(o) # "window" => (Shown(m, o) <=> Shown(t.loop, o))
  BY <1>1, <1>9, Kinds DEF Shown
<1>14. Net(v) /\ ScreenOk(v.computers, v.loop)
  <2>1. Net(v)
    BY <1>1, <1>12 DEF Sound, Net, SameNet
  <2>2. ScreenOk(t.computers, m)
    BY <1>1, <1>9, <1>13, Kinds DEF Sound, ScreenOk, Registries
  <2>3. QED BY <1>12, <2>1, <2>2 DEF SameNet
<1>15. Packets(v)
  <2>1. PacketsOk(t.loop, t.sent, t.carried, t.cables)
    BY <1>1 DEF Sound, Packets
  <2>2. PacketsOk(m, t.sent, t.carried, t.cables)
    BY <1>9, <1>13, <2>1, Kinds DEF PacketsOk
  <2>3. QED BY <1>12, <2>2 DEF Packets, SameNet, SamePackets
<1>16. \A w \in Nat : Shown(m, Window(w)) <=> (Shown(t.loop, Window(w)) \/ w = k)
  BY <1>1, <1>9, Kinds DEF Shown
<1>17. Windows(v)
  <2>1. ToSet(B) \subseteq 1..k /\ t.closing \subseteq 1..k /\ ToSet(C) \subseteq 1..k
    BY <1>3, <1>5, <1>6, <1>8 DEF WindowsOk
  <2>2. t.active \in ToSet(B) \cup {None}
    BY <1>3, <1>5 DEF WindowsOk
  <2>3. \A w \in ToSet(B) : w \in Nat
    BY <1>5, ElementsByPlace
  <2>4. \A w \in ToSet(B) \ t.closing : Shown(m, Window(w))
    BY <1>3, <1>5, <1>16, <2>3 DEF WindowsOk
  <2>5. \A w \in Nat : Shown(m, Window(w)) => w \in ToSet(B)
    BY <1>3, <1>5, <1>16 DEF WindowsOk
  <2>6. \A w \in Nat : Window(w) \in m.leaving => w \in t.closing
    BY <1>3, <1>9 DEF WindowsOk
  <2>7. \A w \in t.closing : Shown(m, Window(w)) => Window(w) \in m.leaving
    <3>1. \A w \in t.closing : w \in Nat /\ w # k
      BY <1>1, <1>3, <1>8 DEF WindowsOk
    <3>2. QED BY <1>3, <1>9, <1>16, <3>1 DEF WindowsOk
  <2>8. ToSet(B) \subseteq ToSet(C)
    BY <1>3, <1>5, <1>6 DEF WindowsOk
  <2>9. WindowsOk(m, B, t.closing, t.active, C, k)
    BY <2>1, <2>2, <2>4, <2>5, <2>6, <2>7, <2>8 DEF WindowsOk
  <2>10. QED BY <1>4, <1>12, <2>9 DEF Windows
<1>18. v \in Sound
  BY <1>11, <1>14, <1>15, <1>17 DEF Sound
<1>19. v \in Good
  BY <1>12, <1>18, SameIsGood
<1>20. k \in ToSet(v.windows) \cup {None} /\ Shown(v.loop, Window(k))
  BY <1>1, <1>5, <1>12, <1>16
<1>21. u \in Sound /\ SameNet(v, u) /\ SameView(v, u) /\ u.subject = v.subject
  BY <1>7, <1>18, <1>20, ActivateStays
<1>22. u \in Good
  BY <1>19, <1>21, SameIsGood
<1>23. Len(u.subject) = Len(t.subject) + 1
  BY <1>4, <1>12, <1>21 DEF k, n
<1>24. QED BY <1>12, <1>21, <1>22, <1>23 DEF SameNet, SameView

(* The error window, and the windows that ask.                             *)
LEMMA PopupStays ==
  ASSUME NEW t \in Good
  PROVE  /\ PopupError(t) \in Good /\ PopupError(t).computers = t.computers
         /\ Len(PopupError(t).subject) = Len(t.subject) + 1
         /\ PopupError(t).raised = t.raised
         /\ \A d \in Devices, does \in {"name", "interface"} :
              AskUserFor(t, does, d) \in Good /\ AskUserFor(t, does, d).raised = t.raised
<1> DEFINE error == [does |-> "error", to |-> None]
<1>1. error \in Subjects
  BY DEF Subjects
<1>2. PopupError(t) = RegisterWindow(t, error)
  BY DEF PopupError
<1> HIDE DEF error
<1>3. /\ PopupError(t) \in Good /\ PopupError(t).computers = t.computers
      /\ Len(PopupError(t).subject) = Len(t.subject) + 1
      /\ PopupError(t).raised = t.raised
  BY <1>1, <1>2, RegisterWindowStays
<1>4. ASSUME NEW d \in Devices, NEW does \in {"name", "interface"}
      PROVE  AskUserFor(t, does, d) \in Good /\ AskUserFor(t, does, d).raised = t.raised
  <2> DEFINE ask == [does |-> does, to |-> d]
  <2>1. ask \in Subjects
    BY DEF Subjects
  <2>2. AskUserFor(t, does, d) = RegisterWindow(t, ask)
    BY DEF AskUserFor
  <2> HIDE DEF ask
  <2>3. QED BY <2>1, <2>2, RegisterWindowStays
<1>5. QED BY <1>3, <1>4

(* A window that is closed asks to leave, and is unregistered in the next  *)
(* frame.                                                                  *)
LEMMA CloseWindowStays ==
  ASSUME NEW t \in Good, NEW w \in 1..Len(t.subject), NEW u, u = CloseWindow(t, w)
  PROVE  u \in Good /\ u.raised = t.raised
<1> DEFINE G == {Window(w)}
           m == RequestToLeave(t.loop, G)
           H == t.closing \cup {w}
<1>1. t \in Sound /\ t \in Program /\ t.loop \in Registries /\ Len(t.subject) \in Nat
  BY SoundParts DEF Good
<1>2. t.closing \in SUBSET Nat /\ w \in Nat
  BY <1>1, ProgramParts
<1>3. G \in SUBSET Objects
  BY <1>2, Kinds
<1>4. u = [t EXCEPT !.closing = H, !.loop = m]
  BY <1>1 DEF CloseWindow, Program
<1>5. \A o : o \in G <=> o = Window(w)
  OBVIOUS
<1> HIDE DEF G
<1>6. /\ m \in Registries /\ m.objects = t.loop.objects /\ m.functions = t.loop.functions
      /\ m.leaving = t.loop.leaving \cup G
  BY <1>1, <1>3, RequestMakes
<1> HIDE DEF m
<1>7. m \in AnyRegistry /\ H \in SUBSET Nat
  BY <1>2, <1>6 DEF Registries
<1>8. \A k : k \in H <=> (k \in t.closing \/ k = w)
  OBVIOUS
<1> HIDE DEF H
<1>9. u \in Program
  <2> DEFINE x == [t EXCEPT !.closing = H]
  <2>1. x \in Program
    BY <1>1, <1>7 DEF Program
  <2>2. u = [x EXCEPT !.loop = m]
    BY <1>1, <1>4 DEF Program
  <2> HIDE DEF x
  <2>3. QED BY <1>7, <2>1, <2>2, WithLoop
<1>10. /\ SameNet(t, u) /\ SamePackets(t, u) /\ SameView(t, u) /\ u.loop = m /\ u.closing = H
       /\ u.windows = t.windows /\ u.active = t.active /\ u.buttons = t.buttons
       /\ u.subject = t.subject
  BY <1>1, <1>4 DEF Program, SameNet, SamePackets, SameView
<1>11. \A o : Shown(m, o) <=> Shown(t.loop, o)
  BY <1>6 DEF Shown
<1>12. Net(u) /\ ScreenOk(u.computers, u.loop) /\ Packets(u)
  <2>1. Net(u)
    BY <1>1, <1>10 DEF Sound, Net, SameNet
  <2>2. ScreenOk(t.computers, m)
    BY <1>1, <1>6, <1>11 DEF Sound, ScreenOk, Registries
  <2>3. PacketsOk(t.loop, t.sent, t.carried, t.cables)
    BY <1>1 DEF Sound, Packets
  <2>4. PacketsOk(m, t.sent, t.carried, t.cables)
    BY <1>6, <1>11, <2>3 DEF PacketsOk
  <2>5. QED BY <1>10, <2>1, <2>2, <2>4 DEF Packets, SameNet, SamePackets
<1>13. Windows(u)
  <2>1. WindowsOk(t.loop, t.windows, t.closing, t.active, t.buttons, Len(t.subject))
    BY <1>1 DEF Sound, Windows
  <2>2. H \subseteq 1..Len(t.subject)
    BY <1>8, <2>1 DEF WindowsOk
  <2>3. \A k \in Nat : Window(k) \in m.leaving <=> (Window(k) \in t.loop.leaving \/ k = w)
    BY <1>2, <1>5, <1>6, Kinds
  <2>4. H \subseteq Nat
    BY <1>7
  <2>5. WindowsOk(m, t.windows, H, t.active, t.buttons, Len(t.subject))
    BY <1>8, <1>11, <2>1, <2>2, <2>3, <2>4 DEF WindowsOk
  <2>6. QED BY <1>10, <2>5 DEF Windows
<1>14. u \in Sound
  BY <1>9, <1>12, <1>13 DEF Sound
<1>15. QED BY <1>10, <1>14, SameIsGood DEF SameView

(* The windows that have left the screen are closed.                       *)
LEMMA UnregisterWindowsStays ==
  ASSUME NEW t \in Good, \A w \in Nat : Window(w) \notin t.loop.leaving,
         NEW u, u = UnregisterWindows(t)
  PROVE  /\ u \in Good /\ u.closing = {} /\ u.loop.leaving = t.loop.leaving
         /\ u.computers = t.computers /\ u.mode = t.mode /\ u.source = t.source
         /\ u.raised = t.raised /\ OnScreen(u) = OnScreen(t)
<1> DEFINE gone == {w \in ToSet(t.windows) : w \in t.closing}
           rest == ToSet(t.windows) \ gone
           W == Only(t.windows, rest)
           R == ToSet(t.buttons) \ gone
           B == Only(t.buttons, R)
           none == {}
           a == IF t.active \in gone THEN None ELSE t.active
           v == [t EXCEPT !.windows = W, !.buttons = B, !.closing = none, !.active = a]
<1>1. t \in Sound /\ t \in Program /\ t.loop \in Registries /\ Len(t.subject) \in Nat
  BY SoundParts DEF Good
<1>2. t.windows \in Seq(Nat) /\ t.buttons \in Seq(Nat) /\ t.active \in Nat \cup {None}
  BY <1>1, ProgramParts
<1>3. WindowsOk(t.loop, t.windows, t.closing, t.active, t.buttons, Len(t.subject))
  BY <1>1 DEF Sound, Windows
<1>4. W \in Seq(Nat) /\ ToSet(W) = ToSet(t.windows) \cap rest
  BY <1>2, OnlyElements
<1>5. B \in Seq(Nat) /\ ToSet(B) = ToSet(t.buttons) \cap R
  BY <1>2, OnlyElements
<1>6. u = IF gone # {} /\ v.windows # <<>> THEN Activate(v, Head(v.windows)) ELSE v
  BY <1>1 DEF UnregisterWindows, Program
<1>7. a \in Nat \cup {None} /\ a \in ToSet(W) \cup {None}
  <2>1. t.active \in ToSet(t.windows) \cup {None}
    BY <1>3 DEF WindowsOk
  <2>2. QED BY <1>2, <1>4, <2>1
<1>8. \A w : w \in ToSet(W) <=> (w \in ToSet(t.windows) /\ w \notin t.closing)
  BY <1>4
<1>9. ToSet(B) \subseteq ToSet(t.buttons) /\ ToSet(W) \subseteq ToSet(B)
  BY <1>3, <1>4, <1>5 DEF WindowsOk
<1> HIDE DEF W, B, a
<1>10. none \in SUBSET Nat
  OBVIOUS
<1>11. v \in Program
  <2> HIDE DEF none
  <2> DEFINE x == [t EXCEPT !.windows = W, !.buttons = B, !.closing = none]
  <2>1. x \in Program
    BY <1>1, <1>4, <1>5, <1>10 DEF Program
  <2>2. v = [x EXCEPT !.active = a]
    BY <1>1 DEF Program
  <2> HIDE DEF x, v
  <2>3. QED BY ZenonT(60), <1>7, <2>1, <2>2 DEF Program
<1>12. /\ SameNet(t, v) /\ SamePackets(t, v) /\ SameView(t, v) /\ v.loop = t.loop /\ v.source = t.source
       /\ v.windows = W /\ v.buttons = B /\ v.closing = {} /\ v.active = a /\ v.subject = t.subject
  BY <1>1 DEF Program, SameNet, SamePackets, SameView
<1> HIDE DEF v
<1>13. Net(v) /\ ScreenOk(v.computers, v.loop) /\ Packets(v)
  BY <1>1, <1>12 DEF Sound, Net, Packets, SameNet, SamePackets
<1>14. Windows(v)
  <2>1. \A w \in Nat : Shown(t.loop, Window(w)) => w \in ToSet(W)
    BY <1>3, <1>8 DEF WindowsOk
  <2>2. \A w \in ToSet(W) \ {} : Shown(t.loop, Window(w))
    BY <1>3, <1>8 DEF WindowsOk
  <2>3. ToSet(W) \subseteq 1..Len(t.subject) /\ ToSet(B) \subseteq 1..Len(t.subject)
    BY <1>3, <1>8, <1>9 DEF WindowsOk
  <2>4. WindowsOk(t.loop, W, {}, a, B, Len(t.subject))
    BY <1>7, <1>9, <2>1, <2>2, <2>3 DEF WindowsOk
  <2>5. QED BY <1>12, <2>4 DEF Windows
<1>15. v \in Sound
  BY <1>11, <1>13, <1>14 DEF Sound
<1>16. v \in Good
  BY <1>12, <1>15, SameIsGood
<1>17. CASE u = v
  BY <1>12, <1>16, <1>17 DEF SameNet, SameView, OnScreen
<1>18. CASE v.windows # <<>> /\ u = Activate(v, Head(v.windows))
  <2> DEFINE h == Head(v.windows)
  <2>1. h \in ToSet(v.windows)
    <3>1. v.windows \in Seq(Nat) /\ v.windows # <<>>
      BY <1>4, <1>12, <1>18
    <3>2. 1 \in 1..Len(v.windows) /\ h = v.windows[1]
      BY <3>1
    <3>3. QED BY <3>1, <3>2, ElementsByPlace
  <2>2. Shown(v.loop, Window(h))
    BY <1>14, <1>12, <2>1 DEF Windows, WindowsOk
  <2>3. u = Activate(v, h) /\ h \in ToSet(v.windows) \cup {None}
    BY <1>18, <2>1
  <2> HIDE DEF h
  <2>4. /\ u \in Sound /\ SameNet(v, u) /\ SameView(v, u) /\ u.source = v.source
        /\ u.loop.leaving = v.loop.leaving /\ u.closing = v.closing
        /\ ToSet(u.loop.objects) = ToSet(v.loop.objects)
    BY <1>15, <2>2, <2>3, ActivateStays
  <2>5. u \in Good
    BY <1>16, <2>4, SameIsGood
  <2>6. QED BY <1>12, <2>4, <2>5 DEF SameNet, SameView, OnScreen
<1>19. QED BY <1>6, <1>17, <1>18

(* Typing the name a computer has gives an error window, another name is   *)
(* taken.                                                                  *)
LEMMA SetNameStays ==
  ASSUME NEW t \in Good, NEW d \in Devices, NEW name \in Names, NEW u, u = SetName(t, d, name)
  PROVE  /\ u \in Good /\ (u.subject = t.subject \/ Len(u.subject) = Len(t.subject) + 1)
         /\ t.name[d] \in t.existing => u.raised = t.raised
<1>1. t \in Sound /\ t \in Program
  BY SoundParts DEF Good
<1> DEFINE N == Put(t.name, d, name)
           E == (t.existing \ {t.name[d]}) \cup {name}
<1>2. \/ Raised(t, u) /\ t.name[d] \notin t.existing
      \/ u = PopupError(t) \/ u = [t EXCEPT !.name = N, !.existing = E]
  BY <1>1, Raises DEF SetName, Put, Program
<1>3. CASE u = [t EXCEPT !.name = N, !.existing = E]
  <2>1. N \in [Devices -> AnyName] /\ E \in SUBSET AnyName
    BY <1>1, ProgramParts DEF Put, AnyName
  <2> HIDE DEF N, E
  <2>2. u \in Program
    BY ZenonT(60), <1>1, <1>3, <2>1 DEF Program
  <2>3. SameWorld(t, u) /\ SameView(t, u)
    BY <1>1, <1>3 DEF Program, SameWorld, SameView
  <2>4. u \in Sound
    BY <1>1, <2>2, <2>3, SameIsSound
  <2>5. QED BY <2>3, <2>4, SameIsGood DEF SameWorld, SameView
<1>4. QED BY <1>1, <1>2, <1>3, RaisedStays, PopupStays DEF SameWorld

(* The name a window would change is one of those the program knows.       *)
KnowsName(t, w) == t.subject[w].does = "name" => t.name[t.subject[w].to] \in t.existing

(* The window asks for an interface, and was given the name "loopback".    *)
GivenLoopback(t, w, u) == t.subject[w].does = "interface" /\ u = NameLoopback(t)

(* Answering a window acts on the computer it asks about, even if that was *)
(* deleted.                                                                *)
LEMMA SubmittedStays ==
  ASSUME NEW t \in Good, NEW w \in 1..Len(t.subject)
  PROVE  \A u \in Submitted(t, w) :
           u \in Good /\ (KnowsName(t, w) => u.raised = t.raised \/ GivenLoopback(t, w, u))
<1> DEFINE box == t.subject[w]
           d == box.to
<1>1. t \in Sound /\ t \in Program /\ t.subject \in Seq(Subjects) /\ Len(t.subject) \in Nat
  BY SoundParts, ProgramParts DEF Good
<1>2. box \in Subjects
  BY <1>1
<1>3. box.does = "name" \/ box.does = "interface" => d \in Devices
  BY <1>2 DEF Subjects
<1>4. Answers(t, w) = CASE box.does = "name" -> {SetName(t, d, name) : name \in Names}
                        [] box.does = "interface" -> {AddDeleteInterface(t, d, n) : n \in 0..t.made[d]} \cup {NameLoopback(t)}
                        [] OTHER -> {}
  BY DEF Answers
<1> DEFINE knows == KnowsName(t, w)
<1>5. knows => (box.does = "name" => t.name[d] \in t.existing)
  BY DEF KnowsName
<1> DEFINE looped(u) == GivenLoopback(t, w, u)
<1>10. \A u : looped(u) <=> (box.does = "interface" /\ u = NameLoopback(t))
  BY DEF GivenLoopback
<1> HIDE DEF box, d, knows, looped
<1>11. /\ NameLoopback(t) \in Good /\ NameLoopback(t).raised # None
       /\ NameLoopback(t).subject = t.subject
  <2>1. "NoSuchInterfaceError" \in Errors
    BY DEF Errors
  <2>2. QED BY <1>1, <2>1, RaiseStays DEF NameLoopback, SameWorld
<1>6. ASSUME NEW u \in Answers(t, w)
      PROVE  /\ u \in Good /\ (u.subject = t.subject \/ Len(u.subject) = Len(t.subject) + 1)
             /\ knows => u.raised = t.raised \/ looped(u)
  <2>1. CASE box.does = "name"
    <3>1. PICK name \in Names : u = SetName(t, d, name)
      BY <1>4, <1>6, <2>1
    <3>2. QED BY <1>3, <1>5, <2>1, <3>1, SetNameStays
  <2>2. CASE box.does = "interface"
    <3>6. CASE u = NameLoopback(t)
      BY <1>10, <1>11, <2>2, <3>6
    <3>7. u = NameLoopback(t) \/ \E n \in 0..t.made[d] : u = AddDeleteInterface(t, d, n)
      BY <1>4, <1>6, <2>2
    <3> SUFFICES ASSUME u # NameLoopback(t)
                 PROVE  /\ u \in Good /\ (u.subject = t.subject \/ Len(u.subject) = Len(t.subject) + 1)
                        /\ u.raised = t.raised
      BY <3>6
    <3>1. PICK n \in 0..t.made[d] : u = AddDeleteInterface(t, d, n)
      BY <3>7
    <3>2. d \in Devices /\ n \in Nat
      BY <1>1, <1>3, <2>2, PortsAreNumbers
    <3>3. Interface(d, n) \in AnyInterface
      BY <3>2, Kinds
    <3> DEFINE x == Interface(d, n)
    <3>4. \/ u = RemoveInterface(t, x) /\ x[3] \in t.interfaces[x[2]]
          \/ u = AddInterface(t, d)
      BY <3>1, <3>2, Kinds DEF AddDeleteInterface
    <3> HIDE DEF x
    <3>5. QED BY <3>2, <3>3, <3>4, RemoveInterfaceStays, AddInterfaceStays DEF x
  <2>3. CASE box.does # "name" /\ box.does # "interface"
    BY <1>4, <1>6, <2>3
  <2>4. QED BY <2>1, <2>2, <2>3
<1>7. ASSUME NEW u \in Answers(t, w)
      PROVE  /\ CloseWindow(u, w) \in Good /\ u \in Good /\ CloseWindow(u, w).raised = u.raised
             /\ knows => u.raised = t.raised \/ looped(u)
  <2>1. /\ u \in Good /\ (u.subject = t.subject \/ Len(u.subject) = Len(t.subject) + 1)
        /\ knows => u.raised = t.raised \/ looped(u)
    BY <1>6
  <2>2. w \in 1..Len(u.subject)
    BY <1>1, <2>1
  <2>3. QED BY <2>1, <2>2, CloseWindowStays
<1>8. ASSUME NEW u \in Submitted(t, w)
      PROVE  u \in Good /\ (knows => u.raised = t.raised \/ looped(u))
  <2>1. PICK v \in Answers(t, w) : u = IF v.raised # None THEN v ELSE CloseWindow(v, w)
    BY <1>8 DEF Submitted, Then
  <2>2. CASE v.raised # None
    BY <1>7, <2>1, <2>2
  <2>3. CASE v.raised = None
    <3>1. ~looped(v)
      BY <1>10, <1>11, <2>3
    <3>2. QED BY <1>7, <2>1, <2>3, <3>1
  <2>4. QED BY <2>2, <2>3
<1>9. QED BY <1>8 DEF knows, looped

-----------------------------------------------------------------------------
(* Computers come, and are loaded.                                         *)

(* Objects come on the screen that are neither cables nor windows; the     *)
(* computers among them exist, the packets are in cables.                  *)
LEMMA ShowingKeeps ==
  ASSUME NEW l \in Registries, NEW m \in Registries, m.leaving = l.leaving,
         l.functions \subseteq m.functions, NEW X \in SUBSET Objects,
         ToSet(m.objects) = ToSet(l.objects) \cup X, \A o \in X : Kind(o) \notin {"cable", "window"}
  PROVE  /\ \A C, D : (ScreenOk(C, l) /\ ToSet(C) \subseteq ToSet(D)
                        /\ \A d \in Devices : Computer(d) \in X => d \in ToSet(D)) => ScreenOk(D, m)
         /\ \A S, R, V, T : \A n \in Nat :
              (PacketsOk(l, S, R, n) /\ S \subseteq V /\ V \subseteq T /\ T \subseteq 1..n
                /\ \A k \in Nat : Packet(k) \in X => k \in V) => PacketsOk(m, V, T, n)
         /\ \A W, G, a, B : \A n \in Nat : WindowsOk(l, W, G, a, B, n) => WindowsOk(m, W, G, a, B, n)
<1>1. \A o : Shown(m, o) <=> (Shown(l, o) \/ o \in X)
  BY DEF Shown
<1>2. \A k \in Nat : Cable(k) \notin X /\ Window(k) \notin X
  BY Kinds
<1>3. ASSUME NEW C, NEW D, ScreenOk(C, l), ToSet(C) \subseteq ToSet(D),
             \A d \in Devices : Computer(d) \in X => d \in ToSet(D)
      PROVE  ScreenOk(D, m)
  BY <1>1, <1>3 DEF ScreenOk, Registries
<1>4. ASSUME NEW S, NEW R, NEW V, NEW T, NEW n \in Nat, PacketsOk(l, S, R, n), S \subseteq V,
             V \subseteq T, T \subseteq 1..n, \A k \in Nat : Packet(k) \in X => k \in V
      PROVE  PacketsOk(m, V, T, n)
  <2>1. \A k \in 1..n : <<"move_packets", Cable(k)>> \in m.functions
    BY <1>4 DEF PacketsOk
  <2>2. \A k \in Nat : Shown(m, Cable(k)) => k \in 1..n
    BY <1>1, <1>2, <1>4 DEF PacketsOk
  <2>3. \A k \in Nat : Shown(m, Packet(k)) => k \in V \/ Packet(k) \in m.leaving
    BY <1>1, <1>4 DEF PacketsOk
  <2>4. QED BY <1>4, <2>1, <2>2, <2>3 DEF PacketsOk
<1>5. ASSUME NEW W, NEW G, NEW a, NEW B, NEW n \in Nat, WindowsOk(l, W, G, a, B, n)
      PROVE  WindowsOk(m, W, G, a, B, n)
  <2>1. ToSet(W) \subseteq Nat /\ G \subseteq Nat
    BY <1>5 DEF WindowsOk
  <2>2. QED BY <1>1, <1>2, <1>5, <2>1 DEF WindowsOk
<1>6. QED BY <1>3, <1>4, <1>5

(* A computer is loaded with its interfaces in some order.                 *)
LEMMA InterfacesAsSequence ==
  ASSUME NEW d \in Devices, NEW P \in Ports, NEW S, S = {Interface(d, n) : n \in P}
  PROVE  SetToSeq(S) \in Seq(Objects) /\ IsInjective(SetToSeq(S)) /\ ToSet(SetToSeq(S)) \subseteq AnyInterface
<1>1. PICK m \in Nat : P \subseteq 1..m
  BY DEF Ports
<1>2. IsFiniteSet(P)
  <2>1. IsFiniteSet(1..m)
    BY FS_Interval
  <2>2. QED BY <1>1, <2>1, FS_Subset
<1>3. S \subseteq AnyInterface /\ AnyInterface \subseteq Objects
  BY <1>1, Kinds DEF Objects
<1>4. IsFiniteSet(S)
  <2> DEFINE f == [n \in P |-> Interface(d, n)]
  <2>1. f \in Surjection(P, S)
    BY DEF Surjection
  <2>2. QED BY <1>2, <2>1, FS_Surjection
<1>5. SetToSeq(S) \in Seq(S) /\ IsInjective(SetToSeq(S))
  BY <1>4, SetAsSequence
<1>6. ToSet(SetToSeq(S)) \subseteq S
  BY <1>5, ElementsByPlace
<1>7. SetToSeq(S) \in Seq(Objects)
  BY <1>3, <1>5, WiderSequence
<1>8. QED BY <1>3, <1>5, <1>6, <1>7

(* The number of interfaces made is at least the number of each.           *)
LEMMA GreatestPort ==
  ASSUME NEW P \in Ports
  PROVE  Max({0} \cup P) \in Nat /\ P \subseteq 1..Max({0} \cup P)
<1> DEFINE T == {0} \cup P
<1>1. PICK m \in Nat : P \subseteq 1..m
  BY DEF Ports
<1>2. T \subseteq 0..m /\ T # {}
  BY <1>1
<1> HIDE DEF T
<1>3. Max(T) \in T /\ \A k \in T : k <= Max(T)
  BY <1>1, <1>2, GreatestNumber
<1>4. Max(T) \in Nat
  <2>1. \A k \in T : k \in Nat
    BY <1>2
  <2>2. QED BY <1>3, <2>1
<1>5. \A k \in P : k \in 1..Max(T)
  <2>1. P \subseteq T
    BY DEF T
  <2>2. QED BY <1>1, <1>3, <1>4, <2>1
<1>6. QED BY <1>4, <1>5 DEF T

(* A new computer, one the program did not have.                           *)
LEMMA CreateStays ==
  ASSUME NEW t \in Good, NEW d \in Devices, d \notin ToSet(t.computers), NEW name \in AnyName,
         NEW P \in Ports, NEW u, u = Create(t, d, name, P)
  PROVE  /\ u \in Good /\ ToSet(u.computers) = ToSet(t.computers) \cup {d} /\ u.raised = t.raised
         /\ u.computers = With(t.computers, d) /\ u.name = Put(t.name, d, name)
         /\ u.interfaces = Put(t.interfaces, d, P) /\ u.wired = Unplugged(t.wired, d)
         /\ u.links = t.links
<1> DEFINE k == Max({0} \cup P)
           D == With(t.computers, d)
           N == Put(t.name, d, name)
           E == t.existing \cup {name}
           J == Put(t.interfaces, d, P)
           M == Put(t.made, d, k)
           V == Unplugged(t.wired, d)
           q == SetToSeq({Interface(d, n) : n \in P})
           r == <<Computer(d)>> \o q
           F == t.loop.functions \cup {<<"logic", Computer(d)>>}
           l == [t.loop EXCEPT !.functions = F]
           m == RegisterAll(l, r)
           x == [t EXCEPT !.computers = D, !.name = N, !.existing = E]
           y == [x EXCEPT !.interfaces = J, !.made = M, !.wired = V]
<1>1. t \in Sound /\ t \in Program /\ t.loop \in Registries /\ t.cables \in Nat /\ Len(t.subject) \in Nat
  BY SoundParts DEF Good
<1>2. /\ t.computers \in Seq(Devices) /\ t.interfaces \in [Devices -> Ports]
      /\ t.made \in [Devices -> Nat] /\ t.name \in [Devices -> AnyName]
      /\ t.existing \in SUBSET AnyName /\ t.links \in Seq(AnyLink) /\ t.wired \in Wirings
  BY <1>1, ProgramParts
<1>3. k \in Nat /\ UpTo(P, k)
  BY GreatestPort DEF UpTo
<1>4. N \in [Devices -> AnyName] /\ E \in SUBSET AnyName
  BY <1>2 DEF Put
<1>5. Computer(d) \in Objects /\ Kind(Computer(d)) = "computer"
  BY Kinds
<1>6. r \in Seq(Objects) /\ IsInjective(r) /\ ToSet(r) = ToSet(q) \cup {Computer(d)}
      /\ ToSet(q) \subseteq AnyInterface
  <2>1. q \in Seq(Objects) /\ IsInjective(q) /\ ToSet(q) \subseteq AnyInterface
    BY InterfacesAsSequence
  <2>2. Computer(d) \notin AnyInterface
    BY <1>5, InterfaceParts
  <2> HIDE DEF q
  <2>3. Computer(d) \notin ToSet(q)
    BY <2>1, <2>2
  <2>4. QED BY <1>5, <2>1, <2>3, OneBefore
<1>7. u = [y EXCEPT !.loop = m]
  BY <1>1 DEF Create, InsertToLoop, Put, With, Unplugged, Program
<1>8. NetOk(t.computers, t.interfaces, t.made, t.links, t.wired, t.cables)
  BY <1>1 DEF Sound, Net
<1> HIDE DEF k, q
<1>9. /\ NetOk(D, J, M, t.links, V, t.cables) /\ D \in Seq(Devices) /\ J \in [Devices -> Ports]
      /\ M \in [Devices -> Nat] /\ V \in Wirings
  <2> HIDE DEF D, J, M, V
  <2>1. D = With(t.computers, d) /\ J = Put(t.interfaces, d, P) /\ M = Put(t.made, d, k)
        /\ V = Unplugged(t.wired, d)
    BY DEF D, J, M, V
  <2>2. /\ NetOk(With(t.computers, d), Put(t.interfaces, d, P), Put(t.made, d, k), t.links,
                  Unplugged(t.wired, d), t.cables)
        /\ With(t.computers, d) \in Seq(Devices) /\ Put(t.interfaces, d, P) \in [Devices -> Ports]
        /\ Put(t.made, d, k) \in [Devices -> Nat] /\ Unplugged(t.wired, d) \in Wirings
    BY <1>1, <1>2, <1>3, <1>8, NetCreate
  <2>3. QED BY <2>1, <2>2
<1>10. ToSet(D) = ToSet(t.computers) \cup {d}
  BY <1>2, OneMore DEF With
<1> HIDE DEF D, N, E, J, M, V, r
<1>11. F \in SUBSET Functions
  BY <1>1, <1>5, RegistryParts DEF Functions
<1>12. t.loop.functions \subseteq F
  OBVIOUS
<1> HIDE DEF F
<1>13. l \in Registries /\ l.objects = t.loop.objects /\ l.functions = F /\ l.leaving = t.loop.leaving
  BY <1>1, <1>11, RegistryWith
<1> HIDE DEF l
<1>14. /\ m \in Registries /\ m.leaving = l.leaving /\ ToSet(m.objects) = ToSet(l.objects) \cup ToSet(r)
       /\ l.functions \subseteq m.functions
  BY <1>6, <1>13, RegisterAllMakes
<1> HIDE DEF m
<1>15. m \in AnyRegistry
  BY <1>14 DEF Registries
<1>16. x \in Program
  BY <1>1, <1>4, <1>9 DEF Program
<1>17. y \in Program
  <2> HIDE DEF x
  <2>1. QED BY <1>9, <1>16 DEF Program
<1>18. u \in Program
  <2> HIDE DEF y
  <2>1. QED BY <1>7, <1>15, <1>17, WithLoop
<1>19. /\ u.computers = D /\ u.interfaces = J /\ u.made = M /\ u.links = t.links /\ u.wired = V
       /\ u.cables = t.cables /\ u.loop = m /\ u.sent = t.sent /\ u.carried = t.carried
       /\ u.windows = t.windows /\ u.closing = t.closing /\ u.active = t.active
       /\ u.buttons = t.buttons /\ u.subject = t.subject /\ u.raised = t.raised /\ u.name = N
  BY <1>1, <1>7 DEF Program
<1>20. SameView(t, u)
  BY <1>1, <1>7 DEF Program, SameView
<1> HIDE DEF x, y
<1>21. /\ \A o \in ToSet(r) : o \in Objects /\ Kind(o) \notin {"cable", "window"}
       /\ \A e \in Devices : Computer(e) \in ToSet(r) => e \in ToSet(D)
       /\ \A n \in Nat : Packet(n) \notin ToSet(r)
  <2>1. \A o \in ToSet(r) : Kind(o) = "interface" \/ o = Computer(d)
    BY <1>6, InterfaceParts
  <2>2. \A o \in ToSet(r) : o \in Objects
    BY <1>6, ElementsByPlace
  <2>3. QED BY <1>5, <1>10, <2>1, <2>2, Kinds
<1>22. /\ ScreenOk(t.computers, t.loop) /\ PacketsOk(t.loop, t.sent, t.carried, t.cables)
       /\ WindowsOk(t.loop, t.windows, t.closing, t.active, t.buttons, Len(t.subject))
  BY <1>1 DEF Sound, Packets, Windows
<1> DEFINE X == ToSet(r)
<1>23. /\ m.leaving = t.loop.leaving /\ t.loop.functions \subseteq m.functions
       /\ ToSet(m.objects) = ToSet(t.loop.objects) \cup X /\ X \in SUBSET Objects
       /\ \A o \in X : Kind(o) \notin {"cable", "window"}
       /\ \A e \in Devices : Computer(e) \in X => e \in ToSet(D)
       /\ \A n \in Nat : Packet(n) \in X => n \in t.sent
  BY <1>12, <1>13, <1>14, <1>21
<1> HIDE DEF X
<1>24. ScreenOk(D, m)
  BY <1>1, <1>10, <1>14, <1>22, <1>23, ShowingKeeps
<1>25. PacketsOk(m, t.sent, t.carried, t.cables)
  <2>1. t.sent \subseteq t.carried /\ t.carried \subseteq 1..t.cables /\ t.sent \subseteq t.sent
    BY <1>22 DEF PacketsOk
  <2>2. QED BY <1>1, <1>14, <1>22, <1>23, <2>1, ShowingKeeps
<1>26. WindowsOk(m, t.windows, t.closing, t.active, t.buttons, Len(t.subject))
  BY <1>1, <1>14, <1>22, <1>23, ShowingKeeps
<1>27. u \in Sound
  BY <1>9, <1>18, <1>19, <1>24, <1>25, <1>26 DEF Sound, Net, Packets, Windows
<1>28. u \in Good
  BY <1>20, <1>27, SameIsGood
<1>29. QED BY <1>10, <1>19, <1>28 DEF D, N, J, V

(* A computer of a saved network.                                          *)
SavedComputers == [name : AnyName, interfaces : Ports, switch : BOOLEAN]
LoadOne(u, c) ==
  IF Fresh(u, c.switch) = {} THEN u
  ELSE Create(u, CHOOSE d \in Fresh(u, c.switch) : TRUE, c.name, c.interfaces)

(* A new computer is none of those that exist.                             *)
LEMMA FreshIsNew ==
  ASSUME NEW t, NEW switch, Fresh(t, switch) # {}
  PROVE  /\ (CHOOSE d \in Fresh(t, switch) : TRUE) \in Devices
         /\ (CHOOSE d \in Fresh(t, switch) : TRUE) \notin ToSet(t.computers)
         /\ ((CHOOSE d \in Fresh(t, switch) : TRUE) \in Switches) = switch
<1>1. (CHOOSE d \in Fresh(t, switch) : TRUE) \in Fresh(t, switch)
  OBVIOUS
<1>2. QED BY <1>1 DEF Fresh, Referred

(* What one computer more makes of u.                                      *)
OneMade(u, c, v) ==
  /\ v.raised = u.raised /\ v.links = u.links
  /\ \/ v = u
     \/ \E d \in Devices \ ToSet(u.computers) :
          /\ (d \in Switches) = c.switch
          /\ v.computers = With(u.computers, d) /\ v.name = Put(u.name, d, c.name)
          /\ v.interfaces = Put(u.interfaces, d, c.interfaces) /\ v.wired = Unplugged(u.wired, d)

(* Loading one computer,                                                   *)
LEMMA LoadOneStays ==
  ASSUME NEW u \in Good, NEW c \in SavedComputers
  PROVE  LoadOne(u, c) \in Good /\ OneMade(u, c, LoadOne(u, c))
<1>1. CASE Fresh(u, c.switch) = {}
  BY <1>1 DEF LoadOne, OneMade
<1>2. CASE Fresh(u, c.switch) # {}
  <2> DEFINE d == CHOOSE d \in Fresh(u, c.switch) : TRUE
             name == c.name
             P == c.interfaces
             v == LoadOne(u, c)
  <2>1. d \in Devices /\ d \notin ToSet(u.computers) /\ (d \in Switches) = c.switch
    BY <1>2, FreshIsNew
  <2>2. name \in AnyName /\ P \in Ports /\ v = Create(u, d, name, P)
    BY <1>2 DEF SavedComputers, LoadOne
  <2> HIDE DEF d, name, P, v
  <2>3. /\ v \in Good /\ v.raised = u.raised /\ v.links = u.links
        /\ v.computers = With(u.computers, d) /\ v.name = Put(u.name, d, name)
        /\ v.interfaces = Put(u.interfaces, d, P) /\ v.wired = Unplugged(u.wired, d)
    BY <2>1, <2>2, CreateStays
  <2>4. OneMade(u, c, v)
    BY <2>1, <2>3 DEF OneMade, name, P
  <2>5. QED BY <2>3, <2>4 DEF v
<1>3. QED BY <1>1, <1>2

ComputersLoadedBy(g, t) ==
  /\ g[0] = DeleteAll(t) /\ g[Len(t.file.computers)] = LoadComputers(t)
  /\ \A i \in 1..Len(t.file.computers) : g[i] = LoadOne(g[i-1], t.file.computers[i])

(* all of a file, one after another,                                       *)
LEMMA LoadComputersStays ==
  ASSUME NEW t \in Good, t.file \in Files
  PROVE  /\ LoadComputers(t) \in Good
         /\ \E g \in [0..Len(t.file.computers) -> Good] : ComputersLoadedBy(g, t)
<1> DEFINE A == Good
           B == SavedComputers
           q == t.file.computers
           base == DeleteAll(t)
           f == [x \in A \X B |-> LoadOne(x[1], x[2])]
           Steps(it) == [p \in SUBSET (DOMAIN q) |->
                           IF p = {} THEN base ELSE LoadOne(it[p \ {Max(p)}], q[Max(p)])]
           Iter == CHOOSE it : it = Steps(it)
           end == Iter[DOMAIN q]
<1>1. q \in Seq(B) /\ base \in A
  BY DeleteAllStays DEF Files, AnyFile, SavedComputers
<1>2. f \in [A \X B -> A] /\ \A u \in A, c \in B : f[<<u, c>>] = LoadOne(u, c)
  BY LoadOneStays
<1>3. LoadComputers(t) = end
  BY DEF LoadComputers, LoadOne, FoldLeft, MapThenFoldSet
<1> HIDE DEF f, base, q, A, B
<1>4. PICK it \in [SUBSET (DOMAIN q) -> A] : IsFold(it, f, base, q)
  BY <1>1, <1>2, FoldExists
<1>5. \A p \in SUBSET (DOMAIN q) : p # {} =>
        q[Max(p)] \in B /\ p \ {Max(p)} \in SUBSET (DOMAIN q)
  BY <1>1, InitialIntervals
<1>6. \A p \in SUBSET (DOMAIN q) :
        it[p] = IF p = {} THEN base ELSE LoadOne(it[p \ {Max(p)}], q[Max(p)])
  BY <1>2, <1>4, <1>5 DEF IsFold
<1>7. it = Steps(it)
  BY <1>6
<1>8. Iter = Steps(Iter)
  BY <1>7
<1> HIDE DEF Iter
<1>9. Iter[{}] = base
  BY <1>8
<1>10. \A p \in SUBSET (DOMAIN q) : (p # {} /\ Iter[p \ {Max(p)}] \in A) =>
          Iter[p] = f[<<Iter[p \ {Max(p)}], q[Max(p)]>>]
  BY ZenonT(60), <1>2, <1>5, <1>8
<1>11. PICK g \in [0..Len(q) -> A] : FoldedBy(g, f, base, q, end)
  BY <1>1, <1>2, <1>9, <1>10, FoldHistory
<1>12. Len(q) \in 0..Len(q)
  BY <1>1
<1>13. end \in A
  BY <1>11, <1>12 DEF FoldedBy
<1>14. \A i \in 1..Len(q) : g[i] = LoadOne(g[i-1], q[i])
  <2>1. \A i \in 1..Len(q) : g[i-1] \in A /\ q[i] \in B
    BY <1>1
  <2>2. QED BY <1>2, <1>11, <2>1 DEF FoldedBy
<1>15. g[0] = DeleteAll(t) /\ g[Len(q)] = LoadComputers(t)
  BY <1>3, <1>11 DEF FoldedBy, base
<1>16. ComputersLoadedBy(g, t)
  BY <1>14, <1>15 DEF ComputersLoadedBy, q
<1>17. g \in [0..Len(t.file.computers) -> Good]
  BY <1>11 DEF A, q
<1>18. QED BY <1>3, <1>13, <1>16, <1>17 DEF A

SavedCables == AnyName \X Nat \X AnyName \X Nat
ConnectUnlessRaised(u, c) == Then(u, LAMBDA v : ConnectByName(v, c))

(* a cable, by the names of its ends: both may name one computer,          *)
LEMMA ConnectByNameStays ==
  ASSUME NEW u \in Good, NEW c \in SavedCables
  PROVE  ConnectUnlessRaised(u, c) \in Good
<1> DEFINE left == Interface(FirstNamed(u, c[1]), c[2])
           right == Interface(FirstNamed(u, c[3]), c[4])
<1>1. u \in Sound /\ u \in Program
  BY SoundParts DEF Good
<1>2. \/ left \in AllInterfaces(u) /\ right \in AllInterfaces(u)
           /\ ConnectByName(u, c) = ConnectInterfaces(u, left, right)
      \/ ConnectByName(u, c) = Raise(u, "NoSuchInterfaceError")
  BY DEF ConnectByName
<1> HIDE DEF left, right
<1>3. CASE left \in AllInterfaces(u) /\ right \in AllInterfaces(u)
             /\ ConnectByName(u, c) = ConnectInterfaces(u, left, right)
  <2>1. ConnectByName(u, c) \in Good
    BY <1>3, ConnectStays
  <2>2. QED BY <2>1 DEF ConnectUnlessRaised, Then
<1>4. CASE ConnectByName(u, c) = Raise(u, "NoSuchInterfaceError")
  <2>1. ConnectByName(u, c) \in Good
    <3> DEFINE v == ConnectByName(u, c)
    <3>1. Raised(u, v)
      BY <1>1, <1>4, Raises
    <3> HIDE DEF v
    <3>2. v \in Good
      BY <1>1, <3>1, RaisedStays
    <3>3. QED BY <3>2 DEF v
  <2>2. QED BY <2>1 DEF ConnectUnlessRaised, Then
<1>5. QED BY <1>2, <1>3, <1>4

CablesLoadedBy(g, t) ==
  /\ g[0] = LoadComputers(t) /\ g[Len(t.file.cables)] = Load(t)
  /\ \A i \in 1..Len(t.file.cables) : g[i] = ConnectUnlessRaised(g[i-1], t.file.cables[i])

(* and the whole file, after deleting everything.                          *)
LEMMA LoadStays ==
  ASSUME NEW t \in Good, t.file \in Files
  PROVE  /\ Load(t) \in Good
         /\ \E g \in [0..Len(t.file.cables) -> Good] : CablesLoadedBy(g, t)
<1> DEFINE A == Good
           B == SavedCables
           q == t.file.cables
           base == LoadComputers(t)
           f == [x \in A \X B |-> ConnectUnlessRaised(x[1], x[2])]
           Steps(it) == [p \in SUBSET (DOMAIN q) |->
                           IF p = {} THEN base ELSE ConnectUnlessRaised(it[p \ {Max(p)}], q[Max(p)])]
           Iter == CHOOSE it : it = Steps(it)
           end == Iter[DOMAIN q]
<1>1. q \in Seq(B) /\ base \in A
  BY LoadComputersStays DEF Files, AnyFile, SavedCables
<1>2. f \in [A \X B -> A] /\ \A u \in A, c \in B : f[<<u, c>>] = ConnectUnlessRaised(u, c)
  BY ConnectByNameStays
<1>3. Load(t) = end
  BY DEF Load, ConnectUnlessRaised, FoldLeft, MapThenFoldSet
<1> HIDE DEF f, base, q, A, B
<1>4. PICK it \in [SUBSET (DOMAIN q) -> A] : IsFold(it, f, base, q)
  BY <1>1, <1>2, FoldExists
<1>5. \A p \in SUBSET (DOMAIN q) : p # {} =>
        q[Max(p)] \in B /\ p \ {Max(p)} \in SUBSET (DOMAIN q)
  BY <1>1, InitialIntervals
<1>6. \A p \in SUBSET (DOMAIN q) :
        it[p] = IF p = {} THEN base ELSE ConnectUnlessRaised(it[p \ {Max(p)}], q[Max(p)])
  BY <1>2, <1>4, <1>5 DEF IsFold
<1>7. it = Steps(it)
  BY <1>6
<1>8. Iter = Steps(Iter)
  BY <1>7
<1> HIDE DEF Iter
<1>9. Iter[{}] = base
  BY <1>8
<1>10. \A p \in SUBSET (DOMAIN q) : (p # {} /\ Iter[p \ {Max(p)}] \in A) =>
          Iter[p] = f[<<Iter[p \ {Max(p)}], q[Max(p)]>>]
  BY ZenonT(60), <1>2, <1>5, <1>8
<1>11. PICK g \in [0..Len(q) -> A] : FoldedBy(g, f, base, q, end)
  BY <1>1, <1>2, <1>9, <1>10, FoldHistory
<1>12. Len(q) \in 0..Len(q)
  BY <1>1
<1>13. end \in A
  BY <1>11, <1>12 DEF FoldedBy
<1>14. \A i \in 1..Len(q) : g[i] = ConnectUnlessRaised(g[i-1], q[i])
  <2>1. \A i \in 1..Len(q) : g[i-1] \in A /\ q[i] \in B
    BY <1>1
  <2>2. QED BY <1>2, <1>11, <2>1 DEF FoldedBy
<1>15. g[0] = LoadComputers(t) /\ g[Len(q)] = Load(t)
  BY <1>3, <1>11 DEF FoldedBy, base
<1>16. CablesLoadedBy(g, t)
  BY <1>14, <1>15 DEF CablesLoadedBy, q
<1>17. g \in [0..Len(t.file.cables) -> Good]
  BY <1>11 DEF A, q
<1>18. QED BY <1>3, <1>13, <1>16, <1>17 DEF A

(* An interface is saved by the name of its computer.                      *)
EndOf(t, i) == <<t.name[i[2]], i[3]>>

(* A saved cable has the ends of the cable,                                *)
LEMMA SavedEnds ==
  ASSUME NEW t, NEW l
  PROVE  /\ Ends(SavedCable(t, l)) = {EndOf(t, l.left), EndOf(t, l.right)}
         /\ SavedCable(t, l)[1] = t.name[l.left[2]] /\ SavedCable(t, l)[2] = l.left[3]
         /\ SavedCable(t, l)[3] = t.name[l.right[2]] /\ SavedCable(t, l)[4] = l.right[3]
BY DEF Ends, SavedCable, EndOf

(* Cables of the list with an end in common are one.                       *)
LEMMA EndsDiffer ==
  ASSUME NEW t \in Sound, NEW j \in 1..Len(t.links), NEW k \in 1..Len(t.links),
         NEW i, i \in {t.links[j].left, t.links[j].right}, i \in {t.links[k].left, t.links[k].right}
  PROVE  j = k
<1>1. t.links \in Seq(AnyLink) /\ Net(t)
  BY SoundParts, ProgramParts DEF Sound
<1>2. t.links[j] \in ToSet(t.links) /\ t.links[k] \in ToSet(t.links)
  BY <1>1, ElementsByPlace
<1>3. i \in DOMAIN t.wired /\ t.wired[i] = t.links[j].cable /\ t.wired[i] = t.links[k].cable
  BY <1>1, <1>2 DEF Net, NetOk
<1>4. QED BY <1>1, <1>3 DEF Net, NetOk, CablesDiffer

(* and an interface that exists is the end it is saved by: no other, if    *)
(* the names of the computers differ.                                      *)
LEMMA SavedInterface ==
  ASSUME NEW t \in Sound, NEW i \in AnyInterface, Here(t.computers, t.interfaces, i)
  PROVE  /\ HasEnd(Saved(t), EndOf(t, i))
         /\ \A j \in AnyInterface :
              (Here(t.computers, t.interfaces, j) /\ ~SharedNames(Saved(t)) /\ EndOf(t, j) = EndOf(t, i)) => i = j
<1> DEFINE f == Saved(t)
<1>1. t.computers \in Seq(Devices)
  BY SoundParts
<1>2. /\ Len(f.computers) = Len(t.computers) /\ Len(t.computers) \in Nat
      /\ \A m \in 1..Len(t.computers) :
           /\ f.computers[m].name = t.name[t.computers[m]]
           /\ f.computers[m].interfaces = t.interfaces[t.computers[m]]
  BY <1>1 DEF Saved, SavedComputer
<1>3. PICK m \in 1..Len(t.computers) : t.computers[m] = i[2]
  BY <1>1, ElementsByPlace DEF Here
<1> HIDE DEF f
<1>4. EndOf(t, i)[1] = t.name[i[2]] /\ EndOf(t, i)[2] = i[3]
  BY DEF EndOf
<1>5. HasEnd(f, EndOf(t, i))
  BY <1>2, <1>3, <1>4 DEF HasEnd, Here
<1>6. ASSUME NEW j \in AnyInterface, Here(t.computers, t.interfaces, j), ~SharedNames(f),
             EndOf(t, j) = EndOf(t, i)
      PROVE  i = j
  <2>1. PICK n \in 1..Len(t.computers) : t.computers[n] = j[2]
    BY <1>1, <1>6, ElementsByPlace DEF Here
  <2>2. t.name[i[2]] = t.name[j[2]] /\ i[3] = j[3]
    BY <1>6 DEF EndOf
  <2>3. f.computers[m].name = f.computers[n].name
    BY <1>2, <1>3, <2>1, <2>2
  <2>4. m \in 1..Len(f.computers) /\ n \in 1..Len(f.computers)
    BY <1>2
  <2>5. m = n
    BY <1>6, <2>3, <2>4 DEF SharedNames
  <2>6. i[2] = j[2]
    BY <1>3, <2>1, <2>5
  <2>7. QED BY <2>2, <2>6, InterfaceParts
<1>7. QED BY <1>5, <1>6 DEF f

(* What is saved can be loaded again.                                      *)
LEMMA SavedIsFile ==
  ASSUME NEW t \in Sound
  PROVE  FileOk(Saved(t))
<1> DEFINE f == Saved(t)
<1>1. t.links \in Seq(AnyLink) /\ Net(t)
  BY SoundParts, ProgramParts DEF Sound
<1>2. /\ Len(f.cables) = Len(t.links) /\ Len(t.links) \in Nat
      /\ \A n \in 1..Len(t.links) : f.cables[n] = SavedCable(t, t.links[n])
  BY <1>1 DEF Saved
<1>3. \A n \in 1..Len(t.links) : t.links[n] \in ToSet(t.links)
  BY <1>1, ElementsByPlace
<1>4. ASSUME NEW n \in 1..Len(t.links)
      PROVE  /\ t.links[n].left \in AnyInterface /\ t.links[n].right \in AnyInterface
             /\ Here(t.computers, t.interfaces, t.links[n].left)
             /\ Here(t.computers, t.interfaces, t.links[n].right)
             /\ Ends(f.cables[n]) = {EndOf(t, t.links[n].left), EndOf(t, t.links[n].right)}
  <2>1. t.links[n].left \in AnyInterface /\ t.links[n].right \in AnyInterface
    BY <1>1, <1>3, LinkParts
  <2>2. /\ Here(t.computers, t.interfaces, t.links[n].left)
        /\ Here(t.computers, t.interfaces, t.links[n].right)
    BY <1>1, <1>3 DEF Net, NetOk
  <2>3. Ends(f.cables[n]) = {EndOf(t, t.links[n].left), EndOf(t, t.links[n].right)}
    BY <1>2, SavedEnds
  <2>4. QED BY <2>1, <2>2, <2>3
<1> HIDE DEF f
<1>5. \A n \in 1..Len(f.cables) : \A e \in Ends(f.cables[n]) : HasEnd(f, e)
  <2>1. ASSUME NEW n \in 1..Len(t.links) PROVE \A e \in Ends(f.cables[n]) : HasEnd(f, e)
    <3>1. HasEnd(f, EndOf(t, t.links[n].left)) /\ HasEnd(f, EndOf(t, t.links[n].right))
      BY <1>4, SavedInterface DEF f
    <3>2. QED BY <1>4, <3>1
  <2>2. QED BY <1>2, <2>1
<1>6. ASSUME ~SharedNames(f), NEW m \in 1..Len(t.links), NEW n \in 1..Len(t.links),
             NEW e, e \in Ends(f.cables[m]), e \in Ends(f.cables[n])
      PROVE  m = n
  <2>1. PICK i \in {t.links[m].left, t.links[m].right} : e = EndOf(t, i)
    BY <1>4, <1>6
  <2>2. PICK j \in {t.links[n].left, t.links[n].right} : e = EndOf(t, j)
    BY <1>4, <1>6
  <2>3. /\ i \in AnyInterface /\ Here(t.computers, t.interfaces, i)
        /\ j \in AnyInterface /\ Here(t.computers, t.interfaces, j)
    BY <1>4
  <2>4. i = j
    BY <1>6, <2>1, <2>2, <2>3, SavedInterface DEF f
  <2>5. QED BY <2>4, EndsDiffer
<1>7. FileOk(f)
  BY <1>2, <1>5, <1>6 DEF FileOk
<1>8. QED BY <1>7 DEF f

(* What is saved has the types of a file.                                  *)
LEMMA SaveStays ==
  ASSUME NEW t \in Good
  PROVE  SaveToFile(t) \in Good /\ SaveToFile(t).raised = t.raised
<1> DEFINE C == [n \in 1..Len(t.computers) |-> SavedComputer(t, t.computers[n])]
           K == [n \in 1..Len(t.links) |-> SavedCable(t, t.links[n])]
           u == SaveToFile(t)
<1>1. t \in Sound /\ t \in Program /\ t.computers \in Seq(Devices) /\ t.links \in Seq(AnyLink)
      /\ t.interfaces \in [Devices -> Ports] /\ t.name \in [Devices -> AnyName]
  BY SoundParts, ProgramParts DEF Good
<1>2. Len(t.computers) \in Nat /\ \A n \in 1..Len(t.computers) : t.computers[n] \in Devices
  BY <1>1
<1>3. Len(t.links) \in Nat /\ \A n \in 1..Len(t.links) : t.links[n] \in AnyLink
  BY <1>1
<1>4. \A d \in Devices : SavedComputer(t, d) \in SavedComputers
  BY <1>1 DEF SavedComputer, SavedComputers
<1>5. ASSUME NEW l \in AnyLink PROVE SavedCable(t, l) \in SavedCables
  <2>1. l.left \in AnyInterface /\ l.right \in AnyInterface
    BY DEF AnyLink
  <2>2. l.left[2] \in Devices /\ l.left[3] \in Nat /\ l.right[2] \in Devices /\ l.right[3] \in Nat
    BY <2>1, InterfaceParts
  <2>3. QED BY <1>1, <2>2 DEF SavedCable, SavedCables
<1>6. C \in [1..Len(t.computers) -> SavedComputers] /\ K \in [1..Len(t.links) -> SavedCables]
  BY <1>2, <1>3, <1>4, <1>5
<1>7. Saved(t) = [computers |-> C, cables |-> K]
  BY DEF Saved
<1> HIDE DEF C, K
<1>8. C \in Seq(SavedComputers) /\ K \in Seq(SavedCables)
  BY <1>2, <1>3, <1>6, FunctionIsSequence
<1>9. Saved(t) \in Files
  BY <1>1, <1>7, <1>8, SavedIsFile DEF Files, AnyFile, SavedComputers, SavedCables
<1>10. u \in Program
  BY <1>1, <1>9 DEF Program, SaveToFile
<1>11. SameWorld(t, u) /\ SameView(t, u)
  BY <1>1 DEF Program, SaveToFile, SameWorld, SameView
<1> HIDE DEF u
<1>12. u \in Sound
  BY <1>1, <1>10, <1>11, SameIsSound
<1>13. u \in Good
  BY <1>11, <1>12, SameIsGood
<1>14. QED BY <1>11, <1>13 DEF u, SameView

(* The first n computers of the file f are loaded.                         *)
ComputersAre(u, f, n) ==
  Len(u.computers) = n /\ \A m \in 1..n : SavedComputer(u, u.computers[m]) = f.computers[m]

(* As long as there was a new device for each of the i loaded so far.      *)
Loading(u, f, i) ==
  /\ u.links = <<>> /\ u.raised = None
  /\ Len(u.computers) <= i
  /\ Len(u.computers) = i => ComputersAre(u, f, i)

(* Loading one computer more leaves the ones before as they were loaded.   *)
LEMMA OneMoreLoaded ==
  ASSUME NEW u \in Good, NEW f \in Files, NEW i \in 1..Len(f.computers), Loading(u, f, i - 1),
         NEW v \in Good, v = LoadOne(u, f.computers[i])
  PROVE  Loading(v, f, i)
<1> DEFINE c == f.computers[i]
<1>1. f.computers \in Seq(SavedComputers) /\ c \in SavedComputers
  <2>1. f.computers \in Seq(SavedComputers)
    BY DEF Files, AnyFile, SavedComputers
  <2>2. QED BY <2>1
<1>2. i \in Nat /\ i >= 1
  BY <1>1
<1>3. OneMade(u, c, v)
  BY <1>1, LoadOneStays
<1> HIDE DEF c
<1>4. /\ u.computers \in Seq(Devices) /\ u.name \in [Devices -> AnyName]
      /\ u.interfaces \in [Devices -> Ports]
  BY ProgramParts, SoundParts DEF Good
<1>5. Len(u.computers) \in Nat
  BY <1>4
<1>6. v.links = <<>> /\ v.raised = None
  BY <1>3 DEF OneMade, Loading
<1>7. CASE v = u
  BY <1>2, <1>5, <1>6, <1>7 DEF Loading
<1>8. CASE v # u
  <2>1. PICK d \in Devices \ ToSet(u.computers) :
          /\ (d \in Switches) = c.switch
          /\ v.computers = With(u.computers, d) /\ v.name = Put(u.name, d, c.name)
          /\ v.interfaces = Put(u.interfaces, d, c.interfaces)
    BY <1>3, <1>8 DEF OneMade
  <2>2. /\ Len(v.computers) = Len(u.computers) + 1
        /\ \A m \in 1..Len(u.computers) : v.computers[m] = u.computers[m]
        /\ v.computers[Len(u.computers) + 1] = d
    BY <1>4, <2>1 DEF With
  <2>3. ASSUME NEW m \in 1..Len(u.computers)
        PROVE  SavedComputer(v, v.computers[m]) = SavedComputer(u, u.computers[m])
    <3> DEFINE e == u.computers[m]
    <3>1. e \in Devices /\ e \in ToSet(u.computers)
      BY <1>4, ElementsByPlace
    <3>2. v.name[e] = u.name[e] /\ v.interfaces[e] = u.interfaces[e] /\ v.computers[m] = e
      BY <1>4, <2>1, <2>2, <3>1 DEF Put
    <3>3. QED BY <3>2 DEF SavedComputer
  <2>4. SavedComputer(v, d) = c
    <3>1. v.name[d] = c.name /\ v.interfaces[d] = c.interfaces /\ (d \in Switches) = c.switch
      BY <1>4, <2>1 DEF Put
    <3>2. c = [name |-> c.name, interfaces |-> c.interfaces, switch |-> c.switch]
      BY <1>1 DEF SavedComputers
    <3>3. QED BY <3>1, <3>2 DEF SavedComputer
  <2>5. Len(v.computers) <= i
    BY <1>2, <1>5, <2>2 DEF Loading
  <2>6. ASSUME Len(v.computers) = i PROVE ComputersAre(v, f, i)
    <3>1. Len(u.computers) = i - 1
      BY <1>2, <1>5, <2>2, <2>6
    <3>2. \A m \in 1..(i-1) : SavedComputer(u, u.computers[m]) = f.computers[m]
      BY <3>1 DEF Loading, ComputersAre
    <3>3. \A m \in 1..(i-1) : SavedComputer(v, v.computers[m]) = f.computers[m]
      BY <2>3, <3>1, <3>2
    <3>4. SavedComputer(v, v.computers[i]) = f.computers[i]
      BY <1>2, <2>2, <2>4, <3>1 DEF c
    <3>5. \A m \in 1..i : m \in 1..(i-1) \/ m = i
      BY <1>2
    <3>6. QED BY <2>6, <3>3, <3>4, <3>5 DEF ComputersAre
  <2>7. QED BY <1>6, <2>5, <2>6 DEF Loading
<1>9. QED BY <1>7, <1>8

(* With enough devices the computers are loaded as they were saved.        *)
LEMMA ComputersRestored ==
  ASSUME NEW t \in Good, t.file \in Files, t.raised = None, EnoughToLoad(t),
         NEW u, u = LoadComputers(t)
  PROVE  ComputersAre(u, t.file, Len(t.file.computers)) /\ u.links = <<>> /\ u.raised = None
<1> DEFINE f == t.file
           n == Len(f.computers)
<1>1. PICK g \in [0..n -> Good] : ComputersLoadedBy(g, t)
  BY LoadComputersStays
<1>2. n \in Nat /\ f \in Files
  BY DEF Files, AnyFile
<1>3. /\ g[0] = DeleteAll(t) /\ g[n] = LoadComputers(t)
      /\ \A i \in 1..n : g[i] = LoadOne(g[i-1], f.computers[i])
  BY <1>1 DEF ComputersLoadedBy
<1> DEFINE G == {i \in 0..n : Loading(g[i], f, i)}
<1>4. 0 \in G
  <2>1. g[0].links = <<>> /\ g[0].raised = None /\ g[0].computers = <<>>
    BY <1>3, DeleteAllStays
  <2>2. Loading(g[0], f, 0)
    BY <2>1 DEF Loading, ComputersAre
  <2>3. QED BY <1>2, <2>2
<1>5. \A i \in 1..n : i - 1 \in G => i \in G
  <2> SUFFICES ASSUME NEW i \in 1..n, i - 1 \in G PROVE i \in G
    OBVIOUS
  <2>1. g[i-1] \in Good /\ g[i] \in Good /\ Loading(g[i-1], f, i - 1) /\ i \in 0..n
    BY <1>2
  <2>2. g[i] = LoadOne(g[i-1], f.computers[i])
    BY <1>3
  <2> HIDE DEF f
  <2>3. Loading(g[i], f, i)
    <3> DEFINE v == g[i]
               w == g[i-1]
    <3>1. w \in Good /\ v \in Good /\ Loading(w, f, i - 1) /\ v = LoadOne(w, f.computers[i])
      BY <2>1, <2>2
    <3> HIDE DEF v, w
    <3>2. i \in 1..Len(f.computers)
      OBVIOUS
    <3>3. Loading(v, f, i)
      BY <1>2, <3>1, <3>2, OneMoreLoaded
    <3>4. QED BY <3>3 DEF v
  <2>4. QED BY <2>1, <2>3
<1> HIDE DEF G
<1>6. \A i \in 0..n : i \in G
  BY <1>2, <1>4, <1>5, Induction
<1>7. Loading(u, f, n)
  BY <1>2, <1>3, <1>6 DEF G
<1>8. Len(u.computers) = n
  BY DEF EnoughToLoad
<1>9. QED BY <1>7, <1>8 DEF Loading

(* The computers of f are loaded, and the first n of its cables.           *)
CablesAre(u, f, n) ==
  /\ ComputersAre(u, f, Len(f.computers)) /\ u.raised = None
  /\ Len(u.links) = n /\ \A m \in 1..n : SavedCable(u, u.links[m]) = f.cables[m]

(* An end of a saved cable is found again by the name of its computer.     *)
LEMMA EndIsFound ==
  ASSUME NEW u \in Good, NEW f \in Files, ComputersAre(u, f, Len(f.computers)), ~SharedNames(f),
         NEW a, NEW n, HasEnd(f, <<a, n>>), NEW i, i = Interface(FirstNamed(u, a), n)
  PROVE  i \in AllInterfaces(u) /\ u.name[i[2]] = a /\ i[3] = n
<1> DEFINE I == {k \in 1..Len(u.computers) : u.name[u.computers[k]] = a}
           d == u.computers[Min(I)]
<1>1. u \in Sound /\ u.computers \in Seq(Devices) /\ Len(u.computers) \in Nat
  BY SoundParts DEF Good
<1>2. /\ Len(u.computers) = Len(f.computers)
      /\ \A k \in 1..Len(u.computers) :
           /\ f.computers[k].name = u.name[u.computers[k]]
           /\ f.computers[k].interfaces = u.interfaces[u.computers[k]]
  <2>1. /\ Len(u.computers) = Len(f.computers)
        /\ \A k \in 1..Len(u.computers) : SavedComputer(u, u.computers[k]) = f.computers[k]
    BY DEF ComputersAre
  <2>2. \A e : SavedComputer(u, e).name = u.name[e] /\ SavedComputer(u, e).interfaces = u.interfaces[e]
    BY DEF SavedComputer
  <2>3. ASSUME NEW k \in 1..Len(u.computers)
        PROVE  /\ f.computers[k].name = u.name[u.computers[k]]
               /\ f.computers[k].interfaces = u.interfaces[u.computers[k]]
    BY <2>1, <2>2
  <2>4. QED BY <2>1, <2>3
<1>3. PICK m \in 1..Len(u.computers) : f.computers[m].name = a /\ n \in f.computers[m].interfaces
  BY <1>2 DEF HasEnd
<1>4. I \subseteq Nat /\ m \in I
  BY <1>2, <1>3
<1>5. FirstNamed(u, a) = d
  BY <1>4 DEF FirstNamed, SelectInSeq
<1>6. Min(I) \in I
  BY <1>4, LeastIsMin
<1>7. Min(I) = m
  <2> DEFINE k == Min(I)
  <2>1. k \in 1..Len(f.computers) /\ m \in 1..Len(f.computers)
    BY <1>2, <1>6
  <2>2. f.computers[k].name = a /\ f.computers[m].name = a
    BY <1>2, <1>3, <1>6
  <2> HIDE DEF k
  <2>3. k = m
    BY <2>1, <2>2 DEF SharedNames
  <2>4. QED BY <2>3 DEF k
<1> HIDE DEF I
<1>8. d = u.computers[m] /\ d \in ToSet(u.computers) /\ d \in Devices
  BY <1>1, <1>7, ElementsByPlace
<1>9. i = Interface(d, n) /\ n \in u.interfaces[d] /\ u.name[d] = a
  BY <1>2, <1>3, <1>5, <1>8
<1> HIDE DEF d
<1>10. i \in AllInterfaces(u)
  BY <1>1, <1>8, <1>9, InterfacesHere
<1>11. i[2] = d /\ i[3] = n
  BY <1>9 DEF Interface
<1>12. QED BY <1>9, <1>10, <1>11

(* Loading one cable more: its interfaces are there and free.              *)
LEMMA OneMoreCable ==
  ASSUME NEW u \in Good, NEW f \in Files, NEW j \in 1..Len(f.cables), ~SharedNames(f),
         CablesAre(u, f, j - 1), NEW v, v = ConnectUnlessRaised(u, f.cables[j])
  PROVE  CablesAre(v, f, j)
<1> DEFINE c == f.cables[j]
           left == Interface(FirstNamed(u, c[1]), c[2])
           right == Interface(FirstNamed(u, c[3]), c[4])
<1>1. f.cables \in Seq(SavedCables) /\ FileOk(f)
  BY DEF Files, AnyFile, SavedCables
<1>2. j \in Nat /\ j >= 1 /\ c \in SavedCables
  BY <1>1
<1>3. u \in Sound /\ u \in Program /\ u.links \in Seq(AnyLink) /\ u.raised = None
  BY SoundParts, ProgramParts DEF Good, CablesAre
<1>4. v = ConnectByName(u, c)
  BY <1>3 DEF ConnectUnlessRaised, Then
<1>5. HasEnd(f, <<c[1], c[2]>>) /\ HasEnd(f, <<c[3], c[4]>>)
  BY <1>1 DEF FileOk, Ends
<1> HIDE DEF c
<1>6. ComputersAre(u, f, Len(f.computers))
  BY DEF CablesAre
<1>7. v = IF {left, right} \subseteq AllInterfaces(u) THEN ConnectInterfaces(u, left, right)
          ELSE Raise(u, "NoSuchInterfaceError")
  BY <1>4 DEF ConnectByName
<1>8. left \in AllInterfaces(u) /\ u.name[left[2]] = c[1] /\ left[3] = c[2]
  <2> HIDE DEF right
  <2>1. left = Interface(FirstNamed(u, c[1]), c[2])
    OBVIOUS
  <2> HIDE DEF left
  <2>2. QED BY <1>5, <1>6, <2>1, EndIsFound
<1>9. right \in AllInterfaces(u) /\ u.name[right[2]] = c[3] /\ right[3] = c[4]
  <2> HIDE DEF left
  <2>1. right = Interface(FirstNamed(u, c[3]), c[4])
    OBVIOUS
  <2> HIDE DEF right
  <2>2. QED BY <1>5, <1>6, <2>1, EndIsFound
<1> HIDE DEF left, right
<1>10. EndOf(u, left) \in Ends(c) /\ EndOf(u, right) \in Ends(c)
  BY <1>8, <1>9 DEF EndOf, Ends
<1>11. ASSUME NEW i \in AllInterfaces(u), EndOf(u, i) \in Ends(c)
       PROVE  i \notin DOMAIN u.wired
  <2> SUFFICES ASSUME i \in DOMAIN u.wired PROVE FALSE
    OBVIOUS
  <2>1. Net(u) /\ i \in AnyInterface /\ Here(u.computers, u.interfaces, i)
    BY <1>3, InterfacesHere DEF Sound
  <2>2. PICK l \in ToSet(u.links) : l.cable = u.wired[i]
    BY <2>1 DEF Net, NetOk, Here
  <2>3. i \in {l.left, l.right}
    BY <2>1, <2>2 DEF Net, NetOk
  <2>4. PICK m \in 1..(j-1) : u.links[m] = l
    BY <1>3, ElementsByPlace DEF CablesAre
  <2>5. f.cables[m] = SavedCable(u, l)
    BY <2>4 DEF CablesAre
  <2>6. EndOf(u, i) \in Ends(f.cables[m])
    BY <2>3, <2>5, SavedEnds
  <2>7. m \in 1..Len(f.cables) /\ m # j
    BY <1>1, <1>2, <2>4
  <2>8. Ends(f.cables[m]) \cap Ends(f.cables[j]) = {}
    BY <1>1, <2>7 DEF FileOk
  <2>9. QED BY <1>11, <2>6, <2>8 DEF c
<1>12. v = ConnectInterfaces(u, left, right) /\ left \notin DOMAIN u.wired /\ right \notin DOMAIN u.wired
  BY <1>7, <1>8, <1>9, <1>10, <1>11
<1>13. /\ v.computers = u.computers /\ v.raised = None /\ v.name = u.name
       /\ v.interfaces = u.interfaces /\ v.links = Linked(u.links, u.cables + 1, left, right)
  BY <1>3, <1>8, <1>9, <1>12, ConnectStays
<1> DEFINE k == u.cables + 1
           new == [cable |-> k, left |-> left, right |-> right]
<1>14. /\ Len(u.links) = j - 1 /\ Len(v.links) = j /\ v.links[j] = new
       /\ \A m \in 1..(j-1) : v.links[m] = u.links[m]
  <2>1. Len(u.links) = j - 1 /\ v.links = Append(u.links, new)
    BY <1>13 DEF CablesAre, Linked
  <2> HIDE DEF new
  <2>2. QED BY <1>2, <1>3, <2>1
<1>15. SavedCable(v, new) = c
  <2>1. SavedCable(v, new) = <<c[1], c[2], c[3], c[4]>>
    BY <1>8, <1>9, <1>13 DEF SavedCable
  <2>2. c = <<c[1], c[2], c[3], c[4]>>
    BY <1>2 DEF SavedCables
  <2>3. QED BY <2>1, <2>2
<1> HIDE DEF new
<1>16. ASSUME NEW m \in 1..j PROVE SavedCable(v, v.links[m]) = f.cables[m]
  <2>1. CASE m = j
    BY <1>14, <1>15, <2>1 DEF c
  <2>2. CASE m # j
    <3>1. m \in 1..(j-1)
      BY <1>2, <2>2
    <3>2. v.links[m] = u.links[m] /\ SavedCable(u, u.links[m]) = f.cables[m]
      BY <1>14, <3>1 DEF CablesAre
    <3>3. QED BY <1>13, <3>2 DEF SavedCable
  <2>3. QED BY <2>1, <2>2
<1>17. ComputersAre(v, f, Len(f.computers))
  BY <1>6, <1>13 DEF ComputersAre, SavedComputer
<1>18. QED BY <1>13, <1>14, <1>16, <1>17 DEF CablesAre

(* A file without computers of one name is loaded as it was saved.         *)
LEMMA FileRestored ==
  ASSUME NEW t \in Good, t.file \in Files, t.raised = None, EnoughToLoad(t), ~SharedNames(t.file)
  PROVE  CablesAre(Load(t), t.file, Len(t.file.cables))
<1> DEFINE f == t.file
           n == Len(f.cables)
<1>1. PICK g \in [0..n -> Good] : CablesLoadedBy(g, t)
  BY LoadStays
<1>2. n \in Nat /\ f \in Files
  BY DEF Files, AnyFile
<1>3. /\ g[0] = LoadComputers(t) /\ g[n] = Load(t)
      /\ \A i \in 1..n : g[i] = ConnectUnlessRaised(g[i-1], f.cables[i])
  BY <1>1 DEF CablesLoadedBy
<1> DEFINE G == {i \in 0..n : CablesAre(g[i], f, i)}
<1>4. 0 \in G
  <2>1. ComputersAre(g[0], f, Len(f.computers)) /\ g[0].links = <<>> /\ g[0].raised = None
    BY <1>3, ComputersRestored
  <2>2. CablesAre(g[0], f, 0)
    BY <2>1 DEF CablesAre
  <2>3. QED BY <1>2, <2>2
<1>5. \A i \in 1..n : i - 1 \in G => i \in G
  <2> SUFFICES ASSUME NEW i \in 1..n, i - 1 \in G PROVE i \in G
    OBVIOUS
  <2>1. g[i-1] \in Good /\ CablesAre(g[i-1], f, i - 1) /\ i \in 0..n
    BY <1>2
  <2>2. g[i] = ConnectUnlessRaised(g[i-1], f.cables[i]) /\ ~SharedNames(f)
    BY <1>3
  <2> HIDE DEF f
  <2>3. CablesAre(g[i], f, i)
    <3> DEFINE v == g[i]
               w == g[i-1]
    <3>1. w \in Good /\ CablesAre(w, f, i - 1) /\ v = ConnectUnlessRaised(w, f.cables[i])
      BY <2>1, <2>2
    <3> HIDE DEF v, w
    <3>2. i \in 1..Len(f.cables)
      OBVIOUS
    <3>3. CablesAre(v, f, i)
      BY <1>2, <2>2, <3>1, <3>2, OneMoreCable
    <3>4. QED BY <3>3 DEF v
  <2>4. QED BY <2>1, <2>3
<1> HIDE DEF G
<1>6. \A i \in 0..n : i \in G
  BY <1>2, <1>4, <1>5, Induction
<1>7. QED BY <1>2, <1>3, <1>6 DEF G

(* Such a program is saved as that file.                                   *)
LEMMA SavedAgain ==
  ASSUME NEW u \in Good, NEW f \in Files, CablesAre(u, f, Len(f.cables))
  PROVE  Saved(u) = f
<1>1. /\ f.computers \in Seq(SavedComputers) /\ f.cables \in Seq(SavedCables)
      /\ f = [computers |-> f.computers, cables |-> f.cables]
  BY DEF Files, AnyFile, SavedComputers, SavedCables
<1>2. /\ Len(u.computers) = Len(f.computers) /\ Len(u.links) = Len(f.cables)
      /\ \A m \in 1..Len(f.computers) : SavedComputer(u, u.computers[m]) = f.computers[m]
      /\ \A m \in 1..Len(f.cables) : SavedCable(u, u.links[m]) = f.cables[m]
  BY DEF CablesAre, ComputersAre
<1>3. f.computers = [m \in 1..Len(f.computers) |-> f.computers[m]]
  BY <1>1
<1>4. f.cables = [m \in 1..Len(f.cables) |-> f.cables[m]]
  BY <1>1
<1>5. [m \in 1..Len(u.computers) |-> SavedComputer(u, u.computers[m])] = f.computers
  BY <1>2, <1>3
<1>6. [m \in 1..Len(u.links) |-> SavedCable(u, u.links[m])] = f.cables
  BY <1>2, <1>4
<1>7. QED BY <1>1, <1>5, <1>6 DEF Saved

-----------------------------------------------------------------------------
(* The mouse.                                                              *)

(* The selecting square comes on the screen.                               *)
LEMMA SquareStays ==
  ASSUME NEW t \in Good, NEW u, u = CreateSelectingSquare(t)
  PROVE  /\ u \in Good /\ u.mode = t.mode /\ u.source = t.source /\ u.computers = t.computers
         /\ u.raised = t.raised /\ u.loop.leaving = t.loop.leaving /\ OnScreen(t) \subseteq OnScreen(u)
<1>1. t \in Sound /\ t \in Program /\ t.loop \in Registries
  BY SoundParts DEF Good
<1>2. CASE u = t
  BY <1>2
<1>3. CASE u = [t EXCEPT !.square = TRUE, !.loop = RegisterOne(@, Square, FALSE, {})]
  <2> DEFINE m == RegisterOne(t.loop, Square, FALSE, {})
             v == [t EXCEPT !.loop = m]
  <2>1. Harmless(t.loop, m) /\ m.leaving = t.loop.leaving /\ ToSet(t.loop.objects) \subseteq ToSet(m.objects)
    <3> DEFINE o == Square
    <3>1. /\ o \in AnyInterface \cup {Square} /\ o \in Objects
          /\ m = RegisterOne(t.loop, o, FALSE, {}) /\ m = RegisterPlain(t.loop, o)
      BY DEF Objects, Square, RegisterPlain
    <3> HIDE DEF o, m
    <3>2. Harmless(t.loop, m)
      BY <1>1, <3>1, RegisterHarmless
    <3>3. t.loop \in Registries /\ o \in Objects /\ m = RegisterPlain(t.loop, o)
      BY <1>1, <3>1
    <3>4. m.leaving = t.loop.leaving /\ ToSet(m.objects) = ToSet(t.loop.objects) \cup {o}
      BY <3>3, PlainMakes
    <3>5. QED BY <3>2, <3>4
  <2>2. u = [v EXCEPT !.square = TRUE]
    BY <1>1, <1>3 DEF Program
  <2> HIDE DEF m
  <2>3. v \in Good /\ SameNet(t, v) /\ SameChoice(t, v) /\ v.loop = m
    BY <1>1, <2>1, LoopStays
  <2> HIDE DEF v
  <2>4. v \in Sound /\ v \in Program
    BY <2>3, SoundParts DEF Good
  <2>5. u \in Program
    BY ZenonT(60), <2>2, <2>4 DEF Program
  <2>6. SameWorld(v, u) /\ SameView(v, u) /\ u.source = v.source
    BY <2>2, <2>4 DEF Program, SameWorld, SameView
  <2>7. u \in Sound
    BY <2>4, <2>5, <2>6, SameIsSound
  <2>8. u \in Good
    BY <2>3, <2>6, <2>7, SameIsGood
  <2>9. QED BY <2>1, <2>3, <2>6, <2>8 DEF SameNet, SameChoice, SameWorld, SameView, OnScreen
<1>4. QED BY <1>2, <1>3 DEF CreateSelectingSquare

(* Marking changes nothing else.                                           *)
LEMMA MarkedStays ==
  ASSUME NEW t \in Sound, NEW q \in Markable, NEW u, u = [t EXCEPT !.marked = q]
  PROVE  /\ u \in Sound /\ SameWorld(t, u) /\ u.raised = t.raised /\ u.mode = t.mode
         /\ u.selected = t.selected /\ u.source = t.source /\ u.view = t.view
         /\ t \in Good => u \in Good
<1>1. t \in Program
  BY SoundParts
<1>2. u \in Program
  BY <1>1 DEF Program
<1>3. /\ SameWorld(t, u) /\ SameView(t, u) /\ u.raised = t.raised /\ u.mode = t.mode
      /\ u.selected = t.selected /\ u.source = t.source /\ u.view = t.view
  BY <1>1 DEF Program, SameWorld, SameView
<1>4. u \in Sound
  BY <1>2, <1>3, SameIsSound
<1>5. t \in Good => u \in Good
  BY <1>3, <1>4, SameIsGood
<1>6. QED BY <1>3, <1>4, <1>5

(* What is on the screen can be selected, or is a window that is open.     *)
LEMMA OnScreenKinds ==
  ASSUME NEW t \in Sound, NEW o \in OnScreen(t)
  PROVE  /\ o \in Objects
         /\ Kind(o) \in Selectables => o \in Chosen
         /\ Kind(o) = "window" => o[2] \in ToSet(t.windows) /\ Shown(t.loop, Window(o[2]))
<1>1. o \in Objects /\ Shown(t.loop, o)
  BY SoundParts DEF OnScreen, Shown
<1>2. Kind(o) = "window" => o[2] \in ToSet(t.windows) /\ Shown(t.loop, Window(o[2]))
  BY <1>1, ObjectKinds DEF Sound, Windows, WindowsOk
<1>3. QED BY <1>1, <1>2 DEF Chosen

(* A press selects or marks what the mouse is on, and the side window may  *)
(* lag.                                                                    *)
LEMMA PressedStays ==
  ASSUME NEW t \in Good, NEW o \in OnScreen(t) \cup {None}, NEW shift \in BOOLEAN,
         NEW u, u = SetMousePressedObjects(t, o, shift)
  PROVE  u \in Sound /\ OnlyLooks(t, u) /\ u.raised = t.raised /\ u.selected \in {t.selected, o}
<1>1. t \in Sound /\ t \in Program /\ t.marked \in Markable /\ t.selected \in Chosen \cup {None}
  BY SoundParts, ProgramParts DEF Good
<1>2. CASE o = None
  <2> DEFINE none == None
             v == Select(t, none)
             empty == <<>>
  <2>1. u = [v EXCEPT !.marked = empty] /\ empty \in Markable /\ none \in Chosen \cup {None}
    BY <1>2, NothingMarked DEF SetMousePressedObjects
  <2> HIDE DEF none, empty
  <2>2. v \in Sound /\ OnlyLooks(t, v) /\ v.raised = t.raised /\ v.selected = none
    BY <1>1, <2>1, SelectStays
  <2> HIDE DEF v
  <2>3. u \in Sound /\ OnlyLooks(v, u) /\ u.raised = v.raised /\ u.selected = v.selected
    BY <2>1, <2>2, MarkedStays, SameOnlyLooks
  <2>4. QED BY <1>2, <2>2, <2>3, LooksCompose DEF none
<1>3. CASE o # None /\ Kind(o) = "window"
  <2> DEFINE w == o[2]
  <2>1. u = Activate(t, w)
    BY <1>3 DEF SetMousePressedObjects
  <2>2. w \in ToSet(t.windows) \cup {None} /\ (w # None => Shown(t.loop, Window(w)))
    BY <1>1, <1>3, OnScreenKinds
  <2> HIDE DEF w
  <2>3. QED BY <1>1, <2>1, <2>2, ActivateStays DEF OnlyLooks
<1>4. CASE o # None /\ Kind(o) \in Selectables
  <2> DEFINE q == IF shift /\ t.selected # None /\ t.selected \notin ToSet(t.marked)
                  THEN Append(t.marked, t.selected) ELSE t.marked
             v == Select(t, o)
  <2>1. q \in Markable
    <3>1. t.marked \in Seq(Chosen) /\ IsInjective(t.marked)
      BY <1>1 DEF Markable
    <3>2. CASE q = t.marked
      BY <1>1, <3>2
    <3>3. CASE t.selected # None /\ t.selected \notin ToSet(t.marked) /\ q = Append(t.marked, t.selected)
      <4>1. t.selected \in Chosen
        BY <1>1, <3>3
      <4> HIDE DEF q
      <4>2. q \in Seq(Chosen) /\ IsInjective(q)
        BY <3>1, <3>3, <4>1, OneMore
      <4>3. QED BY <4>2 DEF Markable
    <3>4. QED BY <3>2, <3>3
  <2>2. o \in Chosen \cup {None} /\ Kind(o) # "window"
    BY <1>1, <1>4, OnScreenKinds DEF Selectables
  <2>3. /\ v \in Sound /\ v.marked = t.marked /\ OnlyLooks(t, v) /\ v.raised = t.raised
        /\ v.selected = o
    BY <1>1, <2>2, SelectStays
  <2>4. u = [v EXCEPT !.marked = q]
    BY <1>4, <2>2, <2>3, SoundParts DEF SetMousePressedObjects, Program
  <2> HIDE DEF q, v
  <2>5. u \in Sound /\ OnlyLooks(v, u) /\ u.raised = v.raised /\ u.selected = v.selected
    BY <2>1, <2>3, <2>4, MarkedStays, SameOnlyLooks
  <2>6. QED BY <2>3, <2>5, LooksCompose
<1>5. CASE o # None /\ Kind(o) # "window" /\ Kind(o) \notin Selectables
  <2>1. u = t
    BY <1>5 DEF SetMousePressedObjects
  <2>2. QED BY <1>1, <2>1 DEF OnlyLooks, SameNet, SamePackets
<1>6. QED BY <1>2, <1>3, <1>4, <1>5

(* When all requests are answered, a computer on the screen exists.        *)
LEMMA OnScreenComputer ==
  ASSUME NEW t \in Sound, Answered(t), NEW o \in OnScreen(t), Kind(o) = "computer"
  PROVE  o[2] \in ToSet(t.computers)
<1>1. o \in Objects /\ Shown(t.loop, o)
  BY SoundParts DEF OnScreen, Shown
<1>2. o[2] \in Devices /\ o = Computer(o[2])
  BY <1>1, ObjectKinds
<1>3. Computer(o[2]) \notin t.loop.leaving
  BY <1>2 DEF Answered
<1>4. QED BY <1>1, <1>2, <1>3 DEF Sound, ScreenOk

(* Buttons and the active window belong to windows that were opened.       *)
LEMMA ButtonsParts ==
  ASSUME NEW t \in Sound
  PROVE  /\ ToSet(t.buttons) \subseteq 1..Len(t.subject) /\ t.buttons \in Seq(Nat)
         /\ t.active # None => t.active \in 1..Len(t.subject)
BY SoundParts, ProgramParts DEF Sound, Windows, WindowsOk

(* What is chosen exists if nothing dangles, and windows know their names. *)
LEMMA NothingDangles ==
  ASSUME NEW t \in Good, ~Dangling(t)
  PROVE  /\ \A o \in OnScreen(t) \cup {t.selected, t.view} : o # None => Exists(t, o)
         /\ MarkedApart(t)
         /\ \A w \in ToSet(t.buttons) : KnowsName(t, w)
<1>1. t \in Program /\ ToSet(t.buttons) \subseteq 1..Len(t.subject) /\ t.subject \in Seq(Subjects)
  BY SoundParts, ProgramParts, ButtonsParts DEF Good
<1>2. \A o \in (ToSet(t.marked) \cup OnScreen(t) \cup {t.selected, t.view}) \ {None} : Exists(t, o)
  BY DEF Dangling
<1>3. \A o, p \in ToSet(t.marked) : ~GoesWith(p, o)
  BY DEF Dangling
<1>4. \A o \in ToSet(t.marked) : o # None
  <2>1. t.marked \in Seq(Chosen)
    BY <1>1, ProgramParts DEF Markable
  <2>2. ToSet(t.marked) \subseteq Chosen
    BY <2>1, ElementsByPlace
  <2>3. QED BY <2>2, EditorConstants DEF Chosen
<1>5. ASSUME NEW w \in ToSet(t.buttons), t.subject[w].does = "name"
      PROVE  t.name[t.subject[w].to] \in t.existing
  <2>1. t.subject[w] \in Subjects
    BY <1>1
  <2>2. t.subject[w].to \in Devices
    BY <1>5, <2>1 DEF Subjects
  <2>3. t.subject[w].to # None
    BY <2>2, EditorConstants
  <2>4. t.subject[w].to # None => t.subject[w].to \in ToSet(t.computers)
    BY DEF Dangling
  <2>5. \A d \in ToSet(t.computers) : t.name[d] \in t.existing
    BY DEF Dangling
  <2>6. QED BY <2>3, <2>4, <2>5
<1>6. QED BY <1>2, <1>3, <1>4, <1>5 DEF MarkedApart, KnowsName

(* A press in the modes without connecting sets the mode, and the view     *)
(* with it,                                                                *)
LEMMA NormalPressStays ==
  ASSUME NEW t \in Good, NEW o \in OnScreen(t) \cup {None}, NEW shift \in BOOLEAN,
         NEW u, u = NormalModeAtPress(t, o, shift)
  PROVE  /\ u \in Good /\ u.mode # "CONNECTING" /\ OnlyLooks(t, u)
         /\ ~Dangling(t) => u.raised = t.raised
<1> DEFINE v == SetMousePressedObjects(t, o, shift)
           mode == IF v.selected # None THEN "VIEW" ELSE "NORMAL"
<1>1. v \in Sound /\ OnlyLooks(t, v) /\ v.raised = t.raised /\ v.selected \in {t.selected, o}
  BY PressedStays
<1>2. mode \in Modes /\ mode # "CONNECTING"
  BY DEF Modes
<1>3. u = SetMode(v, mode) /\ (mode # "VIEW" \/ v.selected # None)
  BY DEF NormalModeAtPress
<1> HIDE DEF v, mode
<1>4. /\ u \in Good /\ u.mode = mode /\ OnlyLooks(v, u)
      /\ (mode # "VIEW" \/ (v.selected # None /\ Exists(v, v.selected))) => u.raised = v.raised
  BY <1>1, <1>2, <1>3, SetModeStays
<1>5. (~Dangling(t) /\ v.selected # None) => Exists(v, v.selected)
  <2> SUFFICES ASSUME ~Dangling(t), v.selected # None PROVE Exists(v, v.selected)
    OBVIOUS
  <2>1. Exists(t, v.selected)
    BY <1>1, NothingDangles
  <2>2. QED BY <1>1, <2>1, SameExists DEF OnlyLooks
<1>6. QED BY <1>1, <1>2, <1>3, <1>4, <1>5, LooksCompose

(* one in the mode of connecting takes the computer or interface under the *)
(* mouse,                                                                  *)
LEMMA StartStays ==
  ASSUME NEW t \in Good, Answered(t), NEW o \in OnScreen(t) \cup {None},
         NEW u, u = StartConnecting(t, o)
  PROVE  u \in Good /\ StartsHere(u) /\ OnlyLooks(t, u) /\ u.raised = t.raised
<1> DEFINE v == [t EXCEPT !.source = o]
           normal == "NORMAL"
<1>1. t \in Sound /\ t \in Program /\ o \in Objects \cup {None}
  BY SoundParts DEF Good
<1>2. v \in Program
  BY <1>1 DEF Program
<1>3. SameWorld(t, v) /\ SameView(t, v) /\ v.source = o /\ v.raised = t.raised
  BY <1>1 DEF Program, SameWorld, SameView
<1>4. v \in Sound
  BY <1>1, <1>2, <1>3, SameIsSound
<1>5. v \in Good
  BY <1>3, <1>4, SameIsGood
<1>6. normal \in Modes /\ normal # "CONNECTING" /\ normal # "VIEW"
  BY DEF Modes
<1>7. u = IF o = None THEN SetMode(v, normal) ELSE v
  BY DEF StartConnecting
<1> HIDE DEF v, normal
<1>8. CASE o = None
  <2>1. u \in Good /\ u.mode = normal /\ OnlyLooks(v, u) /\ u.raised = v.raised
    BY <1>4, <1>6, <1>7, <1>8, SetModeStays
  <2>2. OnlyLooks(t, u)
    BY <1>3, <2>1, SameOnlyLooks, LooksCompose
  <2>3. QED BY <1>3, <1>6, <2>1, <2>2 DEF StartsHere
<1>9. CASE o # None
  <2>1. o \in OnScreen(t) /\ (Kind(o) = "computer" => o[2] \in ToSet(t.computers))
    BY <1>1, <1>9, OnScreenComputer
  <2>2. StartsHere(v)
    BY <1>3, <1>9, <2>1 DEF StartsHere, Is, SameWorld, OnScreen
  <2>3. QED BY <1>3, <1>5, <1>7, <1>9, <2>2, SameOnlyLooks
<1>10. QED BY <1>8, <1>9

(* and every press is one of the two.                                      *)
LEMMA PressStays ==
  ASSUME NEW t \in Good, Answered(t), NEW o \in OnScreen(t) \cup {None}, NEW shift \in BOOLEAN,
         NEW u, u = OnMousePress(t, o, shift)
  PROVE  u \in Good /\ Answered(u) /\ StartsHere(u) /\ (~Dangling(t) => u.raised = t.raised)
<1> DEFINE a == IF t.mode = "CONNECTING" THEN StartConnecting(t, o) ELSE NormalModeAtPress(t, o, shift)
<1>1. u = IF a.raised # None THEN a ELSE CreateSelectingSquare(a)
  BY DEF OnMousePress, Then
<1>2. a \in Good /\ StartsHere(a) /\ OnlyLooks(t, a) /\ (~Dangling(t) => a.raised = t.raised)
  BY StartStays, NormalPressStays DEF StartsHere
<1> HIDE DEF a
<1>3. Answered(a)
  BY <1>2 DEF Answered, OnlyLooks
<1>4. CASE u = a
  BY <1>2, <1>3, <1>4
<1>5. CASE u = CreateSelectingSquare(a)
  <2>1. /\ u \in Good /\ u.mode = a.mode /\ u.source = a.source /\ u.computers = a.computers
        /\ u.raised = a.raised /\ u.loop.leaving = a.loop.leaving /\ OnScreen(a) \subseteq OnScreen(u)
    BY <1>2, <1>5, SquareStays
  <2>2. Answered(u) /\ StartsHere(u)
    BY <1>2, <1>3, <2>1 DEF Answered, StartsHere
  <2>3. QED BY <1>2, <2>1, <2>2
<1>6. QED BY <1>1, <1>4, <1>5

(* The end of a new connection is an interface of a computer that exists:  *)
(* the one named, or a free one.                                           *)
LEMMA EndpointStays ==
  ASSUME NEW t \in Good, NEW o \in Objects, Kind(o) \in {"computer", "interface"},
         Kind(o) = "computer" => o[2] \in ToSet(t.computers),
         NEW u, u = Endpoint(t, o).t, NEW i, i = Endpoint(t, o).i
  PROVE  /\ u \in Good /\ u.computers = t.computers
         /\ Exists(t, o) => u.raised = t.raised
         /\ u.raised = None => (/\ t.raised = None /\ i \in AllInterfaces(u)
                                /\ AllInterfaces(t) \subseteq AllInterfaces(u))
<1>1. t \in Sound /\ t \in Program
  BY SoundParts DEF Good
<1>2. CASE Kind(o) = "computer"
  <2> DEFINE d == o[2]
  <2>1. d \in ToSet(t.computers) /\ u = WithAvailable(t, d) /\ i = Available(t, d)
    BY <1>2 DEF Endpoint
  <2> HIDE DEF d
  <2>2. QED BY <2>1, AvailableStays
<1>3. CASE Kind(o) = "interface" /\ Exists(t, o)
  <2>1. u = t /\ i = o
    BY <1>3 DEF Endpoint
  <2>2. o \in AllInterfaces(t)
    BY <1>3 DEF Exists
  <2>3. QED BY <2>1, <2>2
<1>4. CASE Kind(o) = "interface" /\ ~Exists(t, o)
  <2>1. u = Raise(t, "NoSuchInterfaceError")
    BY <1>4 DEF Endpoint
  <2>2. Raised(t, u)
    BY <1>1, <2>1, Raises
  <2>3. u \in Good /\ SameWorld(t, u) /\ u.raised # None
    BY <1>1, <2>2, RaisedStays
  <2>4. QED BY <1>4, <2>3 DEF SameWorld
<1>5. QED BY <1>2, <1>3, <1>4

(* Connecting what the mouse was pressed on with what it was released on.  *)
LEMMA ConnectDevicesStays ==
  ASSUME NEW t \in Good, NEW o \in Objects \cup {None}, NEW p \in Objects,
         Is(o, {"computer"}) => o[2] \in ToSet(t.computers),
         Is(p, {"computer"}) => p[2] \in ToSet(t.computers),
         NEW u, u = ConnectDevices(t, o, p)
  PROVE  /\ u \in Good
         /\ (/\ t.raised = None
             /\ Is(p, {"interface"}) => Exists(t, p)
             /\ Is(o, {"interface"}) => Exists(t, o)) => u.raised = None
<1> DEFINE a == Endpoint(t, o).t
           i == Endpoint(t, o).i
           b == Endpoint(a, p).t
           j == Endpoint(a, p).i
           both == /\ t.raised = None
                   /\ Is(p, {"interface"}) => Exists(t, p)
                   /\ Is(o, {"interface"}) => Exists(t, o)
<1>1. CASE u = PopupError(t)
  BY <1>1, PopupStays
<1>2. CASE Is(o, {"computer", "interface"}) /\ Is(p, {"computer", "interface"})
  <2>1. u = IF b.raised # None \/ i[2] = j[2] THEN b
            ELSE IF IsConnected(b, i) \/ IsConnected(b, j) THEN PopupError(b)
            ELSE ConnectInterfaces(b, i, j)
    BY <1>2 DEF ConnectDevices
  <2>2. /\ o \in Objects /\ Kind(o) \in {"computer", "interface"}
        /\ Kind(o) = "computer" => o[2] \in ToSet(t.computers)
        /\ both => Exists(t, o)
    BY <1>2 DEF Is, Exists
  <2>3. /\ a \in Good /\ a.computers = t.computers
        /\ both => a.raised = None
        /\ a.raised = None => (/\ t.raised = None /\ i \in AllInterfaces(a)
                               /\ AllInterfaces(t) \subseteq AllInterfaces(a))
    BY <2>2, EndpointStays
  <2> HIDE DEF a, i
  <2>4. /\ Kind(p) \in {"computer", "interface"}
        /\ Kind(p) = "computer" => p[2] \in ToSet(a.computers)
        /\ both => Exists(a, p)
    BY <1>2, <2>3 DEF Is, Exists
  <2>5. /\ b \in Good
        /\ both => b.raised = None
        /\ b.raised = None => (/\ a.raised = None /\ j \in AllInterfaces(b)
                               /\ AllInterfaces(a) \subseteq AllInterfaces(b))
    BY <2>3, <2>4, EndpointStays
  <2> HIDE DEF b, j
  <2>6. CASE b.raised = None /\ ~IsConnected(b, i) /\ ~IsConnected(b, j) /\ u = ConnectInterfaces(b, i, j)
    <3>1. i \in AllInterfaces(b) /\ j \in AllInterfaces(b)
      BY <2>3, <2>5, <2>6
    <3>2. u \in Good /\ u.raised = b.raised
      BY <2>5, <2>6, <3>1, ConnectStays DEF IsConnected
    <3>3. QED BY <2>6, <3>2
  <2>7. PopupError(b) \in Good /\ PopupError(b).raised = b.raised
    BY <2>5, PopupStays
  <2>8. QED BY <2>1, <2>5, <2>6, <2>7 DEF both
<1>3. QED BY <1>1, <1>2 DEF ConnectDevices

(* Releasing the mouse connects, if that was the mode.                     *)
LEMMA ReleaseStays ==
  ASSUME NEW t \in Good, Answered(t), StartsHere(t), NEW o \in OnScreen(t) \cup {None},
         NEW u, u = OnMouseRelease(t, o)
  PROVE  u \in Good /\ ((t.raised = None /\ ~Dangling(t)) => u.raised = None)
<1>1. t \in Sound /\ t \in Program /\ t.source \in Objects \cup {None}
  BY SoundParts, ProgramParts DEF Good
<1>2. CASE t.square
  <2> DEFINE G == {Square}
             v == [t EXCEPT !.loop = UnregisterAll(@, G)]
  <2>1. u = [v EXCEPT !.square = FALSE]
    BY <1>1, <1>2 DEF OnMouseRelease, Program
  <2>2. G \in SUBSET Objects /\ \A p \in G : Kind(p) # "window"
    BY Kinds
  <2> HIDE DEF G
  <2>3. v \in Good /\ v.raised = t.raised
    BY <1>1, <2>2, TakenOffStays DEF SameChoice
  <2> HIDE DEF v
  <2>4. v \in Sound /\ v \in Program
    BY <2>3, SoundParts DEF Good
  <2>5. u \in Program
    BY ZenonT(60), <2>1, <2>4 DEF Program
  <2>6. SameWorld(v, u) /\ SameView(v, u)
    BY <2>1, <2>4 DEF Program, SameWorld, SameView
  <2>7. u \in Sound
    BY <2>4, <2>5, <2>6, SameIsSound
  <2>8. QED BY <2>3, <2>6, <2>7, SameIsGood DEF SameView
<1>3. CASE ~t.square /\ t.mode # "CONNECTING"
  BY <1>3 DEF OnMouseRelease
<1>4. CASE ~t.square /\ t.mode = "CONNECTING"
  <2> DEFINE normal == "NORMAL"
             a == IF o = None THEN t ELSE ConnectDevices(t, t.source, o)
             fine == t.raised = None /\ ~Dangling(t)
  <2>1. u = IF a.raised # None THEN a ELSE SetMode(a, normal)
    BY <1>4 DEF OnMouseRelease, Then
  <2>2. normal \in Modes /\ normal # "VIEW"
    BY DEF Modes
  <2> HIDE DEF normal
  <2>3. a \in Good /\ (fine => a.raised = None)
    <3>1. CASE o # None
      <4>1. o \in Objects /\ (Is(o, {"computer"}) => o[2] \in ToSet(t.computers))
        BY <1>1, <3>1, OnScreenKinds, OnScreenComputer DEF Is
      <4>2. /\ Is(t.source, {"computer"}) => t.source[2] \in ToSet(t.computers)
            /\ Is(t.source, {"interface"}) => t.source \in OnScreen(t)
        BY <1>4 DEF StartsHere
      <4>3. ~Dangling(t) => /\ Is(o, {"interface"}) => Exists(t, o)
                            /\ Is(t.source, {"interface"}) => Exists(t, t.source)
        BY <3>1, <4>2, NothingDangles DEF Is
      <4>4. a = ConnectDevices(t, t.source, o)
        BY <3>1
      <4> HIDE DEF a
      <4>5. QED BY <1>1, <4>1, <4>2, <4>3, <4>4, ConnectDevicesStays
    <3>2. QED BY <3>1
  <2> HIDE DEF a
  <2>4. a \in Sound
    BY <2>3 DEF Good
  <2>5. SetMode(a, normal) \in Good /\ SetMode(a, normal).raised = a.raised
    BY <2>2, <2>4, SetModeStays
  <2>6. QED BY <2>1, <2>3, <2>5
<1>5. QED BY <1>2, <1>3, <1>4

-----------------------------------------------------------------------------
(* The keyboard, and the buttons.                                          *)

(* A new device.                                                           *)
LEMMA CreateDevicesStays ==
  ASSUME NEW t \in Good
  PROVE  \A u \in CreateDevices(t) : u \in Good /\ u.raised = t.raised
<1>1. ASSUME NEW u \in CreateDevices(t) PROVE u \in Good /\ u.raised = t.raised
  <2>1. PICK switch \in BOOLEAN :
          /\ Fresh(t, switch) # {} /\ Names \ t.existing # {}
          /\ u = Create(t, CHOOSE d \in Fresh(t, switch) : TRUE, CHOOSE n \in Names \ t.existing : TRUE, {})
    BY <1>1 DEF CreateDevices
  <2> DEFINE d == CHOOSE d \in Fresh(t, switch) : TRUE
             name == CHOOSE n \in Names \ t.existing : TRUE
             P == {}
  <2>2. d \in Devices /\ d \notin ToSet(t.computers)
    BY <2>1, FreshIsNew
  <2>3. name \in AnyName
    <3>1. name \in Names \ t.existing
      BY <2>1
    <3>2. QED BY <3>1 DEF AnyName
  <2>4. P \in Ports
    BY DEF Ports
  <2>5. u = Create(t, d, name, P)
    BY <2>1
  <2> HIDE DEF d, name, P
  <2>6. QED BY <2>2, <2>3, <2>4, <2>5, CreateStays
<1>2. QED BY <1>1

(* The key that toggles connecting,                                        *)
LEMMA ToggleStays ==
  ASSUME NEW t \in Good
  PROVE  ToggleConnecting(t) \in Good /\ ToggleConnecting(t).raised = t.raised
<1> DEFINE mode == IF t.mode = "CONNECTING" THEN "NORMAL" ELSE "CONNECTING"
<1>1. t \in Sound /\ mode \in Modes /\ mode # "VIEW" /\ ToggleConnecting(t) = SetMode(t, mode)
  BY DEF Good, Modes, ToggleConnecting
<1> HIDE DEF mode
<1>2. QED BY <1>1, SetModeStays

(* the tab key,                                                            *)
LEMMA TabsStay ==
  ASSUME NEW t \in Good
  PROVE  \A u \in Tabs(t) : u \in Good /\ (~Dangling(t) => u.raised = t.raised)
<1>1. t \in Sound
  BY DEF Good
<1>2. ASSUME NEW o \in OnScreen(t), Kind(o) \in Selectables
      PROVE  /\ SelectAndView(t, o) \in Good
             /\ ~Dangling(t) => SelectAndView(t, o).raised = t.raised
  <2>1. o \in Chosen /\ o # None
    BY <1>1, <1>2, OnScreenKinds, EditorConstants DEF Chosen
  <2>2. ~Dangling(t) => Exists(t, o)
    BY <2>1, NothingDangles
  <2>3. QED BY <1>1, <2>1, <2>2, SelectAndViewStays
<1>3. QED BY <1>2 DEF Tabs

(* an open window becomes the active one,                                  *)
LEMMA ActivatedStays ==
  ASSUME NEW t \in Good, NEW w \in ToSet(t.windows), Shown(t.loop, Window(w))
  PROVE  Activate(t, w) \in Good /\ Activate(t, w).raised = t.raised
<1>1. t \in Sound
  BY DEF Good
<1>2. Activate(t, w) \in Sound /\ SameView(t, Activate(t, w))
  BY <1>1, ActivateStays
<1>3. QED BY <1>2, SameIsGood DEF SameView

(* and alt with tab chooses one of the windows of the list.                *)
LEMMA AltTabsStay ==
  ASSUME NEW t \in Good
  PROVE  \A u \in AltTabs(t) : u \in Good /\ u.raised = t.raised
<1> DEFINE open == {o[2] : o \in {o \in OnScreen(t) : Kind(o) = "window"}}
           older == {v \in open : t.active \in open /\ v < t.active}
           newer == {v \in open : t.active \in open /\ v > t.active}
           O == IF older = {} THEN open ELSE older
           N == IF newer = {} THEN open ELSE newer
<1>1. t \in Sound /\ Len(t.subject) \in Nat
  BY SoundParts DEF Good
<1>2. \A w \in open : w \in ToSet(t.windows) /\ Shown(t.loop, Window(w))
  BY <1>1, OnScreenKinds
<1>3. ToSet(t.windows) \subseteq 1..Len(t.subject)
  BY <1>1 DEF Sound, Windows, WindowsOk
<1>4. open \subseteq 0..Len(t.subject)
  BY <1>1, <1>2, <1>3
<1>5. O \subseteq open /\ N \subseteq open /\ (open # {} => (O # {} /\ N # {}))
  OBVIOUS
<1>6. Before(open, t.active) = Max(O) /\ After(open, t.active) = Min(N)
  BY DEF Before, After
<1>7. \A u \in AltTabs(t) : open # {} /\ u \in {Activate(t, Before(open, t.active)), Activate(t, After(open, t.active))}
  BY DEF AltTabs
<1> HIDE DEF open, O, N
<1>8. open # {} => (Max(O) \in open /\ Min(N) \in open)
  <2>1. CASE open # {}
    <3>1. O \subseteq 0..Len(t.subject) /\ O # {}
      BY <1>4, <1>5, <2>1
    <3>2. Max(O) \in O
      BY <1>1, <3>1, GreatestNumber
    <3>3. N \subseteq Nat /\ N # {}
      BY <1>1, <1>4, <1>5, <2>1
    <3>4. Min(N) \in N
      BY <3>3, LeastIsMin
    <3>5. QED BY <1>5, <3>2, <3>4
  <2>2. QED BY <2>1
<1>9. \A w \in open : Activate(t, w) \in Good /\ Activate(t, w).raised = t.raised
  BY <1>2, ActivatedStays
<1>10. QED BY <1>6, <1>7, <1>8, <1>9

(* Escape.                                                                 *)
LEMMA ClearStays ==
  ASSUME NEW t \in Good
  PROVE  ClearSelectedAndActive(t) \in Good /\ ClearSelectedAndActive(t).raised = t.raised
<1> DEFINE none == None
           v == Select(t, none)
           empty == <<>>
<1>1. t \in Sound /\ none \in Chosen \cup {None} /\ empty \in Markable
  BY NothingMarked DEF Good
<1>2. ClearSelectedAndActive(t) = [v EXCEPT !.marked = empty]
  BY DEF ClearSelectedAndActive
<1> HIDE DEF empty
<1>3. v \in Sound /\ v \in Good /\ v.raised = t.raised
  <2> HIDE DEF none
  <2>1. v \in Sound /\ v.raised = t.raised /\ (none = None => v \in Good)
    BY <1>1, SelectStays
  <2>2. QED BY <2>1 DEF none
<1> HIDE DEF v
<1>4. QED BY <1>1, <1>2, <1>3, MarkedStays

(* Marking every computer on the screen.                                   *)
LEMMA SelectAllStays ==
  ASSUME NEW t \in Good
  PROVE  SelectAll(t) \in Good /\ SelectAll(t).raised = t.raised
<1> DEFINE none == None
           v == Select(t, none)
           q == [n \in 1..Len(t.computers) |-> Computer(t.computers[n])]
<1>1. t \in Sound /\ none \in Chosen \cup {None} /\ t.computers \in Seq(Devices)
  BY SoundParts DEF Good
<1>2. q \in Markable
  <2>1. Len(t.computers) \in Nat /\ \A n \in 1..Len(t.computers) : t.computers[n] \in Devices
    BY <1>1
  <2>2. \A d \in Devices : Computer(d) \in Chosen
    BY Kinds DEF Chosen, Selectables
  <2>3. q \in [1..Len(t.computers) -> Chosen]
    BY <2>1, <2>2
  <2>4. \A m, n \in 1..Len(t.computers) : q[m] = q[n] => m = n
    <3>1. \A m, n \in 1..Len(t.computers) : t.computers[m] = t.computers[n] => m = n
      BY <1>1 DEF Sound, Net, NetOk, IsInjective
    <3>2. QED BY <2>1, <3>1 DEF Computer
  <2> HIDE DEF q
  <2>5. q \in Seq(Chosen)
    BY <2>1, <2>3, FunctionIsSequence
  <2>6. IsInjective(q)
    BY <2>3, <2>4 DEF IsInjective
  <2>7. QED BY <2>5, <2>6 DEF Markable
<1>3. SelectAll(t) = [v EXCEPT !.marked = q]
  BY DEF SelectAll
<1> HIDE DEF q
<1>4. v \in Sound /\ v \in Good /\ v.raised = t.raised
  <2> HIDE DEF none
  <2>1. v \in Sound /\ v.raised = t.raised /\ (none = None => v \in Good)
    BY <1>1, SelectStays
  <2>2. QED BY <2>1 DEF none
<1> HIDE DEF v
<1>5. QED BY <1>2, <1>3, <1>4, MarkedStays

(* Stopping the packets of every cable.                                    *)
LEMMA DeletePacketsStays ==
  ASSUME NEW t \in Good
  PROVE  DeleteAllPackets(t) \in Good /\ DeleteAllPackets(t).raised = t.raised
<1> DEFINE S == {l.cable : l \in ToSet(t.links)}
<1>1. t \in Sound /\ DeleteAllPackets(t) = StopPackets(t, S)
  BY DEF Good, DeleteAllPackets
<1> HIDE DEF S
<1>2. DeleteAllPackets(t) \in Sound /\ SameView(t, DeleteAllPackets(t))
  BY <1>1, StopStays
<1>3. QED BY <1>2, SameIsGood DEF SameView

(* The buttons of the side window: each acts on the selected object.       *)
LEMMA ViewButtonsStay ==
  ASSUME NEW t \in Good
  PROVE  \A u \in ViewButtons(t) : u \in Good /\ (~Dangling(t) => u.raised = t.raised)
<1>1. t \in Sound /\ t.view \in Chosen \cup {None}
  BY SoundParts, ProgramParts DEF Good
<1>2. CASE Is(t.view, {"computer"})
  <2>1. t.view[2] \in Devices
    BY <1>1, <1>2, ChosenKinds DEF Is
  <2>2. ViewButtons(t) = {AskUserFor(t, does, t.view[2]) : does \in {"name", "interface"}}
    <3>1. ~Is(t.view, {"packet"})
      BY <1>2 DEF Is
    <3>2. QED BY <1>2, <3>1 DEF ViewButtons
  <2>3. \A does \in {"name", "interface"} : /\ AskUserFor(t, does, t.view[2]) \in Good
                                           /\ AskUserFor(t, does, t.view[2]).raised = t.raised
    BY <2>1, PopupStays
  <2>4. QED BY <2>2, <2>3
<1>3. CASE ~Is(t.view, {"computer"}) /\ Is(t.view, {"packet"})
  <2> DEFINE k == t.view[2]
  <2>1. ViewButtons(t) = {DropPacket(t, k)}
    BY <1>3 DEF ViewButtons, PacketButtons
  <2>2. DropPacket(t, k) \in Good /\ (k \in Carried(t) => DropPacket(t, k).raised = t.raised)
    BY DropPacketStays
  <2>3. ~Dangling(t) => k \in Carried(t)
    <3>1. ~Dangling(t) => Exists(t, t.view)
      BY <1>3, NothingDangles DEF Is
    <3>2. Exists(t, t.view) => t.view[2] \in Carried(t)
      BY <1>3 DEF Exists, Is
    <3>3. QED BY <3>1, <3>2
  <2>4. QED BY <2>1, <2>2, <2>3
<1>4. CASE ~Is(t.view, {"computer"}) /\ ~Is(t.view, {"packet"})
  BY <1>4 DEF ViewButtons
<1>5. QED BY <1>2, <1>3, <1>4

(* One of the windows was given the name "loopback".                       *)
SomeGivenLoopback(t, u) == \E w \in ToSet(t.buttons) : GivenLoopback(t, w, u)

(* The buttons of the windows.                                             *)
LEMMA WindowButtonsStay ==
  ASSUME NEW t \in Good
  PROVE  \A u \in WindowButtons(t) :
           u \in Good /\ (~Dangling(t) => u.raised = t.raised \/ SomeGivenLoopback(t, u))
<1>1. ToSet(t.buttons) \subseteq 1..Len(t.subject)
  BY ButtonsParts DEF Good
<1>2. ASSUME NEW w \in 1..Len(t.subject)
      PROVE  /\ CloseWindow(t, w) \in Good /\ CloseWindow(t, w).raised = t.raised
             /\ \A u \in Submitted(t, w) :
                  u \in Good /\ (KnowsName(t, w) => u.raised = t.raised \/ GivenLoopback(t, w, u))
  BY CloseWindowStays, SubmittedStays
<1>3. ~Dangling(t) => \A w \in ToSet(t.buttons) : KnowsName(t, w)
  BY NothingDangles
<1>4. QED BY <1>1, <1>2, <1>3 DEF WindowButtons, SomeGivenLoopback

(* Enter answers the active window, or presses the first button.           *)
LEMMA EnterStays ==
  ASSUME NEW t \in Good
  PROVE  \A u \in EnterPressed(t) :
           u \in Good /\ (~Dangling(t) => u.raised = t.raised \/ SomeGivenLoopback(t, u))
<1>1. /\ ToSet(t.buttons) \subseteq 1..Len(t.subject) /\ t.buttons \in Seq(Nat)
      /\ t.active # None => t.active \in ToSet(t.buttons)
  BY ButtonsParts DEF Good, Sound, Windows, WindowsOk
<1>2. t.buttons # <<>> => Head(t.buttons) \in ToSet(t.buttons)
  <2>1. CASE t.buttons # <<>>
    <3>1. 1 \in 1..Len(t.buttons) /\ Head(t.buttons) = t.buttons[1]
      BY <1>1, <2>1
    <3>2. QED BY <1>1, <3>1, ElementsByPlace
  <2>2. QED BY <2>1
<1>3. \A u \in EnterPressed(t) :
        \E w \in ToSet(t.buttons) : u \in Submitted(t, w) \/ u = CloseWindow(t, w)
  BY <1>1, <1>2 DEF EnterPressed
<1>4. \A w \in 1..Len(t.subject) :
        /\ CloseWindow(t, w) \in Good /\ CloseWindow(t, w).raised = t.raised
        /\ \A u \in Submitted(t, w) :
             u \in Good /\ (KnowsName(t, w) => u.raised = t.raised \/ GivenLoopback(t, w, u))
  BY CloseWindowStays, SubmittedStays
<1>5. ~Dangling(t) => \A w \in ToSet(t.buttons) : KnowsName(t, w)
  BY NothingDangles
<1>6. QED BY <1>1, <1>3, <1>4, <1>5 DEF SomeGivenLoopback

(* The folds of the two keys that connect many computers.                  *)
ConnectPair(u, d, e) ==
  IF d = e \/ AreConnected(u, d, e) \/ u.raised # None THEN u ELSE ConnectComputers(u, d, e)

ConnectToAll(u, C, d) == FoldLeft(LAMBDA v, e : ConnectPair(v, d, e), u, C)

(* With computers C, and raised as before.                                 *)
GoodWith(C, e) == {u \in Good : u.computers = C /\ u.raised = e}

(* Connecting one pair,                                                    *)
LEMMA ConnectPairStays ==
  ASSUME NEW C, NEW x, NEW u \in GoodWith(C, x), NEW d \in ToSet(C), NEW e \in ToSet(C)
  PROVE  ConnectPair(u, d, e) \in GoodWith(C, x)
<1>1. u \in Good /\ d \in ToSet(u.computers) /\ e \in ToSet(u.computers) /\ u.computers = C /\ u.raised = x
  BY DEF GoodWith
<1>2. /\ ConnectComputers(u, d, e) \in Good /\ ConnectComputers(u, d, e).computers = u.computers
      /\ ConnectComputers(u, d, e).raised = u.raised
  BY <1>1, ConnectComputersStays
<1>3. QED BY <1>1, <1>2 DEF ConnectPair, GoodWith

(* one computer with all,                                                  *)
LEMMA ConnectToAllStays ==
  ASSUME NEW C \in Seq(Devices), NEW r, NEW t \in GoodWith(C, r), NEW d \in ToSet(C)
  PROVE  ConnectToAll(t, C, d) \in GoodWith(C, r)
<1> DEFINE A == GoodWith(C, r)
           B == ToSet(C)
           q == C
           base == t
           f == [x \in A \X B |-> ConnectPair(x[1], d, x[2])]
           Steps(it) == [p \in SUBSET (DOMAIN q) |->
                           IF p = {} THEN base ELSE ConnectPair(it[p \ {Max(p)}], d, q[Max(p)])]
           Iter == CHOOSE it : it = Steps(it)
           end == Iter[DOMAIN q]
<1>1. q \in Seq(B) /\ base \in A
  BY OfItsElements
<1>2. f \in [A \X B -> A] /\ \A u \in A, e \in B : f[<<u, e>>] = ConnectPair(u, d, e)
  BY ConnectPairStays
<1>3. ConnectToAll(t, C, d) = end
  BY DEF ConnectToAll, FoldLeft, MapThenFoldSet
<1> HIDE DEF f, base, q, A, B
<1>4. PICK it \in [SUBSET (DOMAIN q) -> A] : IsFold(it, f, base, q)
  BY <1>1, <1>2, FoldExists
<1>5. \A p \in SUBSET (DOMAIN q) : p # {} =>
        q[Max(p)] \in B /\ p \ {Max(p)} \in SUBSET (DOMAIN q)
  BY <1>1, InitialIntervals
<1>6. \A p \in SUBSET (DOMAIN q) :
        it[p] = IF p = {} THEN base ELSE ConnectPair(it[p \ {Max(p)}], d, q[Max(p)])
  BY <1>2, <1>4, <1>5 DEF IsFold
<1>7. it = Steps(it)
  BY <1>6
<1>8. Iter = Steps(Iter)
  BY <1>7
<1> HIDE DEF Iter
<1>9. Iter[{}] = base
  BY <1>8
<1>10. \A p \in SUBSET (DOMAIN q) : (p # {} /\ Iter[p \ {Max(p)}] \in A) =>
          Iter[p] = f[<<Iter[p \ {Max(p)}], q[Max(p)]>>]
  BY ZenonT(60), <1>2, <1>5, <1>8
<1>11. PICK g \in [0..Len(q) -> A] : FoldedBy(g, f, base, q, end)
  BY <1>1, <1>2, <1>9, <1>10, FoldHistory
<1>12. Len(q) \in 0..Len(q)
  BY <1>1
<1>13. end \in A
  BY <1>11, <1>12 DEF FoldedBy
<1>14. QED BY <1>3, <1>13 DEF A

(* all with all (connect_all_to_all).                                      *)
LEMMA ConnectAllStays ==
  ASSUME NEW t \in Good
  PROVE  ConnectAllToAll(t) \in Good /\ ConnectAllToAll(t).raised = t.raised
<1> DEFINE C == t.computers
           A == GoodWith(C, t.raised)
           B == ToSet(C)
           q == C
           base == t
           f == [x \in A \X B |-> ConnectToAll(x[1], C, x[2])]
           Steps(it) == [p \in SUBSET (DOMAIN q) |->
                           IF p = {} THEN base ELSE ConnectToAll(it[p \ {Max(p)}], C, q[Max(p)])]
           Iter == CHOOSE it : it = Steps(it)
           end == Iter[DOMAIN q]
<1>1. q \in Seq(B) /\ base \in A /\ C \in Seq(Devices)
  BY SoundParts, OfItsElements DEF Good, GoodWith
<1>2. f \in [A \X B -> A] /\ \A u \in A, e \in B : f[<<u, e>>] = ConnectToAll(u, C, e)
  BY <1>1, ConnectToAllStays
<1>3. ConnectAllToAll(t) = end
  BY DEF ConnectAllToAll, ConnectToAll, ConnectPair, FoldLeft, MapThenFoldSet
<1> HIDE DEF f, base, q, A, B
<1>4. PICK it \in [SUBSET (DOMAIN q) -> A] : IsFold(it, f, base, q)
  BY <1>1, <1>2, FoldExists
<1>5. \A p \in SUBSET (DOMAIN q) : p # {} =>
        q[Max(p)] \in B /\ p \ {Max(p)} \in SUBSET (DOMAIN q)
  BY <1>1, InitialIntervals
<1>6. \A p \in SUBSET (DOMAIN q) :
        it[p] = IF p = {} THEN base ELSE ConnectToAll(it[p \ {Max(p)}], C, q[Max(p)])
  BY <1>2, <1>4, <1>5 DEF IsFold
<1>7. it = Steps(it)
  BY <1>6
<1>8. Iter = Steps(Iter)
  BY <1>7
<1> HIDE DEF Iter
<1>9. Iter[{}] = base
  BY <1>8
<1>10. \A p \in SUBSET (DOMAIN q) : (p # {} /\ Iter[p \ {Max(p)}] \in A) =>
          Iter[p] = f[<<Iter[p \ {Max(p)}], q[Max(p)]>>]
  BY ZenonT(60), <1>2, <1>5, <1>8
<1>11. PICK g \in [0..Len(q) -> A] : FoldedBy(g, f, base, q, end)
  BY <1>1, <1>2, <1>9, <1>10, FoldHistory
<1>12. Len(q) \in 0..Len(q)
  BY <1>1
<1>13. end \in A
  BY <1>11, <1>12 DEF FoldedBy
<1>14. QED BY <1>3, <1>13 DEF A, GoodWith

IsLonely(u, d) ==
  \/ u.interfaces[d] = {}
  \/ ~IsConnected(u, Interface(d, Min(u.interfaces[d])))

ConnectLonely(u, d, e) ==
  IF d \notin Switches /\ IsLonely(u, d) THEN ConnectComputers(u, d, e) ELSE u

ConnectLonelyTo(t, nearest) == FoldLeft(LAMBDA u, d : ConnectLonely(u, d, nearest), t, t.computers)

(* Connecting one computer whose first interface is free to a switch,      *)
LEMMA ConnectLonelyStays ==
  ASSUME NEW C, NEW x, NEW u \in GoodWith(C, x), NEW d \in ToSet(C), NEW e \in ToSet(C)
  PROVE  ConnectLonely(u, d, e) \in GoodWith(C, x)
<1>1. u \in Good /\ d \in ToSet(u.computers) /\ e \in ToSet(u.computers) /\ u.computers = C /\ u.raised = x
  BY DEF GoodWith
<1>2. /\ ConnectComputers(u, d, e) \in Good /\ ConnectComputers(u, d, e).computers = u.computers
      /\ ConnectComputers(u, d, e).raised = u.raised
  BY <1>1, ConnectComputersStays
<1>3. QED BY <1>1, <1>2 DEF ConnectLonely, GoodWith

(* every such computer,                                                    *)
LEMMA ConnectLonelyToStays ==
  ASSUME NEW t \in Good, NEW nearest \in ToSet(t.computers)
  PROVE  ConnectLonelyTo(t, nearest) \in Good /\ ConnectLonelyTo(t, nearest).raised = t.raised
<1> DEFINE C == t.computers
           A == GoodWith(C, t.raised)
           B == ToSet(C)
           q == C
           base == t
           f == [x \in A \X B |-> ConnectLonely(x[1], x[2], nearest)]
           Steps(it) == [p \in SUBSET (DOMAIN q) |->
                           IF p = {} THEN base ELSE ConnectLonely(it[p \ {Max(p)}], q[Max(p)], nearest)]
           Iter == CHOOSE it : it = Steps(it)
           end == Iter[DOMAIN q]
<1>1. q \in Seq(B) /\ base \in A /\ C \in Seq(Devices)
  BY SoundParts, OfItsElements DEF Good, GoodWith
<1>2. f \in [A \X B -> A] /\ \A u \in A, e \in B : f[<<u, e>>] = ConnectLonely(u, e, nearest)
  BY <1>1, ConnectLonelyStays
<1>3. ConnectLonelyTo(t, nearest) = end
  BY DEF ConnectLonelyTo, FoldLeft, MapThenFoldSet
<1> HIDE DEF f, base, q, A, B
<1>4. PICK it \in [SUBSET (DOMAIN q) -> A] : IsFold(it, f, base, q)
  BY <1>1, <1>2, FoldExists
<1>5. \A p \in SUBSET (DOMAIN q) : p # {} =>
        q[Max(p)] \in B /\ p \ {Max(p)} \in SUBSET (DOMAIN q)
  BY <1>1, InitialIntervals
<1>6. \A p \in SUBSET (DOMAIN q) :
        it[p] = IF p = {} THEN base ELSE ConnectLonely(it[p \ {Max(p)}], q[Max(p)], nearest)
  BY <1>2, <1>4, <1>5 DEF IsFold
<1>7. it = Steps(it)
  BY <1>6
<1>8. Iter = Steps(Iter)
  BY <1>7
<1> HIDE DEF Iter
<1>9. Iter[{}] = base
  BY <1>8
<1>10. \A p \in SUBSET (DOMAIN q) : (p # {} /\ Iter[p \ {Max(p)}] \in A) =>
          Iter[p] = f[<<Iter[p \ {Max(p)}], q[Max(p)]>>]
  BY ZenonT(60), <1>2, <1>5, <1>8
<1>11. PICK g \in [0..Len(q) -> A] : FoldedBy(g, f, base, q, end)
  BY <1>1, <1>2, <1>9, <1>10, FoldHistory
<1>12. Len(q) \in 0..Len(q)
  BY <1>1
<1>13. end \in A
  BY <1>11, <1>12 DEF FoldedBy
<1>14. QED BY <1>3, <1>13 DEF A, GoodWith

(* to any switch, or all with all if there is none (smart_connect).        *)
LEMMA SmartStays ==
  ASSUME NEW t \in Good, Answered(t)
  PROVE  \A u \in SmartConnect(t) : u \in Good /\ u.raised = t.raised
<1> DEFINE onScreen == {d \in Switches : Computer(d) \in OnScreen(t)}
<1>1. SmartConnect(t) = IF onScreen = {} THEN {ConnectAllToAll(t)}
                        ELSE {ConnectLonelyTo(t, d) : d \in onScreen}
  BY DEF SmartConnect, ConnectLonelyTo, ConnectLonely, IsLonely
<1>2. ASSUME NEW d \in onScreen
      PROVE  ConnectLonelyTo(t, d) \in Good /\ ConnectLonelyTo(t, d).raised = t.raised
  <2> DEFINE o == Computer(d)
  <2>1. d \in Devices
    BY EditorConstants
  <2>2. t \in Sound /\ o \in OnScreen(t) /\ Kind(o) = "computer" /\ o[2] = d
    BY <2>1, Kinds DEF Good
  <2> HIDE DEF o, onScreen
  <2>3. d \in ToSet(t.computers)
    BY <2>2, OnScreenComputer
  <2>4. QED BY <2>3, ConnectLonelyToStays
<1> HIDE DEF onScreen
<1>3. QED BY <1>1, <1>2, ConnectAllStays

-----------------------------------------------------------------------------
(* A frame.                                                                *)

(* No frame raises, starts a connection, or takes a computer away, or an   *)
(* interface if nothing but packets has to leave.                          *)
Follows(t, u) ==
  /\ u.computers = t.computers /\ u.raised = t.raised
  /\ u.mode = "CONNECTING" => (t.mode = "CONNECTING" /\ u.source = t.source)
  /\ Answered(t) => \A o \in OnScreen(t) : Kind(o) = "interface" => o \in OnScreen(u)

(* The children that leave with an object are interfaces.                  *)
LEMMA ChildrenAreInterfaces ==
  ASSUME NEW t \in Program, NEW o \in Objects
  PROVE  Children(t, o) \in SUBSET AnyInterface
<1>1. CASE Kind(o) = "computer"
  <2> DEFINE d == o[2]
  <2>1. d \in Devices /\ t.made[d] \in Nat
    BY <1>1, ObjectKinds, PortsAreNumbers
  <2>2. \A n \in 1..t.made[d] : n \in Nat
    BY <2>1
  <2>3. Children(t, o) = {Interface(d, n) : n \in 1..t.made[d]}
    BY <1>1 DEF Children
  <2> HIDE DEF d
  <2>4. QED BY <2>1, <2>2, <2>3, Kinds
<1>2. CASE Kind(o) # "computer"
  BY <1>2 DEF Children
<1>3. QED BY <1>1, <1>2

(* What asked to leave has left.                                           *)
LEMMA LeavingStays ==
  ASSUME NEW t \in Good,
         NEW u, u = [t EXCEPT !.loop = UnregisterRequesting(@, [o \in @.leaving |-> Children(t, o)])]
  PROVE  u \in Good /\ u.loop.leaving = {} /\ Follows(t, u)
<1> DEFINE l == t.loop
           ch == [o \in l.leaving |-> Children(t, o)]
           m == UnregisterRequesting(l, ch)
<1>1. t \in Sound /\ t \in Program /\ l \in Registries /\ Len(t.subject) \in Nat /\ t.cables \in Nat
  BY SoundParts DEF Good
<1>2. \A o \in l.leaving : ch[o] \in SUBSET AnyInterface
  BY <1>1, ChildrenAreInterfaces, RegistryParts
<1>3. u = [t EXCEPT !.loop = m]
  BY <1>1 DEF Program
<1>4. Answered(t) => \A o \in l.leaving : ch[o] = {}
  BY DEF Answered, Children
<1> HIDE DEF ch
<1>5. /\ m \in Registries /\ m.leaving = {}
      /\ \A o : Shown(m, o) => (Shown(l, o) /\ o \notin l.leaving)
      /\ \A o \in Objects : (Shown(l, o) /\ o \notin l.leaving /\ Kind(o) # "interface") => Shown(m, o)
      /\ \A k \in Nat : <<"move_packets", Cable(k)>> \in l.functions =>
                          <<"move_packets", Cable(k)>> \in m.functions
      /\ Answered(t) => \A o : (Shown(l, o) /\ o \notin l.leaving) => Shown(m, o)
  <2> HIDE DEF l
  <2>1. m = UnregisterRequesting(l, ch)
    OBVIOUS
  <2> HIDE DEF m
  <2>2. QED BY <1>1, <1>2, <1>4, <2>1, RequestingMakes
<1> HIDE DEF m
<1>6. m \in AnyRegistry
  BY <1>5 DEF Registries
<1>7. u \in Program
  BY <1>1, <1>3, <1>6, WithLoop
<1>8. /\ SameNet(t, u) /\ SamePackets(t, u) /\ u.loop = m /\ SameView(t, u) /\ u.source = t.source
      /\ u.windows = t.windows /\ u.closing = t.closing /\ u.active = t.active
      /\ u.buttons = t.buttons /\ u.subject = t.subject
  BY <1>1, <1>3 DEF Program, SameNet, SamePackets, SameView
<1>9. Net(u)
  BY <1>1, <1>8 DEF Sound, Net, SameNet
<1>10. ScreenOk(u.computers, u.loop)
  <2>1. ScreenOk(t.computers, l)
    BY <1>1 DEF Sound
  <2>2. ScreenOk(t.computers, m)
    BY <1>5, <2>1 DEF ScreenOk, Registries
  <2>3. QED BY <1>8, <2>2 DEF SameNet
<1>11. Packets(u)
  <2>1. PacketsOk(l, t.sent, t.carried, t.cables)
    BY <1>1 DEF Sound, Packets
  <2>2. \A k \in 1..t.cables : k \in Nat
    BY <1>1
  <2>3. PacketsOk(m, t.sent, t.carried, t.cables)
    BY <1>5, <2>1, <2>2 DEF PacketsOk
  <2>4. QED BY <1>8, <2>3 DEF Packets, SameNet, SamePackets
<1>12. Windows(u)
  <2>1. WindowsOk(l, t.windows, t.closing, t.active, t.buttons, Len(t.subject))
    BY <1>1 DEF Sound, Windows
  <2>2. \A w \in ToSet(t.windows) \cup t.closing : w \in Nat
    BY <1>1, <2>1 DEF WindowsOk
  <2>3. \A w \in ToSet(t.windows) \ t.closing : Shown(m, Window(w))
    BY <1>5, <2>1, <2>2, Kinds DEF WindowsOk
  <2>4. \A w \in Nat : Shown(m, Window(w)) => w \in ToSet(t.windows)
    BY <1>5, <2>1 DEF WindowsOk
  <2>5. \A w \in t.closing : Shown(m, Window(w)) => Window(w) \in m.leaving
    BY <1>5, <2>1 DEF WindowsOk
  <2>6. WindowsOk(m, t.windows, t.closing, t.active, t.buttons, Len(t.subject))
    BY <1>5, <2>1, <2>3, <2>4, <2>5 DEF WindowsOk
  <2>7. QED BY <1>8, <2>6 DEF Windows
<1>13. u \in Sound
  BY <1>7, <1>9, <1>10, <1>11, <1>12 DEF Sound
<1>14. u \in Good
  BY <1>8, <1>13, SameIsGood
<1>15. Answered(t) => \A o \in OnScreen(t) : Kind(o) = "interface" => o \in OnScreen(u)
  BY <1>5, <1>8 DEF Answered, OnScreen, Shown
<1>16. QED BY <1>5, <1>8, <1>14, <1>15 DEF SameNet, SameView, Follows

(* Marking what is inside the square,                                      *)
LEMMA MarkInsideStays ==
  ASSUME NEW t \in Good, NEW inside, \A o \in inside \ ToSet(t.marked) : Kind(o) \in {"computer", "packet"},
         NEW u, u = MarkInside(t, inside)
  PROVE  u \in Good /\ u.loop = t.loop /\ Follows(t, u)
<1> DEFINE marks(o) == Kind(o) \in {"computer", "packet"}
           S == {o \in ToSet(t.marked) : o \in inside \/ o \notin OnScreen(t) \/ ~marks(o)}
           R == inside \ ToSet(t.marked)
           a == Only(t.marked, S)
           b == Only(t.loop.objects, R)
           q == a \o b
<1>1. /\ t \in Sound /\ t \in Program /\ t.loop \in Registries
      /\ t.marked \in Seq(Chosen) /\ IsInjective(t.marked)
  BY SoundParts, ProgramParts DEF Good, Markable
<1>2. /\ t.loop.objects \in Seq(Objects) /\ ToSet(t.loop.objects) \subseteq Objects
      /\ IsInjective(t.loop.objects)
  BY <1>1, RegistryParts
<1>3. u = [t EXCEPT !.marked = q]
  BY DEF MarkInside
<1>4. \A o \in R : Kind(o) \in Selectables
  BY DEF Selectables
<1> HIDE DEF S, R
<1>5. a \in Seq(Chosen) /\ IsInjective(a) /\ ToSet(a) \subseteq ToSet(t.marked)
  BY <1>1, OnlyApart
<1>6. b \in Seq(Objects) /\ ToSet(b) = ToSet(t.loop.objects) \cap R /\ IsInjective(b)
  BY <1>2, OnlyApart
<1>7. ToSet(b) \subseteq Chosen
  BY <1>2, <1>4, <1>6 DEF Chosen
<1> HIDE DEF a, b
<1>8. b \in Seq(Chosen)
  <2>1. b \in Seq(ToSet(b))
    BY <1>6, OfItsElements
  <2>2. QED BY <1>7, <2>1, WiderSequence
<1>9. q \in Markable
  <2>1. ToSet(a) \cap ToSet(b) = {}
    BY <1>5, <1>6 DEF R
  <2>2. q \in Seq(Chosen) /\ IsInjective(q)
    BY <1>5, <1>6, <1>8, <2>1, JoinedInjective
  <2> HIDE DEF q
  <2>3. QED BY <2>2 DEF Markable
<1> HIDE DEF q
<1>10. u \in Good /\ SameWorld(t, u) /\ u.mode = t.mode /\ u.source = t.source /\ u.raised = t.raised
  BY <1>1, <1>3, <1>9, MarkedStays
<1>11. QED BY <1>10 DEF SameWorld, Follows, OnScreen

(* whatever that is.                                                       *)
LEMMA MarkingsStay ==
  ASSUME NEW t \in Good, NEW u \in Markings(t)
  PROVE  u \in Good /\ u.loop = t.loop /\ Follows(t, u)
<1> DEFINE M == ToSet(t.marked)
           markable == {o \in OnScreen(t) : Kind(o) \in {"computer", "packet"}} \ M
<1>1. CASE u = t
  BY <1>1 DEF Follows
<1>2. CASE u # t
  <2>1. PICK inside \in {{}, M} \cup {M \cup {o} : o \in markable} : u = MarkInside(t, inside)
    BY <1>2 DEF Markings
  <2>2. \A o \in inside \ M : Kind(o) \in {"computer", "packet"}
    OBVIOUS
  <2>3. QED BY <2>1, <2>2, MarkInsideStays
<1>3. QED BY <1>1, <1>2

(* A packet that has left is viewed no longer.                             *)
LEMMA DeadPacketsStay ==
  ASSUME NEW t \in Good, NEW u, u = StopViewingDeadPackets(t)
  PROVE  u \in Good /\ u.loop.leaving = t.loop.leaving /\ Follows(t, u)
<1> DEFINE normal == "NORMAL"
<1>1. t \in Sound /\ normal \in Modes /\ normal # "CONNECTING" /\ normal # "VIEW"
  BY DEF Good, Modes
<1>2. u = SetMode(t, normal) \/ u = t
  BY DEF StopViewingDeadPackets
<1> HIDE DEF normal
<1>3. CASE u = SetMode(t, normal)
  <2>1. u \in Good /\ OnlyLooks(t, u) /\ u.mode = normal /\ u.raised = t.raised
    BY <1>1, <1>3, SetModeStays
  <2>2. QED BY <1>1, <2>1 DEF OnlyLooks, SameNet, Follows, OnScreen
<1>4. CASE u = t
  BY <1>4 DEF Follows
<1>5. QED BY <1>2, <1>3, <1>4

(* Packets come on the screen, in cables that exist.                       *)
LEMMA SendStays ==
  ASSUME NEW t \in Good, NEW S, UpTo(S, t.cables), NEW u, u = Send(t, S)
  PROVE  /\ u \in Good /\ u.loop.leaving = t.loop.leaving /\ u.closing = t.closing
         /\ u.computers = t.computers /\ u.mode = t.mode /\ u.source = t.source
         /\ u.raised = t.raised /\ OnScreen(t) \subseteq OnScreen(u)
<1> DEFINE X == {Packet(k) : k \in S}
           q == SetToSeq(X)
           m == RegisterAll(t.loop, q)
           V == t.sent \cup S
           T == t.carried \cup S
           v == [t EXCEPT !.sent = V, !.carried = T]
<1>1. t \in Sound /\ t \in Program /\ t.loop \in Registries /\ Len(t.subject) \in Nat /\ t.cables \in Nat
  BY SoundParts DEF Good
<1>2. S \subseteq Nat /\ IsFiniteSet(S)
  <2>1. IsFiniteSet(1..t.cables)
    BY <1>1, FS_Interval
  <2>2. S \subseteq Nat
    BY <1>1 DEF UpTo
  <2>3. QED BY <2>1, <2>2, FS_Subset DEF UpTo
<1>3. X \in SUBSET Objects /\ \A o \in X : Kind(o) = "packet"
  BY <1>2, Kinds
<1>4. IsFiniteSet(X)
  <2> DEFINE f == [k \in S |-> Packet(k)]
  <2>1. f \in Surjection(S, X)
    BY DEF Surjection
  <2>2. QED BY <1>2, <2>1, FS_Surjection
<1>5. q \in Seq(X) /\ IsInjective(q)
  BY <1>4, SetAsSequence
<1>6. ToSet(q) \subseteq X /\ q \in Seq(Objects)
  BY <1>3, <1>5, ElementsByPlace, WiderSequence
<1>7. \A k \in Nat : Packet(k) \in X => k \in S
  BY <1>2, Kinds
<1>8. u = [v EXCEPT !.loop = m]
  BY <1>1 DEF Send, Program
<1> HIDE DEF X, q
<1>9. /\ m \in Registries /\ m.leaving = t.loop.leaving
      /\ ToSet(m.objects) = ToSet(t.loop.objects) \cup ToSet(q) /\ t.loop.functions \subseteq m.functions
  BY <1>1, <1>5, <1>6, RegisterAllMakes
<1> HIDE DEF m
<1>10. m \in AnyRegistry /\ t.sent \in SUBSET Nat /\ t.carried \in SUBSET Nat
  BY <1>1, <1>9, ProgramParts DEF Registries
<1>11. V \in SUBSET Nat /\ T \in SUBSET Nat
  BY <1>2, <1>10
<1>12. /\ ScreenOk(t.computers, t.loop) /\ PacketsOk(t.loop, t.sent, t.carried, t.cables)
       /\ WindowsOk(t.loop, t.windows, t.closing, t.active, t.buttons, Len(t.subject))
  BY <1>1 DEF Sound, Packets, Windows
<1>13. t.sent \subseteq V /\ V \subseteq T /\ T \subseteq 1..t.cables /\ \A k \in S : k \in V
  BY <1>12 DEF PacketsOk, UpTo
<1> HIDE DEF V, T
<1>14. u \in Program
  <2>1. v \in Program
    BY <1>1, <1>11 DEF Program
  <2> HIDE DEF v
  <2>2. QED BY <1>8, <1>10, <2>1, WithLoop
<1>15. /\ SameNet(t, u) /\ u.sent = V /\ u.carried = T /\ u.loop = m /\ SameView(t, u) /\ u.source = t.source
       /\ u.windows = t.windows /\ u.closing = t.closing /\ u.active = t.active
       /\ u.buttons = t.buttons /\ u.subject = t.subject
  BY <1>1, <1>8 DEF Program, SameNet, SameView
<1> HIDE DEF v
<1> DEFINE Y == ToSet(q)
<1>16. /\ ToSet(m.objects) = ToSet(t.loop.objects) \cup Y /\ Y \in SUBSET Objects
       /\ \A o \in Y : Kind(o) \notin {"cable", "window"}
       /\ \A e \in Devices : Computer(e) \in Y => e \in ToSet(t.computers)
       /\ \A k \in Nat : Packet(k) \in Y => k \in V
  <2>1. \A e \in Devices : Computer(e) \notin X
    BY <1>3, Kinds
  <2>2. QED BY <1>3, <1>6, <1>7, <1>9, <1>13, <2>1
<1> HIDE DEF Y
<1>17. ScreenOk(t.computers, m)
  BY <1>1, <1>9, <1>12, <1>16, ShowingKeeps
<1>18. PacketsOk(m, V, T, t.cables)
  BY <1>1, <1>9, <1>12, <1>13, <1>16, ShowingKeeps
<1>19. WindowsOk(m, t.windows, t.closing, t.active, t.buttons, Len(t.subject))
  BY <1>1, <1>9, <1>12, <1>16, ShowingKeeps
<1>20. Net(u)
  BY <1>1, <1>15 DEF Sound, Net, SameNet
<1>21. u \in Sound
  BY <1>14, <1>15, <1>17, <1>18, <1>19, <1>20 DEF Sound, Packets, Windows, SameNet
<1>22. u \in Good
  BY <1>15, <1>21, SameIsGood
<1>23. QED BY <1>9, <1>15, <1>22 DEF SameNet, SameView, OnScreen

(* Packets arrive, and ask to leave.                                       *)
LEMMA MovePacketsStay ==
  ASSUME NEW t \in Good, t.loop.leaving = {}, NEW u \in MovePackets(t)
  PROVE  u \in Good /\ Answered(u) /\ u.closing = t.closing /\ Follows(t, u)
<1>1. t \in Sound /\ t.cables \in Nat /\ t.sent \in SUBSET Nat
  BY SoundParts, ProgramParts DEF Good
<1>2. PICK arrived \in SUBSET Arrivals(t), new \in SUBSET Sendings(t) : u = Send(StopPackets(t, arrived), new)
  BY DEF MovePackets
<1> DEFINE v == StopPackets(t, arrived)
<1>3. /\ v \in Sound /\ SameNet(t, v) /\ SameWindows(t, v) /\ SameView(t, v) /\ v.source = t.source
      /\ OnScreen(v) = OnScreen(t)
      /\ v.loop.leaving = t.loop.leaving \cup {Packet(k) : k \in t.sent \cap arrived}
  BY <1>1, StopStays
<1>4. u = Send(v, new)
  BY <1>2
<1> HIDE DEF v
<1>5. v \in Good
  BY <1>3, SameIsGood
<1>6. UpTo(new, v.cables)
  BY <1>3 DEF Sendings, SameNet, UpTo
<1>7. /\ u \in Good /\ u.loop.leaving = v.loop.leaving /\ u.closing = v.closing
      /\ u.computers = v.computers /\ u.mode = v.mode /\ u.source = v.source
      /\ u.raised = v.raised /\ OnScreen(v) \subseteq OnScreen(u)
  BY <1>4, <1>5, <1>6, SendStays
<1>8. \A o \in {Packet(k) : k \in t.sent \cap arrived} : Kind(o) = "packet"
  BY <1>1, Kinds
<1>9. Answered(u)
  BY <1>3, <1>7, <1>8 DEF Answered
<1>10. QED BY <1>3, <1>7, <1>9 DEF SameNet, SameWindows, SameView, Follows

(* After a frame every request to leave is answered, but those of packets  *)
(* that arrived in it.                                                     *)
LEMMA FramesStay ==
  ASSUME NEW t \in Good, NEW v \in Frames(t)
  PROVE  v \in Good /\ Answered(v) /\ v.closing = {} /\ Follows(t, v)
<1> DEFINE u == [t EXCEPT !.loop = UnregisterRequesting(@, [o \in @.leaving |-> Children(t, o)])]
<1>1. PICK a \in Markings(u) : v \in MovePackets(UnregisterWindows(StopViewingDeadPackets(a)))
  BY DEF Frames
<1>2. u \in Good /\ u.loop.leaving = {} /\ Follows(t, u)
  BY LeavingStays
<1> HIDE DEF u
<1>3. a \in Good /\ a.loop = u.loop /\ Follows(u, a)
  BY <1>2, MarkingsStay
<1> DEFINE b == StopViewingDeadPackets(a)
           c == UnregisterWindows(b)
<1>4. b \in Good /\ b.loop.leaving = {} /\ Follows(a, b)
  BY <1>2, <1>3, DeadPacketsStay
<1>5. v \in MovePackets(c)
  BY <1>1
<1> HIDE DEF b
<1>6. /\ c \in Good /\ c.closing = {} /\ c.loop.leaving = {}
      /\ c.computers = b.computers /\ c.mode = b.mode /\ c.source = b.source
      /\ c.raised = b.raised /\ OnScreen(c) = OnScreen(b)
  <2>1. \A w \in Nat : Window(w) \notin b.loop.leaving
    BY <1>4
  <2>2. /\ c \in Good /\ c.closing = {} /\ c.loop.leaving = b.loop.leaving
        /\ c.computers = b.computers /\ c.mode = b.mode /\ c.source = b.source
        /\ c.raised = b.raised /\ OnScreen(c) = OnScreen(b)
    BY <1>4, <2>1, UnregisterWindowsStays
  <2>3. QED BY <1>4, <2>2
<1> HIDE DEF c
<1>7. v \in Good /\ Answered(v) /\ v.closing = c.closing /\ Follows(c, v)
  BY <1>5, <1>6, MovePacketsStay
<1>8. Answered(u) /\ Answered(a) /\ Answered(b) /\ Answered(c)
  BY <1>2, <1>3, <1>4, <1>6 DEF Answered
<1>9. Follows(t, v)
  BY <1>2, <1>3, <1>4, <1>6, <1>7, <1>8 DEF Follows
<1>10. QED BY <1>6, <1>7, <1>9

-----------------------------------------------------------------------------
(* The theorems.                                                           *)

(* The program that starts.                                                *)
LEMMA NothingYet == EmptyProgram \in Good /\ Answered(EmptyProgram) /\ EmptyProgram.closing = {}
<1> DEFINE t == EmptyProgram
           empty == <<>>
           none == {}
<1>1. /\ t.computers = empty /\ t.made = [d \in Devices |-> 0] /\ t.interfaces = [d \in Devices |-> {}]
      /\ t.links = empty /\ t.wired = empty /\ t.cables = 0 /\ t.sent = none /\ t.carried = none
      /\ t.loop = EmptyRegistry /\ t.mode = "NORMAL" /\ t.view = None /\ t.windows = empty
      /\ t.active = None /\ t.buttons = empty /\ t.closing = none /\ t.subject = empty /\ t.raised = None
  BY DEF EmptyProgram
<1>2. /\ EmptyRegistry.objects = empty /\ EmptyRegistry.functions = none /\ EmptyRegistry.leaving = none
  BY DEF EmptyRegistry
<1>3. /\ ToSet(empty) = {} /\ IsInjective(empty) /\ Len(empty) = 0 /\ DOMAIN empty = {}
      /\ CablesDiffer(empty)
  BY DEF ToSet, IsInjective, CablesDiffer
<1>4. t \in Program
  <2>1. empty \in Wirings
    <3>1. empty \in [{} -> Nat]
      OBVIOUS
    <3>2. {} \in SUBSET AnyInterface
      OBVIOUS
    <3>3. QED BY <3>1, <3>2 DEF Wirings
  <2>2. EmptyRegistry \in AnyRegistry
    BY DEF EmptyRegistry, AnyRegistry
  <2>3. none \in Ports
    BY DEF Ports
  <2>4. [d \in Devices |-> None] \in [Devices -> AnyName]
    BY DEF AnyName
  <2>5. "NORMAL" \in Modes
    BY DEF Modes
  <2>6. [d \in Devices |-> {}] \in [Devices -> Ports] /\ [d \in Devices |-> 0] \in [Devices -> Nat]
    BY <2>3
  <2>7. empty \in Markable
    BY NothingMarked
  <2>8. QED BY <2>1, <2>2, <2>4, <2>5, <2>6, <2>7 DEF EmptyProgram, Program
<1> HIDE DEF t, empty
<1>5. Net(t)
  BY <1>1, <1>3 DEF Net, NetOk
<1>6. \A o : ~Shown(t.loop, o) /\ o \notin t.loop.leaving
  BY <1>1, <1>2, <1>3 DEF Shown
<1>7. ScreenOk(t.computers, t.loop) /\ Packets(t)
  BY <1>1, <1>2, <1>3, <1>6 DEF ScreenOk, Packets, PacketsOk
<1>8. Windows(t)
  BY <1>1, <1>2, <1>3, <1>6 DEF Windows, WindowsOk
<1>9. t \in Good
  BY <1>1, <1>4, <1>5, <1>7, <1>8 DEF Good, Sound, ViewOk
<1>10. QED BY <1>1, <1>6, <1>9 DEF Answered, t

(* A key handler that leads to good programs keeps the invariant,          *)
LEMMA KeyStays ==
  ASSUME EditorInv, NEW R, Key(R), \A u \in R : u \in Good
  PROVE  EditorInv'
<1>1. s' \in Good
  BY DEF Key
<1>2. frame' = FALSE /\ held' = held /\ held = FALSE /\ events' \in 0..MaxEvents
  BY EditorConstants DEF Key, Event, EditorInv
<1>3. QED BY <1>1, <1>2 DEF EditorInv

(* and so does every action.                                               *)
LEMMA EditorStep == EditorInv /\ [Next]_vars => EditorInv'
<1> SUFFICES ASSUME EditorInv, [Next]_vars PROVE EditorInv'
  OBVIOUS
<1>1. s \in Good /\ s \in Sound
  BY DEF EditorInv, Good
<1>2. Press => EditorInv'
  <2> SUFFICES ASSUME Press PROVE EditorInv'
    OBVIOUS
  <2>1. PICK o \in OnScreen(s) \cup {None}, shift \in BOOLEAN : s' = OnMousePress(s, o, shift)
    BY DEF Press
  <2>2. Answered(s) /\ frame' = FALSE /\ held' = TRUE /\ events' \in 0..MaxEvents
    BY EditorConstants DEF Press, Event, EditorInv
  <2>3. s' \in Good /\ Answered(s') /\ StartsHere(s')
    BY <1>1, <2>1, <2>2, PressStays
  <2>4. Answered(s)' /\ StartsHere(s)'
    BY <2>3 DEF Answered, StartsHere, OnScreen
  <2>5. QED BY <2>2, <2>3, <2>4 DEF EditorInv
<1>3. Release => EditorInv'
  <2> SUFFICES ASSUME Release PROVE EditorInv'
    OBVIOUS
  <2>1. PICK o \in OnScreen(s) \cup {None} : s' = OnMouseRelease(s, o)
    BY DEF Release
  <2>2. /\ Answered(s) /\ StartsHere(s) /\ frame' = FALSE /\ held' = FALSE /\ events' \in 0..MaxEvents
    BY EditorConstants DEF Release, Event, EditorInv
  <2>3. s' \in Good
    BY <1>1, <2>1, <2>2, ReleaseStays
  <2>4. QED BY <2>2, <2>3 DEF EditorInv
<1>4. NewDevice => EditorInv'
  BY <1>1, CreateDevicesStays, KeyStays DEF NewDevice
<1>5. ConnectKey => EditorInv'
  BY <1>1, ToggleStays, KeyStays DEF ConnectKey
<1>6. TabKey => EditorInv'
  BY <1>1, TabsStay, KeyStays DEF TabKey
<1>7. AltTabKey => EditorInv'
  BY <1>1, AltTabsStay, KeyStays DEF AltTabKey
<1>8. EscapeKey => EditorInv'
  BY <1>1, ClearStays, KeyStays DEF EscapeKey
<1>9. DeleteKey => EditorInv'
  BY <1>1, DeleteKeyStays, KeyStays DEF DeleteKey
<1>10. SelectAllKey => EditorInv'
  BY <1>1, SelectAllStays, KeyStays DEF SelectAllKey
<1>11. DeleteAllKey => EditorInv'
  BY <1>1, DeleteAllStays, KeyStays DEF DeleteAllKey
<1>12. SmartConnectKey => EditorInv'
  <2>1. SmartConnectKey => Answered(s)
    BY DEF SmartConnectKey, Key, Event, EditorInv
  <2>2. QED BY <1>1, <2>1, SmartStays, KeyStays DEF SmartConnectKey
<1>13. ConnectAllKey => EditorInv'
  BY <1>1, ConnectAllStays, KeyStays DEF ConnectAllKey
<1>14. DeletePacketsKey => EditorInv'
  BY <1>1, DeletePacketsStays, KeyStays DEF DeletePacketsKey
<1>15. ViewButton => EditorInv'
  BY <1>1, ViewButtonsStay, KeyStays DEF ViewButton
<1>16. EnterKey => EditorInv'
  BY <1>1, EnterStays, KeyStays DEF EnterKey
<1>17. WindowButton => EditorInv'
  BY <1>1, WindowButtonsStay, KeyStays DEF WindowButton
<1>18. SaveKey => EditorInv'
  BY <1>1, SaveStays, KeyStays DEF SaveKey
<1>19. LoadKey => EditorInv'
  <2> SUFFICES ASSUME LoadKey PROVE EditorInv'
    OBVIOUS
  <2>1. s.file \in Files
    BY <1>1, SoundParts, ProgramParts DEF LoadKey
  <2>2. Load(s) \in Good
    BY <1>1, <2>1, LoadStays
  <2>3. Key({Load(s)}) /\ \A u \in {Load(s)} : u \in Good
    BY <2>2 DEF LoadKey
  <2>4. QED BY <2>3, KeyStays
<1>20. Frame => EditorInv'
  <2> SUFFICES ASSUME Frame PROVE EditorInv'
    OBVIOUS
  <2>1. s' \in Frames(s) /\ frame' = TRUE /\ held' = held /\ events' = events
    BY DEF Frame
  <2>2. s' \in Good /\ Answered(s') /\ s'.closing = {} /\ Follows(s, s')
    BY <1>1, <2>1, FramesStay
  <2>3. held => StartsHere(s')
    BY <2>2 DEF EditorInv, Follows, StartsHere, Is
  <2>4. Answered(s)' /\ (held => StartsHere(s)')
    BY <2>2, <2>3 DEF Answered, StartsHere, OnScreen
  <2>5. QED BY <2>1, <2>2, <2>4 DEF EditorInv
<1>21. Idle => EditorInv'
  <2> SUFFICES ASSUME Idle PROVE EditorInv'
    OBVIOUS
  <2>1. s' \in Frames(s) /\ frame' = frame /\ held' = held /\ events' = events
    BY DEF Idle
  <2>2. s' \in Good /\ Answered(s') /\ s'.closing = {} /\ Follows(s, s')
    BY <1>1, <2>1, FramesStay
  <2>3. held => StartsHere(s')
    BY <2>2 DEF EditorInv, Follows, StartsHere, Is
  <2>4. Answered(s)' /\ (held => StartsHere(s)')
    BY <2>2, <2>3 DEF Answered, StartsHere, OnScreen
  <2>5. QED BY <2>1, <2>2, <2>4 DEF EditorInv
<1>22. CASE UNCHANGED vars
  BY <1>22 DEF vars, EditorInv, Good, Sound, Answered, StartsHere, OnScreen
<1>23. QED
  BY <1>2, <1>3, <1>4, <1>5, <1>6, <1>7, <1>8, <1>9, <1>10, <1>11, <1>12, <1>13, <1>14, <1>15, <1>16,
     <1>17, <1>18, <1>19, <1>20, <1>21, <1>22 DEF Next

(* The invariant of the whole program: the network, the registry, the      *)
(* packets, the windows and the side window agree between two events.      *)
THEOREM EditorInvariant == Spec => []EditorInv
<1>1. Init => EditorInv
  <2> SUFFICES ASSUME Init PROVE EditorInv
    OBVIOUS
  <2>1. s = EmptyProgram /\ frame = TRUE /\ held = FALSE /\ events = 0
    BY DEF Init, Started
  <2>2. events \in 0..MaxEvents
    BY <2>1, EditorConstants
  <2>3. s \in Good /\ Answered(s) /\ s.closing = {}
    BY <2>1, NothingYet
  <2>4. QED BY <2>1, <2>2, <2>3 DEF EditorInv
<1>2. QED BY <1>1, EditorStep, PTL DEF Spec

(* However the network was edited, the list of connections of the          *)
(* interface and the cables of the computers tell the same story           *)
(* (ListedAndWired).                                                       *)
THEOREM ConnectionsAgree == Spec => []ListedAndWired
<1>1. EditorInv => ListedAndWired
  <2> SUFFICES ASSUME EditorInv PROVE ListedAndWired
    OBVIOUS
  <2>1. s \in Sound /\ s \in Program
    BY SoundParts DEF EditorInv, Good
  <2>2. NetOk(s.computers, s.interfaces, s.made, s.links, s.wired, s.cables)
    BY <2>1 DEF Sound, Net
  <2>3. s.links \in Seq(AnyLink)
    BY <2>1, ProgramParts
  <2>4. ASSUME NEW l \in ToSet(s.links)
        PROVE  /\ {l.left, l.right} \subseteq AllInterfaces(s)
               /\ {i \in DOMAIN s.wired : s.wired[i] = l.cable} = {l.left, l.right}
    <3>1. l.left \in AnyInterface /\ l.right \in AnyInterface
      BY <2>3, LinkParts
    <3>2. /\ Here(s.computers, s.interfaces, l.left) /\ Here(s.computers, s.interfaces, l.right)
          /\ {i \in DOMAIN s.wired : s.wired[i] = l.cable} = {l.left, l.right}
      BY <2>2 DEF NetOk
    <3>3. QED BY <2>1, <3>1, <3>2, InterfacesHere
  <2>5. ASSUME NEW i \in AllInterfaces(s), IsConnected(s, i)
        PROVE  \E l \in ToSet(s.links) : l.cable = s.wired[i]
    <3>1. i[2] \in ToSet(s.computers)
      BY <2>1, InterfacesHere DEF Here
    <3>2. QED BY <2>2, <2>5, <3>1 DEF NetOk, IsConnected
  <2>6. QED BY <2>4, <2>5 DEF ListedAndWired
<1>2. QED BY <1>1, EditorInvariant, PTL

(* A packet on the screen moves until it leaves, whatever was deleted      *)
(* under it (NoFrozenPacket).                                              *)
THEOREM PacketsMove == Spec => []NoFrozenPacket
<1>1. EditorInv => NoFrozenPacket
  <2> SUFFICES ASSUME EditorInv, NEW o \in OnScreen(s), Kind(o) = "packet"
               PROVE  \/ o \in s.loop.leaving
                      \/ o[2] \in s.sent /\ <<"move_packets", Cable(o[2])>> \in s.loop.functions
    BY DEF NoFrozenPacket
  <2> DEFINE k == o[2]
  <2>1. s \in Sound /\ PacketsOk(s.loop, s.sent, s.carried, s.cables)
    BY DEF EditorInv, Good, Sound, Packets
  <2>2. o \in Objects /\ Shown(s.loop, o)
    BY <2>1, SoundParts DEF OnScreen, Shown
  <2>3. k \in Nat /\ o = Packet(k)
    BY <2>2, ObjectKinds
  <2> HIDE DEF k
  <2>4. k \in s.sent \/ o \in s.loop.leaving
    BY <2>1, <2>2, <2>3 DEF PacketsOk
  <2>5. k \in s.sent => <<"move_packets", Cable(k)>> \in s.loop.functions
    BY <2>1 DEF PacketsOk
  <2>6. QED BY <2>4, <2>5 DEF k
<1>2. QED BY <1>1, EditorInvariant, PTL

(* The side window shows what is selected, and the active window is one    *)
(* that is open and on the screen (WindowsAgree).                          *)
THEOREM WindowsAlwaysAgree == Spec => []WindowsAgree
<1>1. EditorInv => WindowsAgree
  <2> SUFFICES ASSUME EditorInv PROVE WindowsAgree
    OBVIOUS
  <2>1. s \in Good /\ s \in Sound /\ s \in Program /\ ToSet(s.computers) \subseteq Devices
    BY SoundParts DEF EditorInv, Good
  <2>2. WindowsOk(s.loop, s.windows, s.closing, s.active, s.buttons, Len(s.subject))
    BY <2>1 DEF Sound, Windows
  <2>3. TypeOK
    <3>1. IsInjective(s.computers) /\ IsInjective(s.loop.objects)
      BY <2>1 DEF Sound, Net, NetOk, ScreenOk
    <3>2. s.mode \in {"NORMAL", "VIEW", "CONNECTING"}
      BY <2>1, ProgramParts DEF Modes
    <3>3. s.sent \subseteq s.carried /\ s.carried \subseteq 1..s.cables
      BY <2>1 DEF Sound, Packets, PacketsOk
    <3>4. /\ ToSet(s.windows) \subseteq 1..Len(s.subject)
          /\ s.active \in {None} \cup (1..Len(s.subject))
      BY <2>2 DEF WindowsOk
    <3>5. QED BY <2>1, <3>1, <3>2, <3>3, <3>4 DEF TypeOK, EditorInv
  <2>4. ViewIsOfSelected
    BY <2>1 DEF Good, ViewOk, ViewIsOfSelected
  <2>5. ActiveIsOpen
    <3> SUFFICES ASSUME frame, s.active # None
                 PROVE  s.active \in ToSet(s.windows) /\ Window(s.active) \in OnScreen(s)
      BY DEF ActiveIsOpen
    <3>1. s.active \in ToSet(s.windows) /\ s.closing = {}
      BY <2>2 DEF WindowsOk, EditorInv
    <3>2. QED BY <2>2, <3>1 DEF WindowsOk, Shown, OnScreen
  <2>6. QED BY <2>3, <2>4, <2>5 DEF WindowsAgree
<1>2. QED BY <1>1, EditorInvariant, PTL

(* Loading a file in which no two computers share a name gives back what   *)
(* was saved, whatever the network was when it was saved and when it is    *)
(* loaded (LoadRestores): the computers, their names and interfaces, and   *)
(* the interfaces that are connected.                                      *)
THEOREM LoadsWhatWasSaved == Spec => LoadRestores
<1>1. EditorInv /\ [Next]_vars =>
        [LoadKey /\ ~SharedNames(s.file) => s'.raised = None /\ Saved(s') = s.file]_vars
  <2> SUFFICES ASSUME EditorInv, LoadKey, ~SharedNames(s.file)
               PROVE  s'.raised = None /\ Saved(s') = s.file
    OBVIOUS
  <2>1. s \in Good /\ s.file \in Files /\ s.raised = None /\ EnoughToLoad(s) /\ s' = Load(s)
    BY SoundParts, ProgramParts DEF EditorInv, Good, LoadKey, Key, Event
  <2>2. CablesAre(Load(s), s.file, Len(s.file.cables)) /\ Load(s) \in Good
    BY <2>1, FileRestored, LoadStays
  <2>3. Saved(Load(s)) = s.file
    BY <2>1, <2>2, SavedAgain
  <2>4. QED BY <2>1, <2>2, <2>3 DEF CablesAre
<1>2. QED BY <1>1, EditorInvariant, PTL DEF Spec, LoadRestores

(* A key handler that raises nothing raises nothing.                       *)
LEMMA KeyIsQuiet ==
  ASSUME NEW R, Key(R), \A u \in R : u.raised = None
  PROVE  s'.raised = None
BY DEF Key

(* The program ends with an exception only if it refers to something that  *)
(* is not there, loads computers that share a name, or is given "loopback" *)
(* as the name of an interface (RaisesOnlyWhenDangling), whatever was done *)
(* before.                                                                 *)
THEOREM RaisesOnlyIfDangling == Spec => RaisesOnlyWhenDangling
<1>1. EditorInv /\ [Next]_vars =>
        [s'.raised # None =>
           \/ s.raised # None \/ Dangling(s)
           \/ LoadKey /\ SharedNames(s.file)
           \/ LoopbackNamed]_vars
  <2> SUFFICES ASSUME EditorInv, Next, s.raised = None, ~Dangling(s),
                      ~(LoadKey /\ SharedNames(s.file)), ~LoopbackNamed
               PROVE  s'.raised = None
    OBVIOUS
  <2>1. s \in Good
    BY DEF EditorInv
  <2>2. Press => s'.raised = None
    <3> SUFFICES ASSUME Press PROVE s'.raised = None
      OBVIOUS
    <3>1. PICK o \in OnScreen(s) \cup {None}, shift \in BOOLEAN : s' = OnMousePress(s, o, shift)
      BY DEF Press
    <3>2. Answered(s)
      BY DEF Press, Event, EditorInv
    <3>3. QED BY <2>1, <3>1, <3>2, PressStays
  <2>3. Release => s'.raised = None
    <3> SUFFICES ASSUME Release PROVE s'.raised = None
      OBVIOUS
    <3>1. PICK o \in OnScreen(s) \cup {None} : s' = OnMouseRelease(s, o)
      BY DEF Release
    <3>2. Answered(s) /\ StartsHere(s)
      BY DEF Release, EditorInv
    <3>3. QED BY <2>1, <3>1, <3>2, ReleaseStays
  <2>4. NewDevice => s'.raised = None
    BY <2>1, CreateDevicesStays, KeyIsQuiet DEF NewDevice
  <2>5. ConnectKey => s'.raised = None
    BY <2>1, ToggleStays, KeyIsQuiet DEF ConnectKey
  <2>6. TabKey => s'.raised = None
    BY <2>1, TabsStay, KeyIsQuiet DEF TabKey
  <2>7. AltTabKey => s'.raised = None
    BY <2>1, AltTabsStay, KeyIsQuiet DEF AltTabKey
  <2>8. EscapeKey => s'.raised = None
    BY <2>1, ClearStays, KeyIsQuiet DEF EscapeKey
  <2>9. DeleteKey => s'.raised = None
    <3>1. MarkedApart(s) /\ (s.selected # None => Exists(s, s.selected))
      BY <2>1, NothingDangles
    <3>2. QED BY <2>1, <3>1, DeleteKeyStays, KeyIsQuiet DEF DeleteKey
  <2>10. SelectAllKey => s'.raised = None
    BY <2>1, SelectAllStays, KeyIsQuiet DEF SelectAllKey
  <2>11. DeleteAllKey => s'.raised = None
    BY <2>1, DeleteAllStays, KeyIsQuiet DEF DeleteAllKey
  <2>12. SmartConnectKey => s'.raised = None
    <3>1. SmartConnectKey => Answered(s)
      BY DEF SmartConnectKey, Key, Event, EditorInv
    <3>2. QED BY <2>1, <3>1, SmartStays, KeyIsQuiet DEF SmartConnectKey
  <2>13. ConnectAllKey => s'.raised = None
    BY <2>1, ConnectAllStays, KeyIsQuiet DEF ConnectAllKey
  <2>14. DeletePacketsKey => s'.raised = None
    BY <2>1, DeletePacketsStays, KeyIsQuiet DEF DeletePacketsKey
  <2>15. ViewButton => s'.raised = None
    BY <2>1, ViewButtonsStay, KeyIsQuiet DEF ViewButton
  <2>22. SomeGivenLoopback(s, s') /\ (EnterKey \/ WindowButton) => FALSE
    BY DEF SomeGivenLoopback, GivenLoopback, LoopbackNamed
  <2>16. EnterKey => s'.raised = None
    <3>1. EnterKey => s' \in EnterPressed(s)
      BY DEF EnterKey, Key
    <3>2. QED BY <2>1, <2>22, <3>1, EnterStays
  <2>17. WindowButton => s'.raised = None
    <3>1. WindowButton => s' \in WindowButtons(s)
      BY DEF WindowButton, Key
    <3>2. QED BY <2>1, <2>22, <3>1, WindowButtonsStay
  <2>18. SaveKey => s'.raised = None
    BY <2>1, SaveStays, KeyIsQuiet DEF SaveKey
  <2>19. LoadKey => s'.raised = None
    <3> SUFFICES ASSUME LoadKey PROVE s'.raised = None
      OBVIOUS
    <3>1. s.file \in Files /\ EnoughToLoad(s) /\ s' = Load(s) /\ ~SharedNames(s.file)
      BY <2>1, SoundParts, ProgramParts DEF Good, LoadKey, Key
    <3>2. CablesAre(Load(s), s.file, Len(s.file.cables))
      BY <2>1, <3>1, FileRestored
    <3>3. QED BY <3>1, <3>2 DEF CablesAre
  <2>20. Frame \/ Idle => s'.raised = None
    <3>1. Frame \/ Idle => s' \in Frames(s)
      BY DEF Frame, Idle
    <3>2. QED BY <2>1, <3>1, FramesStay DEF Follows
  <2>21. QED
    BY <2>2, <2>3, <2>4, <2>5, <2>6, <2>7, <2>8, <2>9, <2>10, <2>11, <2>12, <2>13, <2>14, <2>15,
       <2>16, <2>17, <2>18, <2>19, <2>20 DEF Next
<1>2. QED BY <1>1, EditorInvariant, PTL DEF Spec, RaisesOnlyWhenDangling

=============================================================================
