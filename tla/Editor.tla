-------------------------------- MODULE Editor --------------------------------
(***************************************************************************)
(* The user interface (gui/user_interface/user_interface.py): the network  *)
(* a user builds with mouse and keyboard.  The state s is one record, as   *)
(* the handlers call one another and each sees what the last one left;     *)
(* s.raised is the exception that ended the program, after which nothing   *)
(* happens any more.                                                       *)
(*                                                                         *)
(* Graphics objects are tuples: a computer, an interface of a computer, a  *)
(* cable, the packet a cable carries (at most one, once), a popup window,  *)
(* the selecting square.  Where things are on the screen is left out: the  *)
(* mouse may be on any object that is registered, or on none.              *)
(***************************************************************************)
EXTENDS MainLoop, FiniteSetsExt, Functions

CONSTANTS
  Devices,         \* computers that can be created
  Switches,        \* those of them that are switches
  Names,           \* the names of computers
  None,
  MaxInterfaces,   \* bound: interfaces ever made on one computer
  MaxCables,       \* bound: cables ever made
  MaxWindows,      \* bound: popup windows ever opened
  MaxEvents        \* bound: events the user causes

(* The exceptions that may leave a handler.                                *)
Errors == {"ThisValueShouldNeverBeNone", "WrongUsageError", "NoSuchPacketError", "NoSuchInterfaceError",
           "DeviceAlreadyConnectedError", "KeyError", "ValueError"}

(* The graphics objects there may be.                                      *)
AnyInterface == {"interface"} \X Devices \X Nat
Objects ==
  ({"computer"} \X Devices) \cup AnyInterface \cup ({"cable", "packet", "window"} \X Nat) \cup {<<"square">>}

ASSUME EditorConstants ==
  /\ Switches \subseteq Devices /\ None \notin Devices \cup Errors \cup Objects
  /\ {MaxInterfaces, MaxCables, MaxWindows, MaxEvents} \subseteq Nat

VARIABLES
  s,        \* the program
  frame,    \* the main loop has run since the last event
  held,     \* the mouse button is down
  events    \* how many events there were

vars == <<s, frame, held, events>>

Computer(d) == <<"computer", d>>
Interface(d, n) == <<"interface", d, n>>
Cable(k) == <<"cable", k>>
Packet(k) == <<"packet", k>>
Window(w) == <<"window", w>>
Square == <<"square">>
Kind(o) == o[1]
Is(o, kinds) == o # None /\ Kind(o) \in kinds
Selectables == {"computer", "interface", "cable", "packet"}

(* An exception leaves the handler: what would follow does not happen.     *)
Raise(t, error) == [t EXCEPT !.raised = error]
Then(t, next(_)) == IF t.raised # None THEN t ELSE next(t)

OnScreen(t) == ToSet(t.loop.objects)
Children(t, o) == {Interface(o[2], n) : n \in IF Kind(o) = "computer" THEN 1..t.made[o[2]] ELSE {}}

-----------------------------------------------------------------------------
(* The network underneath.                                                 *)

InterfacesOf(t, d) == {Interface(d, n) : n \in t.interfaces[d]}
AllInterfaces(t) == UNION {InterfacesOf(t, d) : d \in ToSet(t.computers)}
IsConnected(t, i) == i \in DOMAIN t.wired

(* packet_from_graphics_object: a packet is looked for in the cables of    *)
(* connection_data only.                                                   *)
Carried(t) == {k \in t.sent : \E l \in ToSet(t.links) : l.cable = k}

(* Whether an object on the screen still stands for something.             *)
Exists(t, o) ==
  CASE Kind(o) = "computer" -> o[2] \in ToSet(t.computers)
    [] Kind(o) = "interface" -> o \in AllInterfaces(t)
    [] Kind(o) = "cable" -> \E l \in ToSet(t.links) : l.cable = o[2]
    [] Kind(o) = "packet" -> o[2] \in Carried(t)
    [] OTHER -> TRUE

AddInterface(t, d) ==
  LET n == t.made[d] + 1 IN
  [t EXCEPT !.made[d] = n, !.interfaces[d] = @ \cup {n},
            !.loop = RegisterOne(@, Interface(d, n), FALSE, {})]

Free(t, d) == {n \in t.interfaces[d] : ~IsConnected(t, Interface(d, n))}

(* available_interface: the first that is free, made if there is none.     *)
WithAvailable(t, d) == IF Free(t, d) = {} THEN AddInterface(t, d) ELSE t
Available(t, d) == Interface(d, Min(Free(WithAvailable(t, d), d)))

ConnectInterfaces(t, left, right) ==
  IF IsConnected(t, left) \/ IsConnected(t, right)
  THEN Raise(t, "DeviceAlreadyConnectedError")
  ELSE LET k == t.cables + 1 IN
       [t EXCEPT !.cables = k,
                 !.links = Append(@, [cable |-> k, left |-> left, right |-> right]),
                 !.wired = [i \in DOMAIN @ \cup {left, right} |-> IF i \in {left, right} THEN k ELSE @[i]],
                 !.loop = RegisterOne(@, Cable(k), TRUE, {<<"move_packets", Cable(k)>>})]

ConnectComputers(t, d, e) ==
  LET u == WithAvailable(t, d)
      v == WithAvailable(u, e)
  IN ConnectInterfaces(v, Available(u, d), Available(v, e))

AreConnected(t, d, e) == \E l \in ToSet(t.links) : {l.left[2], l.right[2]} = {d, e}

Disconnect(t, cables) == [t EXCEPT !.wired = Restrict(@, {i \in DOMAIN @ : @[i] \notin cables})]
Unlist(t, cables) == [t EXCEPT !.links = Only(@, {l \in ToSet(@) : l.cable \notin cables})]

(* mutant: only one side is disconnected *)
RemoveOneSide(t, cables) ==
  Unlist([t EXCEPT !.wired = Restrict(@, {i \in DOMAIN @ : @[i] \notin cables \/ i[3] # 1})], cables)

(* The packet a cable carries is not stopped.                              *)
RemoveConnections(t, cables) == Unlist(Disconnect(t, cables), cables)

StopPackets(t, cables) ==
  [t EXCEPT !.sent = @ \ cables, !.loop = RequestToLeave(@, {Packet(k) : k \in t.sent \cap cables})]

DeleteConnectionsTo(t, d) ==
  LET cables == {l.cable : l \in {l \in ToSet(t.links) : d \in {l.left[2], l.right[2]}}}
      u == RemoveConnections(t, cables)
  IN StopPackets([u EXCEPT !.loop = UnregisterAll(@, {Cable(k) : k \in cables})], cables)

-----------------------------------------------------------------------------
(* Selecting and viewing.                                                  *)

Activate(t, w) == [t EXCEPT !.active = w, !.loop = IF w = None THEN @ ELSE MoveToFront(@, Window(w))]

Select(t, o) == [Activate(t, None) EXCEPT !.selected = o]

EndObjectView(t) == [t EXCEPT !.view = None]

StartObjectView(t, o) ==
  IF Kind(o) = "packet" /\ o[2] \notin Carried(t) THEN Raise(t, "ThisValueShouldNeverBeNone")
  ELSE IF Kind(o) = "interface" /\ ~Exists(t, o) THEN Raise(t, "NoSuchInterfaceError")
  ELSE [t EXCEPT !.view = o]

Deselect(t) == IF t.selected = None THEN t ELSE Select(t, None)

SetMode(t, mode) ==
  LET u == [EndObjectView(t) EXCEPT !.mode = mode,
                                    !.source = IF mode = "VIEW" /\ t.mode # "CONNECTING" THEN @ ELSE None]
  IN IF mode # "VIEW" THEN [Deselect(u) EXCEPT !.marked = <<>>]
     ELSE IF u.selected = None THEN Raise(u, "WrongUsageError")
     ELSE StartObjectView(u, u.selected)

SelectAndView(t, o) == SetMode(Select(t, o), "VIEW")

-----------------------------------------------------------------------------
(* Deleting.                                                               *)

DeleteCable(t, k) ==
  Select([RemoveConnections(t, {k}) EXCEPT !.loop = RequestToLeave(@, {Cable(k)})], None)

DropPacket(t, k) ==
  IF k \notin Carried(t) THEN Raise(t, "NoSuchPacketError")
  ELSE StopPackets(SetMode(Select(t, None), "NORMAL"), {k})

(* Computer.remove_interface.                                              *)
RemoveFromComputer(t, i) ==
  IF i[3] \notin t.interfaces[i[2]] THEN Raise(t, "NoSuchInterfaceError")
  ELSE IF IsConnected(t, i) THEN Raise(t, "DeviceAlreadyConnectedError")
  ELSE [t EXCEPT !.interfaces[i[2]] = @ \ {i[3]}, !.loop = UnregisterAll(@, {i})]

(* The cable goes first: an interface that is connected cannot be removed. *)
RemoveInterface(t, i) ==
  RemoveFromComputer(IF IsConnected(t, i) THEN DeleteCable(t, t.wired[i]) ELSE t, i)

DeleteInterface(t, i) ==
  IF Exists(t, i) THEN RemoveInterface(t, i) ELSE Raise(t, "NoSuchInterfaceError")

DeleteComputer(t, d) ==
  IF d \notin ToSet(t.computers) THEN Raise(t, "ValueError")
  ELSE DeleteConnectionsTo([t EXCEPT !.computers = Only(@, ToSet(@) \ {d})], d)

(* delete: the object's own delete, then nothing is selected any more.     *)
Delete(t, o) ==
  LET u == [t EXCEPT !.loop = RequestToLeave(@, {o})]
  IN Then(CASE Kind(o) = "computer" -> DeleteComputer(u, o[2])
            [] Kind(o) = "cable" -> DeleteCable(u, o[2])
            [] Kind(o) = "packet" -> DropPacket(u, o[2])
            [] OTHER -> DeleteInterface(u, o),
          LAMBDA v : Select(v, None))

(* The list of marked objects is walked while deleting: deleting a packet  *)
(* empties it, and the walk ends.                                          *)
DeleteMarked(t) ==
  [FoldLeft(LAMBDA u, o : IF u.marked = <<>> THEN u ELSE Then(u, LAMBDA v : Delete(v, o)), t, t.marked)
     EXCEPT !.marked = <<>>]

(* With an object selected the mode is set to normal before the marked     *)
(* objects are looked at, which unmarks them.                              *)
DeleteSelectedAndMarked(t) ==
  Then(IF t.selected = None THEN t
       ELSE Then(Delete(t, t.selected), LAMBDA u : SetMode(u, "NORMAL")),
       DeleteMarked)

(* mutant: the list of connections is kept *)
DeleteAllButLinks(t) ==
  LET u == Select([t EXCEPT !.loop = UnregisterAll(@, OnScreen(t))], None)
  IN SetMode([u EXCEPT !.computers = <<>>, !.windows = <<>>,
                       !.loop.functions = {f \in @ : f[1] # "logic"}], "NORMAL")

DeleteAll(t) ==
  LET u == Select([t EXCEPT !.loop = UnregisterAll(@, OnScreen(t))], None)
      v == [u EXCEPT !.loop = RemoveFromLoop(@, {<<"logic", Computer(d)>> : d \in ToSet(u.computers)}),
                     !.computers = <<>>, !.links = <<>>, !.windows = <<>>]
  IN SetMode(v, "NORMAL")

-----------------------------------------------------------------------------
(* Popup windows.  subject[w] is what a text box does when it is submitted *)
(* and the computer it does it to.                                         *)

RegisterWindow(t, subject) ==
  LET w == Len(t.subject) + 1 IN
  Activate([t EXCEPT !.subject = Append(@, subject), !.windows = Append(@, w),
                     !.buttons = Append(@, w),
                     !.loop = RegisterOne(@, Window(w), FALSE, {})], w)

PopupError(t) == RegisterWindow(t, [does |-> "error", to |-> None])
AskUserFor(t, does, d) == RegisterWindow(t, [does |-> does, to |-> d])

CloseWindow(t, w) == [t EXCEPT !.closing = @ \cup {w}, !.loop = RequestToLeave(@, {Window(w)})]

UnregisterWindows(t) ==
  LET gone == {w \in ToSet(t.windows) : w \in t.closing}
      u == [t EXCEPT !.windows = Only(@, ToSet(@) \ gone), !.buttons = Only(@, ToSet(@) \ gone),
                     !.closing = {}, !.active = IF @ \in gone THEN None ELSE @]
  IN IF gone # {} /\ u.windows # <<>> THEN Activate(u, Head(u.windows)) ELSE u

SetName(t, d, name) ==
  IF name = t.name[d] THEN PopupError(t)
  ELSE IF t.name[d] \notin t.existing THEN Raise(t, "KeyError")
  ELSE [t EXCEPT !.name[d] = name, !.existing = (@ \ {t.name[d]}) \cup {name}]

(* The name of an interface the computer has removes it, another adds one. *)
AddDeleteInterface(t, d, n) ==
  IF n \in t.interfaces[d] THEN RemoveInterface(t, Interface(d, n)) ELSE AddInterface(t, d)

(* The name of the loopback interface: a name the computer has, but not    *)
(* that of an interface that could be removed.                             *)
NameLoopback(t) == Raise(t, "NoSuchInterfaceError")

(* What the user may have typed, and what becomes of it.                   *)
Answers(t, w) ==
  LET box == t.subject[w] IN
  CASE box.does = "name" -> {SetName(t, box.to, name) : name \in Names}
    [] box.does = "interface" -> {AddDeleteInterface(t, box.to, n) : n \in 0..t.made[box.to]} \cup {NameLoopback(t)}
    [] OTHER -> {}

Submitted(t, w) == {Then(u, LAMBDA v : CloseWindow(v, w)) : u \in Answers(t, w)}

-----------------------------------------------------------------------------
(* Saving and loading.                                                     *)

SavedComputer(t, d) == [name |-> t.name[d], interfaces |-> t.interfaces[d], switch |-> d \in Switches]

(* Interfaces are saved by the names of their computers.                   *)
SavedCable(t, l) == <<t.name[l.left[2]], l.left[3], t.name[l.right[2]], l.right[3]>>

Saved(t) ==
  [computers |-> [n \in 1..Len(t.computers) |-> SavedComputer(t, t.computers[n])],
   cables |-> [n \in 1..Len(t.links) |-> SavedCable(t, t.links[n])]]

(* Devices nothing in the program refers to: one of them is as good as a   *)
(* new object.                                                             *)
Referred(t) ==
  ToSet(t.computers) \cup {t.subject[w].to : w \in 1..Len(t.subject)}
    \cup {o[2] : o \in {o \in OnScreen(t) \cup t.loop.leaving \cup ToSet(t.marked) \cup {t.selected} :
                         Is(o, {"computer", "interface"})}}
    \cup {f[2][2] : f \in {f \in t.loop.functions : f[1] = "logic"}}

Fresh(t, switch) == {d \in Devices \ Referred(t) : (d \in Switches) = switch}

(* Computer.__init__, and the graphics of the new computer.                *)
Create(t, d, name, interfaces) ==
  [t EXCEPT !.computers = Append(@, d), !.name[d] = name, !.existing = @ \cup {name},
            !.interfaces[d] = interfaces, !.made[d] = Max({0} \cup interfaces),
            !.wired = Restrict(@, {i \in DOMAIN @ : i[2] # d}),
            !.loop = RegisterAll(InsertToLoop(@, <<"logic", Computer(d)>>),
                                 <<Computer(d)>> \o SetToSeq({Interface(d, n) : n \in interfaces}))]

FirstNamed(t, name) == t.computers[SelectInSeq(t.computers, LAMBDA d : t.name[d] = name)]

ConnectByName(t, cable) ==
  LET left == Interface(FirstNamed(t, cable[1]), cable[2])
      right == Interface(FirstNamed(t, cable[3]), cable[4])
  IN IF {left, right} \subseteq AllInterfaces(t) THEN ConnectInterfaces(t, left, right)
     ELSE Raise(t, "NoSuchInterfaceError")

LoadComputers(t) ==
  FoldLeft(LAMBDA u, c : IF Fresh(u, c.switch) = {} THEN u
                         ELSE Create(u, CHOOSE d \in Fresh(u, c.switch) : TRUE, c.name, c.interfaces),
           DeleteAll(t), t.file.computers)

Load(t) ==
  FoldLeft(LAMBDA u, c : Then(u, LAMBDA v : ConnectByName(v, c)), LoadComputers(t), t.file.cables)

EnoughToLoad(t) ==
  Len(LoadComputers(t).computers) = Len(t.file.computers)

-----------------------------------------------------------------------------
(* The mouse.  It may be on any object of the screen, or on the background *)
(* (None); shift is held or not.                                           *)

SetMousePressedObjects(t, o, shift) ==
  IF o = None THEN [Select(t, None) EXCEPT !.marked = <<>>]
  ELSE IF Kind(o) = "window" THEN Activate(t, o[2])
  ELSE IF Kind(o) \notin Selectables THEN t
  ELSE LET add == shift /\ t.selected # None /\ t.selected \notin ToSet(t.marked)
       IN [Select(t, o) EXCEPT !.marked = IF add THEN Append(@, t.selected) ELSE @]

(* mutant: pressing another object keeps the view *)
PressKeepsView(t, o, shift) ==
  LET u == SetMousePressedObjects(t, o, shift)
  IN IF u.selected # None THEN IF u.mode = "VIEW" THEN u ELSE SetMode(u, "VIEW") ELSE SetMode(u, "NORMAL")

NormalModeAtPress(t, o, shift) ==
  LET u == SetMousePressedObjects(t, o, shift)
  IN SetMode(u, IF u.selected # None THEN "VIEW" ELSE "NORMAL")

StartConnecting(t, o) ==
  LET u == [t EXCEPT !.source = o] IN IF o = None THEN SetMode(u, "NORMAL") ELSE u

CreateSelectingSquare(t) ==
  IF t.active # None \/ t.mode # "NORMAL" THEN t
  ELSE [t EXCEPT !.square = TRUE, !.loop = RegisterOne(@, Square, FALSE, {})]

OnMousePress(t, o, shift) ==
  Then(IF t.mode = "CONNECTING" THEN StartConnecting(t, o) ELSE NormalModeAtPress(t, o, shift),
       CreateSelectingSquare)

(* The computer of an interface is looked for, a computer is taken as it is *)
(* and gives an interface that is free, made if need be.                    *)
Endpoint(t, o) ==
  IF Kind(o) = "computer" THEN [t |-> WithAvailable(t, o[2]), i |-> Available(t, o[2])]
  ELSE [t |-> IF Exists(t, o) THEN t ELSE Raise(t, "NoSuchInterfaceError"), i |-> o]

ConnectDevices(t, o, p) ==
  IF ~(Is(o, {"computer", "interface"}) /\ Is(p, {"computer", "interface"})) THEN PopupError(t)
  ELSE LET first == Endpoint(t, o) second == Endpoint(first.t, p)
           u == second.t
       IN IF u.raised # None \/ first.i[2] = second.i[2] THEN u
          ELSE IF IsConnected(u, first.i) \/ IsConnected(u, second.i) THEN PopupError(u)
          ELSE ConnectInterfaces(u, first.i, second.i)

OnMouseRelease(t, o) ==
  IF t.square
  THEN [t EXCEPT !.square = FALSE, !.loop = UnregisterAll(@, {Square})]
  ELSE IF t.mode # "CONNECTING" THEN t
  ELSE Then(IF o = None THEN t ELSE ConnectDevices(t, t.source, o), LAMBDA u : SetMode(u, "NORMAL"))

-----------------------------------------------------------------------------
(* The keyboard, and the buttons with the same actions.                    *)

CreateDevices(t) ==
  {Create(t, CHOOSE d \in Fresh(t, switch) : TRUE, CHOOSE n \in Names \ t.existing : TRUE, {}) :
     switch \in {b \in BOOLEAN : Fresh(t, b) # {} /\ Names \ t.existing # {}}}

ToggleConnecting(t) == SetMode(t, IF t.mode = "CONNECTING" THEN "NORMAL" ELSE "CONNECTING")

Tabs(t) == {SelectAndView(t, o) : o \in {o \in OnScreen(t) : Kind(o) \in Selectables}}

(* The window that was opened before w, or after it; none but the open     *)
(* ones are on the screen.                                                 *)
Before(open, w) == LET older == {v \in open : w \in open /\ v < w}
                   IN Max(IF older = {} THEN open ELSE older)
After(open, w) == LET newer == {v \in open : w \in open /\ v > w}
                  IN Min(IF newer = {} THEN open ELSE newer)

AltTabs(t) ==
  LET open == {o[2] : o \in {o \in OnScreen(t) : Kind(o) = "window"}}
  IN IF open = {} THEN {} ELSE {Activate(t, Before(open, t.active)), Activate(t, After(open, t.active))}

ClearSelectedAndActive(t) == [Select(t, None) EXCEPT !.marked = <<>>]

SelectAll(t) ==
  [Select(t, None) EXCEPT !.marked = [n \in 1..Len(t.computers) |-> Computer(t.computers[n])]]

ConnectAllToAll(t) ==
  LET Connect(u, d, e) == IF d = e \/ AreConnected(u, d, e) \/ u.raised # None THEN u
                          ELSE ConnectComputers(u, d, e)
      ToAll(u, d) == FoldLeft(LAMBDA v, e : Connect(v, d, e), u, t.computers)
  IN FoldLeft(ToAll, t, t.computers)

(* Every computer whose first interface is free goes to the nearest switch. *)
SmartConnect(t) ==
  LET onScreen == {d \in Switches : Computer(d) \in OnScreen(t)}
      Lonely(u, d) == \/ u.interfaces[d] = {}
                      \/ ~IsConnected(u, Interface(d, Min(u.interfaces[d])))
      To(nearest) == FoldLeft(LAMBDA u, d : IF d \notin Switches /\ Lonely(u, d)
                                            THEN ConnectComputers(u, d, nearest) ELSE u,
                              t, t.computers)
  IN IF onScreen = {} THEN {ConnectAllToAll(t)} ELSE {To(d) : d \in onScreen}

DeleteAllPackets(t) == StopPackets(t, {l.cable : l \in ToSet(t.links)})

(* The buttons of the object that is viewed, and of the popup windows: the *)
(* windows whose buttons were never taken away answer too.                 *)
PacketButtons(t, k) == {DropPacket(t, k)}

ViewButtons(t) ==
  CASE Is(t.view, {"computer"}) -> {AskUserFor(t, does, t.view[2]) : does \in {"name", "interface"}}
    [] Is(t.view, {"packet"}) -> PacketButtons(t, t.view[2])
    [] OTHER -> {}

(* Enter: the active text box, else the first window that has a button;    *)
(* that of an error closes it.                                             *)
EnterPressed(t) ==
  LET ButtonOf(w) == IF t.subject[w].does = "error" THEN {CloseWindow(t, w)} ELSE Submitted(t, w)
  IN IF t.active # None /\ t.subject[t.active].does # "error" THEN Submitted(t, t.active)
     ELSE IF t.buttons # <<>> THEN ButtonOf(Head(t.buttons)) ELSE {}

WindowButtons(t) == UNION {Submitted(t, w) \cup {CloseWindow(t, w)} : w \in ToSet(t.buttons)}

SaveToFile(t) == [t EXCEPT !.file = Saved(t)]

-----------------------------------------------------------------------------
(* A frame of the main loop.                                               *)

MarkInside(t, inside) ==
  LET marks(o) == Kind(o) \in {"computer", "packet"}
      known == Only(t.marked, {o \in ToSet(t.marked) : o \in inside \/ o \notin OnScreen(t) \/ ~marks(o)})
  IN [t EXCEPT !.marked = known \o Only(t.loop.objects, inside \ ToSet(t.marked))]

(* The square reaches one object at a time, or shrinks to nothing: the     *)
(* marks it can make in other ways are the same.                           *)
Markings(t) ==
  IF ~t.square THEN {t}
  ELSE LET markable == {o \in OnScreen(t) : Kind(o) \in {"computer", "packet"}} \ ToSet(t.marked)
       IN {MarkInside(t, inside) :
             inside \in {{}, ToSet(t.marked)} \cup {ToSet(t.marked) \cup {o} : o \in markable}}

StopViewingDeadPackets(t) ==
  IF Is(t.selected, {"packet"}) /\ t.selected[2] \notin Carried(t) THEN SetMode(t, "NORMAL") ELSE t

(* A computer that runs sends into a cable it is connected to; the cable   *)
(* shows the packet.                                                       *)
Sendings(t) ==
  {k \in (1..t.cables) \ t.carried :
     /\ <<"move_packets", Cable(k)>> \in t.loop.functions
     /\ \E i \in DOMAIN t.wired : t.wired[i] = k /\ <<"logic", Computer(i[2])>> \in t.loop.functions}

Send(t, cables) ==
  [t EXCEPT !.sent = @ \cup cables, !.carried = @ \cup cables,
            !.loop = RegisterAll(@, SetToSeq({Packet(k) : k \in cables}))]

Arrivals(t) == {k \in t.sent : <<"move_packets", Cable(k)>> \in t.loop.functions}

MovePackets(t) ==
  {Send(StopPackets(t, arrived), new) : arrived \in SUBSET Arrivals(t), new \in SUBSET Sendings(t)}

Frames(t) ==
  LET u == [t EXCEPT !.loop = UnregisterRequesting(@, [o \in @.leaving |-> Children(t, o)])]
  IN UNION {MovePackets(UnregisterWindows(StopViewingDeadPackets(v))) : v \in Markings(u)}

-----------------------------------------------------------------------------
EmptyProgram ==
  [computers |-> <<>>, made |-> [d \in Devices |-> 0], interfaces |-> [d \in Devices |-> {}],
   name |-> [d \in Devices |-> None], existing |-> {}, links |-> <<>>, wired |-> <<>>,
   cables |-> 0, sent |-> {}, carried |-> {}, loop |-> EmptyRegistry, mode |-> "NORMAL",
   selected |-> None, marked |-> <<>>, source |-> None, view |-> None, square |-> FALSE,
   windows |-> <<>>, active |-> None, buttons |-> <<>>, closing |-> {}, subject |-> <<>>,
   file |-> None, raised |-> None]

Started(t) == s = t /\ frame = TRUE /\ held = FALSE /\ events = 0

Init == Started(EmptyProgram)

(* The user acts after the frame that shows what the last act did, and     *)
(* leaves the keyboard alone while the mouse button is down.               *)
Event ==
  /\ s.raised = None /\ frame /\ events < MaxEvents
  /\ events' = events + 1 /\ frame' = FALSE

Within(t) == /\ \A d \in Devices : t.made[d] <= MaxInterfaces
             /\ t.cables <= MaxCables /\ Len(t.subject) <= MaxWindows

(* A key that changes nothing is not counted.                              *)
Key(results) == Event /\ ~held /\ UNCHANGED held /\ s' \in {t \in results \ {s} : Within(t)}

Press == /\ Event /\ ~held /\ held' = TRUE
         /\ \E o \in OnScreen(s) \cup {None}, shift \in BOOLEAN : s' = OnMousePress(s, o, shift)

Release == /\ Event /\ held /\ held' = FALSE
           /\ \E o \in OnScreen(s) \cup {None} : s' = OnMouseRelease(s, o) /\ Within(s')

NewDevice == Key(CreateDevices(s))
ConnectKey == Key({ToggleConnecting(s)})
TabKey == Key(Tabs(s))
AltTabKey == Key(AltTabs(s))
EscapeKey == Key({ClearSelectedAndActive(s)})
DeleteKey == Key({DeleteSelectedAndMarked(s)})
SelectAllKey == Key({SelectAll(s)})
DeleteAllKey == Key({DeleteAll(s)})
SmartConnectKey == Key(SmartConnect(s))
ConnectAllKey == Key({ConnectAllToAll(s)})
DeletePacketsKey == Key({DeleteAllPackets(s)})
ViewButton == Key(ViewButtons(s))
EnterKey == Key(EnterPressed(s))
WindowButton == Key(WindowButtons(s))
SaveKey == Key({SaveToFile(s)})
LoadKey == s.file # None /\ EnoughToLoad(s) /\ Key({Load(s)})

Frame == /\ s.raised = None /\ ~frame /\ frame' = TRUE
         /\ s' \in Frames(s)
         /\ UNCHANGED <<held, events>>

(* There are more frames than one between two events; it matters while the *)
(* selecting square grows, as the order of marking is that of the frames.  *)
Idle == /\ s.raised = None /\ frame /\ s.square /\ s' \in Frames(s)
        /\ UNCHANGED <<frame, held, events>>

Next == \/ Press \/ Release \/ NewDevice \/ ConnectKey \/ TabKey \/ AltTabKey \/ EscapeKey \/ DeleteKey
        \/ SelectAllKey \/ DeleteAllKey \/ SmartConnectKey \/ ConnectAllKey \/ DeletePacketsKey
        \/ ViewButton \/ EnterKey \/ WindowButton \/ SaveKey \/ LoadKey \/ Frame \/ Idle

Spec == Init /\ [][Next]_vars

-----------------------------------------------------------------------------
(* Type invariant.                                                         *)
TypeOK ==
  /\ ToSet(s.computers) \subseteq Devices /\ IsInjective(s.computers)
  /\ s.mode \in {"NORMAL", "VIEW", "CONNECTING"}
  /\ s.sent \subseteq s.carried /\ s.carried \subseteq 1..s.cables
  /\ ToSet(s.windows) \subseteq 1..Len(s.subject) /\ s.active \in {None} \cup (1..Len(s.subject))
  /\ IsInjective(s.loop.objects)
  /\ frame \in BOOLEAN /\ held \in BOOLEAN /\ events \in 0..MaxEvents

(* The list of connections the interface keeps and the interfaces of the   *)
(* computers tell the same story, after any sequence of edits: both ends   *)
(* of a listed cable are interfaces of computers that exist, the only ones *)
(* connected by that cable, and an interface of a computer that exists is  *)
(* connected by no other cable (remove_connection, delete_connections_to,  *)
(* remove_interface, _connect_interfaces).  The ends may be one interface: *)
(* a cable is loaded by the names of its computers.                        *)
ListedAndWired ==
  /\ \A l \in ToSet(s.links) :
       /\ {l.left, l.right} \subseteq AllInterfaces(s)
       /\ {i \in DOMAIN s.wired : s.wired[i] = l.cable} = {l.left, l.right}
  /\ \A i \in AllInterfaces(s) :
       IsConnected(s, i) => \E l \in ToSet(s.links) : l.cable = s.wired[i]

(* A packet on the screen always comes to an end: the function that moves  *)
(* it is in the loop, even if its cable was deleted under it.              *)
NoFrozenPacket ==
  \A o \in OnScreen(s) : Kind(o) = "packet" =>
    \/ o \in s.loop.leaving
    \/ o[2] \in s.sent /\ <<"move_packets", Cable(o[2])>> \in s.loop.functions

(* What the side window shows is what is selected, unless nothing is.      *)
ViewIsOfSelected ==
  s.raised = None =>
    /\ (s.mode = "VIEW") = (s.view # None)
    /\ s.view # None /\ s.selected # None => s.view = s.selected

(* After a frame the active window is one of the open windows, and is on   *)
(* the screen.                                                             *)
ActiveIsOpen ==
  frame /\ s.active # None => s.active \in ToSet(s.windows) /\ Window(s.active) \in OnScreen(s)

(* The side window and the popup windows agree with what the user chose,   *)
(* after any sequence of clicks, keys and deletions.                       *)
WindowsAgree == TypeOK /\ ViewIsOfSelected /\ ActiveIsOpen

(* Of two marked objects, one that goes with the other: it cannot be       *)
(* deleted any more when the walk over the marked objects comes to it.     *)
GoesWith(p, o) == \/ Kind(p) = "packet" /\ Kind(o) # "packet"
                  \/ Kind(p) = "interface" /\ o = Computer(p[2])

(* Whether the program still refers to something that is not there: a      *)
(* selected, viewed or marked object, the subject of a window, an object   *)
(* left on the screen; or a name that two computers had until one was      *)
(* renamed; or whether a marked object goes with another.                  *)
Dangling(t) ==
  \/ \E o \in (ToSet(t.marked) \cup OnScreen(t) \cup {t.selected, t.view}) \ {None} : ~Exists(t, o)
  \/ \E o, p \in ToSet(t.marked) : GoesWith(p, o)
  \/ \E w \in ToSet(t.buttons) :
       t.subject[w].to # None /\ t.subject[w].to \notin ToSet(t.computers)
  \/ \E d \in ToSet(t.computers) : t.name[d] \notin t.existing

SharedNames(file) ==
  \E m, n \in 1..Len(file.computers) : m # n /\ file.computers[m].name = file.computers[n].name

(* "loopback" was given as the name of an interface to add or delete:      *)
(* add_interface refuses it, remove_interface does not find it.            *)
LoopbackNamed ==
  /\ EnterKey \/ WindowButton
  /\ \E w \in ToSet(s.buttons) : s.subject[w].does = "interface"
  /\ s' = NameLoopback(s)

(* The program only ends with an exception if it refers to something that  *)
(* is not there any more, if computers that are loaded share a name, or if *)
(* "loopback" is given as the name of an interface: no other sequence of   *)
(* edits, selections and loads makes a handler raise.                      *)
RaisesOnlyWhenDangling ==
  [][s'.raised # None =>
       \/ s.raised # None \/ Dangling(s)
       \/ LoadKey /\ SharedNames(s.file)
       \/ LoopbackNamed]_vars

(* Loading what was saved gives what was saved: the same computers, names  *)
(* and interfaces, the same interfaces connected (save_to_file,            *)
(* _create_map_from_file_dict), if no two computers shared a name.         *)
LoadRestores ==
  [][LoadKey /\ ~SharedNames(s.file) => s'.raised = None /\ Saved(s') = s.file]_vars

(* "Deletes the selected and marked objects. This is called when one       *)
(* presses the delete button" (user_interface.py:1721).                    *)
DeleteKeyDeletes ==
  [][DeleteKey => \A o \in ToSet(s.marked) \cup ({s.selected} \ {None}) :
                    Exists(s, o) => ~Exists(s', o)]_vars

=============================================================================
