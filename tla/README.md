# NetSym, specified

NetSym simulates computer networks: computers, switches and routers that run
processes, and cables that carry packets between them. Everything runs in one
thread. The main loop calls, again and again, `logic` of every computer and
`move_packets` of every connection; concurrency is the interleaving of the
processes of the computers, which are Python generators, with each other, with
the packets on the cables, and with what the user does between two ticks.

This directory holds TLA+ modules of the parts where that interleaving is hard
to get right, TLC configurations that check them on small instances, and TLAPS
proofs for every size of instance.

## Inventory

| Part | Source (`src/src/NetSym/…`) | State | Operations | Interacts with |
|---|---|---|---|---|
| Process scheduler | `computing/internals/processes/process_scheduler.py` | per mode: waiting, ready and current process, latest pid, startup list | start, tick, terminate, signal, shut down, boot | is called by the computer's `logic`, by shells, by the processes it runs; calls the code of processes |
| Processes | `.../processes/abstracts/process.py` | a generator, signal handlers | run to the next yield, die | yield a `WaitingFor` (condition, packet filter, timeout) to the scheduler |
| TCP | `.../abstracts/tcp_process.py` | sending window, receiving window, sequence and ACK numbers, SACK blocks | handshakes, send, receive, acknowledge, retransmit | packets; the sending queue of its pid; a TCP socket |
| Sockets | `computing/internals/sockets/`, `tcp_socket_process.py` | received data, data to send, bound, connected, closed | bind, listen, accept, connect, send, receive, close | start kernelmode processes; are removed when their process is gone |
| Connections | `computing/connections/` | packets under way, with their progress; packets at the sides | send, move, drop, delay, deliver | the interfaces at their ends |
| Interfaces | `.../network_interfaces/` | connection, address, blocked, powered | connect, send, receive, block | computer and connection |
| Computer | `computing/computer.py` | interfaces, received packets, sending queues, fragments, sockets, caches, power | `logic`: receive, reassemble, answer, send, run processes, clean up | all of the above |
| Switching | `switching_process.py`, `switch.py` | MAC address table with times | forward or flood, learn, forget | interfaces; blocked ports of STP |
| Spanning tree | `stp_process.py` | root, distance and state of each port, age of the root | flood, learn, set states, block, recalculate | other switches, by packets |
| ARP, routing | `arp_process.py`, `route_packet_process.py`, `arp_cache.py`, `routing_table.py` | cache with times, routes | resolve, resend, give up; route a packet | suspend the process that asked |
| Fragmentation | `packets/usefuls/ip.py`, `computer.py` 805-850 | fragments received so far | fragment, store, reassemble, forget | the computer's receiving loop |
| DHCP | `dhcp_process/` | next address, open sessions; the client's stage | discover, offer, request, pack | raw sockets |
| DNS, client and server processes | `dns_process/`, `ping_process.py`, ... | zone, cache | ask, answer | UDP and TCP sockets |
| Main loop | `gui/main_loop.py` | list of functions, time, paused | call everything once a frame | everything |
| Wireless connections | `connections/wireless_connection.py`, `wireless_network_interface.py` | one connection per frequency: its sides, the packets spreading, who has heard them | tune, send, spread, deliver, drop | interfaces; the list of frequencies in the user interface |
| Filesystem, shell | `filesystem/`, `shell/` | directories and files; each shell's working directory | find, make, move, copy, remove, wipe, save, load | shells, settings, servers, startup and shutdown |
| User interface | `gui/user_interface/`, `gui/tech/` | computers, connections, mode, selected and marked objects, side window, popup windows | mouse, keys, buttons, save and load | calls the operations of computers and connections; the main loop |

What makes them correct, in short:

- *Scheduler*: no process is lost or run twice; what was killed stays dead; a
  process whose wait is over runs; a shutdown ends everything; pids identify.
- *TCP*: the stream one side reads is the stream the other wrote, and all of it
  arrives when the cable is fair; the sender forgets only what has arrived.
- *Switching and spanning tree*: a frame reaches its destination and no frame
  circles for ever; the unblocked ports become a spanning tree again after a change.
- *ARP, routing*: a packet is sent to the host that has the address, or is
  given up with a message; a resolver never raises because of a stale cache.
- *Fragmentation*: what is reassembled is what was sent.
- *DHCP*: two hosts never hold one address; a client that asks gets an answer.
- *Computer*: packets of one process leave in order; packets are looked at by
  every process once.
- *Wireless*: everyone on a frequency hears a packet, once; nobody else does.
- *Filesystem*: the files are a tree; what a path led to is found again; a move
  loses nothing.
- *User interface*: what is on the screen, the list of connections and the
  interfaces agree; nothing acts on what is gone; a saved network loads as it was.

Hard behaviours: list operations while the list is iterated over; calls that
re-enter the scheduler; an exception that unwinds through several owners of
state; state read before a yield and used after it; loss, delay and overtaking
of packets; retransmissions that race acknowledgements; timeouts that race late
answers; caches that age; a computer switched off and on while all this happens.
`PROJECT.json` lists them by line under "hazards".

## Modules

| Module | Models | Composed of |
|---|---|---|
| `ProcessScheduler` | the scheduler of one computer | |
| `ProcessSchedulerProofs` | its inductive invariants and the theorems | `ProcessScheduler` |
| `Selection` | the list comprehensions of the code, one operator | |
| `SequenceLemmas` | what the list operations return and keep | `Selection` |
| `TcpReceivingWindow` | the receiving window of a TCP process, operators on a record | `Selection` |
| `TcpTransfer` | one direction of an established TCP session over a cable | `TcpReceivingWindow` |
| `TcpTransferProofs` | its inductive invariants and the theorems | `TcpTransfer`, `SequenceLemmas` |
| `ReliableStream` | what a session promises to the applications | |
| `TcpSession` | handshakes, resets, sockets, servers and clients of TCP | `TcpReceivingWindow` |
| `TcpSessionProofs` | its inductive invariant and the theorems | `TcpSession`, `SequenceLemmas` |
| `SpanningTree` | one iteration of the STP process, operators on a record | |
| `BridgedNetwork` | switches that run STP and switching, their cables and hosts | `SpanningTree` |
| `RoutingTable` | addresses, subnets and the routing table, operators | |
| `RoutedNetwork` | hosts and routers: ARP, ping, routing, sending queues, fragments | `RoutingTable`, `Selection` |
| `RoutedNetworkProofs` | its inductive invariant and the theorems | `RoutedNetwork`, `SequenceLemmas` |
| `AddressLeases` | DHCP clients and servers of one subnet | |
| `AddressLeasesProofs` | its inductive invariant and the theorems | `AddressLeases`, `SequenceLemmas` |
| `WirelessFrequency` | wireless interfaces and connections | `Selection` |
| `WirelessFrequencyProofs` | its inductive invariant and the theorems | `WirelessFrequency`, `SequenceLemmas` |
| `Directories` | directories, paths and searches, operators on a heap | |
| `Filesystem` | the files of a computer, its shells, power, saving and loading | `Directories` |
| `MainLoop` | what is on the screen and what every frame calls, operators | `Selection` |
| `Editor` | the user interface | `MainLoop` |
| `EditorProofs` | its inductive invariant and the theorems | `Editor`, `SequenceLemmas` |

`MC…` are their instances for TLC. `TcpTransfer` and `TcpSession` share the receiving
window: the first has long streams with holes, the second whole sessions with one
segment of each kind. In the same way each network module has a round of the main loop as
its unit of time and the operators of the layer below it as its data.

### ProcessScheduler

A *process instance* `p` of `Proc` is started at most once (the bound on
processes). What a process computes is abstract: what counts is what it yields
(`Yields`: whether it waits for a packet, whether it has a timeout), which
processes it starts, and whether it executes shell commands, as a
`WatchingProcess` does. `waiting`, `ready`, `running` and `latestPid` are the
fields of `SchedulerDetails`. `stack` is the Python call stack as far as it
concerns the scheduler: a `tick` frame is `_run_process` called by
`handle_processes`, a `start` frame is `_run_process` called by `start_process`,
a `boot` frame is the loop of `run_startup_processes`. `phase` and `cursor` are the
place of the two loops of `handle_processes`. `cursor` is the index of Python's list iterator, so
that removing from the list under the loop has its real effect.

| Action | Code |
|---|---|
| `StartTick`, `NextMode` (`HandleMode`) | the head of the loop over the modes; `_get_ready_processes` |
| `RunNext` | one iteration of the inner loop, up to the code of the process |
| `Yield`, `Finish` | the process yields; its code returns or raises a `ProcessInternalError` |
| `UserStarts`, `ProcessStarts` | `start_process` between two ticks; inside a process |
| `EndTick` | the ready list is cleared, `handle_processes` returns |
| `UserKills9`, `WatchKills9` | `terminate_process`, from a shell; from a watch command |
| `UserKills`, `WatchKills` | `send_process_signal(SIGTERM)`, whose handler raises in the sender |
| `PowerOff`, `PowerOn`, `BootNext`, `BootDone` | `on_shutdown`, `on_startup`, one startup process each, the end |

Which conditions hold, which packets have come and which timeouts have passed is
chosen by the environment when a tick looks (`met`, `late` in
`GetReadyProcesses`); the three checks then move processes exactly as the code
does, the timeout check with its habit of skipping the entry behind one it removed.

### TcpTransfer, TcpReceivingWindow, ReliableStream

A segment is its number: the code compares ends of segments only, so segment `n`
covers the numbers from `n` to `n + 1`, and the handshake has used number 0.
`waitingForSending` and `window` are the fields of `SendingWindow`, `receiver` is the
`ReceivingWindow`, `dataCable` and `ackCable` hold the packets under way,
those in the sending queues of the computers included (both keep their order,
until a delayed packet is overtaken on the cable). A tick that brings several packets is a
sequence of ticks that bring one each; a tick that brings none is `SenderTick`.
Every tick ends with `fill_window`, `send_window` and `retransmit_unacked`
(`SendWindow`); a segment that was sent in an earlier tick may be late at any time.
An exception no handler catches ends the program (`crashed`): the double removal of
a window entry (`Covers`), the index behind the shortened list of SACK blocks
(`MergeFails`).

`ReliableStream` is the abstract specification: one application writes, the other
reads longer and longer prefixes of what was written, in the end all of it.
`TcpTransfer` implements it with `written <- sequenceNumber - 1` and
`read <- received`, where `received` is what `handle_tcp_and_receive` has appended
to `received_data`.

### TcpSession

`end[x]` is an endpoint: a socket, its kernelmode process (`pc` is the place where
that waits, `window`, `r` and `seq` its windows and number) and the usermode process
that uses it (`app`, `got`). `ServerReceives` and `ClientReceives` are the logic of a computer
that has received a packet: `_handle_tcp` answers for a socket that is gone with a reset, then the
kernelmode process handles the packet and goes on from where it waited (`KernelHandles`), then the
usermode process (`Client`, `Session`), then the loop of the kernelmode process sends what
it was given (`Loop`); on the server `TCPServerProcess` accepts (`Accepted`): it
starts a session process for the connected socket and listens with a new one.
`Resend` is `retransmit_unacked`, `GivesUp` the timeout of the last ACK.
`OpenPort` and `ClosePort` are `open_port` of a port that is closed or open, `LoseToServer`
and `LoseToClient` the cables. Segments have length one; MAC addresses are known; one
packet is handled in a tick; what is sent again is sent when its answer has had time
to come, as `RESEND_TIME` is longer than a round trip. A client's process is never killed.

### SpanningTree, BridgedNetwork

`SpanningTree` has the record of an `STPProcess` and one operator per method, composed in
the order of the loop of `code` (`Learned`, `Settled`, `AfterLoop`, `BlockedAfter`). `BridgedNetwork` runs it on each switch together with the
`SwitchingProcess`. A `Round` is one tick of the main loop: every switch that
is on does its logic on what has arrived, and what it sends is there in the next one.
The user pulls and plugs `Loose` cables, switches `Sleepers` off and on,
starts STP everywhere (`StartAllStp`), and a host asks another, which answers
(`Ask`). Frames circle as they do in the code; those that are alike and at one port count
once, since a storm is a storm with one copy. What arrives while a switch
is off waits for it, up to `MaxPending` packets.

### RoutingTable, RoutedNetwork

Addresses are numbers, subnets numbers with the length of a mask; `Lookup` is
`routing_table[…]` with the longest match. A computer is a record (`host[c]`): ARP cache,
processes where they wait, fragments, sending queue. `Logic(c)` is a call of
`Computer.logic` in which something happens: a frame is received (`Receives`: it is kept or
reassembled, handled by ARP or ICMP, wakes the processes that wait for it, and is routed), the
queue sends its next packet, or a timeout is over. A tick that brings several frames is a
sequence of such calls. The environment forgets entries of the cache, loses a frame, pulls a
cable and starts pings. Behaviours are of two kinds from the start: in `calm` ones there are no
faults, and timeouts are longer than anything under way; in the others a timeout may
end at any time, and fewer pings are started (`HurriedPings`).

### AddressLeases

`ClientTick` is the logic of a computer that runs a `DHCPClientProcess`, `ServerTick` that
of a router with a `DHCPServerProcess`, which serves one packet at a time. `AskForDhcp`
is the button (which kills the client process before it starts a new one), `SetIp` a new
address of the router (which starts its server again). An exception nothing catches ends the
program (`raised`). `calm` and `lost` are history. Each client has one interface on the
subnet; the server's always has an address.

### WirelessFrequency

A station is a computer with a wireless interface; tuning makes a new
`WirelessConnectionSide`, which is why `sides` grows. A `Frame` is one round of the main loop:
computers first, then for each connection what its sides send, the circles that grow, who
hears them, what has left the screen. `senders` is history. The length of a frame is not
known, so a circle grows by any distance up to `MaxStep`. Computers are on a line: the
code compares distances only.

### Directories, Filesystem

The heap maps objects to directories and files, as names may lead to one object from
several directories (`.`, `..`, and after an `mv`). `Directories` has the searches of
`filesystem.py` with the exception each one raises; `Filesystem` has the commands of the
shell as they call them, the settings and servers that keep files of their own, the
wiping of temporary directories at shutdown, and saving and loading. A command without
effect is no event.

### MainLoop, Editor

`MainLoop` is the registry: objects in the order of drawing, functions, objects that asked to be
taken off. `Editor` is one record `s`, since the handlers call one another; an action is
an event (`Press`, `Release`, one per key, buttons, windows) or a `Frame`. Between two events
there is a frame at least. `Raise` and `Then` are an exception that leaves a handler: what
would follow does not happen, and the program ends. A cable carries at most one packet,
once, which is what a frozen or doubly removed packet needs.

## Runs

| Run | Question it answers |
|---|---|
| `scheduler` | With a startup process, nested starts, kill -9 and power commands between ticks: is no process lost, brought back to life, doubled, or left over by a shutdown? |
| `scheduler_commands` | With every command from every place: is a process never in two places, and is every process whose timeout has passed resumed, although the check skips entries? |
| `tcp_in_order` | On a cable that keeps the order: do window, ACKs and retransmissions make a live reliable stream, and does the sender forget only what was read? |
| `tcp_one_at_a_time` | And on any fair cable, as long as one segment at a time is under way? |
| `tcp_lossy` | With a larger window and any cable: is at least the order right? |
| `session` | Do sessions with lost segments deliver and end, does the server keep listening, and does a packet end the program only for a socket that went with its port? |
| `bridges` | Does a triangle of switches find one tree with the right root after a change, do storms end, are questions answered? |
| `routed` | Are pings across two routers answered when they can be, never by a reply nobody sent, do they end, and does no packet circle for ever? |
| `leases` | Does no address get given twice, does the program end for the listed reasons only, does who asks undisturbed get an address? |
| `wireless` | Does everyone on a frequency hear a packet, once, in time, and do the ends of a connection agree? |
| `files` | Do the files stay a tree, do commands find what was made, is nothing lost by a move, are temporary directories wiped, as long as no command moves, removes or replaces `.` or `..`? |
| `editor` | Do screen, connections, interfaces and windows agree after any events, and is a saved network loaded as it was? |

The properties have their meaning where they are defined, with a comment. What they say is
often narrower than one would expect, and that is what the models found about the code:

- TCP is a reliable stream exactly where its SACK code is not exercised. On
  cables that lose or reorder, with a window of more than one segment, `DoneMeansDelivered`,
  `ReceivedOnce`, `ReleasedHasArrived` and `NeverCrashes` of `TcpTransfer`, stated there, do
  not hold: a segment that fills a hole moves the ACK number over itself alone
  (`tcp_process.py:150`), and merging SACK blocks claims what never arrived (628).
  In `TcpSession`, `DoneHasAll` needs answers of one segment for the same reason.
- Closing a port removes the sockets of its sessions while their kernelmode processes go
  on. The ACK of a handshake then ends the program (`tcp_socket_process.py:54`). In an
  established session the client is told that its connection ended and answers what still comes
  with a RST; a session process that waits until its answer is acknowledged (`tcp_socket.py:130`)
  then asks a kernelmode process whose sending queue was removed with it, and
  `is_done_transmitting` raises (`tcp_process.py:468`), which ends the program, too
  (`CloseWhenDone`). And a client may take a part of an answer for all of it.
  `CrashesOnlyWhenClosed` and `DoneHasAll` say that only a closed port does that: a client
  whose session has a registered socket never sends the RST. When the port is opened again
  before a handshake is over, the old and the new socket answer one client, and the ACK that
  begins a session on the new one makes the old one raise: `SessionsAreReal` speaks of a program that runs.
- A command given by a process (a `WatchingProcess`) while the scheduler iterates may lose a
  process or cut a shutdown short, so `NoProcessLost` and `ShutdownEndsAll` are
  checked without such commands. `SignalsKillTheirTarget` is stated and does not hold:
  SIGTERM raises in the sender.
- A ring of four switches may keep a root that is switched off for ever; in the
  triangle it is forgotten.
- A saved network is loaded as it was only if no two computers had one name; the delete
  key does not delete the marked objects (`DeleteKeyDeletes`, stated, does not hold).
- Names of directories are looked up in the dictionary that holds `.` and `..`, too. An
  absolute path that ends in a dot is split before it is resolved, so that
  `mv /tmp/.. /tmp/x` puts the root below `/tmp` (saving and wiping then do not end),
  `mv /tmp/. /b` puts `/tmp` in two places, `rm -r /tmp/.` takes the `.` away, and
  `mv /etc /tmp/..` makes `/etc` the parent of `/tmp`, where nothing walks down to it. The
  model takes these steps and records them (`dotsLost`); nothing is modelled after one,
  and `FilesAreATree` speaks of the files before. A relative path drops its dots, so that `touch .`
  makes a file with the name of the working directory: `FoundWhereItWasPut` speaks of paths that
  end in a name, and leaves out a relative path with a separator typed in the root, which is not
  found there (`filesystem.py:81` puts a second separator before it).
- `NoDirectoryLost` says of each step that a directory leaves the tree only by `rm -r`, by being
  replaced by a move, wiped at a shutdown, or when a saved tree is loaded; and in two ways in which a move
  does lose one: into itself, `mv a a/b`, and with a path that ends in a dot.
- A moved directory keeps its old `..`: `OnlyMovedAreStale`, a part of
  `FilesAreATree`, says that no other does.
- The program may end by an exception, `RaisesOnlyWhenDisturbed` and
  `RaisesOnlyWhenDangling` say when only. The editor raises with nothing dangling when the user
  gives an interface the name `loopback` (`LoopbackNamed`): `add_interface` refuses the name
  (`computer.py:500` looks at all interfaces), `add_delete_interface` then does not find it
  among the others (`user_interface.py:1077`), and nothing catches that. What the editor may
  still refer to although it is gone (`Dangling`) is more than an object that was deleted while it was chosen: of two computers
  that were given one name, the second cannot be renamed after the first, because the set of
  names has lost theirs; and of a computer and its interface that are both marked, or of
  a marked packet and any other marked object, the second cannot be deleted after the first.

### Bounds

- Scheduler: three instances of processes (two with every command). The properties speak
  about two; the third is a neighbour to skip, or a process to start while one is
  nested in another. One startup process suffices to ask whether boots and shutdowns
  keep it unique. `UserStarts` and `ProcessStarts` leave enough unborn instances for a boot in
  progress, so that the bound never cuts a boot in half.
- TCP: 4 segments and a window of 1 or 3 give up to two holes.
  `MaxCopies` bounds the copies of one segment under way, `MaxAcks` the ACKs under way,
  `MaxHeld` the receiving window. `MaxCopies = 2` lets a retransmission overlap its
  original. The bounds stop a side for a while, never for ever, and the two
  runs with fairness find no deadlock.
- Sessions: two clients, four sockets of the server (one listens, one was removed when the port
  was closed, two are in a session), three losses: enough to lose a flag, its answer and a copy;
  the port is opened, and may be closed and opened again at any moment of a handshake or session.
- Bridges: a triangle is the smallest loop, with two equal paths to the root on one switch and
  hosts on two switches. One change of the user, any of cable and power, after which
  everything must settle; the intervals keep the order of the constants of the code
  (sending < age < timeout). `MaxAge` is not reached in a triangle.
- Routed: A - R1 - R2 - B with three subnets is the shortest path with a hop between routers,
  on which the answer to an expired packet comes back through another router. One fault, three
  pings (a big one of two tries over an interface with a small MTU, one the other way, one to an
  address that both routers send to each other), which may overlap.
- Leases: two clients that ask, two events that start them or disturb them, two routers, one
  off at first; the subnet ends at address 4, so that addresses run out.
- Wireless: two stations at one of two places, two frequencies, one message, three
  events; a circle may meet a station exactly, or jump over it.
- Files: seven objects, of which five are there from the start; three commands, which is a
  move, another that meets its result, and a shutdown or a load. What is typed (`Paths`, and
  `Sources` of moves and copies) are names of one or two parts, relative and absolute, `.` and
  `..`, and absolute paths that end in them. Not among them: longer paths, and paths with a
  trailing separator, of which `directory.py:64` keeps the first character only.
- Editor: four events from a computer and a switch joined by a cable; a third device, a second
  interface, cable and one popup window may be made.

`CHECK_DEADLOCK FALSE` stands where the program really stops: it has ended by an exception,
a computer is off with no process left to start, the bounds of the user's events
are used up and everything is quiet.

### Fairness

- `ProcessScheduler`: weak fairness of the loop, of the end of a segment and of a
  boot. The main loop calls `logic` for ever, and processes are cooperative: one that
  never yields would stop the whole simulator. What the user does is not fair.
- `TcpTransfer`: weak fairness of the sender's ticks and of the resending of each
  segment in the window (its 15 seconds run out again and again), strong fairness of the
  delivery of each segment and each ACK number: the cable drops a packet with a
  probability below one, each time anew. Sending is not fair: the application may stop.
  `ReliableStream` is fair to `Read`.
- `TcpSession`, `RoutedNetwork`, `BridgedNetwork`, `WirelessFrequency`: weak fairness of the
  round (or tick, or frame): the main loop never stops running computers. A variable that
  changes in each round (`clock`, `beat`) names it, so that a round without other
  effect is a step, too. Losses are bounded and not fair. In `TcpSession` the fairness is
  one per session, as every computer has its `logic` called.
- `AddressLeases`: weak fairness of the clients, the servers, and the cables.
- `Editor` and `Filesystem` state no liveness: everything there is begun by a user, and ends
  within one step.

## Proofs

Each theorem holds for every value of the constants that satisfies the assumptions the
modules name (types, finite sets, `NoProc \notin Proc` and their like), and under the
condition that is part of its statement.

### The scheduler

For every set of processes, every startup list and every set of yields, and for users
who give any command between ticks, but with no command given from inside a process
(`NoWatch`; with such commands `NoProcessLost` and `ShutdownEndsAll` do not hold):

| Theorem | Says |
|---|---|
| `SchedulerInvariant` | `IInv` always holds |
| `TypeCorrect` | `TypeOK` |
| `NoneLost` | `NoProcessLost` |
| `NoneUndead` | `DeadStayDead` |
| `NoneTwice` | `OnePlace` |
| `NoneDoubled` | `NoDoubles` |
| `ShutdownIsComplete` | `ShutdownEndsAll` |

`NoProcessLost` alone is not inductive: that a process moved out of one list is in
another needs to know that it was in one list only, that what is listed is alive,
and that the ready list is empty outside the loop. `IInv` adds `WaitingInv` (what
waits is listed once, alive, in the list of its mode and not executing), `ReadyInv`
(the same of what is still due in this tick, and the ready list of any other mode
is empty) and `StackInv` (the processes on the stack are alive and different, the
current process of a mode is one of them). The proof has one lemma per action.
`ShutdownIsComplete` rests on `IInv`: between two ticks nothing executes, so every
live process is in one of the lists that `PowerOff` empties. `NoneDoubled` has an
invariant of its own, `DoublesInv`: pids of live processes are not above the latest one
of their mode, there is one boot at most, and the startup entries of live processes lie
before the one the boot has come to; none is left while the computer is off.

### The leases

For any clients, servers, subnet and addresses of the servers in it:

| Theorem | Says |
|---|---|
| `LeasesInvariant` | `IInv` always holds |
| `TypeCorrect` | `TypeOK` |
| `AddressesAreUnique` | `UniqueAddresses` |
| `RaisesAreDisturbances` | `RaisesOnlyWhenDisturbed` |

Two clients with one address of one run of a server can be excluded only by looking at
everything an address may come from. `GivenOnce` says of a client's address, of what a server's
session has for it and of the packets on their way to it that they were given: above the server's
own address, at most the last one of this run, and to nobody else. A new offer is
one above, so that nobody holds it. For the raises, `CalmInv` describes an undisturbed
conversation: one server, at most one packet under way, the one that the client's state
calls for. `RunsCounted` keeps the numbers of the runs finite.

### The transfer

On every cable, for any number of segments and any window:

| Theorem | Says |
|---|---|
| `TransferInvariant` | `IInv`: what was read is sorted and below the ACK number; what is held back is sorted and at or above it; SACK blocks go forwards and are sorted |
| `TransferTypes` | `TypeOK` |
| `ReadInOrder` | `InOrder`, whatever is lost, repeated or overtaken |

The SACK blocks belong to the invariant because the ACK number moves to the end of a
block: it never goes back only if blocks end behind their beginning, and they do only as
long as merging moves the left edges to the smallest one.

If `Orderly` (either the cable keeps the order and loses nothing, `Reliable`, with any window, or
the window is one segment, on any cable):

| Theorem | Says |
|---|---|
| `ReleasedOnlyWhenRead` | `ReleasedWasRead` |
| `OrderlyCableNeverCrashes` | `NeverCrashes` |
| `ImplementsReliableStream` | `TcpTransfer` implements `ReliableStream`: every step is a step of it or leaves it alone |

Outside of this condition all three fail, as the runs of the model have shown. `OrderlyInv` says that nothing
is held back and no ACK has SACK blocks, that the window and what waits for it are
consecutive and begin at or before the ACK number, and nothing was sent that still
waits. It needs to know that no segment arrives before its predecessor: on a reliable cable because
of `DataFits` (of what the receiver lacks every segment is under way, behind its predecessor,
whatever the retransmissions between them), with a window of one because a segment is
sent only when all before it were acknowledged.

### The sessions

For any clients and sockets, any answer, however often the port is opened and closed, and
whatever is lost:

| Theorem | Says |
|---|---|
| `SessionsInvariant` | `IInv` always holds |
| `OneSessionForAClient` | `SessionsAreReal` |
| `RaisesOnlyForRemovedSockets` | `CrashesOnlyWhenClosed` |
| `AlwaysListens` | `ListensAgain` |

That a session has a real client cannot be seen at the server alone: an ACK that connects a
socket must come from a client that had the SYN-ACK. `ClientState` says for each client how far
its handshake has come, at once of the client, of both directions of its cable, and
of the sockets that hear it: before its SYN nothing; then one SYN at most, on its way or
answered by SYN-ACKs or RSTs, and only sockets that wait for the ACK; then nothing from it
but ACKs, data, FIN-ACKs and RSTs. `SocketState` lists the five states of a socket with
what each says of its fields. `Apart` says when two sockets may hear one client: while
all of them wait, or after a RST for all. The socket that listens is the only one that waits and is
registered (`ListenerState`). A registered socket that waits for its ACK or has a session that is
not done `Faces` its client, and that client has no reason to send a RST: its own socket is open and
registered, and neither a RST nor a FIN is on its way to it (`Attended`). Otherwise the server would
wait for ever on a socket that is reset, or a session process would ask a kernelmode process that is gone.
This rests on `InUse`: before its session process is done, a socket sends no FIN. So the program ends
only for sockets that are not registered: the ACK of a handshake reaches one that
waits (`LostAck`; if it reaches two, one of them was removed), or a RST one whose session process waits
(`LostSession`); and those were removed with their port (`ListenerState`, `Removed`). The module
has lemmas for what a tick makes of an endpoint in each of its states, and one for each action.

### The routed network

For any computers, cables, tables and pings, whatever is lost, forgotten or unplugged, if
`PingsGoToHosts`: no ping is sent to an address of a router, nor to the loopback.

| Theorem | Says |
|---|---|
| `NetworkInvariant` | `NetworkInv` always holds |
| `AcceptedRepliesAreReal` | `RepliesAreReal` |

A router answers a ping from the interface through which its answer leaves, which need not be
the one that was asked: a reply may then bear the right number and another address
(`SourceFor`), and `RepliesAreReal`, which names the computer that was asked, would have to name
its interfaces. A host has one (`InterfacesAssumption`). `MCRoutedNetwork` assumes
`PingsGoToHosts` of its own pings, and TLC has checked `NetworkInv` in every state of the
run `routed` before it was proved.

A ping accepts a reply by its number and its addresses, wherever it comes from; that it is real
must be known of every reply that is anywhere: on a cable, in a sending queue, in the hands of a
process that routes or resolves, among the fragments. `Frame(R)` are the frames that can be
under way when `R` are the requests that were answered: each echo reply has its request in `R`
(`Real`). Answers only add to `R`, so that frames stay frames. `HasWork` says that a process that
answers was started by a request that is in `R` already; `NumbersUsed` that the number a ping
waits for was given to its own request, so that a reply to an older ping is not taken for
it. What a computer does in a call of `logic` is a chain of loops over its processes; each
loop is a fold with a lemma that says what it keeps.

### Wireless

For any finite set of stations, any places, latencies, messages and frequencies:

| Theorem | Says |
|---|---|
| `WirelessInvariant` | `IInv` always holds |
| `EndsAgree` | `TunedTogether` |
| `NothingTwice` | `HeardOnce` |
| `NothingMissed` | `GoneWasHeard` |

`HeardOnce` alone says nothing of what will be heard. `Air` ties a
packet to the sides of its connection: a message waits once and with its sender, then flies once and in the
connection of its sender; a tuned side remembers the number of every packet in the air that
it has heard or sent; and each number given while it was tuned is in the air or
remembered (`GoneInv`). A frame goes through values that are no state, so `Air` is stated of
given sides and connections: sending, growing, hearing and forgetting each keep
it, one connection after the other. That nothing is missed comes from the middle of a
frame: a circle wider than the screen has passed everyone (`PassedAll`), however far
it grew in one step. `StationInv` and `ListedInv` tie interfaces and the list of the user interface
to the sides.

### The editor

For any devices and names, and any number of interfaces, cables, windows and events
(`EditorConstants` only says that switches are devices, `None` is no device, exception or object, and
the bounds are numbers):

| Theorem | Says |
|---|---|
| `EditorInvariant` | `EditorInv` always holds |
| `ConnectionsAgree` | `ListedAndWired` |
| `PacketsMove` | `NoFrozenPacket` |
| `WindowsAlwaysAgree` | `WindowsAgree`, types included |
| `LoadsWhatWasSaved` | `LoadRestores` |
| `RaisesOnlyIfDangling` | `RaisesOnlyWhenDangling` |

A handler calls others, and each of them finds a program that is no state: the side window
still shows what was selected before. So the invariant is a set of programs, and a lemma on
each operation says from which set it leads to which. `Sound` programs have their types, a
network whose list and wires agree (`NetOk`: also of computers that are gone, whose wires
stay), a registry in which whatever is on the screen exists or has asked to leave (`ScreenOk`),
packets whose cable is still moved (`PacketsOk`) and windows that are open or closing
(`WindowsOk`). `Good` programs moreover view what is selected (`ViewOk`). Selecting leads from
`Good` to `Sound`, setting the mode back from `Sound` to `Good`, and every handler of an event from
`Good` to `Good`, whether it raises or not. `EditorInv` adds what only a frame establishes:
every request to leave is answered but those of packets, and closed windows are gone; and what a
press leaves until the button is released: a connection that is being drawn starts from a
computer that exists, or from an interface that is still on the screen. Changes of the
registry that take nothing from the rest (`Harmless`) share their lemmas.

That a file is loaded as it was saved needs more than an invariant: it needs to know all of
what loading does. The types hold that of any file that was saved (`FileOk`): the ends of its
cables are interfaces of its computers, and no interface has two cables
unless names are shared. Loading deletes everything (`DeleteAllStays` says that nothing is
left) and is two folds: after `n` computers the network has the
first `n` of the file (`ComputersRestored`), after `n` cables it has those and the first
`n` cables (`CablesAre`, `FileRestored`), each between two ends that the earlier ones left free. `SavedAgain` turns
such a network back into its file.

That nothing else raises unless something dangles (`RaisesOnlyIfDangling`) comes with the same lemmas: each
also says under which condition the operation leaves `raised` as it was, and `NothingDangles`
derives those conditions. They hold when the event begins; what a handler
itself deletes on the way must not take away what it still needs. Deleting the marked objects
is the fold where this matters: as nothing marked goes with another, each of them still exists
when its turn comes (`StillDeletable`, `OneMarkedLess`). A release needs the invariant besides, since the
button was pressed some frames before: `Follows` says that no frame in between took the source away.

### How the proofs are made

The library's induction theorems take an operator as a parameter, which the provers cannot
instantiate. What a fold returns is proved by hand: `FoldHistory` gives the sequence of its
partial results, and a least number that lacks the wanted property does not exist.
The list comprehensions of the code are the fold `Only` for that reason, and `SequenceLemmas` says of it,
of removing, inserting, taking prefixes and joining which elements are where, in which order.
Each handler has a lemma on its effect, without the invariant, and one on what it keeps.

### Only model-checked

- Liveness (`TimeoutsServed`, `IsLiveStream`, `Converges`, `SessionsEnd`, `PingsEnd`, `Served`, `IsHeard`
  and their like), which is out of the prover's reach.
- `PingsSucceed`, which needs that tables lead there and back along a path, an induction over its length.
- The safety properties of `BridgedNetwork` and `Filesystem`: the distance to a root and the
  ways through a tree of directories are inductions over data.
- `DoneHasAll` of `TcpSession`, which needs all of the data and the order of the last packets.
- `ProcessScheduler` with commands from inside a process.
- What the recursive searches of `Directories` find.

## Not modelled

- DNS: the client sends a query only when no server is configured
  (`dns_client_process.py:72` has its test inverted), so that there is no protocol to check.
- UDP and raw sockets on their own, traceroute, echo, DDoS and sniffing processes: straight-line
  users of what is modelled, with no state of their own between two waits.
- Packet formats (scapy), drawing, animations, texts, the parsing of command lines.
- Hubs; the loopback connection; gratuitous ARP; editing a routing table while
  packets are under way; changes of MTU; two interfaces in one subnet.
- The window size agreed on at the TCP handshake (the constant `WindowSize`), data in both
  directions over one window in `TcpTransfer`, and a client that is killed in a session.
- Time: a timeout has passed or not; `BridgedNetwork` alone counts rounds.
- Pausing and the speed of the simulation: the main loop runs or it does not.
- Latency of cables and wireless interfaces in saved files: the code does not save them.
- Renaming an interface (`NetworkInterface.set_name` asks nobody whether the name is taken: two of one
  computer could share one, and a file with them would be loaded differently).
- Paths with a trailing separator, and the files after a command that moved or removed a dot.
- `kill_all_usermode_processes_by_type`, which is `terminate_process` of several
  waiting processes in one step, is modelled where it is used (`AskForDhcp`).

The status of each component is in `PROJECT.json`.

## Plan

A proof that is left; its instance is checked already.

1. `BridgedNetwork`: distances to the root are those of some path.

After that: hubs and DNS should their code change, a fourth switch with the age that
`stp_process.py` lacks, and two routers that are each other's gateway with a cut cable.
