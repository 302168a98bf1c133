--------------------------- MODULE ProcessScheduler ---------------------------
(***************************************************************************)
(* The scheduler of one NetSym computer: a cooperative, single-threaded    *)
(* scheduler whose processes are Python generators.  A process runs until  *)
(* it yields a WaitingFor; it is then kept in a waiting list until, in     *)
(* some later tick of the main loop, its condition holds, a packet matches *)
(* or its timeout has passed.                                              *)
(*                                                                         *)
(* A process that runs is inside the scheduler's own calls: it may start   *)
(* other processes (their first segment then runs nested in its own) and,  *)
(* when it is a WatchingProcess, it may execute shell commands that kill   *)
(* processes or switch the computer off under the scheduler's feet.  The   *)
(* variable stack is that call stack.                                      *)
(***************************************************************************)
EXTENDS Naturals, Sequences, FiniteSets, SequencesExt

CONSTANTS
    Proc,           \* process instances; each is started at most once
    NoProc,         \* Python's None, where a process is expected
    StartupModes,   \* the mode of each startup process, in starting order
    StartModes,     \* the modes in which other processes are started
    Yields,         \* what processes wait for
    ShellCommands,  \* the commands the user gives between two ticks
    WatchCommands   \* the commands a WatchingProcess gives while it runs

Modes == {"usermode", "kernelmode"}
Commands == {"kill", "kill -9", "power"}
Lives == {"unborn", "alive", "finished", "killed"}
WaitingFor == [packet : BOOLEAN, timeout : {"none", "running", "passed"}]

ASSUME NoProcAssumption == NoProc \notin Proc
ASSUME FiniteAssumption == IsFiniteSet(Proc)
ASSUME StartupAssumption == StartupModes \in Seq(Modes) /\ StartModes \subseteq Modes
ASSUME YieldsAssumption == Yields \subseteq {w \in WaitingFor : w.timeout # "passed"}
ASSUME CommandsAssumption == ShellCommands \subseteq Commands /\ WatchCommands \subseteq Commands

VARIABLES
    mode,       \* the mode a process was started in
    pid,        \* its process id
    startup,    \* the index of its startup entry, 0 if it was started by hand
    life,       \* what was decided about it
    waits,      \* the WaitingFor it yielded last
    waiting,    \* mode -> waiting_processes
    ready,      \* mode -> ready_processes
    running,    \* mode -> currently_running_process
    latestPid,  \* mode -> latest_pid
    powered,    \* Computer.is_powered_on
    phase,      \* the mode handle_processes is in, "idle" between two ticks
    cursor,     \* how many ready processes its for loop has visited
    stack,      \* the calls in progress, the innermost last
    crashed     \* an exception has left the main loop

procVars == <<mode, pid, startup, life, waits>>
listVars == <<waiting, ready>>
loopVars == <<phase, cursor>>
vars == <<procVars, listVars, running, latestPid, powered, loopVars, stack, crashed>>

INIT_PID == 1
Frames == [fn : {"tick", "start"}, proc : Proc, next : {0}]
            \cup [fn : {"boot"}, proc : {NoProc}, next : Nat \ {0}]

-----------------------------------------------------------------------------
(* The call stack. *)

TickFrame(p) == [fn |-> "tick", proc |-> p, next |-> 0]
StartFrame(p) == [fn |-> "start", proc |-> p, next |-> 0]
BootFrame(n) == [fn |-> "boot", proc |-> NoProc, next |-> n]

Top == stack[Len(stack)]
Pop == SubSeq(stack, 1, Len(stack) - 1)

\* The process whose code is executing: the innermost call is its segment.
Executes(p) == stack # <<>> /\ Top.proc = p
InProcess == stack # <<>> /\ Top.proc # NoProc
Booting == stack # <<>> /\ Top.fn = "boot"

\* The main loop is between two calls of Computer.logic.
Idle == phase = "idle" /\ stack = <<>>

Unborn == {p \in Proc : life[p] = "unborn"}

-----------------------------------------------------------------------------
(* Lists of processes.  Listing(S, w) holds the one sequence of the        *)
(* processes of S that keeps the order of w.                               *)

Before(w, p, q) == \E i, j \in DOMAIN w : i < j /\ w[i] = p /\ w[j] = q

Listing(S, w) ==
    {r \in SeqOf(S, Len(w)) :
        /\ \A p \in S : \E i \in DOMAIN r : r[i] = p
        /\ \A i, j \in DOMAIN r : i < j => Before(w, r[i], r[j])}

\* The ready processes the loop of handle_processes has not reached.
ToRun(m) == {ready[m][i] : i \in (IF phase = m THEN cursor + 1 ELSE 1) .. Len(ready[m])}

\* get_all_processes(m): waiting, currently running and ready ones.
AllProcesses(m) == ToSet(waiting[m]) \cup ToSet(ready[m]) \cup ({running[m]} \ {NoProc})

-----------------------------------------------------------------------------
(* Starting, running and ending the segments of a process. *)

(* start_process(m, ...): give p the next pid and run its first segment,   *)
(* inside whatever is executing now.  k is its startup entry, 0 if none.   *)
StartProcess(p, m, k, calls) ==
    /\ life[p] = "unborn"
    /\ latestPid' = [latestPid EXCEPT ![m] = @ + 1]
    /\ mode' = [mode EXCEPT ![p] = m]
    /\ pid' = [pid EXCEPT ![p] = latestPid[m] + 1]
    /\ startup' = [startup EXCEPT ![p] = k]
    /\ life' = [life EXCEPT ![p] = "alive"]
    /\ running' = [running EXCEPT ![m] = p]
    /\ stack' = Append(calls, StartFrame(p))
    /\ UNCHANGED <<waits, listVars, powered, loopVars, crashed>>

\* Startup processes that a boot in progress has still to start.
BootLeft == Cardinality({k \in DOMAIN StartupModes :
                \E i \in DOMAIN stack : stack[i].fn = "boot" /\ k >= stack[i].next})

(* The user starts a process (the buttons of the GUI do so on a computer   *)
(* that is switched off, too), or a process that runs does.  Proc is the   *)
(* bound on processes: enough of it is kept for a boot in progress.        *)
UserStarts(p, m) == Idle /\ StartProcess(p, m, 0, stack)

ProcessStarts(p, m) ==
    InProcess /\ Cardinality(Unborn) > BootLeft /\ StartProcess(p, m, 0, stack)

\* _run_process returns: by the end of its with block no process is current.
LeaveSegment ==
    /\ stack' = Pop
    /\ running' = [running EXCEPT ![mode[Top.proc]] = NoProc]

\* Mutants: the pid is stored for the process; it goes to the head of the list.
YieldStoringPid(w) ==
    /\ InProcess
    /\ LeaveSegment
    /\ waits' = [waits EXCEPT ![Top.proc] = w]
    /\ waiting' = [waiting EXCEPT ![mode[Top.proc]] = Append(@, pid[Top.proc])]
    /\ UNCHANGED <<mode, pid, startup, life, ready, latestPid, powered, loopVars, crashed>>

\* The process yields a WaitingFor and goes to the end of the waiting list.
Yield(w) ==
    /\ InProcess
    /\ LeaveSegment
    /\ waits' = [waits EXCEPT ![Top.proc] = w]
    /\ waiting' = [waiting EXCEPT ![mode[Top.proc]] = Append(@, Top.proc)]
    /\ UNCHANGED <<mode, pid, startup, life, ready, latestPid, powered, loopVars, crashed>>

\* Its code returns, or raises a ProcessInternalError.
Finish ==
    /\ InProcess
    /\ LeaveSegment
    /\ life' = [life EXCEPT ![Top.proc] = IF @ = "alive" THEN "finished" ELSE @]
    /\ UNCHANGED <<mode, pid, startup, waits, listVars, latestPid, powered, loopVars, crashed>>

-----------------------------------------------------------------------------
(* One tick: handle_processes, one mode after the other. *)

\* Mutant of TimedOut: the loop over the timeouts begins one entry late.
TimedOutButTheFirst(taken, rest) ==
    \A i \in DOMAIN rest :
        rest[i] \in taken <=> i > 1 /\ waits'[rest[i]].timeout = "passed"

(* _get_ready_processes(m).  The environment decides which conditions hold *)
(* or have a packet (met) and which timeouts have passed since (late).     *)
(* Processes that wait for a condition come first, then those that have a  *)
(* packet, then the timed out ones.  The timeout loop removes from the     *)
(* list it iterates over, so it never looks at the process that follows    *)
(* one it has just removed.                                                *)
TimedOut(taken, rest) ==
    \A i \in DOMAIN rest :
        rest[i] \in taken <=> /\ waits'[rest[i]].timeout = "passed"
                              /\ i = 1 \/ rest[i-1] \notin taken

GetReadyProcesses(m) ==
    \E met \in SUBSET ToSet(waiting[m]), late \in SUBSET ToSet(waiting[m]) :
        LET forPacket == {p \in met : waits[p].packet}
            unmet     == ToSet(waiting[m]) \ met
        IN  /\ \A p \in late : waits[p].timeout = "running"
            /\ waits' = [p \in Proc |->
                            IF p \in late THEN [waits[p] EXCEPT !.timeout = "passed"]
                                          ELSE waits[p]]
            /\ \E taken \in SUBSET unmet :
               \E conditions \in Listing(met \ forPacket, waiting[m]),
                  packets    \in Listing(forPacket, waiting[m]),
                  rest       \in Listing(unmet, waiting[m]),
                  timeouts   \in Listing(taken, waiting[m]),
                  left       \in Listing(unmet \ taken, waiting[m]) :
                    /\ TimedOut(taken, rest)
                    /\ ready' = [n \in Modes |->
                                    IF n = m THEN conditions \o packets \o timeouts
                                             ELSE <<>>]
                    /\ waiting' = [waiting EXCEPT ![m] = left]

HandleMode(m) ==
    /\ GetReadyProcesses(m)
    /\ phase' = m
    /\ cursor' = 0
    /\ UNCHANGED <<mode, pid, startup, life, running, latestPid, powered, stack, crashed>>

\* Mutant: the loop stops one process early.
LoopStopsEarly(m) == phase = m /\ stack = <<>> /\ cursor + 1 >= Len(ready[m])

\* Python's for loop over the list object: it compares its index with the
\* length the list has now.
LoopAtEnd(m) == phase = m /\ stack = <<>> /\ cursor >= Len(ready[m])

StartTick == Idle /\ powered /\ HandleMode("usermode")

NextMode == LoopAtEnd("usermode") /\ HandleMode("kernelmode")

EndTick ==
    /\ LoopAtEnd("kernelmode")
    /\ phase' = "idle"
    /\ cursor' = 0
    /\ ready' = [m \in Modes |-> <<>>]
    /\ UNCHANGED <<procVars, waiting, running, latestPid, powered, stack, crashed>>

\* Mutant: the loop does not move on.
RunSameAgain ==
    /\ phase \in Modes
    /\ stack = <<>>
    /\ cursor < Len(ready[phase])
    /\ running' = [running EXCEPT ![phase] = ready[phase][cursor + 1]]
    /\ stack' = <<TickFrame(ready[phase][cursor + 1])>>
    /\ UNCHANGED <<procVars, listVars, loopVars, latestPid, powered, crashed>>

RunNext ==
    /\ phase \in Modes
    /\ stack = <<>>
    /\ cursor < Len(ready[phase])
    /\ LET p == ready[phase][cursor + 1]
       IN  /\ running' = [running EXCEPT ![phase] = p]
           /\ stack' = <<TickFrame(p)>>
    /\ cursor' = cursor + 1
    /\ UNCHANGED <<procVars, listVars, latestPid, powered, phase, crashed>>

-----------------------------------------------------------------------------
(* Killing. *)

Killed(S) == [p \in Proc |-> IF p \in S /\ life[p] = "alive" THEN "killed" ELSE life[p]]

\* A ProcessInternalError raised in the code of the process that executes.
DieHere == LeaveSegment /\ life' = Killed({Top.proc})

\* Mutant: the waiting entry of the process is kept.
TerminateLeavingEntry(p) ==
    /\ p \in ToSet(waiting["usermode"])
    /\ life' = Killed({p})
    /\ UNCHANGED <<waiting, ready, running, stack>>
    /\ UNCHANGED <<mode, pid, startup, waits, latestPid, powered, loopVars, crashed>>

(* terminate_process(p, "usermode"), the effect of `kill -9`.  A ready     *)
(* entry is dropped before anything else is looked at.                     *)
TerminateProcess(p) ==
    LET m == "usermode" IN
    /\ \/ /\ p \in ToSet(ready[m])
          /\ \E r \in Listing(ToSet(ready[m]) \ {p}, ready[m]) :
                ready' = [ready EXCEPT ![m] = r]
          /\ life' = Killed({p})
          /\ UNCHANGED <<waiting, running, stack>>
       \/ /\ p \notin ToSet(ready[m])
          /\ p = running[m]
          /\ DieHere
          /\ UNCHANGED listVars
       \/ /\ p \notin ToSet(ready[m]) \cup {running[m]}
          /\ p \in ToSet(waiting[m])
          /\ \E r \in Listing(ToSet(waiting[m]) \ {p}, waiting[m]) :
                waiting' = [waiting EXCEPT ![m] = r]
          /\ life' = Killed({p})
          /\ UNCHANGED <<ready, running, stack>>
    /\ UNCHANGED <<mode, pid, startup, waits, latestPid, powered, loopVars, crashed>>

UserKills9(p) == "kill -9" \in ShellCommands /\ Idle /\ TerminateProcess(p)

\* A process executes a shell command of a WatchingProcess.
Watches(command) ==
    command \in WatchCommands /\ InProcess /\ mode[Top.proc] = "usermode"

WatchKills9(p) == Watches("kill -9") /\ TerminateProcess(p)

(* `kill`: the handler of SIGTERM is p.die(), which raises in the code     *)
(* that sends the signal.  In a process that is the end of the sender;     *)
(* from a shell the exception leaves the main loop.                        *)
WatchKills(p) ==
    /\ Watches("kill")
    /\ p \in AllProcesses("usermode")
    /\ DieHere
    /\ UNCHANGED <<mode, pid, startup, waits, listVars, latestPid, powered, loopVars, crashed>>

UserKills(p) ==
    /\ "kill" \in ShellCommands /\ Idle
    /\ p \in AllProcesses("usermode")
    /\ crashed' = TRUE
    /\ UNCHANGED <<procVars, listVars, running, latestPid, powered, loopVars, stack>>

-----------------------------------------------------------------------------
(* Power. *)

\* Mutant: only the usermode processes are terminated.
ReachedUsermode == {"usermode"}

(* _terminate_all empties the lists of a mode and then, when a process of  *)
(* that mode is current, calls its die(): the exception ends the process   *)
(* that executes and the rest of on_shutdown is skipped.                   *)
Reached == IF running["usermode"] # NoProc THEN {"usermode"} ELSE Modes
Interrupted == \E m \in Modes : running[m] # NoProc

PowerOff ==
    LET listed == UNION {ToSet(waiting[m]) \cup ToSet(ready[m]) : m \in Reached}
        dying  == IF Interrupted THEN {Top.proc} ELSE {}
    IN  /\ powered
        /\ powered' = FALSE
        /\ waiting' = [m \in Modes |-> IF m \in Reached THEN <<>> ELSE waiting[m]]
        /\ ready' = [m \in Modes |-> IF m \in Reached THEN <<>> ELSE ready[m]]
        /\ life' = Killed(listed \cup dying)
        /\ IF Interrupted
             THEN LeaveSegment /\ UNCHANGED latestPid
             ELSE latestPid' = [m \in Modes |-> INIT_PID] /\ UNCHANGED <<stack, running>>
        /\ UNCHANGED <<mode, pid, startup, waits, loopVars, crashed>>

\* on_startup: run_startup_processes, one start_process after the other.
PowerOn ==
    /\ ~powered
    /\ Cardinality(Unborn) >= Len(StartupModes)
    /\ powered' = TRUE
    /\ stack' = Append(stack, BootFrame(1))
    /\ UNCHANGED <<procVars, listVars, running, latestPid, loopVars, crashed>>

BootNext(p) ==
    /\ Booting
    /\ Top.next <= Len(StartupModes)
    /\ StartProcess(p, StartupModes[Top.next], Top.next, Append(Pop, BootFrame(Top.next + 1)))

BootDone ==
    /\ Booting
    /\ Top.next > Len(StartupModes)
    /\ stack' = Pop
    /\ UNCHANGED <<procVars, listVars, running, latestPid, powered, loopVars, crashed>>

UserPowers == "power" \in ShellCommands /\ Idle /\ (PowerOff \/ PowerOn)

WatchPowers == Watches("power") /\ (PowerOff \/ PowerOn)

-----------------------------------------------------------------------------

\* The computer is constructed switched on; the constructor starts each
\* startup process it adds.
Init ==
    /\ mode = [p \in Proc |-> "usermode"]
    /\ pid = [p \in Proc |-> 0]
    /\ startup = [p \in Proc |-> 0]
    /\ life = [p \in Proc |-> "unborn"]
    /\ waits = [p \in Proc |-> [packet |-> FALSE, timeout |-> "none"]]
    /\ waiting = [m \in Modes |-> <<>>]
    /\ ready = [m \in Modes |-> <<>>]
    /\ running = [m \in Modes |-> NoProc]
    /\ latestPid = [m \in Modes |-> INIT_PID]
    /\ powered = TRUE
    /\ phase = "idle"
    /\ cursor = 0
    /\ stack = <<BootFrame(1)>>
    /\ crashed = FALSE

\* What the running code does next.
EndSegment == Finish \/ \E w \in Yields : Yield(w)

Loop == StartTick \/ NextMode \/ EndTick \/ RunNext
Boot == BootDone \/ \E p \in Proc : BootNext(p)

User ==
    \/ UserPowers
    \/ \E p \in Proc, m \in StartModes : UserStarts(p, m)
    \/ \E p \in Proc : UserKills9(p) \/ UserKills(p)

InsideProcess ==
    \/ WatchPowers
    \/ \E p \in Proc, m \in StartModes : ProcessStarts(p, m)
    \/ \E p \in Proc : WatchKills9(p) \/ WatchKills(p)

Next == ~crashed /\ (Loop \/ EndSegment \/ Boot \/ User \/ InsideProcess)

Spec == Init /\ [][Next]_vars

(* The main loop calls logic for ever and processes are cooperative: a     *)
(* segment comes to its yield or to its end, a boot to its last process.   *)
Fairness ==
    /\ WF_vars(~crashed /\ Loop)
    /\ WF_vars(~crashed /\ EndSegment)
    /\ WF_vars(~crashed /\ Boot)

FairSpec == Spec /\ Fairness

-----------------------------------------------------------------------------
(* Properties. *)

\* Types of the variables.
TypeOK ==
    /\ mode \in [Proc -> Modes]
    /\ pid \in [Proc -> Nat]
    /\ startup \in [Proc -> Nat]
    /\ life \in [Proc -> Lives]
    /\ waits \in [Proc -> WaitingFor]
    /\ waiting \in [Modes -> Seq(Proc)]
    /\ ready \in [Modes -> Seq(Proc)]
    /\ running \in [Modes -> Proc \cup {NoProc}]
    /\ latestPid \in [Modes -> Nat]
    /\ powered \in BOOLEAN
    /\ phase \in Modes \cup {"idle"}
    /\ cursor \in Nat
    /\ stack \in Seq(Frames)
    /\ crashed \in BOOLEAN

OnStack(p) == \E i \in DOMAIN stack : stack[i].proc = p

(* No process is lost: a live process waits, is due to run in this tick or *)
(* is executing.  (handle_processes moves processes between the lists and  *)
(* clears ready_processes at the end of a mode.)                           *)
NoProcessLost ==
    \A p \in Proc : life[p] = "alive" =>
        \/ p \in ToSet(waiting[mode[p]])
        \/ phase = mode[p] /\ p \in ToRun(phase)
        \/ OnStack(p)

(* A process that was killed or has finished runs no more code: it is      *)
(* neither waiting nor due nor executing.  (terminate_process, die.)       *)
DeadStayDead ==
    \A p \in Proc : life[p] \in {"finished", "killed"} =>
        /\ \A m \in Modes : p \notin ToSet(waiting[m]) \cup ToRun(m)
        /\ ~OnStack(p)

(* No process is in two places: it is scheduled by one entry only, so it   *)
(* cannot be resumed twice for one yield.                                  *)
OnePlace ==
    \A p \in Proc, m \in Modes :
        /\ \A i, j \in DOMAIN waiting[m] : waiting[m][i] = p /\ waiting[m][j] = p => i = j
        /\ p \in ToSet(waiting[m]) => p \notin ToRun("usermode") \cup ToRun("kernelmode") /\ ~OnStack(p)
        /\ p \in ToRun(m) => ~OnStack(p)
        /\ \A i, j \in DOMAIN stack : stack[i].proc = p /\ stack[j].proc = p => i = j

(* Two live processes of a mode never share a pid, across shutdowns that   *)
(* reset the counter too: sockets and sending queues are keyed by it.      *)
PidsUnique ==
    \A p, q \in Proc :
        p # q /\ life[p] = "alive" /\ life[q] = "alive" /\ mode[p] = mode[q] => pid[p] # pid[q]

(* However often the computer is switched off and on, each startup process *)
(* has one live instance at most (two SwitchingProcesses would forward     *)
(* every frame twice).                                                     *)
StartupOnce ==
    \A p, q \in Proc :
        p # q /\ life[p] = "alive" /\ life[q] = "alive" /\ startup[p] # 0 => startup[p] # startup[q]

(* Nothing is there twice after switching off and on: neither a pid, nor a *)
(* startup process (run_startup_processes, _terminate_all).                *)
NoDoubles == PidsUnique /\ StartupOnce

(* Switching the computer off ends every process. *)
ShutdownEndsAll ==
    [][powered /\ ~powered' => \A p \in Proc : life'[p] # "alive"]_vars

(* A process whose timeout has passed is resumed some day, although the    *)
(* loop of _check_process_timeouts skips entries.                          *)
TimeoutsServed ==
    \A p \in Proc, m \in Modes :
        (p \in ToSet(waiting[m]) /\ waits[p].timeout = "passed") ~>
            (p \notin ToSet(waiting[m]) \/ ~powered \/ crashed)

(* A killing signal ends the process it is sent to. *)
SignalsKillTheirTarget ==
    [][\A p \in Proc : WatchKills(p) \/ UserKills(p) => life'[p] # "alive"]_vars

=============================================================================
