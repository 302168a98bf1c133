------------------------ MODULE ProcessSchedulerProofs ------------------------
(***************************************************************************)
(* Proofs about ProcessScheduler, for any set of processes and any startup *)
(* list, as long as no process runs kill or power commands from inside the *)
(* scheduler (WatchCommands = {}).  With such commands the invariant is    *)
(* false of the code: see the runs scheduler_watch_*.                      *)
(***************************************************************************)
EXTENDS ProcessScheduler, SequenceTheorems, TLAPS

\* A list without repetitions.
NoRepeat(s) == \A i, j \in DOMAIN s : s[i] = s[j] => i = j

\* What waits is alive and knows its mode.
WaitingInv ==
    \A m \in Modes :
        /\ NoRepeat(waiting[m])
        /\ \A p \in ToSet(waiting[m]) : mode[p] = m /\ life[p] = "alive" /\ ~OnStack(p)

\* What is due in this tick is alive and nowhere else.
ReadyInv ==
    \A m \in Modes :
        /\ NoRepeat(ready[m])
        /\ phase # m => ready[m] = <<>>
        /\ \A p \in ToRun(m) :
              /\ mode[p] = m /\ life[p] = "alive" /\ ~OnStack(p)
              /\ p \notin ToSet(waiting[m])

\* Each process on the stack is alive and there once; the current process of
\* a mode is one of them.
StackInv ==
    /\ \A i, j \in DOMAIN stack :
          stack[i].proc # NoProc /\ stack[i].proc = stack[j].proc => i = j
    /\ \A i \in DOMAIN stack : stack[i].proc # NoProc => life[stack[i].proc] = "alive"
    /\ \A m \in Modes : running[m] # NoProc => mode[running[m]] = m /\ OnStack(running[m])

IInv == TypeOK /\ WaitingInv /\ ReadyInv /\ StackInv /\ NoProcessLost

-----------------------------------------------------------------------------
(* Lists. *)

(* The order-preserving listing of a part of a list. *)
LEMMA ListingProperties ==
    ASSUME NEW w \in Seq(Proc), NoRepeat(w), NEW S \in SUBSET Proc, NEW r \in Listing(S, w)
    PROVE  r \in Seq(Proc) /\ ToSet(r) = S /\ NoRepeat(r)
<1>1. PICK m \in 0 .. Len(w) : r \in [1 .. m -> S]
  BY DEF Listing, SeqOf
<1>2. m \in Nat /\ DOMAIN r = 1 .. m
  BY <1>1
<1>3. r \in Seq(Proc)
  BY <1>1, <1>2
<1>4. ToSet(r) = S
  BY <1>1 DEF Listing, ToSet
<1>5. ASSUME NEW i \in 1 .. m, NEW j \in 1 .. m, i < j
      PROVE  r[i] # r[j]
  BY <1>2, <1>5 DEF Listing, Before, NoRepeat
<1>6. NoRepeat(r)
  BY <1>2, <1>5 DEF NoRepeat
<1>7. QED
  BY <1>3, <1>4, <1>6

(* Concatenating two lists that have no process in common. *)
LEMMA ConcatNoRepeat ==
    ASSUME NEW a \in Seq(Proc), NEW b \in Seq(Proc), NoRepeat(a), NoRepeat(b),
           ToSet(a) \cap ToSet(b) = {}
    PROVE  a \o b \in Seq(Proc) /\ ToSet(a \o b) = ToSet(a) \cup ToSet(b) /\ NoRepeat(a \o b)
<1> DEFINE c == a \o b
<1>1. c \in Seq(Proc) /\ DOMAIN c = 1 .. Len(a) + Len(b) /\ Len(a) \in Nat /\ Len(b) \in Nat
  OBVIOUS
<1>2. \A i \in 1 .. Len(a) : c[i] = a[i]
  OBVIOUS
<1>3. \A i \in 1 .. Len(b) : c[Len(a) + i] = b[i]
  OBVIOUS
<1>4. DOMAIN a = 1 .. Len(a) /\ DOMAIN b = 1 .. Len(b)
  OBVIOUS
<1> HIDE DEF c
<1>5. ASSUME NEW i \in DOMAIN c, i \notin DOMAIN a
      PROVE  \E j \in DOMAIN b : i = Len(a) + j /\ c[i] = b[j]
  <2>1. i - Len(a) \in DOMAIN b /\ i = Len(a) + (i - Len(a))
    BY <1>1, <1>4, <1>5
  <2>2. QED BY <2>1, <1>3, <1>4
<1>6. ToSet(c) = ToSet(a) \cup ToSet(b)
  <2>1. \A x \in ToSet(c) : x \in ToSet(a) \cup ToSet(b)
    BY <1>2, <1>4, <1>5 DEF ToSet
  <2>2. \A x \in ToSet(a) : x \in ToSet(c)
    BY <1>1, <1>2, <1>4 DEF ToSet
  <2>3. \A i \in DOMAIN b : b[i] \in ToSet(c)
    <3> TAKE i \in DOMAIN b
    <3>1. Len(a) + i \in DOMAIN c
      BY <1>1, <1>4
    <3>2. QED BY <1>3, <1>4, <3>1 DEF ToSet
  <2>4. QED BY <2>1, <2>2, <2>3 DEF ToSet
<1>7. NoRepeat(c)
  <2> SUFFICES ASSUME NEW i \in DOMAIN c, NEW j \in DOMAIN c, c[i] = c[j] PROVE i = j
    BY DEF NoRepeat
  <2>1. CASE i \in DOMAIN a /\ j \in DOMAIN a
    BY <2>1, <1>2, <1>4 DEF NoRepeat
  <2>2. CASE i \notin DOMAIN a /\ j \notin DOMAIN a
    BY <2>2, <1>5 DEF NoRepeat
  <2>3. CASE i \in DOMAIN a /\ j \notin DOMAIN a
    <3>1. c[i] \in ToSet(a) /\ c[j] \in ToSet(b)
      BY <2>3, <1>2, <1>4, <1>5 DEF ToSet
    <3>2. QED BY <3>1
  <2>4. CASE i \notin DOMAIN a /\ j \in DOMAIN a
    <3>1. c[i] \in ToSet(b) /\ c[j] \in ToSet(a)
      BY <2>4, <1>2, <1>4, <1>5 DEF ToSet
    <3>2. QED BY <3>1
  <2>5. QED BY <2>1, <2>2, <2>3, <2>4
<1>8. QED BY <1>1, <1>6, <1>7 DEF c

(* Appending a process that is not in the list. *)
LEMMA AppendNoRepeat ==
    ASSUME NEW s \in Seq(Proc), NEW p \in Proc, NoRepeat(s), p \notin ToSet(s)
    PROVE  Append(s, p) \in Seq(Proc) /\ ToSet(Append(s, p)) = ToSet(s) \cup {p} /\ NoRepeat(Append(s, p))
<1>1. Append(s, p) \in Seq(Proc) /\ DOMAIN Append(s, p) = 1 .. Len(s) + 1 /\ Len(s) \in Nat
  OBVIOUS
<1>2. \A i \in 1 .. Len(s) + 1 : Append(s, p)[i] = IF i = Len(s) + 1 THEN p ELSE s[i]
  OBVIOUS
<1>3. DOMAIN s = 1 .. Len(s)
  OBVIOUS
<1>4. ToSet(Append(s, p)) = ToSet(s) \cup {p}
  BY <1>1, <1>2, <1>3 DEF ToSet
<1>5. NoRepeat(Append(s, p))
  BY <1>1, <1>2, <1>3 DEF ToSet, NoRepeat
<1>6. QED BY <1>1, <1>4, <1>5

(* Every listed entry is a process. *)
LEMMA ListedAreProcesses ==
    ASSUME TypeOK
    PROVE  \A m \in Modes :
              /\ waiting[m] \in Seq(Proc) /\ ToSet(waiting[m]) \subseteq Proc
              /\ ready[m] \in Seq(Proc) /\ ToSet(ready[m]) \subseteq Proc
              /\ ToRun(m) \subseteq ToSet(ready[m])
<1>1. ASSUME NEW s \in Seq(Proc)
      PROVE  ToSet(s) \subseteq Proc /\ DOMAIN s = 1 .. Len(s) /\ Len(s) \in Nat
  BY DEF ToSet
<1>2. \A m \in Modes : waiting[m] \in Seq(Proc) /\ ready[m] \in Seq(Proc)
  BY DEF TypeOK
<1>3. cursor \in Nat
  BY DEF TypeOK
<1>4. ASSUME NEW m \in Modes
      PROVE  ToRun(m) \subseteq ToSet(ready[m])
  <2>1. DOMAIN ready[m] = 1 .. Len(ready[m]) /\ Len(ready[m]) \in Nat
    BY <1>1, <1>2
  <2>2. \A i \in (IF phase = m THEN cursor + 1 ELSE 1) .. Len(ready[m]) : i \in DOMAIN ready[m]
    BY <1>3, <2>1
  <2>3. QED BY <2>2 DEF ToRun, ToSet
<1>5. QED BY <1>1, <1>2, <1>4

-----------------------------------------------------------------------------
(* The call stack. *)

(* Pushing a frame keeps the calls below it. *)
LEMMA PushFrame ==
    ASSUME NEW calls \in Seq(Frames), NEW f \in Frames
    PROVE  /\ Append(calls, f) \in Seq(Frames)
           /\ DOMAIN Append(calls, f) = DOMAIN calls \cup {Len(calls) + 1}
           /\ Len(calls) + 1 \notin DOMAIN calls
           /\ \A i \in DOMAIN calls : Append(calls, f)[i] = calls[i]
           /\ Append(calls, f)[Len(calls) + 1] = f
OBVIOUS

(* Popping removes the innermost call only. *)
LEMMA PopFrame ==
    ASSUME stack \in Seq(Frames), stack # <<>>
    PROVE  /\ Pop \in Seq(Frames)
           /\ Len(stack) \in DOMAIN stack
           /\ DOMAIN Pop = DOMAIN stack \ {Len(stack)}
           /\ \A i \in DOMAIN Pop : Pop[i] = stack[i]
           /\ Top \in Frames
           /\ Len(Pop) + 1 = Len(stack)
<1>1. Len(stack) \in Nat \ {0} /\ DOMAIN stack = 1 .. Len(stack) /\ stack \in [1 .. Len(stack) -> Frames]
  OBVIOUS
<1>2. Pop \in Seq(Frames) /\ Len(Pop) = Len(stack) - 1 /\ \A i \in 1 .. Len(stack) - 1 : Pop[i] = stack[i]
  <2>1. \A i \in 1 .. Len(stack) - 1 : stack[i] \in Frames
    BY <1>1
  <2>2. QED BY <1>1, <2>1, SubSeqProperties DEF Pop
<1>3. DOMAIN Pop = 1 .. Len(stack) - 1
  BY <1>2
<1>4. QED BY <1>1, <1>2, <1>3 DEF Top

(* When the process that executes leaves its segment, the other processes  *)
(* stay where they are on the stack.                                       *)
LEMMA LeaveEffect ==
    ASSUME TypeOK, StackInv, InProcess, LeaveSegment
    PROVE  /\ Top.proc \in Proc /\ OnStack(Top.proc)
           /\ life[Top.proc] = "alive"
           /\ stack' \in Seq(Frames)
           /\ running' \in [Modes -> Proc \cup {NoProc}]
           /\ \A p \in Proc : OnStack(p)' <=> OnStack(p) /\ p # Top.proc
           /\ \A i, j \in DOMAIN stack' :
                 stack'[i].proc # NoProc /\ stack'[i].proc = stack'[j].proc => i = j
           /\ \A i \in DOMAIN stack' :
                 stack'[i].proc # NoProc => /\ stack'[i].proc \in Proc \ {Top.proc}
                                            /\ life[stack'[i].proc] = "alive"
           /\ \A m \in Modes : running'[m] # NoProc =>
                 /\ mode[running'[m]] = m /\ running'[m] \in Proc \ {Top.proc}
                 /\ \E i \in DOMAIN stack' : stack'[i].proc = running'[m]
<1> USE NoProcAssumption
<1>1. stack \in Seq(Frames) /\ stack # <<>> /\ Top.proc # NoProc
  BY DEF TypeOK, InProcess
<1>2. /\ Pop \in Seq(Frames)
      /\ Len(stack) \in DOMAIN stack
      /\ DOMAIN Pop = DOMAIN stack \ {Len(stack)}
      /\ \A i \in DOMAIN Pop : Pop[i] = stack[i]
      /\ Top \in Frames
  BY <1>1, PopFrame
<1>3. Top.proc \in Proc /\ OnStack(Top.proc) /\ life[Top.proc] = "alive"
  BY <1>1, <1>2 DEF Frames, OnStack, Top, StackInv
<1>4. stack' = Pop /\ running' = [running EXCEPT ![mode[Top.proc]] = NoProc]
  BY DEF LeaveSegment
<1>5. \A i \in DOMAIN stack : stack[i].proc = Top.proc => i = Len(stack)
  BY <1>1, <1>2 DEF StackInv, Top
<1>6. \A p \in Proc : OnStack(p)' <=> OnStack(p) /\ p # Top.proc
  BY <1>2, <1>4, <1>5 DEF OnStack, Top
<1>7. \A i, j \in DOMAIN stack' :
          stack'[i].proc # NoProc /\ stack'[i].proc = stack'[j].proc => i = j
  BY <1>2, <1>4 DEF StackInv
<1>8. \A i \in DOMAIN stack : stack[i].proc # NoProc => stack[i].proc \in Proc
  <2>1. \A i \in DOMAIN stack : stack[i] \in Frames
    BY <1>1
  <2>2. QED BY <2>1 DEF Frames
<1>9. \A i \in DOMAIN stack' :
          stack'[i].proc # NoProc => /\ stack'[i].proc \in Proc \ {Top.proc}
                                     /\ life[stack'[i].proc] = "alive"
  BY <1>2, <1>4, <1>5, <1>8 DEF StackInv
<1>10. \A m \in Modes : running'[m] # NoProc =>
          /\ mode[running'[m]] = m /\ running'[m] \in Proc \ {Top.proc}
          /\ \E i \in DOMAIN stack' : stack'[i].proc = running'[m]
  <2> SUFFICES ASSUME NEW m \in Modes, running'[m] # NoProc
               PROVE  /\ mode[running'[m]] = m /\ running'[m] \in Proc \ {Top.proc}
                      /\ \E i \in DOMAIN stack' : stack'[i].proc = running'[m]
    OBVIOUS
  <2>1. m # mode[Top.proc] /\ running'[m] = running[m]
    BY <1>3, <1>4 DEF TypeOK
  <2>2. mode[running[m]] = m /\ running[m] \in Proc /\ OnStack(running[m])
    BY <2>1 DEF StackInv, TypeOK
  <2>3. running[m] # Top.proc
    BY <2>1, <2>2
  <2>4. QED BY <1>6, <2>1, <2>2, <2>3 DEF OnStack
<1>11. running' \in [Modes -> Proc \cup {NoProc}]
  BY <1>3, <1>4 DEF TypeOK
<1>12. QED BY <1>2, <1>3, <1>4, <1>6, <1>7, <1>9, <1>10, <1>11

-----------------------------------------------------------------------------
(* The invariant holds at first and every action keeps it. *)

LEMMA InitInv == Init => IInv
<1> SUFFICES ASSUME Init PROVE IInv
  OBVIOUS
<1>1. TypeOK
  <2>1. BootFrame(1) \in Frames
    BY DEF BootFrame, Frames
  <2>2. stack \in Seq(Frames)
    BY <2>1 DEF Init
  <2>3. /\ mode \in [Proc -> Modes] /\ life \in [Proc -> Lives] /\ waits \in [Proc -> WaitingFor]
        /\ pid \in [Proc -> Nat] /\ startup \in [Proc -> Nat]
    BY DEF Init, Modes, Lives, WaitingFor
  <2>4. /\ waiting \in [Modes -> Seq(Proc)] /\ ready \in [Modes -> Seq(Proc)]
        /\ running \in [Modes -> Proc \cup {NoProc}] /\ latestPid \in [Modes -> Nat]
    BY DEF Init, INIT_PID
  <2>5. powered \in BOOLEAN /\ phase \in Modes \cup {"idle"} /\ crashed \in BOOLEAN
    BY Zenon DEF Init
  <2>6. cursor \in Nat
    BY DEF Init
  <2>7. QED BY <2>2, <2>3, <2>4, <2>5, <2>6 DEF TypeOK
<1>2. \A m \in Modes : waiting[m] = <<>> /\ ready[m] = <<>> /\ running[m] = NoProc
  BY DEF Init
<1>3. ToSet(<<>>) = {} /\ NoRepeat(<<>>) /\ Len(<<>>) = 0
  BY DEF ToSet, NoRepeat
<1>4. \A m \in Modes : ToRun(m) = {}
  BY <1>2, <1>3 DEF Init, ToRun, Modes
<1>5. WaitingInv /\ ReadyInv
  BY <1>2, <1>3, <1>4 DEF WaitingInv, ReadyInv
<1>6. StackInv
  BY <1>2 DEF StackInv, BootFrame, Init
<1>7. NoProcessLost
  BY DEF NoProcessLost, Init
<1>8. QED BY <1>1, <1>5, <1>6, <1>7 DEF IInv

(* start_process, whoever calls it: the caller's frames keep their place. *)
LEMMA StartInv ==
    ASSUME IInv, NEW p \in Proc, NEW m \in Modes, NEW k \in Nat,
           NEW calls \in Seq(Frames), DOMAIN calls = DOMAIN stack,
           \A i \in DOMAIN stack : calls[i].proc = stack[i].proc,
           StartProcess(p, m, k, calls)
    PROVE  IInv'
<1>1. TypeOK /\ WaitingInv /\ ReadyInv /\ StackInv /\ NoProcessLost
  BY DEF IInv
<1>2. /\ life[p] = "unborn"
      /\ latestPid' = [latestPid EXCEPT ![m] = @ + 1]
      /\ mode' = [mode EXCEPT ![p] = m]
      /\ pid' = [pid EXCEPT ![p] = latestPid[m] + 1]
      /\ startup' = [startup EXCEPT ![p] = k]
      /\ life' = [life EXCEPT ![p] = "alive"]
      /\ running' = [running EXCEPT ![m] = p]
      /\ stack' = Append(calls, StartFrame(p))
      /\ waits' = waits /\ waiting' = waiting /\ ready' = ready /\ powered' = powered
      /\ phase' = phase /\ cursor' = cursor /\ crashed' = crashed
  BY DEF StartProcess, listVars, loopVars
<1>3. StartFrame(p) \in Frames /\ StartFrame(p).proc = p
  BY DEF StartFrame, Frames
<1>4. /\ stack' \in Seq(Frames)
      /\ DOMAIN stack' = DOMAIN stack \cup {Len(calls) + 1}
      /\ Len(calls) + 1 \notin DOMAIN stack
      /\ \A i \in DOMAIN stack : stack'[i].proc = stack[i].proc
      /\ stack'[Len(calls) + 1].proc = p
  BY <1>2, <1>3, PushFrame
<1>5. p # NoProc
  BY NoProcAssumption
<1>6. ~OnStack(p) /\ \A n \in Modes : p \notin ToSet(waiting[n]) /\ p \notin ToRun(n)
  BY <1>1, <1>2, <1>5 DEF OnStack, StackInv, WaitingInv, ReadyInv
<1>7. \A q : OnStack(q)' <=> OnStack(q) \/ q = p
  BY <1>4 DEF OnStack
<1>8. \A q \in Proc : mode'[q] = IF q = p THEN m ELSE mode[q]
  BY <1>1, <1>2 DEF TypeOK
<1>9. \A q \in Proc : life'[q] = IF q = p THEN "alive" ELSE life[q]
  BY <1>1, <1>2 DEF TypeOK
<1>10. TypeOK'
  <2>1. mode' \in [Proc -> Modes] /\ startup' \in [Proc -> Nat] /\ life' \in [Proc -> Lives]
    BY <1>1, <1>2 DEF TypeOK, Lives
  <2>2. latestPid[m] + 1 \in Nat
    BY <1>1 DEF TypeOK
  <2>3. latestPid' \in [Modes -> Nat] /\ pid' \in [Proc -> Nat]
    BY <1>1, <1>2, <2>2 DEF TypeOK
  <2>4. running' \in [Modes -> Proc \cup {NoProc}]
    BY <1>1, <1>2 DEF TypeOK
  <2>5. QED BY <1>1, <1>2, <1>4, <2>1, <2>3, <2>4 DEF TypeOK
<1>11. \A n \in Modes : ToSet(waiting[n]) \subseteq Proc /\ ToRun(n) \subseteq Proc /\ ToRun(n)' = ToRun(n)
  <2>1. \A n : ToRun(n)' = ToRun(n)
    BY <1>2 DEF ToRun
  <2>2. QED BY <1>1, <2>1, ListedAreProcesses
<1>12. WaitingInv'
  BY <1>1, <1>2, <1>6, <1>7, <1>8, <1>9, <1>11 DEF WaitingInv
<1>13. ReadyInv'
  BY <1>1, <1>2, <1>6, <1>7, <1>8, <1>9, <1>11 DEF ReadyInv
<1>14. StackInv'
  <2>1. \A i \in DOMAIN stack : stack[i].proc # p
    BY <1>6 DEF OnStack
  <2>2. \A i \in DOMAIN stack : stack[i].proc # NoProc => stack[i].proc \in Proc
    <3>1. \A i \in DOMAIN stack : stack[i] \in Frames
      BY <1>1 DEF TypeOK
    <3>2. QED BY <3>1 DEF Frames
  <2>3. \A i, j \in DOMAIN stack' :
            stack'[i].proc # NoProc /\ stack'[i].proc = stack'[j].proc => i = j
    BY <1>1, <1>4, <2>1 DEF StackInv
  <2>4. \A i \in DOMAIN stack' : stack'[i].proc # NoProc => life'[stack'[i].proc] = "alive"
    BY <1>1, <1>4, <1>9, <2>1, <2>2 DEF StackInv
  <2>5. \A n \in Modes : running'[n] # NoProc =>
            mode'[running'[n]] = n /\ \E i \in DOMAIN stack' : stack'[i].proc = running'[n]
    <3>1. \A n \in Modes : running'[n] = IF n = m THEN p ELSE running[n]
      BY <1>1, <1>2 DEF TypeOK
    <3>2. \A n \in Modes : running[n] # NoProc => running[n] \in Proc /\ running[n] # p
      BY <1>1, <1>6 DEF TypeOK, StackInv
    <3>3. ASSUME NEW n \in Modes, running'[n] # NoProc
          PROVE  mode'[running'[n]] = n /\ \E i \in DOMAIN stack' : stack'[i].proc = running'[n]
      <4>1. CASE n = m
        BY <4>1, <3>1, <1>4, <1>8
      <4>2. CASE n # m
        <5>1. running'[n] = running[n] /\ running[n] \in Proc \ {p}
          BY <4>2, <3>1, <3>2, <3>3
        <5>2. mode[running[n]] = n /\ \E i \in DOMAIN stack : stack[i].proc = running[n]
          BY <5>1, <1>1, <1>5, <3>3 DEF StackInv, OnStack
        <5>3. QED BY <5>1, <5>2, <1>4, <1>8
      <4>3. QED BY <4>1, <4>2
    <3>4. QED BY <3>3
  <2>6. QED BY <2>3, <2>4, <2>5 DEF StackInv, OnStack
<1>15. NoProcessLost'
  BY SMTT(30), <1>1, <1>2, <1>7, <1>8, <1>9, <1>11 DEF NoProcessLost, TypeOK
<1>16. QED BY <1>10, <1>12, <1>13, <1>14, <1>15 DEF IInv

(* A process that yields moves from the stack to the waiting list. *)
LEMMA YieldInv ==
    ASSUME IInv, NEW w \in Yields, Yield(w)
    PROVE  IInv'
<1> DEFINE P == Top.proc
<1> DEFINE M == mode[P]
<1>1. TypeOK /\ WaitingInv /\ ReadyInv /\ StackInv /\ NoProcessLost
  BY DEF IInv
<1>2. /\ InProcess /\ LeaveSegment
      /\ waits' = [waits EXCEPT ![P] = w]
      /\ waiting' = [waiting EXCEPT ![M] = Append(@, P)]
      /\ mode' = mode /\ pid' = pid /\ startup' = startup /\ life' = life
      /\ ready' = ready /\ latestPid' = latestPid /\ powered' = powered
      /\ phase' = phase /\ cursor' = cursor /\ crashed' = crashed
  BY DEF Yield, loopVars
<1>3. /\ P \in Proc /\ OnStack(P) /\ life[P] = "alive"
      /\ stack' \in Seq(Frames)
      /\ running' \in [Modes -> Proc \cup {NoProc}]
      /\ \A p \in Proc : OnStack(p)' <=> OnStack(p) /\ p # P
  BY <1>1, <1>2, LeaveEffect
<1> HIDE DEF P
<1>4. M \in Modes
  BY <1>1, <1>3 DEF TypeOK
<1> HIDE DEF M
<1>5. \A m \in Modes : P \notin ToSet(waiting[m]) /\ P \notin ToRun(m)
  BY <1>1, <1>3 DEF WaitingInv, ReadyInv
<1>6. waiting[M] \in Seq(Proc) /\ NoRepeat(waiting[M])
  BY <1>1, <1>4 DEF TypeOK, WaitingInv
<1>7. /\ Append(waiting[M], P) \in Seq(Proc)
      /\ ToSet(Append(waiting[M], P)) = ToSet(waiting[M]) \cup {P}
      /\ NoRepeat(Append(waiting[M], P))
  BY <1>3, <1>4, <1>5, <1>6, AppendNoRepeat
<1>8. \A m \in Modes : waiting'[m] = IF m = M THEN Append(waiting[M], P) ELSE waiting[m]
  BY <1>1, <1>2 DEF TypeOK
<1>9. \A m \in Modes :
         /\ NoRepeat(waiting'[m])
         /\ ToSet(waiting'[m]) = ToSet(waiting[m]) \cup (IF m = M THEN {P} ELSE {})
  BY <1>1, <1>7, <1>8 DEF WaitingInv
<1>10. \A m : ToRun(m)' = ToRun(m)
  BY <1>2 DEF ToRun
<1>11. \A m \in Modes : ToSet(waiting[m]) \subseteq Proc /\ ToRun(m) \subseteq Proc
  BY <1>1, ListedAreProcesses
<1>12. TypeOK'
  <2>1. waiting' \in [Modes -> Seq(Proc)]
    BY <1>1, <1>2, <1>4, <1>7 DEF TypeOK
  <2>2. w \in WaitingFor
    BY YieldsAssumption
  <2>3. waits' \in [Proc -> WaitingFor]
    BY <1>1, <1>2, <2>2 DEF TypeOK
  <2>4. QED BY <1>1, <1>2, <1>3, <2>1, <2>3 DEF TypeOK
<1>13. WaitingInv'
  <2> SUFFICES ASSUME NEW m \in Modes, NEW p \in ToSet(waiting'[m])
               PROVE  mode[p] = m /\ life[p] = "alive" /\ ~OnStack(p)'
    BY <1>2, <1>9 DEF WaitingInv
  <2>1. CASE p \in ToSet(waiting[m])
    <3>1. p \in Proc /\ mode[p] = m /\ life[p] = "alive" /\ ~OnStack(p)
      BY <2>1, <1>1, <1>11 DEF WaitingInv
    <3>2. QED BY <3>1, <1>3
  <2>2. CASE p = P /\ m = M
    BY <2>2, <1>3 DEF M
  <2>3. QED BY <2>1, <2>2, <1>9
<1>14. ReadyInv'
  <2>1. \A m \in Modes : NoRepeat(ready'[m]) /\ (phase' # m => ready'[m] = <<>>)
    BY <1>1, <1>2 DEF ReadyInv
  <2>2. ASSUME NEW m \in Modes, NEW p \in ToRun(m)
        PROVE  /\ mode[p] = m /\ life[p] = "alive" /\ ~OnStack(p)'
               /\ p \notin ToSet(waiting'[m])
    <3>1. p \in Proc /\ mode[p] = m /\ life[p] = "alive" /\ ~OnStack(p) /\ p \notin ToSet(waiting[m])
      BY <1>1, <1>11 DEF ReadyInv
    <3>2. QED BY <3>1, <1>3, <1>5, <1>9
  <2>3. QED BY <2>1, <2>2, <1>2, <1>10 DEF ReadyInv
<1>15. StackInv'
  <2>1. /\ \A i, j \in DOMAIN stack' :
              stack'[i].proc # NoProc /\ stack'[i].proc = stack'[j].proc => i = j
        /\ \A i \in DOMAIN stack' : stack'[i].proc # NoProc => life[stack'[i].proc] = "alive"
        /\ \A m \in Modes : running'[m] # NoProc =>
              mode[running'[m]] = m /\ \E i \in DOMAIN stack' : stack'[i].proc = running'[m]
    BY <1>1, <1>2, LeaveEffect
  <2>2. QED BY <2>1, <1>2 DEF StackInv, OnStack
<1>16. NoProcessLost'
  <2> SUFFICES ASSUME NEW p \in Proc, life[p] = "alive"
               PROVE  \/ p \in ToSet(waiting'[mode[p]])
                      \/ phase = mode[p] /\ p \in ToRun(phase)
                      \/ OnStack(p)'
    BY <1>2, <1>10 DEF NoProcessLost
  <2>1. mode[p] \in Modes
    BY <1>1 DEF TypeOK
  <2>2. CASE p = P
    BY <2>1, <2>2, <1>9 DEF M
  <2>3. CASE p # P
    <3>1. p \in ToSet(waiting[mode[p]]) \/ (phase = mode[p] /\ p \in ToRun(phase)) \/ OnStack(p)
      BY <1>1 DEF NoProcessLost
    <3>2. QED BY <3>1, <2>1, <2>3, <1>3, <1>9
  <2>4. QED BY <2>2, <2>3
<1>17. QED BY <1>12, <1>13, <1>14, <1>15, <1>16 DEF IInv

(* A process that ends leaves the stack and is no longer alive. *)
LEMMA FinishInv ==
    ASSUME IInv, Finish
    PROVE  IInv'
<1> DEFINE P == Top.proc
<1>1. TypeOK /\ WaitingInv /\ ReadyInv /\ StackInv /\ NoProcessLost
  BY DEF IInv
<1>2. /\ InProcess /\ LeaveSegment
      /\ life' = [life EXCEPT ![P] = IF @ = "alive" THEN "finished" ELSE @]
      /\ mode' = mode /\ pid' = pid /\ startup' = startup /\ waits' = waits
      /\ waiting' = waiting /\ ready' = ready /\ latestPid' = latestPid /\ powered' = powered
      /\ phase' = phase /\ cursor' = cursor /\ crashed' = crashed
  BY DEF Finish, listVars, loopVars
<1>3. /\ P \in Proc /\ OnStack(P) /\ life[P] = "alive"
      /\ stack' \in Seq(Frames)
      /\ running' \in [Modes -> Proc \cup {NoProc}]
      /\ \A p \in Proc : OnStack(p)' <=> OnStack(p) /\ p # P
      /\ \A i, j \in DOMAIN stack' :
            stack'[i].proc # NoProc /\ stack'[i].proc = stack'[j].proc => i = j
      /\ \A i \in DOMAIN stack' :
            stack'[i].proc # NoProc => /\ stack'[i].proc \in Proc \ {P}
                                       /\ life[stack'[i].proc] = "alive"
      /\ \A m \in Modes : running'[m] # NoProc =>
            mode[running'[m]] = m /\ \E i \in DOMAIN stack' : stack'[i].proc = running'[m]
  BY <1>1, <1>2, LeaveEffect
<1> HIDE DEF P
<1>4. \A p \in Proc : life'[p] = IF p = P THEN "finished" ELSE life[p]
  BY <1>1, <1>2, <1>3 DEF TypeOK
<1>5. \A m \in Modes : P \notin ToSet(waiting[m]) /\ P \notin ToRun(m)
  BY <1>1, <1>3 DEF WaitingInv, ReadyInv
<1>6. \A m : ToRun(m)' = ToRun(m)
  BY <1>2 DEF ToRun
<1>7. \A m \in Modes : ToSet(waiting[m]) \subseteq Proc /\ ToRun(m) \subseteq Proc
  BY <1>1, ListedAreProcesses
<1>8. TypeOK'
  <2>1. life' \in [Proc -> Lives]
    BY <1>1, <1>2, <1>3 DEF TypeOK, Lives
  <2>2. QED BY <1>1, <1>2, <1>3, <2>1 DEF TypeOK
<1>9. WaitingInv'
  <2>1. ASSUME NEW m \in Modes, NEW p \in ToSet(waiting[m])
        PROVE  mode[p] = m /\ life'[p] = "alive" /\ ~OnStack(p)'
    <3>1. p \in Proc /\ p # P /\ mode[p] = m /\ life[p] = "alive" /\ ~OnStack(p)
      BY <1>1, <1>5, <1>7 DEF WaitingInv
    <3>2. QED BY <3>1, <1>3, <1>4
  <2>2. QED BY <2>1, <1>1, <1>2 DEF WaitingInv
<1>10. ReadyInv'
  <2>1. ASSUME NEW m \in Modes, NEW p \in ToRun(m)
        PROVE  mode[p] = m /\ life'[p] = "alive" /\ ~OnStack(p)' /\ p \notin ToSet(waiting[m])
    <3>1. /\ p \in Proc /\ p # P /\ mode[p] = m /\ life[p] = "alive" /\ ~OnStack(p)
          /\ p \notin ToSet(waiting[m])
      BY <1>1, <1>5, <1>7 DEF ReadyInv
    <3>2. QED BY <3>1, <1>3, <1>4
  <2>2. QED BY <2>1, <1>1, <1>2, <1>6 DEF ReadyInv
<1>11. StackInv'
  <2>1. \A i \in DOMAIN stack' : stack'[i].proc # NoProc => life'[stack'[i].proc] = "alive"
    BY <1>3, <1>4
  <2>2. QED BY <2>1, <1>2, <1>3 DEF StackInv, OnStack
<1>12. NoProcessLost'
  <2> SUFFICES ASSUME NEW p \in Proc, life'[p] = "alive"
               PROVE  \/ p \in ToSet(waiting[mode[p]])
                      \/ phase = mode[p] /\ p \in ToRun(phase)
                      \/ OnStack(p)'
    BY <1>2, <1>6 DEF NoProcessLost
  <2>1. p # P /\ life[p] = "alive"
    BY <1>4
  <2>2. QED BY <2>1, <1>1, <1>3 DEF NoProcessLost
<1>13. QED BY <1>8, <1>9, <1>10, <1>11, <1>12 DEF IInv

(* _get_ready_processes divides the waiting list of a mode in two. *)
LEMMA GetReadyEffect ==
    ASSUME TypeOK, WaitingInv, NEW m \in Modes, GetReadyProcesses(m)
    PROVE  /\ waits' \in [Proc -> WaitingFor]
           /\ waiting' \in [Modes -> Seq(Proc)]
           /\ ready' \in [Modes -> Seq(Proc)]
           /\ NoRepeat(waiting'[m]) /\ NoRepeat(ready'[m])
           /\ ToSet(waiting'[m]) \cap ToSet(ready'[m]) = {}
           /\ ToSet(waiting'[m]) \cup ToSet(ready'[m]) = ToSet(waiting[m])
           /\ \A n \in Modes \ {m} : waiting'[n] = waiting[n] /\ ready'[n] = <<>>
<1> DEFINE W == waiting[m]
<1>1. W \in Seq(Proc) /\ NoRepeat(W) /\ ToSet(W) \subseteq Proc
  BY ListedAreProcesses DEF WaitingInv
<1>2. PICK met \in SUBSET ToSet(W), late \in SUBSET ToSet(W) :
        LET forPacket == {p \in met : waits[p].packet}
            unmet     == ToSet(W) \ met
        IN  /\ \A p \in late : waits[p].timeout = "running"
            /\ waits' = [p \in Proc |->
                            IF p \in late THEN [waits[p] EXCEPT !.timeout = "passed"]
                                          ELSE waits[p]]
            /\ \E taken \in SUBSET unmet :
               \E conditions \in Listing(met \ forPacket, W),
                  packets    \in Listing(forPacket, W),
                  rest       \in Listing(unmet, W),
                  timeouts   \in Listing(taken, W),
                  left       \in Listing(unmet \ taken, W) :
                    /\ TimedOut(taken, rest)
                    /\ ready' = [n \in Modes |->
                                    IF n = m THEN conditions \o packets \o timeouts
                                             ELSE <<>>]
                    /\ waiting' = [waiting EXCEPT ![m] = left]
  BY DEF GetReadyProcesses
<1> HIDE DEF W
<1> DEFINE forPacket == {p \in met : waits[p].packet}
<1> DEFINE unmet == ToSet(W) \ met
<1>3. PICK taken \in SUBSET unmet :
        \E conditions \in Listing(met \ forPacket, W),
           packets    \in Listing(forPacket, W),
           rest       \in Listing(unmet, W),
           timeouts   \in Listing(taken, W),
           left       \in Listing(unmet \ taken, W) :
             /\ TimedOut(taken, rest)
             /\ ready' = [n \in Modes |->
                             IF n = m THEN conditions \o packets \o timeouts
                                      ELSE <<>>]
             /\ waiting' = [waiting EXCEPT ![m] = left]
  BY <1>2
<1>4. PICK conditions \in Listing(met \ forPacket, W),
           packets    \in Listing(forPacket, W),
           rest       \in Listing(unmet, W),
           timeouts   \in Listing(taken, W),
           left       \in Listing(unmet \ taken, W) :
             /\ TimedOut(taken, rest)
             /\ ready' = [n \in Modes |->
                             IF n = m THEN conditions \o packets \o timeouts
                                      ELSE <<>>]
             /\ waiting' = [waiting EXCEPT ![m] = left]
  BY <1>3
<1>5. /\ forPacket \in SUBSET Proc /\ met \ forPacket \in SUBSET Proc
      /\ taken \in SUBSET Proc /\ unmet \ taken \in SUBSET Proc
      /\ (met \ forPacket) \cup forPacket = met
      /\ met \cap taken = {} /\ met \subseteq ToSet(W) /\ taken \subseteq ToSet(W)
  BY <1>1, <1>2, <1>3
<1>6. (met \ forPacket) \cap forPacket = {} /\ (unmet \ taken) \cap (met \cup taken) = {}
      /\ (unmet \ taken) \cup (met \cup taken) = ToSet(W)
  BY <1>5
<1> HIDE DEF forPacket, unmet
<1>7. /\ conditions \in Seq(Proc) /\ ToSet(conditions) = met \ forPacket /\ NoRepeat(conditions)
      /\ packets \in Seq(Proc) /\ ToSet(packets) = forPacket /\ NoRepeat(packets)
      /\ timeouts \in Seq(Proc) /\ ToSet(timeouts) = taken /\ NoRepeat(timeouts)
      /\ left \in Seq(Proc) /\ ToSet(left) = unmet \ taken /\ NoRepeat(left)
  BY <1>1, <1>4, <1>5, ListingProperties
<1> DEFINE both == conditions \o packets
<1>8. both \in Seq(Proc) /\ ToSet(both) = met /\ NoRepeat(both)
  BY <1>5, <1>6, <1>7, ConcatNoRepeat
<1> HIDE DEF both
<1> DEFINE all == both \o timeouts
<1>9. all \in Seq(Proc) /\ ToSet(all) = met \cup taken /\ NoRepeat(all)
  BY <1>5, <1>7, <1>8, ConcatNoRepeat
<1>10. ready' = [n \in Modes |-> IF n = m THEN all ELSE <<>>]
  BY <1>4 DEF both
<1> HIDE DEF all
<1>11. waiting' \in [Modes -> Seq(Proc)] /\ waiting'[m] = left
       /\ \A n \in Modes \ {m} : waiting'[n] = waiting[n]
  BY <1>4, <1>7 DEF TypeOK
<1>12. ready' \in [Modes -> Seq(Proc)] /\ ready'[m] = all
       /\ \A n \in Modes \ {m} : ready'[n] = <<>>
  BY <1>9, <1>10
<1>13. waits' \in [Proc -> WaitingFor]
  <2>1. \A p \in Proc : waits[p] \in WaitingFor
    BY DEF TypeOK
  <2>2. \A x \in WaitingFor : [x EXCEPT !.timeout = "passed"] \in WaitingFor
    BY DEF WaitingFor
  <2>3. QED BY <1>2, <2>1, <2>2
<1>14. QED BY <1>6, <1>7, <1>9, <1>11, <1>12, <1>13 DEF W

(* When the previous mode is done with, the check of the next one moves    *)
(* processes from its waiting list to its ready list.                      *)
LEMMA HandleModeInv ==
    ASSUME IInv, NEW m \in Modes, \A n \in Modes : ToRun(n) = {}, HandleMode(m)
    PROVE  IInv'
<1>1. TypeOK /\ WaitingInv /\ ReadyInv /\ StackInv /\ NoProcessLost
  BY DEF IInv
<1>2. /\ GetReadyProcesses(m) /\ phase' = m /\ cursor' = 0
      /\ mode' = mode /\ pid' = pid /\ startup' = startup /\ life' = life
      /\ running' = running /\ latestPid' = latestPid /\ powered' = powered
      /\ stack' = stack /\ crashed' = crashed
  BY DEF HandleMode
<1>3. /\ waits' \in [Proc -> WaitingFor]
      /\ waiting' \in [Modes -> Seq(Proc)]
      /\ ready' \in [Modes -> Seq(Proc)]
      /\ NoRepeat(waiting'[m]) /\ NoRepeat(ready'[m])
      /\ ToSet(waiting'[m]) \cap ToSet(ready'[m]) = {}
      /\ ToSet(waiting'[m]) \cup ToSet(ready'[m]) = ToSet(waiting[m])
      /\ \A n \in Modes \ {m} : waiting'[n] = waiting[n] /\ ready'[n] = <<>>
  BY <1>1, <1>2, GetReadyEffect
<1>4. ToRun(m)' = ToSet(ready'[m]) /\ \A n \in Modes \ {m} : ToRun(n)' = {}
  <2>1. DOMAIN ready'[m] = 1 .. Len(ready'[m])
    BY <1>3
  <2>2. ToRun(m)' = {ready'[m][i] : i \in 1 .. Len(ready'[m])}
    BY <1>2 DEF ToRun
  <2>3. ASSUME NEW n \in Modes \ {m} PROVE ToRun(n)' = {}
    <3>1. ToRun(n)' = {ready'[n][i] : i \in 1 .. Len(ready'[n])}
      BY <1>2 DEF ToRun
    <3>2. ready'[n] = <<>>
      BY <1>3
    <3>3. Len(<<>>) = 0
      OBVIOUS
    <3>4. QED BY <3>1, <3>2, <3>3
  <2>4. QED BY <2>1, <2>2, <2>3 DEF ToSet
<1>5. \A p : OnStack(p)' <=> OnStack(p)
  BY <1>2 DEF OnStack
<1>6. \A p \in ToSet(waiting[m]) : mode[p] = m /\ life[p] = "alive" /\ ~OnStack(p)
  BY <1>1 DEF WaitingInv
<1>7. TypeOK'
  BY <1>1, <1>2, <1>3 DEF TypeOK
<1>8. WaitingInv'
  <2>1. ASSUME NEW n \in Modes
        PROVE  /\ NoRepeat(waiting'[n])
               /\ \A p \in ToSet(waiting'[n]) : mode[p] = n /\ life[p] = "alive" /\ ~OnStack(p)
    <3>1. CASE n = m
      BY <3>1, <1>3, <1>6
    <3>2. CASE n # m
      BY <3>2, <1>1, <1>3 DEF WaitingInv
    <3>3. QED BY <3>1, <3>2
  <2>2. QED BY <2>1, <1>2, <1>5 DEF WaitingInv
<1>9. ReadyInv'
  <2>1. ASSUME NEW n \in Modes
        PROVE  /\ NoRepeat(ready'[n])
               /\ m # n => ready'[n] = <<>>
               /\ \A p \in ToRun(n)' :
                     /\ mode[p] = n /\ life[p] = "alive" /\ ~OnStack(p)
                     /\ p \notin ToSet(waiting'[n])
    <3>1. CASE n = m
      BY <3>1, <1>3, <1>4, <1>6
    <3>2. CASE n # m
      <4>1. NoRepeat(<<>>)
        BY DEF NoRepeat
      <4>2. QED BY <3>2, <4>1, <1>3, <1>4
    <3>3. QED BY <3>1, <3>2
  <2>2. QED BY <2>1, <1>2, <1>5 DEF ReadyInv
<1>10. StackInv'
  BY <1>1, <1>2, <1>5 DEF StackInv
<1>11. NoProcessLost'
  <2> SUFFICES ASSUME NEW p \in Proc, life[p] = "alive"
               PROVE  \/ p \in ToSet(waiting'[mode[p]])
                      \/ m = mode[p] /\ p \in ToRun(m)'
                      \/ OnStack(p)
    BY <1>2, <1>5 DEF NoProcessLost
  <2>1. mode[p] \in Modes
    BY <1>1 DEF TypeOK
  <2>2. p \in ToSet(waiting[mode[p]]) \/ OnStack(p)
    BY <2>1, <1>1 DEF NoProcessLost
  <2>3. QED BY <2>1, <2>2, <1>3, <1>4
<1>12. QED BY <1>7, <1>8, <1>9, <1>10, <1>11 DEF IInv

(* No process is due while the loop is between two ticks or at its end. *)
LEMMA NothingToRun ==
    ASSUME TypeOK, ReadyInv,
           phase = "idle" \/ \E m \in Modes : LoopAtEnd(m)
    PROVE  \A n \in Modes : ToRun(n) = {}
<1> SUFFICES ASSUME NEW n \in Modes PROVE ToRun(n) = {}
  OBVIOUS
<1>1. ready[n] \in Seq(Proc) /\ Len(ready[n]) \in Nat /\ cursor \in Nat
  BY DEF TypeOK
<1>2. CASE phase = n
  <2>1. "idle" \notin Modes
    BY DEF Modes
  <2>2. cursor >= Len(ready[n])
    BY <1>2, <2>1 DEF LoopAtEnd
  <2>3. cursor + 1 .. Len(ready[n]) = {}
    BY <1>1, <2>2
  <2>4. QED BY <1>2, <2>3 DEF ToRun
<1>3. CASE phase # n
  <2>1. ready[n] = <<>>
    BY <1>3 DEF ReadyInv
  <2>2. Len(<<>>) = 0 /\ 1 .. 0 = {}
    OBVIOUS
  <2>3. QED BY <1>3, <2>1, <2>2 DEF ToRun
<1>4. QED BY <1>2, <1>3

(* The end of a tick finds every list of ready processes used up. *)
LEMMA EndTickInv ==
    ASSUME IInv, EndTick
    PROVE  IInv'
<1>1. TypeOK /\ WaitingInv /\ ReadyInv /\ StackInv /\ NoProcessLost
  BY DEF IInv
<1>2. /\ LoopAtEnd("kernelmode") /\ phase' = "idle" /\ cursor' = 0
      /\ ready' = [m \in Modes |-> <<>>]
      /\ mode' = mode /\ pid' = pid /\ startup' = startup /\ life' = life /\ waits' = waits
      /\ waiting' = waiting /\ running' = running /\ latestPid' = latestPid
      /\ powered' = powered /\ stack' = stack /\ crashed' = crashed
  BY DEF EndTick, procVars
<1>3. \A n \in Modes : ToRun(n) = {}
  BY <1>1, <1>2, NothingToRun DEF Modes
<1>4. \A n \in Modes : ready'[n] = <<>> /\ ToRun(n)' = {}
  <2>1. "idle" \notin Modes /\ Len(<<>>) = 0 /\ 1 .. 0 = {}
    BY DEF Modes
  <2>2. ASSUME NEW n \in Modes PROVE ToRun(n)' = {}
    <3>1. ToRun(n)' = {ready'[n][i] : i \in 1 .. Len(ready'[n])}
      BY <1>2, <2>1 DEF ToRun
    <3>2. ready'[n] = <<>>
      BY <1>2
    <3>3. QED BY <3>1, <3>2, <2>1
  <2>3. QED BY <1>2, <2>2
<1>5. \A p : OnStack(p)' <=> OnStack(p)
  BY <1>2 DEF OnStack
<1>6. TypeOK'
  <2>1. ready' \in [Modes -> Seq(Proc)]
    BY <1>2
  <2>2. QED BY <1>1, <1>2, <2>1 DEF TypeOK
<1>7. WaitingInv'
  BY <1>1, <1>2, <1>5 DEF WaitingInv
<1>8. ReadyInv'
  <2>1. NoRepeat(<<>>)
    BY DEF NoRepeat
  <2>2. QED BY <2>1, <1>4 DEF ReadyInv
<1>9. StackInv'
  BY <1>1, <1>2, <1>5 DEF StackInv
<1>10. NoProcessLost'
  <2> SUFFICES ASSUME NEW p \in Proc, life[p] = "alive"
               PROVE  p \in ToSet(waiting[mode[p]]) \/ OnStack(p)
    BY <1>2, <1>5 DEF NoProcessLost
  <2>1. mode[p] \in Modes
    BY <1>1 DEF TypeOK
  <2>2. QED BY <2>1, <1>1, <1>3 DEF NoProcessLost
<1>11. QED BY <1>6, <1>7, <1>8, <1>9, <1>10 DEF IInv

(* The loop takes the next ready process and runs it. *)
LEMMA RunNextInv ==
    ASSUME IInv, NEW m \in Modes, phase = m, RunNext
    PROVE  IInv'
<1> DEFINE p == ready[m][cursor + 1]
<1>1. TypeOK /\ WaitingInv /\ ReadyInv /\ StackInv /\ NoProcessLost
  BY DEF IInv
<1>2. /\ m \in Modes /\ stack = <<>> /\ cursor < Len(ready[m]) /\ cursor' = cursor + 1
      /\ running' = [running EXCEPT ![m] = p]
      /\ stack' = <<TickFrame(p)>>
      /\ mode' = mode /\ pid' = pid /\ startup' = startup /\ life' = life /\ waits' = waits
      /\ waiting' = waiting /\ ready' = ready /\ latestPid' = latestPid
      /\ powered' = powered /\ phase' = phase /\ crashed' = crashed
  BY DEF RunNext, procVars, listVars
<1>3. /\ ready[m] \in Seq(Proc) /\ Len(ready[m]) \in Nat /\ cursor \in Nat
      /\ DOMAIN ready[m] = 1 .. Len(ready[m])
  BY <1>1, <1>2 DEF TypeOK
<1>4. p \in Proc
  BY <1>2, <1>3
<1>5. ToRun(m) = {ready[m][i] : i \in cursor + 1 .. Len(ready[m])}
      /\ ToRun(m)' = {ready[m][i] : i \in cursor + 2 .. Len(ready[m])}
  <2>1. cursor' + 1 = cursor + 2
    BY <1>2, <1>3
  <2>2. QED BY <2>1, <1>2 DEF ToRun
<1>6. p \in ToRun(m)
  BY <1>2, <1>3, <1>5
<1>7. ToRun(m)' = ToRun(m) \ {p}
  <2>1. NoRepeat(ready[m])
    BY <1>1, <1>2 DEF ReadyInv
  <2>2. \A i \in cursor + 2 .. Len(ready[m]) : ready[m][i] # p
    BY SMTT(30), <2>1, <1>2, <1>3 DEF NoRepeat
  <2>3. cursor + 1 .. Len(ready[m]) = {cursor + 1} \cup (cursor + 2 .. Len(ready[m]))
    BY <1>2, <1>3
  <2>4. QED BY <2>2, <2>3, <1>5
<1>8. \A n \in Modes \ {m} : ToRun(n)' = ToRun(n)
  BY <1>2 DEF ToRun
<1>9. mode[p] = m /\ life[p] = "alive" /\ p \notin ToSet(waiting[m])
  BY <1>1, <1>2, <1>6 DEF ReadyInv
<1>10. \A n \in Modes \ {m} : p \notin ToSet(waiting[n]) /\ p \notin ToRun(n)
  BY <1>1, <1>9 DEF WaitingInv, ReadyInv
<1> HIDE DEF p
<1>11. /\ TickFrame(p) \in Frames /\ TickFrame(p).proc = p
       /\ stack' \in Seq(Frames) /\ DOMAIN stack' = {1} /\ stack'[1] = TickFrame(p)
  <2>1. TickFrame(p) \in Frames /\ TickFrame(p).proc = p
    BY <1>4 DEF TickFrame, Frames
  <2>2. QED BY <2>1, <1>2
<1>12. \A q : OnStack(q)' <=> q = p
  BY <1>11 DEF OnStack
<1>13. \A q : ~OnStack(q)
  BY <1>2 DEF OnStack
<1>14. TypeOK'
  <2>1. running' \in [Modes -> Proc \cup {NoProc}]
    BY <1>1, <1>2, <1>4 DEF TypeOK
  <2>2. cursor' \in Nat
    BY <1>2, <1>3
  <2>3. QED BY <1>1, <1>2, <1>11, <2>1, <2>2 DEF TypeOK
<1>15. WaitingInv'
  <2>1. \A n \in Modes : p \notin ToSet(waiting[n])
    BY <1>9, <1>10
  <2>2. QED BY <2>1, <1>1, <1>2, <1>12 DEF WaitingInv
<1>16. ReadyInv'
  <2>1. \A n \in Modes : p \notin ToRun(n)' /\ ToRun(n)' \subseteq ToRun(n)
    BY <1>7, <1>8, <1>10
  <2>2. QED BY <2>1, <1>1, <1>2, <1>12 DEF ReadyInv
<1>17. StackInv'
  <2>1. \A n \in Modes : running[n] = NoProc
    BY <1>1, <1>13 DEF StackInv
  <2>2. \A n \in Modes : running'[n] # NoProc => n = m /\ running'[n] = p
    BY <2>1, <1>1, <1>2 DEF TypeOK
  <2>3. QED BY <2>2, <1>2, <1>9, <1>11 DEF StackInv, OnStack
<1>18. NoProcessLost'
  <2> SUFFICES ASSUME NEW q \in Proc, life[q] = "alive"
               PROVE  \/ q \in ToSet(waiting[mode[q]])
                      \/ m = mode[q] /\ q \in ToRun(m)'
                      \/ q = p
    BY <1>2, <1>12 DEF NoProcessLost
  <2>1. q \in ToSet(waiting[mode[q]]) \/ (m = mode[q] /\ q \in ToRun(m))
    BY <1>1, <1>13 DEF NoProcessLost
  <2>2. QED BY <2>1, <1>7
<1>19. QED BY <1>14, <1>15, <1>16, <1>17, <1>18 DEF IInv

(* Between two ticks processes are waiting or nowhere. *)
LEMMA IdleFacts ==
    ASSUME IInv, Idle
    PROVE  /\ \A m \in Modes : running[m] = NoProc /\ ready[m] = <<>> /\ ToRun(m) = {}
           /\ \A p : ~OnStack(p)
           /\ \A p \in Proc : life[p] = "alive" => p \in ToSet(waiting[mode[p]])
<1>1. TypeOK /\ WaitingInv /\ ReadyInv /\ StackInv /\ NoProcessLost
  BY DEF IInv
<1>2. phase = "idle" /\ stack = <<>> /\ "idle" \notin Modes
  BY DEF Idle, Modes
<1>3. \A m \in Modes : ToRun(m) = {} /\ ready[m] = <<>>
  BY <1>1, <1>2, NothingToRun DEF ReadyInv
<1>4. \A p : ~OnStack(p)
  BY <1>2 DEF OnStack
<1>5. \A m \in Modes : running[m] = NoProc
  BY <1>1, <1>4 DEF StackInv
<1>6. \A p \in Proc : life[p] = "alive" => p \in ToSet(waiting[mode[p]])
  <2> TAKE p \in Proc
  <2>1. mode[p] \in Modes
    BY <1>1 DEF TypeOK
  <2>2. QED BY <2>1, <1>1, <1>2, <1>4 DEF NoProcessLost
<1>7. QED BY <1>3, <1>4, <1>5, <1>6

(* `kill -9` from a shell finds its target in the waiting list only. *)
LEMMA UserKills9Inv ==
    ASSUME IInv, NEW p \in Proc, UserKills9(p)
    PROVE  IInv'
<1> DEFINE U == "usermode"
<1>1. TypeOK /\ WaitingInv /\ ReadyInv /\ StackInv /\ NoProcessLost
  BY DEF IInv
<1>2. Idle /\ U \in Modes
  BY DEF UserKills9, Modes
<1>3. /\ \A m \in Modes : running[m] = NoProc /\ ready[m] = <<>> /\ ToRun(m) = {}
      /\ \A q : ~OnStack(q)
      /\ \A q \in Proc : life[q] = "alive" => q \in ToSet(waiting[mode[q]])
  BY <1>2, IdleFacts
<1>4. p \notin ToSet(ready[U]) /\ p # running[U]
  BY <1>2, <1>3, NoProcAssumption DEF ToSet
<1>5. PICK r \in Listing(ToSet(waiting[U]) \ {p}, waiting[U]) : waiting' = [waiting EXCEPT ![U] = r]
  BY <1>4 DEF UserKills9, TerminateProcess
<1>6. /\ life' = Killed({p})
      /\ mode' = mode /\ pid' = pid /\ startup' = startup /\ waits' = waits
      /\ ready' = ready /\ running' = running /\ stack' = stack /\ latestPid' = latestPid
      /\ powered' = powered /\ phase' = phase /\ cursor' = cursor /\ crashed' = crashed
  BY <1>4 DEF UserKills9, TerminateProcess, loopVars
<1>7. /\ waiting[U] \in Seq(Proc) /\ NoRepeat(waiting[U]) /\ ToSet(waiting[U]) \subseteq Proc
  BY <1>1, <1>2, ListedAreProcesses DEF WaitingInv
<1>8. r \in Seq(Proc) /\ ToSet(r) = ToSet(waiting[U]) \ {p} /\ NoRepeat(r)
  BY <1>5, <1>7, ListingProperties
<1>9. \A m \in Modes : waiting'[m] = IF m = U THEN r ELSE waiting[m]
  BY <1>1, <1>5 DEF TypeOK
<1>10. \A q \in Proc : life'[q] = IF q = p /\ life[q] = "alive" THEN "killed" ELSE life[q]
  BY <1>6 DEF Killed
<1>11. mode[p] = U
       \/ life[p] # "alive" \/ \A m \in Modes : p \in ToSet(waiting[m]) => m # U
  BY <1>1 DEF WaitingInv
<1>12. p \in ToSet(waiting[U])
  BY <1>4 DEF UserKills9, TerminateProcess
<1>13. mode[p] = U /\ \A m \in Modes : p \notin ToSet(waiting'[m])
  <2>1. mode[p] = U /\ \A m \in Modes : m # U => p \notin ToSet(waiting[m])
    BY <1>1, <1>2, <1>12 DEF WaitingInv
  <2>2. QED BY <2>1, <1>8, <1>9
<1>14. \A m \in Modes : ToSet(waiting'[m]) = ToSet(waiting[m]) \ {p} /\ NoRepeat(waiting'[m])
  <2>1. \A m \in Modes : m # U => p \notin ToSet(waiting[m])
    BY <1>1, <1>2, <1>12 DEF WaitingInv
  <2>2. QED BY <2>1, <1>1, <1>8, <1>9 DEF WaitingInv
<1>15. (\A m : ToRun(m)' = ToRun(m)) /\ (\A q : OnStack(q)' <=> OnStack(q))
  BY <1>6 DEF ToRun, OnStack
<1>16. TypeOK'
  <2>1. life' \in [Proc -> Lives]
    BY <1>1, <1>6 DEF TypeOK, Killed, Lives
  <2>2. waiting' \in [Modes -> Seq(Proc)]
    BY <1>1, <1>5, <1>8 DEF TypeOK
  <2>3. QED BY <1>1, <1>6, <2>1, <2>2 DEF TypeOK
<1>17. WaitingInv'
  <2>1. \A m \in Modes : ToSet(waiting[m]) \subseteq Proc
    BY <1>1, ListedAreProcesses
  <2>2. ASSUME NEW m \in Modes, NEW q \in ToSet(waiting'[m])
        PROVE  mode[q] = m /\ life'[q] = "alive"
    <3>1. q \in ToSet(waiting[m]) /\ q # p /\ q \in Proc
      BY <2>1, <1>14
    <3>2. mode[q] = m /\ life[q] = "alive"
      BY <3>1, <1>1 DEF WaitingInv
    <3>3. QED BY <3>1, <3>2, <1>10
  <2>3. QED BY <2>2, <1>3, <1>6, <1>14, <1>15 DEF WaitingInv
<1>18. ReadyInv'
  BY <1>1, <1>3, <1>6, <1>15 DEF ReadyInv
<1>19. StackInv'
  <2>1. DOMAIN stack = {} /\ DOMAIN stack' = {}
    BY <1>2, <1>6 DEF Idle
  <2>2. QED BY <2>1, <1>3, <1>6 DEF StackInv
<1>20. NoProcessLost'
  <2> SUFFICES ASSUME NEW q \in Proc, life'[q] = "alive"
               PROVE  q \in ToSet(waiting'[mode[q]])
    BY <1>6 DEF NoProcessLost
  <2>1. mode[q] \in Modes /\ life[q] = "alive" /\ q # p
    BY <1>1, <1>10 DEF TypeOK
  <2>2. QED BY <2>1, <1>3, <1>14
<1>21. QED BY <1>16, <1>17, <1>18, <1>19, <1>20 DEF IInv

(* Switching the computer off between two ticks leaves nothing behind. *)
LEMMA PowerOffEffect ==
    ASSUME IInv, Idle, PowerOff
    PROVE  IInv' /\ \A p \in Proc : life'[p] # "alive"
<1>1. TypeOK /\ WaitingInv /\ ReadyInv /\ StackInv /\ NoProcessLost
  BY DEF IInv
<1>2. /\ \A m \in Modes : running[m] = NoProc /\ ready[m] = <<>> /\ ToRun(m) = {}
      /\ \A q : ~OnStack(q)
      /\ \A q \in Proc : life[q] = "alive" => q \in ToSet(waiting[mode[q]])
  BY IdleFacts
<1>3. ~Interrupted /\ Reached = Modes
  BY <1>2 DEF Interrupted, Reached, Modes
<1> DEFINE listed == UNION {ToSet(waiting[m]) \cup ToSet(ready[m]) : m \in Reached}
<1> DEFINE dying == IF Interrupted THEN {Top.proc} ELSE {}
<1>4. /\ powered' = FALSE
      /\ waiting' = [m \in Modes |-> IF m \in Reached THEN <<>> ELSE waiting[m]]
      /\ ready' = [m \in Modes |-> IF m \in Reached THEN <<>> ELSE ready[m]]
      /\ life' = Killed(listed \cup dying)
      /\ mode' = mode /\ pid' = pid /\ startup' = startup /\ waits' = waits
      /\ phase' = phase /\ cursor' = cursor /\ crashed' = crashed
  BY DEF PowerOff, loopVars
<1>5. latestPid' = [m \in Modes |-> INIT_PID] /\ stack' = stack /\ running' = running
  BY <1>3 DEF PowerOff
<1>6. \A m \in Modes : waiting'[m] = <<>> /\ ready'[m] = <<>>
  BY <1>3, <1>4
<1>7. \A q \in Proc : life[q] = "alive" => q \in listed
  <2> TAKE q \in Proc
  <2>1. mode[q] \in Modes
    BY <1>1 DEF TypeOK
  <2>2. QED BY <2>1, <1>2, <1>3
<1> HIDE DEF listed, dying
<1>8. \A q \in Proc : life'[q] # "alive"
  BY <1>4, <1>7 DEF Killed
<1>9. TypeOK'
  <2>1. life' \in [Proc -> Lives]
    BY <1>1, <1>4 DEF TypeOK, Killed, Lives
  <2>2. waiting' \in [Modes -> Seq(Proc)] /\ ready' \in [Modes -> Seq(Proc)]
    BY <1>3, <1>4
  <2>3. latestPid' \in [Modes -> Nat]
    BY <1>5 DEF INIT_PID
  <2>4. powered' \in BOOLEAN
    BY Zenon, <1>4
  <2>5. QED BY <1>1, <1>4, <1>5, <2>1, <2>2, <2>3, <2>4 DEF TypeOK
<1>10. \A m \in Modes : ToRun(m)' = {} /\ ToSet(waiting'[m]) = {} /\ NoRepeat(<<>>)
  <2>1. ToSet(<<>>) = {} /\ NoRepeat(<<>>) /\ Len(<<>>) = 0
    BY DEF ToSet, NoRepeat
  <2>2. phase' \notin Modes
    BY <1>4 DEF Idle, Modes
  <2>3. ASSUME NEW m \in Modes PROVE ToRun(m)' = {}
    <3>1. ToRun(m)' = {ready'[m][i] : i \in 1 .. Len(ready'[m])}
      BY <2>2 DEF ToRun
    <3>2. QED BY <3>1, <2>1, <1>6
  <2>4. QED BY <2>1, <2>3, <1>6
<1>11. WaitingInv' /\ ReadyInv'
  BY <1>6, <1>10 DEF WaitingInv, ReadyInv
<1>12. StackInv'
  <2>1. DOMAIN stack' = {}
    BY <1>5 DEF Idle
  <2>2. QED BY <2>1, <1>2, <1>5 DEF StackInv
<1>13. NoProcessLost'
  BY <1>8 DEF NoProcessLost
<1>14. QED BY <1>8, <1>9, <1>11, <1>12, <1>13 DEF IInv

(* Steps that change no list, no process and none of the processes on the  *)
(* stack: switching on, the end of a boot, a crash.                        *)
LEMMA QuietInv ==
    ASSUME IInv, UNCHANGED <<procVars, listVars, running, latestPid, loopVars>>,
           powered' \in BOOLEAN, crashed' \in BOOLEAN, stack' \in Seq(Frames),
           \A i \in DOMAIN stack' :
              stack'[i].proc # NoProc => i \in DOMAIN stack /\ stack'[i].proc = stack[i].proc,
           \A i \in DOMAIN stack :
              stack[i].proc # NoProc => i \in DOMAIN stack' /\ stack'[i].proc = stack[i].proc
    PROVE  IInv'
<1>1. TypeOK /\ WaitingInv /\ ReadyInv /\ StackInv /\ NoProcessLost
  BY DEF IInv
<1>2. /\ mode' = mode /\ pid' = pid /\ startup' = startup /\ life' = life /\ waits' = waits
      /\ waiting' = waiting /\ ready' = ready /\ running' = running /\ latestPid' = latestPid
      /\ phase' = phase /\ cursor' = cursor
  BY DEF procVars, listVars, loopVars
<1>3. \A p \in Proc : OnStack(p)' <=> OnStack(p)
  BY NoProcAssumption DEF OnStack
<1>4. \A m : ToRun(m)' = ToRun(m)
  BY <1>2 DEF ToRun
<1>5. \A m \in Modes : ToSet(waiting[m]) \subseteq Proc /\ ToRun(m) \subseteq Proc
  BY <1>1, ListedAreProcesses
<1>6. TypeOK'
  BY <1>1, <1>2 DEF TypeOK
<1>7. WaitingInv'
  BY <1>1, <1>2, <1>3, <1>5 DEF WaitingInv
<1>8. ReadyInv'
  BY <1>1, <1>2, <1>3, <1>4, <1>5 DEF ReadyInv
<1>9. StackInv'
  <2>1. \A m \in Modes : running[m] # NoProc => running[m] \in Proc
    BY <1>1 DEF TypeOK
  <2>2. \A m \in Modes : running[m] # NoProc =>
            mode[running[m]] = m /\ \E i \in DOMAIN stack' : stack'[i].proc = running[m]
    <3>1. \A m \in Modes : running[m] # NoProc =>
              mode[running[m]] = m /\ \E i \in DOMAIN stack : stack[i].proc = running[m]
      BY <1>1 DEF StackInv, OnStack
    <3>2. QED BY <3>1, <2>1
  <2>3. \A i, j \in DOMAIN stack' :
            stack'[i].proc # NoProc /\ stack'[i].proc = stack'[j].proc => i = j
    BY <1>1 DEF StackInv
  <2>4. \A i \in DOMAIN stack' : stack'[i].proc # NoProc => life[stack'[i].proc] = "alive"
    BY <1>1 DEF StackInv
  <2>5. QED BY <2>2, <2>3, <2>4, <1>2 DEF StackInv, OnStack
<1>10. NoProcessLost'
  BY <1>1, <1>2, <1>3, <1>4 DEF NoProcessLost
<1>11. QED BY <1>6, <1>7, <1>8, <1>9, <1>10 DEF IInv

(* A boot starts its next process with its own frame moved on. *)
LEMMA BootNextInv ==
    ASSUME IInv, NEW p \in Proc, BootNext(p)
    PROVE  IInv'
<1> DEFINE k == Top.next
<1> DEFINE calls == Append(Pop, BootFrame(k + 1))
<1>1. stack \in Seq(Frames) /\ stack # <<>> /\ Top.fn = "boot" /\ k <= Len(StartupModes)
      /\ StartProcess(p, StartupModes[k], k, calls)
  BY DEF IInv, TypeOK, BootNext, Booting
<1>2. /\ Pop \in Seq(Frames)
      /\ Len(stack) \in DOMAIN stack
      /\ DOMAIN Pop = DOMAIN stack \ {Len(stack)}
      /\ \A i \in DOMAIN Pop : Pop[i] = stack[i]
      /\ Top \in Frames
      /\ Len(Pop) + 1 = Len(stack)
  BY <1>1, PopFrame
<1>3. Top.proc = NoProc /\ k \in Nat \ {0}
  BY <1>1, <1>2 DEF Frames
<1>4. StartupModes[k] \in Modes
  BY <1>1, <1>3, StartupAssumption
<1>5. BootFrame(k + 1) \in Frames /\ BootFrame(k + 1).proc = NoProc
  BY <1>3 DEF BootFrame, Frames
<1>7. /\ calls \in Seq(Frames) /\ DOMAIN calls = DOMAIN stack
      /\ \A i \in DOMAIN Pop : calls[i] = stack[i]
      /\ calls[Len(stack)] = BootFrame(k + 1)
  <2>1. /\ calls \in Seq(Frames) /\ DOMAIN calls = DOMAIN Pop \cup {Len(Pop) + 1}
        /\ \A i \in DOMAIN Pop : calls[i] = Pop[i]
        /\ calls[Len(Pop) + 1] = BootFrame(k + 1)
    BY <1>2, <1>5, PushFrame
  <2>2. QED BY <2>1, <1>2
<1>8. \A i \in DOMAIN stack : calls[i].proc = stack[i].proc
  BY <1>2, <1>3, <1>5, <1>7 DEF Top
<1> HIDE DEF calls, k
<1>9. QED BY <1>1, <1>3, <1>4, <1>7, <1>8, StartInv

(* A boot that has started every process returns. *)
LEMMA BootDoneInv ==
    ASSUME IInv, BootDone
    PROVE  IInv'
<1>1. stack \in Seq(Frames) /\ stack # <<>> /\ Top.fn = "boot" /\ stack' = Pop
  BY DEF IInv, TypeOK, BootDone, Booting
<1>2. /\ Pop \in Seq(Frames)
      /\ Len(stack) \in DOMAIN stack
      /\ DOMAIN Pop = DOMAIN stack \ {Len(stack)}
      /\ \A i \in DOMAIN Pop : Pop[i] = stack[i]
      /\ Top \in Frames
  BY <1>1, PopFrame
<1>3. stack[Len(stack)].proc = NoProc
  BY <1>1, <1>2 DEF Frames, Top
<1>4. powered' \in BOOLEAN /\ crashed' \in BOOLEAN
  BY Zenon DEF IInv, TypeOK, BootDone
<1>5. UNCHANGED <<procVars, listVars, running, latestPid, loopVars>>
  BY DEF BootDone
<1>6. QED BY <1>1, <1>2, <1>3, <1>4, <1>5, QuietInv

(* Switching on only begins a boot. *)
LEMMA PowerOnInv ==
    ASSUME IInv, PowerOn
    PROVE  IInv'
<1>1. stack \in Seq(Frames) /\ stack' = Append(stack, BootFrame(1))
  BY DEF IInv, TypeOK, PowerOn
<1>2. BootFrame(1) \in Frames /\ BootFrame(1).proc = NoProc
  BY DEF BootFrame, Frames
<1>3. /\ stack' \in Seq(Frames)
      /\ DOMAIN stack' = DOMAIN stack \cup {Len(stack) + 1}
      /\ \A i \in DOMAIN stack : stack'[i] = stack[i]
      /\ stack'[Len(stack) + 1] = BootFrame(1)
  BY <1>1, <1>2, PushFrame
<1>4. powered' \in BOOLEAN /\ crashed' \in BOOLEAN
  BY Zenon DEF IInv, TypeOK, PowerOn
<1>5. UNCHANGED <<procVars, listVars, running, latestPid, loopVars>>
  BY DEF PowerOn
<1>6. QED BY <1>2, <1>3, <1>4, <1>5, QuietInv

LEMMA UserKillsInv ==
    ASSUME IInv, NEW p \in Proc, UserKills(p)
    PROVE  IInv'
<1>1. stack \in Seq(Frames) /\ stack' = stack
  BY DEF IInv, TypeOK, UserKills
<1>2. powered' \in BOOLEAN /\ crashed' \in BOOLEAN
  BY Zenon DEF IInv, TypeOK, UserKills
<1>3. UNCHANGED <<procVars, listVars, running, latestPid, loopVars>>
  BY DEF UserKills
<1>4. QED BY <1>1, <1>2, <1>3, QuietInv

LEMMA StutterInv ==
    ASSUME IInv, UNCHANGED vars
    PROVE  IInv'
<1>1. stack \in Seq(Frames) /\ stack' = stack
  BY DEF IInv, TypeOK, vars
<1>2. powered' \in BOOLEAN /\ crashed' \in BOOLEAN
  BY Zenon DEF IInv, TypeOK, vars
<1>3. UNCHANGED <<procVars, listVars, running, latestPid, loopVars>>
  BY DEF vars
<1>4. QED BY <1>1, <1>2, <1>3, QuietInv

-----------------------------------------------------------------------------
(* The theorems.  NoWatch is their one assumption about the constants.     *)

NoWatch == WatchCommands = {}

(* The invariant is inductive: one step per action of Next. *)
LEMMA NextInv ==
    ASSUME NoWatch, IInv, [Next]_vars
    PROVE  IInv'
<1>1. ASSUME Loop PROVE IInv'
  <2>1. TypeOK /\ ReadyInv
    BY DEF IInv
  <2>2. CASE StartTick
    <3>1. HandleMode("usermode") /\ \A n \in Modes : ToRun(n) = {}
      BY <2>1, <2>2, NothingToRun DEF StartTick, Idle
    <3>2. QED BY <3>1, HandleModeInv DEF Modes
  <2>3. CASE NextMode
    <3>1. HandleMode("kernelmode") /\ \A n \in Modes : ToRun(n) = {}
      BY <2>1, <2>3, NothingToRun DEF NextMode, Modes
    <3>2. QED BY <3>1, HandleModeInv DEF Modes
  <2>4. CASE EndTick
    BY <2>4, EndTickInv
  <2>5. CASE RunNext
    <3>1. phase \in Modes
      BY <2>5 DEF RunNext
    <3>2. PICK m \in Modes : phase = m
      BY <3>1
    <3>3. QED BY <2>5, <3>2, RunNextInv
  <2>6. QED BY <1>1, <2>2, <2>3, <2>4, <2>5 DEF Loop
<1>2. ASSUME EndSegment PROVE IInv'
  BY <1>2, FinishInv, YieldInv DEF EndSegment
<1>3. ASSUME Boot PROVE IInv'
  BY <1>3, BootDoneInv, BootNextInv DEF Boot
<1>4. stack \in Seq(Frames)
  BY DEF IInv, TypeOK
<1>5. \A p \in Proc, m \in Modes : StartProcess(p, m, 0, stack) => IInv'
  BY <1>4, StartInv
<1>6. ASSUME User PROVE IInv'
  <2>1. CASE UserPowers
    BY <2>1, PowerOffEffect, PowerOnInv DEF UserPowers
  <2>2. CASE \E p \in Proc, m \in StartModes : UserStarts(p, m)
    BY <2>2, <1>5, StartupAssumption DEF UserStarts
  <2>3. CASE \E p \in Proc : UserKills9(p) \/ UserKills(p)
    BY <2>3, UserKills9Inv, UserKillsInv
  <2>4. QED BY <1>6, <2>1, <2>2, <2>3 DEF User
<1>7. ASSUME InsideProcess PROVE IInv'
  <2>1. \A command : ~Watches(command)
    BY DEF Watches, NoWatch
  <2>2. PICK p \in Proc, m \in StartModes : ProcessStarts(p, m)
    BY <1>7, <2>1 DEF InsideProcess, WatchPowers, WatchKills9, WatchKills
  <2>3. QED BY <2>2, <1>5, StartupAssumption DEF ProcessStarts
<1>8. QED BY <1>1, <1>2, <1>3, <1>6, <1>7, StutterInv DEF Next

(* In every reachable state of every computer on which no process runs a   *)
(* kill or a power command, the lists, the stack and the lives agree.      *)
THEOREM SchedulerInvariant == NoWatch /\ Spec => []IInv
<1> SUFFICES ASSUME NoWatch PROVE Spec => []IInv
  OBVIOUS
<1>1. Init => IInv
  BY InitInv
<1>2. IInv /\ [Next]_vars => IInv'
  BY NextInv
<1>3. QED BY <1>1, <1>2, PTL DEF Spec

(* Types of the variables. *)
THEOREM TypeCorrect == NoWatch /\ Spec => []TypeOK
<1>1. IInv => TypeOK
  BY DEF IInv
<1>2. QED BY <1>1, SchedulerInvariant, PTL

(* handle_processes loses no process. *)
THEOREM NoneLost == NoWatch /\ Spec => []NoProcessLost
<1>1. IInv => NoProcessLost
  BY DEF IInv
<1>2. QED BY <1>1, SchedulerInvariant, PTL

(* A process that was killed or has finished is nowhere in the scheduler. *)
THEOREM NoneUndead == NoWatch /\ Spec => []DeadStayDead
<1>1. ASSUME IInv PROVE DeadStayDead
  <2> SUFFICES ASSUME NEW p \in Proc, life[p] \in {"finished", "killed"}
               PROVE  /\ \A m \in Modes : p \notin ToSet(waiting[m]) \cup ToRun(m)
                      /\ ~OnStack(p)
    BY DEF DeadStayDead
  <2>1. WaitingInv /\ ReadyInv /\ StackInv /\ p # NoProc
    BY <1>1, NoProcAssumption DEF IInv
  <2>2. QED BY <2>1 DEF WaitingInv, ReadyInv, StackInv, OnStack
<1>2. QED BY <1>1, SchedulerInvariant, PTL

(* A process is scheduled by one entry only. *)
THEOREM NoneTwice == NoWatch /\ Spec => []OnePlace
<1>1. ASSUME IInv PROVE OnePlace
  <2>1. WaitingInv /\ ReadyInv /\ StackInv /\ NoProc \notin Proc
    BY <1>1, NoProcAssumption DEF IInv
  <2> SUFFICES ASSUME NEW p \in Proc, NEW m \in Modes
               PROVE  /\ \A i, j \in DOMAIN waiting[m] :
                            waiting[m][i] = p /\ waiting[m][j] = p => i = j
                      /\ p \in ToSet(waiting[m]) =>
                            p \notin ToRun("usermode") \cup ToRun("kernelmode") /\ ~OnStack(p)
                      /\ p \in ToRun(m) => ~OnStack(p)
                      /\ \A i, j \in DOMAIN stack :
                            stack[i].proc = p /\ stack[j].proc = p => i = j
    BY DEF OnePlace
  <2>2. \A i, j \in DOMAIN waiting[m] : waiting[m][i] = p /\ waiting[m][j] = p => i = j
    BY <2>1 DEF WaitingInv, NoRepeat
  <2>3. ASSUME p \in ToSet(waiting[m]), NEW n \in Modes
        PROVE  p \notin ToRun(n) /\ ~OnStack(p)
    BY <2>1, <2>3 DEF WaitingInv, ReadyInv
  <2>4. p \in ToRun(m) => ~OnStack(p)
    BY <2>1 DEF ReadyInv
  <2>5. \A i, j \in DOMAIN stack : stack[i].proc = p /\ stack[j].proc = p => i = j
    BY <2>1 DEF StackInv
  <2>6. QED BY <2>2, <2>3, <2>4, <2>5 DEF Modes
<1>2. QED BY <1>1, SchedulerInvariant, PTL

(* Only the power button clears is_powered_on. *)
LEMMA OnlyPowerOff ==
    ASSUME NoWatch, [Next]_vars, powered, ~powered'
    PROVE  Idle /\ PowerOff
<1>1. ~(powered' = powered)
  OBVIOUS
<1>2. \A m : ~HandleMode(m)
  BY <1>1 DEF HandleMode
<1>3. ~Loop
  BY <1>1, <1>2 DEF Loop, StartTick, NextMode, EndTick, RunNext
<1>4. \A p, m, k, calls : ~StartProcess(p, m, k, calls)
  BY <1>1 DEF StartProcess
<1>5. ~EndSegment /\ ~Boot
  BY <1>1, <1>4 DEF EndSegment, Finish, Yield, Boot, BootDone, BootNext
<1>6. ~InsideProcess
  BY <1>4 DEF InsideProcess, WatchPowers, WatchKills9, WatchKills, Watches, NoWatch, ProcessStarts
<1>7. User
  BY <1>1, <1>3, <1>5, <1>6 DEF Next, vars
<1>8. UserPowers
  BY <1>1, <1>4, <1>7 DEF User, UserStarts, UserKills9, TerminateProcess, UserKills
<1>9. QED BY <1>8 DEF UserPowers, PowerOn

(* Switching the computer off between two ticks ends every process. *)
THEOREM ShutdownIsComplete == NoWatch /\ Spec => ShutdownEndsAll
<1> SUFFICES ASSUME NoWatch PROVE Spec => ShutdownEndsAll
  OBVIOUS
<1>1. Init => IInv
  BY InitInv
<1>2. IInv /\ [Next]_vars => IInv'
  BY NextInv
<1>3. IInv /\ [Next]_vars => [powered /\ ~powered' => \A p \in Proc : life'[p] # "alive"]_vars
  BY OnlyPowerOff, PowerOffEffect
<1>4. QED BY <1>1, <1>2, <1>3, PTL DEF Spec, ShutdownEndsAll

-----------------------------------------------------------------------------
(* Pids and startup entries. *)

\* No live process has a pid that is still to be given or a startup entry that
\* a boot has still to reach; while the computer is off it has none at all.
DoublesInv ==
    /\ \A p \in Proc : life[p] = "alive" => pid[p] <= latestPid[mode[p]]
    /\ \A i, j \in DOMAIN stack : stack[i].fn = "boot" /\ stack[j].fn = "boot" => i = j
    /\ \A i \in DOMAIN stack : stack[i].fn = "boot" =>
          powered /\ \A p \in Proc : life[p] = "alive" => startup[p] < stack[i].next
    /\ ~powered => \A p \in Proc : life[p] = "alive" => startup[p] = 0
    /\ NoDoubles

(* A step that brings no process to life and begins no boot.               *)
LEMMA DoublesKept ==
    ASSUME DoublesInv, UNCHANGED <<mode, pid, startup, latestPid, powered>>,
           \A p \in Proc : life'[p] = "alive" => life[p] = "alive",
           \A i \in DOMAIN stack' : stack'[i].fn = "boot" => i \in DOMAIN stack /\ stack'[i] = stack[i]
    PROVE  DoublesInv'
<1>1. NoDoubles'
  BY DEF DoublesInv, NoDoubles, PidsUnique, StartupOnce
<1>2. QED BY <1>1 DEF DoublesInv

(* start_process: the pid is a new one; the startup entry is none, or the   *)
(* one that the boot in progress has come to.                              *)
LEMMA StartDoubles ==
    ASSUME TypeOK, DoublesInv, NEW p \in Proc, NEW m \in Modes, NEW k \in Nat,
           NEW calls \in Seq(Frames), DOMAIN calls = DOMAIN stack,
           \A i \in DOMAIN stack :
              calls[i].fn = stack[i].fn /\ (stack[i].fn = "boot" => stack[i].next <= calls[i].next),
           k = 0 \/ \E i \in DOMAIN stack :
                       stack[i].fn = "boot" /\ stack[i].next = k /\ calls[i].next = k + 1,
           StartProcess(p, m, k, calls)
    PROVE  DoublesInv'
<1>1. /\ life[p] = "unborn"
      /\ latestPid' = [latestPid EXCEPT ![m] = @ + 1]
      /\ mode' = [mode EXCEPT ![p] = m]
      /\ pid' = [pid EXCEPT ![p] = latestPid[m] + 1]
      /\ startup' = [startup EXCEPT ![p] = k]
      /\ life' = [life EXCEPT ![p] = "alive"]
      /\ stack' = Append(calls, StartFrame(p)) /\ powered' = powered
  BY DEF StartProcess
<1>2. StartFrame(p) \in Frames /\ StartFrame(p).fn = "start"
  BY DEF StartFrame, Frames
<1>3. /\ DOMAIN stack' = DOMAIN stack \cup {Len(calls) + 1}
      /\ \A i \in DOMAIN stack : stack'[i] = calls[i]
      /\ stack'[Len(calls) + 1].fn = "start"
  BY <1>1, <1>2, PushFrame
<1>4. ASSUME NEW i \in DOMAIN stack', stack'[i].fn = "boot"
      PROVE  /\ i \in DOMAIN stack /\ stack[i].fn = "boot" /\ stack'[i] = calls[i]
             /\ stack[i].next \in Nat \ {0} /\ stack'[i].next \in Nat \ {0}
             /\ stack[i].next <= stack'[i].next
  <2>1. i \in DOMAIN stack
    BY <1>3, <1>4
  <2>2. stack[i] \in Frames /\ calls[i] \in Frames
    BY <2>1 DEF TypeOK
  <2>3. stack'[i] = calls[i] /\ stack[i].fn = "boot" /\ calls[i].fn = "boot"
    BY <1>3, <1>4, <2>1
  <2>4. stack[i].next \in Nat \ {0} /\ calls[i].next \in Nat \ {0}
    BY <2>2, <2>3 DEF Frames
  <2>5. QED BY <2>1, <2>3, <2>4
<1>5. \A q \in Proc : q # p =>
         life'[q] = life[q] /\ mode'[q] = mode[q] /\ pid'[q] = pid[q] /\ startup'[q] = startup[q]
  BY <1>1 DEF TypeOK
<1>6. life'[p] = "alive" /\ mode'[p] = m /\ pid'[p] = latestPid[m] + 1 /\ startup'[p] = k
  BY <1>1 DEF TypeOK
<1>7. \A q \in Proc : mode[q] \in Modes /\ pid[q] \in Nat /\ startup[q] \in Nat
  BY DEF TypeOK
<1>8. \A n \in Modes : latestPid[n] \in Nat /\ latestPid'[n] = IF n = m THEN latestPid[n] + 1 ELSE latestPid[n]
  BY <1>1 DEF TypeOK
<1>9. ASSUME NEW q \in Proc, life'[q] = "alive", q # p
      PROVE  /\ life[q] = "alive" /\ pid[q] <= latestPid[mode[q]]
             /\ k # 0 => startup[q] < k
  <2>1. life[q] = "alive" /\ pid[q] <= latestPid[mode[q]]
    BY <1>5, <1>9 DEF DoublesInv
  <2>2. QED BY <2>1 DEF DoublesInv
<1>10. \A q \in Proc : life'[q] = "alive" => pid'[q] <= latestPid'[mode'[q]]
  BY <1>5, <1>6, <1>7, <1>8, <1>9
<1>11. \A i, j \in DOMAIN stack' : stack'[i].fn = "boot" /\ stack'[j].fn = "boot" => i = j
  BY <1>4 DEF DoublesInv
<1>12. ASSUME NEW i \in DOMAIN stack', stack'[i].fn = "boot"
       PROVE  powered' /\ \A q \in Proc : life'[q] = "alive" => startup'[q] < stack'[i].next
  <2>1. i \in DOMAIN stack /\ stack[i].fn = "boot" /\ powered
    BY <1>4, <1>12 DEF DoublesInv
  <2>2. \A q \in Proc : life[q] = "alive" => startup[q] < stack[i].next
    BY <2>1 DEF DoublesInv
  <2>3. k < stack'[i].next
    <3>1. CASE k = 0
      BY <1>4, <1>12, <3>1
    <3>2. CASE \E j \in DOMAIN stack : stack[j].fn = "boot" /\ stack[j].next = k /\ calls[j].next = k + 1
      BY <1>4, <1>12, <2>1, <3>2 DEF DoublesInv
    <3>3. QED BY <3>1, <3>2
  <2>4. QED BY SMTT(30), <1>1, <1>4, <1>5, <1>6, <1>7, <1>9, <1>12, <2>1, <2>2, <2>3
<1>13. ASSUME ~powered' PROVE \A q \in Proc : life'[q] = "alive" => startup'[q] = 0
  <2>1. ~powered /\ k = 0
    BY <1>1, <1>13 DEF DoublesInv
  <2>2. QED BY <2>1, <1>5, <1>6, <1>9 DEF DoublesInv
<1>14. ASSUME NEW q \in Proc, NEW r \in Proc, q # r, life'[q] = "alive", life'[r] = "alive", mode'[q] = mode'[r]
       PROVE  pid'[q] # pid'[r]
  BY <1>5, <1>6, <1>7, <1>8, <1>9, <1>14 DEF DoublesInv, NoDoubles, PidsUnique
<1>15. ASSUME NEW q \in Proc, NEW r \in Proc, q # r, life'[q] = "alive", life'[r] = "alive", startup'[q] # 0
       PROVE  startup'[q] # startup'[r]
  BY <1>5, <1>6, <1>7, <1>9, <1>15 DEF DoublesInv, NoDoubles, StartupOnce
<1>16. NoDoubles'
  BY <1>14, <1>15 DEF NoDoubles, PidsUnique, StartupOnce
<1>17. QED BY <1>10, <1>11, <1>12, <1>13, <1>16 DEF DoublesInv

LEMMA DoublesInit == Init => DoublesInv
<1> SUFFICES ASSUME Init PROVE DoublesInv
  OBVIOUS
<1>1. \A p \in Proc : life[p] = "unborn"
  BY DEF Init
<1>2. Len(stack) = 1 /\ DOMAIN stack = {1} /\ powered
  BY DEF Init
<1>3. QED BY <1>1, <1>2 DEF DoublesInv, NoDoubles, PidsUnique, StartupOnce

(* Leaving a call keeps the boot frames below it.                          *)
LEMMA PopDoubles ==
    ASSUME TypeOK, stack # <<>>, stack' = Pop
    PROVE  \A i \in DOMAIN stack' : i \in DOMAIN stack /\ stack'[i] = stack[i]
  BY PopFrame DEF TypeOK

LEMMA DoublesStep ==
    ASSUME NoWatch, IInv, DoublesInv, [Next]_vars
    PROVE  DoublesInv'
<1>1. TypeOK
  BY DEF IInv
<1>2. ASSUME Loop PROVE DoublesInv'
  <2>1. UNCHANGED <<mode, pid, startup, life, latestPid, powered>>
    BY <1>2 DEF Loop, StartTick, NextMode, EndTick, RunNext, HandleMode, procVars
  <2>2. stack' = stack \/ \E p : stack' = <<TickFrame(p)>>
    BY <1>2 DEF Loop, StartTick, NextMode, EndTick, RunNext, HandleMode
  <2>3. \A p : DOMAIN <<TickFrame(p)>> = {1} /\ <<TickFrame(p)>>[1].fn # "boot"
    BY DEF TickFrame
  <2>4. QED BY <2>1, <2>2, <2>3, DoublesKept
<1>3. ASSUME EndSegment PROVE DoublesInv'
  <2>1. /\ stack # <<>> /\ stack' = Pop
        /\ UNCHANGED <<mode, pid, startup, latestPid, powered>>
        /\ \A p \in Proc : life'[p] = "alive" => life[p] = "alive"
    <3>1. CASE Finish
      BY <1>1, <3>1 DEF Finish, InProcess, LeaveSegment, TypeOK
    <3>2. CASE \E w \in Yields : Yield(w)
      BY <3>2 DEF Yield, InProcess, LeaveSegment
    <3>3. QED BY <1>3, <3>1, <3>2 DEF EndSegment
  <2>2. QED BY <1>1, <2>1, PopDoubles, DoublesKept
<1>4. ASSUME Boot PROVE DoublesInv'
  <2>1. CASE BootDone
    <3>1. stack # <<>> /\ stack' = Pop /\ UNCHANGED <<mode, pid, startup, life, latestPid, powered>>
      BY <2>1 DEF BootDone, Booting, procVars
    <3>2. QED BY <1>1, <3>1, PopDoubles, DoublesKept
  <2>2. ASSUME NEW p \in Proc, BootNext(p) PROVE DoublesInv'
    <3> DEFINE k == Top.next
               calls == Append(Pop, BootFrame(k + 1))
    <3>1. stack \in Seq(Frames) /\ stack # <<>> /\ Top.fn = "boot" /\ k <= Len(StartupModes)
          /\ StartProcess(p, StartupModes[k], k, calls)
      BY <1>1, <2>2 DEF TypeOK, BootNext, Booting
    <3>2. /\ Pop \in Seq(Frames)
          /\ Len(stack) \in DOMAIN stack
          /\ DOMAIN Pop = DOMAIN stack \ {Len(stack)}
          /\ \A i \in DOMAIN Pop : Pop[i] = stack[i]
          /\ Top \in Frames
          /\ Len(Pop) + 1 = Len(stack)
      BY <3>1, PopFrame
    <3>3. k \in Nat \ {0}
      BY <3>1, <3>2 DEF Frames
    <3>4. StartupModes[k] \in Modes
      BY <3>1, <3>3, StartupAssumption
    <3>5. BootFrame(k + 1) \in Frames /\ BootFrame(k + 1).fn = "boot" /\ BootFrame(k + 1).next = k + 1
      BY <3>3 DEF BootFrame, Frames
    <3>6. /\ calls \in Seq(Frames) /\ DOMAIN calls = DOMAIN Pop \cup {Len(Pop) + 1}
          /\ \A i \in DOMAIN Pop : calls[i] = Pop[i]
          /\ calls[Len(Pop) + 1] = BootFrame(k + 1)
      BY <3>2, <3>5, PushFrame
    <3> HIDE DEF k, calls
    <3>7. DOMAIN calls = DOMAIN stack /\ Top = stack[Len(stack)]
      BY <3>2, <3>6 DEF Top
    <3>8. \A i \in DOMAIN stack :
             calls[i].fn = stack[i].fn /\ (stack[i].fn = "boot" => stack[i].next <= calls[i].next)
      <4> TAKE i \in DOMAIN stack
      <4>1. CASE i = Len(stack)
        BY <3>1, <3>2, <3>3, <3>5, <3>6, <3>7, <4>1 DEF k
      <4>2. CASE i # Len(stack)
        <5>1. calls[i] = stack[i] /\ stack[i] \in Frames
          BY <3>1, <3>2, <3>6, <4>2
        <5>2. stack[i].next \in Nat
          BY <5>1 DEF Frames
        <5>3. QED BY <5>1, <5>2
      <4>3. QED BY <4>1, <4>2
    <3>9. \E i \in DOMAIN stack : stack[i].fn = "boot" /\ stack[i].next = k /\ calls[i].next = k + 1
      BY <3>1, <3>2, <3>5, <3>6, <3>7 DEF k
    <3>10. QED BY <1>1, <3>1, <3>3, <3>4, <3>6, <3>7, <3>8, <3>9, StartDoubles
  <2>3. QED BY <1>4, <2>1, <2>2 DEF Boot
<1>5. ASSUME NEW p \in Proc, NEW m \in Modes, StartProcess(p, m, 0, stack) PROVE DoublesInv'
  <2>1. stack \in Seq(Frames) /\ \A i \in DOMAIN stack : stack[i] \in Frames
    BY <1>1 DEF TypeOK
  <2>2. \A i \in DOMAIN stack : stack[i].next <= stack[i].next
    BY <2>1 DEF Frames
  <2>3. QED BY <1>1, <1>5, <2>1, <2>2, StartDoubles
<1>6. ASSUME User PROVE DoublesInv'
  <2>1. CASE Idle /\ PowerOff
    <3>1. \A p \in Proc : life'[p] # "alive"
      BY <2>1, PowerOffEffect
    <3>2. stack' = <<>>
      <4>1. ~Interrupted /\ stack = <<>>
        BY <2>1, IdleFacts DEF Interrupted, Idle
      <4>2. QED BY <2>1, <4>1 DEF PowerOff
    <3>3. DOMAIN stack' = {}
      BY <3>2
    <3>4. QED BY <3>1, <3>3 DEF DoublesInv, NoDoubles, PidsUnique, StartupOnce
  <2>2. CASE Idle /\ PowerOn
    <3>1. /\ ~powered /\ powered' = TRUE /\ stack' = <<BootFrame(1)>>
          /\ UNCHANGED <<mode, pid, startup, life, latestPid>>
      BY <2>2 DEF PowerOn, Idle, procVars
    <3>2. DOMAIN stack' = {1} /\ stack'[1].next = 1
      BY <3>1 DEF BootFrame
    <3>3. \A p \in Proc : life[p] = "alive" => startup[p] < 1
      BY <3>1 DEF DoublesInv
    <3>4. NoDoubles'
      BY <3>1 DEF DoublesInv, NoDoubles, PidsUnique, StartupOnce
    <3>5. \A i \in DOMAIN stack' : i = 1
      BY <3>2
    <3>6. QED BY <3>1, <3>2, <3>3, <3>4, <3>5 DEF DoublesInv
  <2>3. CASE \E p \in Proc, m \in StartModes : UserStarts(p, m)
    BY <2>3, <1>5, StartupAssumption DEF UserStarts
  <2>4. CASE \E p \in Proc : UserKills9(p) \/ UserKills(p)
    <3>1. PICK p \in Proc : UserKills9(p) \/ UserKills(p)
      BY <2>4
    <3>2. CASE UserKills(p)
      <4>1. UNCHANGED <<mode, pid, startup, life, latestPid, powered, stack>>
        BY <3>2 DEF UserKills, procVars
      <4>2. QED BY <4>1, DoublesKept
    <3>3. CASE UserKills9(p)
      <4>1. Idle /\ TerminateProcess(p) /\ p # running["usermode"]
        BY <3>3, IdleFacts, NoProcAssumption DEF UserKills9, Modes
      <4>2. life' = Killed({p}) /\ UNCHANGED <<mode, pid, startup, latestPid, powered, stack>>
        BY <4>1 DEF TerminateProcess
      <4>3. \A q \in Proc : life'[q] = "alive" => life[q] = "alive"
        BY <4>2 DEF Killed
      <4>4. QED BY <4>2, <4>3, DoublesKept
    <3>4. QED BY <3>1, <3>2, <3>3
  <2>5. QED BY <1>6, <2>1, <2>2, <2>3, <2>4 DEF User, UserPowers
<1>7. ASSUME InsideProcess PROVE DoublesInv'
  <2>1. \A command : ~Watches(command)
    BY DEF Watches, NoWatch
  <2>2. PICK p \in Proc, m \in StartModes : ProcessStarts(p, m)
    BY <1>7, <2>1 DEF InsideProcess, WatchPowers, WatchKills9, WatchKills
  <2>3. QED BY <2>2, <1>5, StartupAssumption DEF ProcessStarts
<1>8. CASE UNCHANGED vars
  <2>1. UNCHANGED <<mode, pid, startup, life, latestPid, powered, stack>>
    BY <1>8 DEF vars, procVars
  <2>2. QED BY <2>1, DoublesKept
<1>9. QED BY <1>2, <1>3, <1>4, <1>6, <1>7, <1>8 DEF Next

(* Neither a pid nor a startup process is there twice, however often the    *)
(* computer is switched off and on (on_shutdown, run_startup_processes).    *)
THEOREM NoneDoubled == NoWatch /\ Spec => []NoDoubles
<1> SUFFICES ASSUME NoWatch PROVE Spec => []NoDoubles
  OBVIOUS
<1>1. Init => IInv /\ DoublesInv
  BY InitInv, DoublesInit
<1>2. IInv /\ DoublesInv /\ [Next]_vars => IInv' /\ DoublesInv'
  BY NextInv, DoublesStep
<1>3. DoublesInv => NoDoubles
  BY DEF DoublesInv
<1>4. QED BY <1>1, <1>2, <1>3, PTL DEF Spec

=============================================================================
