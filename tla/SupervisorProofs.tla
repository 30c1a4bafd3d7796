-------------------------- MODULE SupervisorProofs --------------------------
(* The monitor never loses track of its children and never waits without   *)
(* any, for every set of process ids and any number of commands, crashes   *)
(* and interrupts.                                                         *)
EXTENDS Supervisor, TLAPS

\* children_pids and the processes agree, in both directions.
PidsAgree ==
    /\ \A p \in Pids : proc[p].at # "none" <=> proc_pid = p
    /\ control # "none" <=> ctl_pid = 1

\* What the monitor knows at each point of its loop: nobody is missing when
\* it calls waitpid, and it leaves the loop exactly when both are to stay dead.
LoopInv ==
    /\ monitor \in {"fork_control", "wait"} => proc_pid # NeedToCreate
    /\ monitor = "wait" => ctl_pid # NeedToCreate
    /\ (proc_pid = NeedToStop /\ ctl_pid = NeedToStop) <=> monitor = "exited"
    /\ monitor # "aborted"

\* The inductive invariant.  ChildrenKnown alone says nothing of where the
\* monitor is, and so cannot exclude that it waits for nobody.
SupervisorInv == TypeOK /\ PidsAgree /\ LoopInv

USE DEF NeedToCreate, NeedToStop, MaxSubscribers

\* The record of a process that does not exist ...
LEMMA NoProcState == NoProc \in ProcState /\ NoProc.at = "none"
BY DEF NoProc, ProcState

\* ... of one that has just been forked ...
LEMMA BootState ==
    ASSUME NEW c \in Nat, NEW r, r = [NoProc EXCEPT !.at = "boot", !.conf = c]
    PROVE  r \in ProcState /\ r.at = "boot" /\ ~r.exiting
BY DEF NoProc, ProcState

\* ... of one that has exited ...
LEMMA ExitState ==
    ASSUME NEW p \in Pids, proc \in [Pids -> ProcState], NEW b \in BOOLEAN, Exit(p, b)
    PROVE  \E r \in ProcState : r.at = "zombie" /\ proc' = [proc EXCEPT ![p] = r]
<1> DEFINE r == [proc[p] EXCEPT !.at = "zombie", !.ok = b, !.sig = "none"]
<1>1. r \in ProcState /\ r.at = "zombie"
  BY DEF ProcState
<1>2. proc' = [proc EXCEPT ![p] = r]
  BY DEF Exit
<1> QED
  BY <1>1, <1>2

\* ... been killed ...
LEMMA KilledState ==
    ASSUME NEW p \in Pids, proc \in [Pids -> ProcState], Killed(p)
    PROVE  \E r \in ProcState : r.at = "zombie" /\ proc' = [proc EXCEPT ![p] = r]
<1> DEFINE r == [proc[p] EXCEPT !.at = "zombie", !.killed = TRUE, !.sig = "none"]
<1>1. r \in ProcState /\ r.at = "zombie"
  BY DEF ProcState
<1>2. proc' = [proc EXCEPT ![p] = r]
  BY DEF Killed
<1> QED
  BY <1>1, <1>2

\* ... or been told to leave the capture.
LEMMA StopState ==
    ASSUME NEW p \in Pids, proc \in [Pids -> ProcState],
           NEW s \in {"int", "res"}, NEW b \in BOOLEAN,
           proc' = [proc EXCEPT ![p].at = "stop", ![p].sig = s, ![p].exiting = b]
    PROVE  \E r \in ProcState : r.at = "stop" /\ proc' = [proc EXCEPT ![p] = r]
<1> DEFINE r == [proc[p] EXCEPT !.at = "stop", !.sig = s, !.exiting = b]
<1>1. r \in ProcState /\ r.at = "stop"
  BY DEF ProcState
<1> QED
  BY <1>1

\* A process that exists keeps existing: children_pids and the processes
\* still agree when only its record has changed.
LEMMA SameChildren ==
    ASSUME SupervisorInv, NEW p \in Pids, proc[p].at # "none",
           NEW r \in ProcState, r.at # "none", proc' = [proc EXCEPT ![p] = r],
           UNCHANGED <<monitorVars, controlVars>>
    PROVE  proc' \in [Pids -> ProcState] /\ PidsAgree' /\ LoopInv'
BY DEF SupervisorInv, TypeOK, PidsAgree, LoopInv, monitorVars, controlVars

\* The state before the first fork.
LEMMA InitInv == Init => SupervisorInv
<1> SUFFICES ASSUME Init PROVE SupervisorInv
  OBVIOUS
<1>0. proc \in [Pids -> ProcState] /\ \A p \in Pids : proc[p].at = "none"
  BY NoProcState DEF Init
<1>1. TypeOK
  <2>1. pending \in [Pids -> SUBSET {"int", "res"}]
    BY DEF Init
  <2>2. ctl_ok \in BOOLEAN /\ is_consumed \in BOOLEAN
    BY DEF Init
  <2> QED
    BY SupervisorAssumption, <1>0, <2>1, <2>2 DEF Init, TypeOK
<1>2. PidsAgree
  BY SupervisorAssumption, <1>0 DEF Init, PidsAgree
<1>3. LoopInv
  BY DEF Init, LoopInv
<1> QED
  BY <1>1, <1>2, <1>3 DEF SupervisorInv

\* A turn of the monitor's loop keeps the invariant.
LEMMA MonitorStep == SupervisorInv /\ Monitor => SupervisorInv'
<1> SUFFICES ASSUME SupervisorInv, Monitor PROVE SupervisorInv'
  OBVIOUS
<1> USE SupervisorAssumption DEF SupervisorInv, monitorVars, procVars, controlVars, busVars
<1>1. CASE ForkProcessing
  <2>1. CASE proc_pid # NeedToCreate
    BY <1>1, <2>1 DEF ForkProcessing, TypeOK, PidsAgree, LoopInv
  <2>2. CASE proc_pid = NeedToCreate
    <3>1. PICK p \in Pids :
            /\ proc[p].at = "none"
            /\ proc' = [proc EXCEPT ![p] = [NoProc EXCEPT !.at = "boot", !.conf = config]]
            /\ proc_pid' = p
      BY <1>1, <2>2 DEF ForkProcessing
    <3>2. config \in Nat /\ proc \in [Pids -> ProcState]
      BY DEF TypeOK
    <3>3. PICK r \in ProcState : r.at = "boot" /\ proc' = [proc EXCEPT ![p] = r]
      BY <3>1, <3>2, BootState
    <3>4. TypeOK'
      BY <1>1, <3>1, <3>2, <3>3 DEF ForkProcessing, TypeOK
    <3>5. PidsAgree'
      BY <1>1, <2>2, <3>1, <3>2, <3>3 DEF ForkProcessing, PidsAgree
    <3>6. LoopInv'
      BY <1>1, <2>2, <3>1 DEF ForkProcessing, LoopInv
    <3> QED
      BY <3>4, <3>5, <3>6
  <2> QED
    BY <2>1, <2>2
<1>2. CASE ForkControl
  BY <1>2 DEF ForkControl, TypeOK, PidsAgree, LoopInv
<1>3. CASE ReapProcessing
  BY <1>3 DEF ReapProcessing, Zombies, Fate, AfterReap, TypeOK, PidsAgree, LoopInv, NoProc, ProcState
<1>4. CASE ReapControl
  BY <1>4 DEF ReapControl, Fate, AfterReap, TypeOK, PidsAgree, LoopInv
<1>5. CASE ReapNobody
  BY <1>5 DEF ReapNobody, Zombies, TypeOK, PidsAgree, LoopInv
<1>6. CASE CheckBus
  BY <1>6 DEF CheckBus, TypeOK, PidsAgree, LoopInv
<1>7. CASE Callback
  BY <1>7 DEF Callback, OnStart, OnStop, OnUpdate, Kill, TypeOK, PidsAgree, LoopInv
<1>8. CASE ReplyBus
  BY <1>8 DEF ReplyBus, TypeOK, PidsAgree, LoopInv
<1> QED
  BY <1>1, <1>2, <1>3, <1>4, <1>5, <1>6, <1>7, <1>8 DEF Monitor

\* A step of a processing process, crashes included: it may change its state
\* but neither appears nor vanishes.
LEMMA ProcessingStep ==
    ASSUME SupervisorInv, NEW p \in Pids, Processing(p) \/ CaptureEnds(p) \/ Crash(p)
    PROVE  SupervisorInv'
<1> USE SupervisorAssumption DEF SupervisorInv, monitorVars, procVars, controlVars, busVars, TypeOK
<1>1. CASE SubscribeLock(p)
  BY <1>1 DEF SubscribeLock, Step, ProcState, PidsAgree, LoopInv
<1>2. CASE Subscribe(p)
  BY <1>2 DEF Subscribe, ProcState, PidsAgree, LoopInv
<1>3. CASE InstallHandlers(p)
  BY <1>3 DEF InstallHandlers, Step, ProcState, PidsAgree, LoopInv
<1>4. CASE HandleSignal(p)
  <2>1. PICK s \in pending[p] :
          /\ pending' = [pending EXCEPT ![p] = @ \ {s}]
          /\ IF ~HasHandlers(p) THEN Killed(p)
             ELSE IF proc[p].exiting THEN Exit(p, TRUE)
             ELSE proc' = [proc EXCEPT ![p].at = "stop", ![p].sig = s,
                                       ![p].exiting = (s = "int")]
    BY <1>4 DEF HandleSignal
  <2>2. proc \in [Pids -> ProcState] /\ s \in {"int", "res"} /\ proc[p].at # "none"
    BY <1>4 DEF HandleSignal, Alive
  <2>3. \E r \in ProcState : r.at # "none" /\ proc' = [proc EXCEPT ![p] = r]
    <3>1. CASE Killed(p) \/ Exit(p, TRUE)
      BY <2>2, <3>1, ExitState, KilledState
    <3>2. CASE proc' = [proc EXCEPT ![p].at = "stop", ![p].sig = s, ![p].exiting = (s = "int")]
      <4>0. PICK b \in BOOLEAN : b = (s = "int")
        OBVIOUS
      <4> QED
        BY <2>2, <3>2, <4>0, StopState
    <3> QED
      BY <2>1, <3>1, <3>2
  <2>4. pending' \in [Pids -> SUBSET {"int", "res"}]
    BY <2>1
  <2>5. UNCHANGED <<monitorVars, controlVars, busVars, mutex, slots, crashes>>
    BY <1>4 DEF HandleSignal
  <2>6. proc' \in [Pids -> ProcState] /\ PidsAgree' /\ LoopInv'
    BY <2>2, <2>3, <2>5, SameChildren
  <2> QED
    BY <2>4, <2>5, <2>6
<1>5. CASE Finish(p)
  <2>1. PICK b \in BOOLEAN : Exit(p, b)
    BY <1>5 DEF Finish
  <2>2. proc \in [Pids -> ProcState] /\ proc[p].at # "none"
    BY <1>5 DEF Finish
  <2>3. \E r \in ProcState : r.at # "none" /\ proc' = [proc EXCEPT ![p] = r]
    BY <2>1, <2>2, ExitState
  <2>4. UNCHANGED <<pending, monitorVars, controlVars, busVars, mutex, slots, crashes>>
    BY <1>5 DEF Finish
  <2>5. proc' \in [Pids -> ProcState] /\ PidsAgree' /\ LoopInv'
    BY <2>2, <2>3, <2>4, SameChildren
  <2> QED
    BY <2>4, <2>5
<1>6. CASE CaptureEnds(p)
  BY <1>6 DEF CaptureEnds, Step, ProcState, PidsAgree, LoopInv
<1>7. CASE Crash(p)
  <2>1. Killed(p) \/ \E b \in BOOLEAN : Exit(p, b)
    <3>1. CASE Killed(p)
      BY <3>1
    <3>2. CASE \E abort \in BOOLEAN : Exit(p, abort \/ proc[p].exiting)
      BY <3>2
    <3> QED
      BY <1>7, <3>1, <3>2 DEF Crash
  <2>2. proc \in [Pids -> ProcState] /\ proc[p].at # "none"
    BY <1>7 DEF Crash, Alive
  <2>3. \E r \in ProcState : r.at # "none" /\ proc' = [proc EXCEPT ![p] = r]
    BY <2>1, <2>2, ExitState, KilledState
  <2>4. UNCHANGED <<pending, monitorVars, controlVars, busVars, mutex, slots>>
    BY <1>7 DEF Crash
  <2>5. proc' \in [Pids -> ProcState] /\ PidsAgree' /\ LoopInv'
    BY <2>2, <2>3, <2>4, SameChildren
  <2>6. crashes' \in 0 .. MaxCrashes
    BY <1>7 DEF Crash
  <2> QED
    BY <2>4, <2>5, <2>6
<1> QED
  BY <1>1, <1>2, <1>3, <1>4, <1>5, <1>6, <1>7 DEF Processing

\* A step of the control process, of a client or of the user.
LEMMA ControlStep ==
    ASSUME SupervisorInv, Control \/ ReceiveCommand \/ CrashControl \/ Interrupt
    PROVE  SupervisorInv'
<1> USE SupervisorAssumption DEF SupervisorInv, monitorVars, procVars, controlVars, busVars, TypeOK,
      PidsAgree, LoopInv
<1>1. CASE StartServer
  BY <1>1 DEF StartServer
<1>2. CASE PublishLock
  BY <1>2 DEF PublishLock
<1>3. CASE PublishStore
  <2>1. CASE reply_code = "nothing"
    BY <1>3, <2>1 DEF PublishStore
  <2>2. CASE reply_code # "nothing"
    <3>1. is_consumed' \in BOOLEAN
      BY <1>3, <2>2 DEF PublishStore
    <3> QED
      BY <1>3, <2>2, <3>1 DEF PublishStore
  <2> QED
    BY <2>1, <2>2
<1>4. CASE ReceiveCommand
  BY <1>4 DEF ReceiveCommand
<1>5. CASE CrashControl
  <2>1. ctl_ok' \in BOOLEAN
    BY <1>5 DEF CrashControl
  <2> QED
    BY <1>5, <2>1 DEF CrashControl
<1>6. CASE Interrupt
  <2>1. ctl_ok' \in BOOLEAN /\ control' \in {"none", "boot", "accept", "publish", "store", "zombie"}
        /\ (control' # "none" <=> control # "none")
    BY <1>6 DEF Interrupt
  <2>2. pending' \in [Pids -> SUBSET {"int", "res"}]
    BY <1>6 DEF Interrupt
  <2> QED
    BY <1>6, <2>1, <2>2 DEF Interrupt
<1> QED
  BY <1>1, <1>2, <1>3, <1>4, <1>5, <1>6 DEF Control

\* The invariant holds of every behaviour of the three processes.
THEOREM SupervisorInvariant == Spec => []SupervisorInv
<1>1. ASSUME SupervisorInv, [Next]_vars PROVE SupervisorInv'
  <2>1. CASE UNCHANGED vars
    BY <1>1, <2>1 DEF vars, monitorVars, procVars, controlVars, busVars, SupervisorInv,
      TypeOK, PidsAgree, LoopInv
  <2>2. CASE Next
    BY <1>1, <2>2, MonitorStep, ProcessingStep, ControlStep DEF Next
  <2> QED
    BY <1>1, <2>1, <2>2
<1> QED
  BY InitInv, <1>1, PTL DEF Spec

\* The state of monitor, children and bus is well typed; in particular no more
\* than MMT_BUS_MAX_SUBSCRIBERS entries are ever in use.
THEOREM SupervisorTypeOK == Spec => []TypeOK
BY SupervisorInvariant, PTL DEF SupervisorInv

\* Whatever commands, signals and crashes come, the monitor knows the one
\* processing process and the one control process, and exits only after both.
THEOREM MonitorKnowsChildren == Spec => []ChildrenKnown
<1>1. SupervisorInv => ChildrenKnown
  BY SupervisorAssumption DEF SupervisorInv, PidsAgree, LoopInv, ChildrenKnown
<1> QED
  BY <1>1, SupervisorInvariant, PTL

\* The monitor never calls waitpid without a child: its ABORT is dead code.
THEOREM MonitorNeverAborts == Spec => []NeverAborts
<1>1. SupervisorInv => NeverAborts
  BY DEF SupervisorInv, LoopInv, NeverAborts
<1> QED
  BY <1>1, SupervisorInvariant, PTL

\* A process that has handled SIGINT is releasing its resources with no restart
\* pending, or has ended: with EXIT_SUCCESS, or by a signal without handler.
ExitingInv ==
    \A p \in Pids : proc[p].exiting =>
        \/ proc[p].at = "stop" /\ proc[p].sig # "res"
        \/ proc[p].at = "zombie" /\ (proc[p].ok \/ proc[p].killed)

\* No step but such a signal turns a stop into a restart.
LEMMA ExitingStep ==
    ASSUME SupervisorInv, ExitingInv, [Next]_vars
    PROVE  ExitingInv'
<1>0. proc \in [Pids -> ProcState]
  BY DEF SupervisorInv, TypeOK
<1>1. CASE UNCHANGED proc
  BY <1>1 DEF ExitingInv
<1>2. CASE ForkProcessing
  <2>1. CASE proc_pid = NeedToCreate
    <3>1. PICK q \in Pids :
            proc' = [proc EXCEPT ![q] = [NoProc EXCEPT !.at = "boot", !.conf = config]]
      BY <1>2, <2>1 DEF ForkProcessing
    <3>2. config \in Nat
      BY DEF SupervisorInv, TypeOK
    <3>3. PICK r \in ProcState : ~r.exiting /\ proc' = [proc EXCEPT ![q] = r]
      BY <3>1, <3>2, BootState
    <3> QED
      BY <1>0, <3>3 DEF ExitingInv
  <2> QED
    BY <1>1, <1>2, <2>1 DEF ForkProcessing
<1>3. CASE ReapProcessing
  BY <1>0, <1>3 DEF ReapProcessing, ExitingInv, NoProc, ProcState
<1>4. ASSUME NEW p \in Pids, Processing(p) \/ CaptureEnds(p) \/ Crash(p)
      PROVE  ExitingInv'
  <2>1. CASE SubscribeLock(p)
    BY <1>0, <2>1 DEF SubscribeLock, Step, ExitingInv, ProcState
  <2>2. CASE Subscribe(p)
    BY <1>0, <2>2 DEF Subscribe, ExitingInv, ProcState
  <2>3. CASE InstallHandlers(p)
    BY <1>0, <2>3 DEF InstallHandlers, Step, ExitingInv, ProcState
  <2>4. CASE HandleSignal(p)
    BY <1>0, <2>4 DEF HandleSignal, HasHandlers, Alive, Exit, Killed, ExitingInv, ProcState
  <2>5. CASE Finish(p)
    BY <1>0, <2>5 DEF Finish, Exit, ExitingInv, ProcState
  <2>6. CASE CaptureEnds(p)
    BY <1>0, <2>6 DEF CaptureEnds, Step, ExitingInv, ProcState
  <2>7. CASE Crash(p)
    <3>1. CASE Killed(p)
      BY <1>0, <3>1 DEF Killed, ExitingInv, ProcState
    <3>2. CASE HasHandlers(p) /\ \E abort \in BOOLEAN : Exit(p, abort \/ proc[p].exiting)
      <4>1. PICK b \in BOOLEAN : Exit(p, b) /\ (proc[p].exiting => b)
        BY <3>2
      <4> QED
        BY <1>0, <4>1 DEF Exit, ExitingInv, ProcState
    <3> QED
      BY <2>7, <3>1, <3>2 DEF Crash
  <2> QED
    BY <1>4, <2>1, <2>2, <2>3, <2>4, <2>5, <2>6, <2>7 DEF Processing
<1>5. [Next]_vars => \/ UNCHANGED proc \/ ForkProcessing \/ ReapProcessing
                     \/ \E p \in Pids : Processing(p) \/ CaptureEnds(p) \/ Crash(p)
  BY DEF Next, vars, Monitor, ForkControl, ReapControl, ReapNobody, CheckBus, Callback,
    ReplyBus, Control, StartServer, PublishLock, PublishStore, ReceiveCommand,
    CrashControl, Interrupt, procVars
<1> QED
  BY <1>1, <1>2, <1>3, <1>4, <1>5

\* A processing process that was told to stop is not re-created when it runs
\* into SIGSEGV or SIGABRT or is told to restart while it releases its
\* resources: what revives it is a signal that it does not handle.
THEOREM StopIsFinal == Spec => StoppedStays
<1>1. Init => ExitingInv
  BY DEF Init, ExitingInv, NoProc
<1>2. Spec => [](SupervisorInv /\ ExitingInv)
  BY <1>1, ExitingStep, SupervisorInvariant, PTL DEF Spec
<1>3. ASSUME SupervisorInv, ExitingInv, [Next]_vars, NEW p \in Pids,
             proc[p].exiting, proc_pid = p, proc_pid' = NeedToCreate
      PROVE  proc[p].killed
  <2>1. p > 0
    BY SupervisorAssumption
  <2>2. CASE ReapProcessing
    BY <1>3, <2>1, <2>2 DEF ReapProcessing, Zombies, Fate, ExitingInv
  <2>3. CASE Callback
    BY <1>3, <2>1, <2>3 DEF Callback, OnStart, OnStop, OnUpdate
  <2>4. CASE ForkProcessing
    BY <1>3, <2>1, <2>4 DEF ForkProcessing
  <2>5. [Next]_vars => ReapProcessing \/ Callback \/ ForkProcessing \/ UNCHANGED proc_pid
    BY DEF Next, vars, Monitor, ForkControl, ReapControl, ReapNobody, CheckBus, ReplyBus,
      Control, StartServer, PublishLock, PublishStore, ReceiveCommand, CrashControl,
      Interrupt, Processing, SubscribeLock, Subscribe, InstallHandlers, HandleSignal,
      Finish, CaptureEnds, Crash, monitorVars
  <2> QED
    BY <1>3, <2>1, <2>2, <2>3, <2>4, <2>5
<1>4. SupervisorInv /\ ExitingInv /\ [Next]_vars =>
        [\A p \in Pids : proc[p].exiting /\ proc_pid = p /\ proc_pid' = NeedToCreate
                          => proc[p].killed]_vars
  BY <1>3
<1> QED
  BY <1>2, <1>4, PTL DEF Spec, StoppedStays
=============================================================================
