----------------------------- MODULE Supervisor -----------------------------
(***************************************************************************)
(* The three processes of a running probe with dynamic configuration       *)
(* (main.c, modules/dynamic_conf): the monitor, which forks the two others *)
(* and waits for them; the processing process, which captures packets; the *)
(* control process, which takes commands from a UNIX socket and publishes  *)
(* them on mmt_bus, a message slot in shared memory guarded by a           *)
(* process-shared mutex.  The monitor polls the bus once per turn of its   *)
(* loop and acts on the command.  Online analysis, pcap capture.           *)
(*                                                                         *)
(* A child can die anywhere, so its critical sections (publishing, and     *)
(* subscribing) take and release the mutex in steps of their own; those of *)
(* the monitor, which nobody watches over, are one step guarded by a free  *)
(* mutex.                                                                  *)
(***************************************************************************)
EXTENDS Integers, FiniteSets

CONSTANTS
    Pids,           \* process ids fork can return for the processing process
    Commands,       \* the commands clients send: "start", "stop", "update"
    CtrlC,          \* may the user press Ctrl+C?
    MaxCommands,    \* bound: commands received
    MaxCrashes      \* bound: crashes of the two children

ASSUME SupervisorAssumption ==
    /\ Pids \subseteq Nat \ {0} /\ IsFiniteSet(Pids) /\ Pids # {}
    /\ Commands \subseteq {"start", "stop", "update"}
    /\ CtrlC \in BOOLEAN
    /\ MaxCommands \in Nat /\ MaxCrashes \in Nat

\* Special values of children_pids.
NeedToCreate == 0
NeedToStop == -1

\* MMT_BUS_MAX_SUBSCRIBERS
MaxSubscribers == 3

VARIABLES
    monitor,        \* where the monitor is in its loop
    proc_pid,       \* children_pids[0]
    ctl_pid,        \* children_pids[1]: NeedToCreate, NeedToStop or 1
    config,         \* version of the monitor's configuration
    msg,            \* the command the monitor has copied from the bus
    ret,            \* what its callback returned
    proc,           \* the processing processes, by pid
    pending,        \* signals sent to them and not yet handled
    control,        \* where the control process is
    ctl_ok,         \* its exit status is EXIT_SUCCESS
    request,        \* the command the control process serves
    mutex,          \* who holds bus->mutex
    message,        \* bus->message
    reply_code,     \* bus->reply_code
    is_consumed,    \* the monitor's sub_lst[0].is_consumed
    slots,          \* entries of sub_lst in use
    commands,       \* commands received so far
    crashes         \* crashes so far

monitorVars == <<monitor, proc_pid, ctl_pid, config, msg, ret>>
procVars == <<proc, pending>>
controlVars == <<control, ctl_ok, request, commands>>
busVars == <<message, reply_code, is_consumed>>
vars == <<monitorVars, procVars, controlVars, busVars, mutex, slots, crashes>>

NoProc == [at |-> "none", sig |-> "none", exiting |-> FALSE, ok |-> FALSE,
           killed |-> FALSE, conf |-> 0]

Alive(p) == proc[p].at \notin {"none", "zombie"}

\* SIGINT and SIGUSR2 are handled; before, SIGINT is ignored and SIGUSR2 kills.
HasHandlers(p) == proc[p].at \in {"run", "stop"}

Init ==
    /\ monitor = "fork" /\ proc_pid = NeedToCreate /\ ctl_pid = NeedToCreate
    /\ config = 0 /\ msg = "none" /\ ret = "ok"
    /\ proc = [p \in Pids |-> NoProc]
    /\ pending = [p \in Pids |-> {}]
    /\ control = "none" /\ ctl_ok = FALSE
    /\ request = "none" /\ commands = 0
    /\ mutex = "free"
    /\ message = "none" /\ reply_code = "ok" /\ is_consumed = TRUE
    /\ slots = 1
    /\ crashes = 0
-----------------------------------------------------------------------------
(* The monitor's loop, _create_sub_processes.                              *)

ForkProcessing ==
    /\ monitor = "fork"
    /\ monitor' = "fork_control"
    /\ IF proc_pid = NeedToCreate
       THEN \E p \in Pids :
              /\ proc[p].at = "none"
              /\ proc' = [proc EXCEPT ![p] = [NoProc EXCEPT !.at = "boot", !.conf = config]]
              /\ proc_pid' = p
       ELSE UNCHANGED <<proc, proc_pid>>
    /\ UNCHANGED <<ctl_pid, config, msg, ret, pending, controlVars, busVars, mutex, slots, crashes>>

ForkControl ==
    /\ monitor = "fork_control"
    /\ monitor' = "wait"
    /\ IF ctl_pid = NeedToCreate THEN ctl_pid' = 1 /\ control' = "boot"
                                 ELSE UNCHANGED <<ctl_pid, control>>
    /\ UNCHANGED <<proc_pid, config, msg, ret, procVars, ctl_ok, request, commands, busVars, mutex, slots, crashes>>

Zombies == {p \in Pids : proc[p].at = "zombie"}

\* Mutant: a child that ended is never re-created.
FateDead(ok) == NeedToStop

\* Mutant: the exit status is not looked at, every child is re-created.
FateAgain(ok) == NeedToCreate

\* What becomes of a child: dead for good after EXIT_SUCCESS, else re-created.
Fate(ok) == IF ok THEN NeedToStop ELSE NeedToCreate

\* Mutant: the loop goes on without any child left to wait for.
AfterReapNever == "check"

\* Mutant: one child that exited normally is enough.
AfterReapAny == IF proc_pid' = NeedToStop \/ ctl_pid' = NeedToStop THEN "exited" ELSE "check"

\* All children exited normally: the monitor exits as well.
AfterReap == IF proc_pid' = NeedToStop /\ ctl_pid' = NeedToStop THEN "exited" ELSE "check"

\* waitpid returns the processing process ...
ReapProcessing ==
    /\ monitor = "wait"
    /\ \E p \in Zombies :
          /\ proc_pid' = IF proc_pid = p THEN Fate(proc[p].ok) ELSE proc_pid
          /\ proc' = [proc EXCEPT ![p] = NoProc]
          /\ pending' = [pending EXCEPT ![p] = {}]
    /\ UNCHANGED ctl_pid
    /\ monitor' = AfterReap
    /\ UNCHANGED <<config, msg, ret, controlVars, busVars, mutex, slots, crashes>>

\* ... or the control process ...
ReapControl ==
    /\ monitor = "wait"
    /\ control = "zombie"
    /\ control' = "none"
    /\ ctl_pid' = Fate(ctl_ok)
    /\ UNCHANGED proc_pid
    /\ monitor' = AfterReap
    /\ UNCHANGED <<config, msg, ret, procVars, ctl_ok, request,
                   commands, busVars, mutex, slots, crashes>>

\* ... or nobody: 0 while a child lives, -1 (the monitor aborts) without any.
ReapNobody ==
    /\ monitor = "wait"
    /\ Zombies = {} /\ control # "zombie"
    /\ monitor' = IF control = "none" /\ \A p \in Pids : proc[p].at = "none"
                  THEN "aborted" ELSE "check"
    /\ UNCHANGED <<proc_pid, ctl_pid, config, msg, ret, procVars,
                   controlVars, busVars, mutex, slots, crashes>>

\* mmt_bus_subcriber_check, first critical section.
CheckBus ==
    /\ monitor = "check"
    /\ mutex = "free"
    /\ IF is_consumed THEN monitor' = "fork" /\ UNCHANGED msg
                      ELSE monitor' = "callback" /\ msg' = message
    /\ UNCHANGED <<proc_pid, ctl_pid, config, ret, procVars, controlVars,
                   busVars, mutex, slots, crashes>>

\* kill: SIGINT is discarded by a process that still ignores it.
Kill(p, s) ==
    pending' = [pending EXCEPT ![p] =
                  IF Alive(p) /\ (s = "res" \/ HasHandlers(p)) THEN @ \cup {s} ELSE @]

\* Mutant: a second process is created beside the running one.
OnStartAgain ==
    /\ msg = "start"
    /\ ret' = "ok" /\ proc_pid' = NeedToCreate
    /\ UNCHANGED <<config, pending>>

\* _receive_message, the monitor's callback.
OnStart ==
    /\ msg = "start"
    /\ IF proc_pid > 0 THEN ret' = "running" /\ UNCHANGED proc_pid
                       ELSE ret' = "ok" /\ proc_pid' = NeedToCreate
    /\ UNCHANGED <<config, pending>>

\* Mutant: a stop that finds nothing to stop is left for somebody else.
OnStopUnanswered ==
    /\ msg = "stop"
    /\ IF proc_pid > 0 THEN ret' = "ok" /\ Kill(proc_pid, "int")
                       ELSE ret' = "nothing" /\ UNCHANGED pending
    /\ UNCHANGED <<config, proc_pid>>

OnStop ==
    /\ msg = "stop"
    /\ IF proc_pid > 0 THEN ret' = "ok" /\ Kill(proc_pid, "int")
                       ELSE ret' = "stopping" /\ UNCHANGED pending
    /\ UNCHANGED <<config, proc_pid>>

\* Mutant: the running process is not told to restart.
OnUpdateNoRestart ==
    /\ msg = "update"
    /\ config' = config + 1
    /\ ret' = IF proc_pid = NeedToCreate THEN "nothing" ELSE "ok"
    /\ UNCHANGED <<proc_pid, pending>>

\* Every parameter an update can carry needs a restart.
OnUpdate ==
    /\ msg = "update"
    /\ config' = config + 1
    /\ CASE proc_pid > 0 -> ret' = "ok" /\ Kill(proc_pid, "res")
         [] proc_pid < 0 -> ret' = "ok" /\ UNCHANGED pending
         [] OTHER -> ret' = "nothing" /\ UNCHANGED pending
    /\ UNCHANGED proc_pid

Callback ==
    /\ monitor = "callback"
    /\ monitor' = "reply"
    /\ OnStart \/ OnStop \/ OnUpdate
    /\ UNCHANGED <<ctl_pid, msg, proc, controlVars, busVars, mutex, slots, crashes>>

\* mmt_bus_subcriber_check, second critical section; then sleep( 1 ).
ReplyBus ==
    /\ monitor = "reply"
    /\ mutex = "free"
    /\ is_consumed' = TRUE
    /\ reply_code' = IF reply_code = "nothing" THEN ret ELSE reply_code
    /\ monitor' = "fork"
    /\ UNCHANGED <<proc_pid, ctl_pid, config, msg, ret, procVars,
                   controlVars, message, mutex, slots, crashes>>
-----------------------------------------------------------------------------
(* The processing process.                                                 *)

Step(p, from, to) ==
    /\ proc[p].at = from
    /\ proc' = [proc EXCEPT ![p].at = to]

\* dynamic_conf_agency_start: one of the slots, if any is left.
SubscribeLock(p) ==
    /\ Step(p, "boot", "subscribe")
    /\ mutex = "free" /\ mutex' = "processing"
    /\ UNCHANGED <<pending, monitorVars, controlVars, busVars, slots, crashes>>

\* Mutant: the limit on subscribers is not tested.
SubscribeUnbounded(p) ==
    /\ proc[p].at = "subscribe"
    /\ proc' = [proc EXCEPT ![p].at = "subscribed"]
    /\ slots' = slots + 1
    /\ mutex' = "free"
    /\ UNCHANGED <<pending, monitorVars, controlVars, busVars, crashes>>

Subscribe(p) ==
    /\ proc[p].at = "subscribe"
    /\ proc' = [proc EXCEPT ![p].at = "subscribed"]
    /\ slots' = IF slots < MaxSubscribers THEN slots + 1 ELSE slots
    /\ mutex' = "free"
    /\ UNCHANGED <<pending, monitorVars, controlVars, busVars, crashes>>

InstallHandlers(p) ==
    /\ Step(p, "subscribed", "run")
    /\ UNCHANGED <<pending, monitorVars, controlVars, busVars, mutex, slots, crashes>>

\* exit: with EXIT_SUCCESS, or with a status that asks for a restart.
Exit(p, ok) ==
    proc' = [proc EXCEPT ![p].at = "zombie", ![p].ok = ok, ![p].sig = "none"]

\* A signal that no handler catches ends the process: WIFEXITED is false.
Killed(p) ==
    proc' = [proc EXCEPT ![p].at = "zombie", ![p].killed = TRUE, ![p].sig = "none"]

\* Mutant: the signal is noted, the capture is not told to stop.
HandleSignalNoBreak(p) ==
    /\ Alive(p)
    /\ \E s \in pending[p] :
          /\ pending' = [pending EXCEPT ![p] = @ \ {s}]
          /\ IF ~HasHandlers(p) THEN Killed(p)
             ELSE proc' = [proc EXCEPT ![p].sig = s, ![p].exiting = (s = "int")]
    /\ UNCHANGED <<monitorVars, controlVars, busVars, mutex, slots, crashes>>

\* signal_handler: a second signal after SIGINT exits at once, SIGINT and SIGUSR2 leave
\* the capture; before the handlers are installed SIGUSR2 kills.
HandleSignal(p) ==
    /\ Alive(p)
    /\ \E s \in pending[p] :
          /\ pending' = [pending EXCEPT ![p] = @ \ {s}]
          /\ IF ~HasHandlers(p) THEN Killed(p)
             ELSE IF proc[p].exiting THEN Exit(p, TRUE)
             ELSE proc' = [proc EXCEPT ![p].at = "stop", ![p].sig = s,
                                       ![p].exiting = (s = "int")]
    /\ UNCHANGED <<monitorVars, controlVars, busVars, mutex, slots, crashes>>

\* libpcap reports an error: the capture ends without any signal.
CaptureEnds(p) ==
    /\ Step(p, "run", "stop")
    /\ UNCHANGED <<pending, monitorVars, controlVars, busVars, mutex, slots, crashes>>

\* The end of _main_processing: the exit status depends on the last signal.
Finish(p) ==
    /\ proc[p].at = "stop"
    /\ Exit(p, proc[p].sig # "res")
    /\ UNCHANGED <<pending, monitorVars, controlVars, busVars, mutex, slots, crashes>>

\* Mutant: a crash while exiting restarts the process like any other.
CrashForgetsExiting(p) ==
    /\ crashes < MaxCrashes
    /\ Alive(p)
    /\ \/ HasHandlers(p) /\ \E abort \in BOOLEAN : Exit(p, abort)
       \/ Killed(p)
    /\ crashes' = crashes + 1
    /\ UNCHANGED <<pending, monitorVars, controlVars, busVars, mutex, slots>>

\* Two fatal signals have a handler once it is installed: SIGSEGV asks for a
\* restart, unless the process is already exiting, and SIGABRT exits normally.
\* The others (SIGKILL, SIGFPE, SIGBUS, ...) end the process wherever it is.
Crash(p) ==
    /\ crashes < MaxCrashes
    /\ Alive(p)
    /\ \/ HasHandlers(p) /\ \E abort \in BOOLEAN : Exit(p, abort \/ proc[p].exiting)
       \/ Killed(p)
    /\ crashes' = crashes + 1
    /\ UNCHANGED <<pending, monitorVars, controlVars, busVars, mutex, slots>>

Processing(p) ==
    \/ SubscribeLock(p) \/ Subscribe(p) \/ InstallHandlers(p)
    \/ HandleSignal(p) \/ Finish(p)
-----------------------------------------------------------------------------
(* The control process.                                                    *)

StartServer ==
    /\ control = "boot"
    /\ control' = "accept"
    /\ UNCHANGED <<ctl_ok, request, commands, monitorVars, procVars, busVars,
                   mutex, slots, crashes>>

ReceiveCommand ==
    /\ control = "accept"
    /\ commands < MaxCommands
    /\ \E c \in Commands : request' = c
    /\ commands' = commands + 1
    /\ control' = "publish"
    /\ UNCHANGED <<ctl_ok, monitorVars, procVars, busVars, mutex, slots, crashes>>

PublishLock ==
    /\ control = "publish"
    /\ mutex = "free" /\ mutex' = "control"
    /\ control' = "store"
    /\ UNCHANGED <<ctl_ok, request, commands, monitorVars, procVars, busVars,
                   slots, crashes>>

\* Refused while nobody has replied to the previous message.  The client is
\* answered at once (mmt_bus_publish is called with a NULL reply_code).
PublishStore ==
    /\ control = "store"
    /\ mutex' = "free"
    /\ control' = "accept"
    /\ IF reply_code = "nothing"
       THEN UNCHANGED busVars
       ELSE /\ message' = request
            /\ reply_code' = "nothing"
            /\ is_consumed' = FALSE
    /\ UNCHANGED <<ctl_ok, request, commands, monitorVars, procVars, slots, crashes>>

\* A fatal signal, or ABORT while the socket is being opened; a process that
\* is publishing keeps the mutex.
CrashControl ==
    /\ crashes < MaxCrashes
    /\ control \in {"boot", "accept", "publish", "store"}
    /\ control' = "zombie" /\ ctl_ok' = FALSE
    /\ crashes' = crashes + 1
    /\ UNCHANGED <<request, commands, monitorVars, procVars, busVars, mutex, slots>>

Control == StartServer \/ PublishLock \/ PublishStore

\* Ctrl+C reaches the process group: the monitor ignores it, as do children
\* without handlers; the control process exits wherever it is, its mutex kept.
Interrupt ==
    /\ CtrlC
    /\ IF control \in {"accept", "publish", "store"}
       THEN control' = "zombie" /\ ctl_ok' = TRUE
       ELSE UNCHANGED <<control, ctl_ok>>
    /\ pending' = [p \in Pids |-> IF HasHandlers(p) THEN pending[p] \cup {"int"} ELSE pending[p]]
    /\ UNCHANGED <<request, commands, monitorVars, proc, busVars, mutex, slots, crashes>>
-----------------------------------------------------------------------------
Monitor ==
    \/ ForkProcessing \/ ForkControl
    \/ ReapProcessing \/ ReapControl \/ ReapNobody
    \/ CheckBus \/ Callback \/ ReplyBus

Next ==
    \/ Monitor
    \/ \E p \in Pids : Processing(p) \/ CaptureEnds(p) \/ Crash(p)
    \/ Control \/ ReceiveCommand \/ CrashControl \/ Interrupt

Spec == Init /\ [][Next]_vars

\* The kernel schedules the processes and delivers signals; clients, crashes
\* and the user do as they like.
FairSpec ==
    /\ Spec
    /\ WF_vars(Monitor)
    /\ \A p \in Pids : WF_vars(Processing(p))
    /\ WF_vars(Control)
-----------------------------------------------------------------------------
ProcState ==
    [at : {"none", "boot", "subscribe", "subscribed", "run", "stop", "zombie"},
     sig : {"none", "int", "res"}, exiting : BOOLEAN, ok : BOOLEAN,
     killed : BOOLEAN, conf : Nat]

TypeOK ==
    /\ monitor \in {"fork", "fork_control", "wait", "check", "callback", "reply",
                     "exited", "aborted"}
    /\ proc_pid \in Pids \cup {NeedToCreate, NeedToStop}
    /\ ctl_pid \in {1, NeedToCreate, NeedToStop}
    /\ config \in Nat /\ commands \in 0 .. MaxCommands /\ crashes \in 0 .. MaxCrashes
    /\ msg \in Commands \cup {"none"} /\ request \in Commands \cup {"none"}
    /\ message \in Commands \cup {"none"}
    /\ ret \in {"ok", "running", "stopping", "nothing"}
    /\ reply_code \in {"ok", "running", "stopping", "nothing"}
    /\ proc \in [Pids -> ProcState]
    /\ pending \in [Pids -> SUBSET {"int", "res"}]
    /\ control \in {"none", "boot", "accept", "publish", "store", "zombie"}
    /\ ctl_ok \in BOOLEAN /\ is_consumed \in BOOLEAN
    /\ mutex \in {"free", "control", "processing"}
    /\ slots \in 1 .. MaxSubscribers

\* The monitor loses track of nobody: a process that lives, or waits to be
\* reaped, is the one children_pids names (so at most one processes packets),
\* and the monitor that has left its loop leaves no child behind.
ChildrenKnown ==
    /\ \A p \in Pids : proc[p].at # "none" => proc_pid = p
    /\ control # "none" => ctl_pid = 1
    /\ monitor = "exited" => control = "none" /\ \A p \in Pids : proc[p].at = "none"

\* waitpid is never called without a child: the ABORT after it is dead code.
NeverAborts == monitor # "aborted"

\* A processing process that has handled SIGINT is not re-created, even if it
\* runs into SIGSEGV or SIGABRT or is signalled again while it releases its
\* resources; only a signal that none of its handlers catches undoes the stop.
StoppedStays ==
    [][\A p \in Pids :
          proc[p].exiting /\ proc_pid = p /\ proc_pid' = NeedToCreate => proc[p].killed]_vars

\* SIGINT that a process with handlers has been sent, by a stop command or by
\* Ctrl+C, ends it, whatever other signals come before and after.
StopEndsProcess == \A p \in Pids : ("int" \in pending[p]) ~> ~Alive(p)

\* The mutex is held by a process that is gone: a non-robust mutex is lost.
Orphaned ==
    \/ mutex = "control" /\ control # "store"
    \/ mutex = "processing" /\ \A p \in Pids : proc[p].at # "subscribe"

\* doc/architecture.md: the monitor "recreates a child if the child has been
\* crashed".  (A child that dies with the mutex blocks the monitor: excepted.)
CrashRecovered ==
    (<>Orphaned) \/
    /\ (\E p \in Pids : proc[p].at = "zombie" /\ ~proc[p].ok)
         ~> (\E p \in Pids : proc[p].at = "run")
    /\ (control = "zombie" /\ ~ctl_ok) ~> (control = "accept")

\* Whoever publishes next finds the bus free some time later: "Need to wait
\* then resend again" (server.c) is advice that works.  (A mutex lost to a
\* signal, the subject of AllStopExits, excepted.)
BusEventuallyFree == (<>Orphaned) \/ []<>(reply_code # "nothing")

\* A configuration accepted by the monitor is in force in the end: the
\* processing process runs with it, whatever it was doing when the restart
\* signal came, or does not run.  (The mutex lost to that signal excepted.)
UpdateTakesEffect ==
    (<>Orphaned) \/
    \A v \in 1 .. MaxCommands :
        (config >= v) ~> (proc_pid = NeedToStop
                            \/ \E p \in Pids : proc[p].at = "run" /\ proc[p].conf >= v)

\* Both children have exited normally.
AllStopped ==
    /\ control = "zombie" /\ ctl_ok
    /\ \E p \in Pids : proc[p].at = "zombie" /\ proc[p].ok

\* The monitor has served a start that finds the processing process dead.
ServedStart == monitor = "reply" /\ msg = "start" /\ ret = "ok"

\* The monitor then reaps them and exits, unless a start command that is still
\* on the bus revives the processing process.  (A mutex lost to a signal
\* excepted.)
AllStopExits ==
    (<>Orphaned) \/ (AllStopped ~> (monitor = "exited" \/ ServedStart))

\* main.c: "all children exited normally => the father needs to be exited
\* also", whatever the children were doing when Ctrl+C was pressed.
MonitorExits == AllStopped ~> (monitor = "exited")
=============================================================================
