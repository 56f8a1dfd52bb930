---------------------------- MODULE SignalControl ---------------------------
(***************************************************************************)
(* A module that stops and continues a process in turns                    *)
(* (signal_control_demo.c).  The work item of a periodic timer finds the   *)
(* process, sends the signal and notes what it did; unloading continues    *)
(* the process if it was left stopped.  The pid is a parameter that can be *)
(* written while the module is loaded.  Processes end, and pids are used   *)
(* again.                                                                  *)
(***************************************************************************)
EXTENDS Integers

CONSTANTS
  Pids          \* the pids of processes; 0 is none

ASSUME SignalControlAssumption == Pids \subseteq Nat \ {0}

VARIABLES
  timer, pending, exit,
  work,         \* where toggle_work_func() is
  task,         \* the process it has found, 0 if none or if it has ended
  target_pid,
  written,      \* the parameter was ever written while the module was loaded
  is_stopped,
  proc          \* "running", "stopped" or "gone"

sched == <<timer, pending, exit>>
param == <<target_pid, written>>
vars == <<sched, work, task, param, is_stopped, proc>>

Init ==
  /\ timer = TRUE /\ pending = FALSE /\ exit = "loaded"
  /\ work = "idle" /\ task = 0
  /\ target_pid \in Pids /\ written = FALSE
  /\ is_stopped = FALSE
  /\ proc = [p \in Pids |-> "running"]

Alive(p) == p \in Pids /\ proc[p] # "gone"

(* A signal to a process that has ended does nothing.                      *)
Send(p, state) ==
  proc' = IF Alive(p) THEN [proc EXCEPT ![p] = state] ELSE proc

-----------------------------------------------------------------------------
(* toggle_timer_tick() *)
Tick ==
  /\ timer
  /\ pending' = TRUE
  /\ UNCHANGED <<timer, exit, work, task, param, is_stopped, proc>>

(* toggle_work_func(): the process of target_pid is looked up, and may be  *)
(* one that has ended but was not reaped yet; ...                          *)
Lookup ==
  /\ pending /\ work = "idle"
  /\ pending' = FALSE
  /\ \/ work' = "found" /\ target_pid # 0
     \/ work' = "end" /\ ~Alive(target_pid)
  /\ task' = IF Alive(target_pid) THEN target_pid ELSE 0
  /\ UNCHANGED <<timer, exit, param, is_stopped, proc>>

(* ... the signal is sent, ...                                             *)
Signal ==
  /\ work = "found"
  /\ work' = "sent"
  /\ Send(task, IF is_stopped THEN "running" ELSE "stopped")
  /\ UNCHANGED <<sched, task, param, is_stopped>>

(* ... the state noted, ...                                                *)
Note ==
  /\ work = "sent"
  /\ work' = "end"
  /\ is_stopped' = ~is_stopped
  /\ UNCHANGED <<sched, task, param, proc>>

(* ... and the process let go.                                             *)
PutTask ==
  /\ work = "end"
  /\ work' = "idle" /\ task' = 0
  /\ UNCHANGED <<sched, param, is_stopped, proc>>

-----------------------------------------------------------------------------
(* demo_exit() *)
CancelTimer ==
  /\ exit = "loaded"
  /\ exit' = "timerOff" /\ timer' = FALSE
  /\ UNCHANGED <<pending, work, task, param, is_stopped, proc>>

CancelWork ==
  /\ exit = "timerOff"
  /\ exit' = "flushing" /\ pending' = FALSE
  /\ UNCHANGED <<timer, work, task, param, is_stopped, proc>>

(* Mutant: the work function is not waited for.                            *)
ResumeEarly ==
  /\ exit = "flushing"
  /\ exit' = "unloaded"
  /\ IF is_stopped THEN Send(target_pid, "running") ELSE UNCHANGED proc
  /\ UNCHANGED <<timer, pending, work, task, param, is_stopped>>

(* The work is over: the process is continued if it was left stopped.      *)
Resume ==
  /\ exit = "flushing" /\ work = "idle"
  /\ exit' = "unloaded"
  /\ IF is_stopped THEN Send(target_pid, "running") ELSE UNCHANGED proc
  /\ UNCHANGED <<timer, pending, work, task, param, is_stopped>>

(* demo_init() *)
Load(p) ==
  /\ exit = "unloaded"
  /\ exit' = "loaded" /\ timer' = TRUE
  /\ target_pid' = p /\ is_stopped' = FALSE
  /\ UNCHANGED <<written, pending, work, task, proc>>

-----------------------------------------------------------------------------
(* The parameter is written through sysfs, with any number.                *)
SetTarget(p) ==
  /\ exit # "unloaded"
  /\ target_pid' = p /\ written' = TRUE
  /\ UNCHANGED <<sched, work, task, is_stopped, proc>>

(* Processes end and begin, and somebody else continues one.               *)
ProcExit(p) ==
  /\ proc[p] # "gone"
  /\ proc' = [proc EXCEPT ![p] = "gone"]
  /\ task' = IF task = p THEN 0 ELSE task
  /\ UNCHANGED <<sched, work, param, is_stopped>>

ProcStart(p) ==
  /\ proc[p] = "gone"
  /\ proc' = [proc EXCEPT ![p] = "running"]
  /\ UNCHANGED <<sched, work, task, param, is_stopped>>

ProcContinued(p) ==
  /\ proc[p] = "stopped"
  /\ proc' = [proc EXCEPT ![p] = "running"]
  /\ UNCHANGED <<sched, work, task, param, is_stopped>>

Work == Lookup \/ Signal \/ Note \/ PutTask
Exit == CancelWork \/ Resume

Next ==
  \/ Tick \/ Work \/ CancelTimer \/ Exit
  \/ \E p \in Pids : Load(p) \/ ProcExit(p) \/ ProcStart(p) \/ ProcContinued(p)
  \/ \E p \in Pids \cup {0} : SetTarget(p)

(* The workqueue runs what is queued, and an unload that has begun goes on.*)
Spec == Init /\ [][Next]_vars /\ WF_vars(Work) /\ WF_vars(Exit)

-----------------------------------------------------------------------------
(* Properties *)

(* The type invariant; a process is held only while the work runs.         *)
TypeOK ==
  /\ exit \in {"loaded", "timerOff", "flushing", "unloaded"}
  /\ work \in {"idle", "found", "sent", "end"}
  /\ {task, target_pid} \subseteq Pids \cup {0}
  /\ work = "idle" => task = 0
  /\ proc \in [Pids -> {"running", "stopped", "gone"}]

Periodic == INSTANCE PeriodicWork WITH running <- (work # "idle")

(* Timer, work item and unload behave as those of the demonstration of     *)
(* periodic work: no tick and no work after the module is gone, what is    *)
(* queued runs, and an unload that has begun ends.                         *)
IsPeriodic == Periodic!Spec

(* "Ensure target process is left running (SIGCONT) upon unloading"        *)
(* (signal_control_demo.c:114): no process is left stopped by a module     *)
(* that is gone, wherever the unload met the work function and whatever    *)
(* became of the process - unless the parameter was written meanwhile,     *)
(* since the unload continues the process it names at the end.             *)
LeftRunning ==
  exit = "unloaded" /\ ~written => \A p \in Pids : proc[p] # "stopped"
=============================================================================
