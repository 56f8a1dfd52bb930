---------------------------- MODULE CourseProofs ----------------------------
(***************************************************************************)
(* What is proved of the two course modules: the thread that stops and     *)
(* continues two processes by signals (SignalControl) and the kernel       *)
(* debugger's breakpoint (Debugger), for every set of processes, threads   *)
(* and users, and every bound on the completion's counter.                 *)
(***************************************************************************)
EXTENDS MCCourse, TLAPS

(* The time the provers may take for a step. *)
USE SMTT(60)

(* The unload stops the timer, takes the work from the queue and waits for *)
(* its function, in this order (demo_exit()).                              *)
ExitInOrder ==
  /\ exit \in {"timerOff", "flushing", "unloaded"} => ~timer
  /\ exit \in {"flushing", "unloaded"} => ~pending
  /\ exit = "unloaded" => work = "idle"

(* Only the process of the parameter is ever stopped, and the flag says    *)
(* so, except between the signal and the note of it (toggle_work_func());  *)
(* a work function about to continue a process has found the stopped one.  *)
StoppedIsNoted ==
  /\ target_pid \in Pids
  /\ task \in {0, target_pid}
  /\ \A p \in Pids : proc[p] = "stopped" =>
       /\ p = target_pid
       /\ is_stopped <=> work # "sent"
       /\ work = "found" => task = p
       /\ exit # "unloaded"

SignalInv ==
  /\ TypeOK
  /\ is_stopped \in BOOLEAN /\ written \in BOOLEAN
  /\ ExitInOrder
  /\ ~written => StoppedIsNoted

-----------------------------------------------------------------------------
(* The module is loaded with no process stopped.                           *)
LEMMA SignalInit == Init => SignalInv
  BY SignalControlAssumption, Zenon
     DEF Init, SignalInv, TypeOK, ExitInOrder, StoppedIsNoted

(* A step keeps the type and the order of the unload.                      *)
LEMMA SignalTypes ==
  ASSUME SignalInv, [Next]_vars
  PROVE  TypeOK' /\ ExitInOrder' /\ is_stopped' \in BOOLEAN /\ written' \in BOOLEAN
<1> USE SignalControlAssumption DEF SignalInv, TypeOK, ExitInOrder
<1>1. CASE Tick
  BY <1>1 DEF Tick, param
<1>2. CASE Lookup
  BY <1>2 DEF Lookup, param
<1>3. CASE Signal
  BY <1>3 DEF Signal, Send, Alive, param, sched
<1>4. CASE Note
  <2>1. is_stopped' \in BOOLEAN
    BY <1>4, Zenon DEF Note
  <2>2. TypeOK' /\ ExitInOrder' /\ written' \in BOOLEAN
    BY <1>4 DEF Note, param, sched
  <2> QED
    BY <2>1, <2>2
<1>5. CASE CancelTimer \/ CancelWork \/ PutTask
  BY <1>5 DEF CancelTimer, CancelWork, PutTask, param, sched
<1>6. CASE Resume
  BY <1>6 DEF Resume, Send, Alive, param
<1>7. CASE \E p \in Pids : Load(p)
  BY <1>7, Zenon DEF Load, param
<1>8. CASE \E p \in Pids : ProcExit(p) \/ ProcStart(p) \/ ProcContinued(p)
  BY <1>8 DEF ProcExit, ProcStart, ProcContinued, param, sched
<1>9. CASE \E p \in Pids \cup {0} : SetTarget(p)
  BY <1>9 DEF SetTarget, sched
<1>10. CASE UNCHANGED vars
  BY <1>10 DEF vars, param, sched
<1> QED
  BY <1>1, <1>2, <1>3, <1>4, <1>5, <1>6, <1>7, <1>8, <1>9, <1>10 DEF Next, Work, Exit

(* A step that does not write the parameter keeps what is known of stopped *)
(* processes.                                                              *)
LEMMA SignalStopped ==
  ASSUME SignalInv, [Next]_vars, ~written'
  PROVE  StoppedIsNoted'
<1> USE SignalControlAssumption DEF SignalInv, TypeOK, ExitInOrder, StoppedIsNoted
<1>1. CASE Tick
  BY <1>1 DEF Tick, param
<1>2. CASE Lookup
  BY <1>2 DEF Lookup, Alive, param
<1>3. CASE Signal
  BY <1>3 DEF Signal, Send, Alive, param, sched
<1>4. CASE Note
  BY <1>4, Zenon DEF Note, param, sched
<1>5. CASE PutTask
  BY <1>5 DEF PutTask, param, sched
<1>6. CASE CancelTimer \/ CancelWork
  BY <1>6 DEF CancelTimer, CancelWork, param
<1>7. CASE Resume
  BY <1>7 DEF Resume, Send, Alive, param
<1>8. CASE \E p \in Pids : Load(p)
  BY <1>8 DEF Load, param
<1>9. CASE \E p \in Pids : ProcExit(p) \/ ProcStart(p) \/ ProcContinued(p)
  BY <1>9 DEF ProcExit, ProcStart, ProcContinued, param, sched
<1>10. CASE \E p \in Pids \cup {0} : SetTarget(p)
  BY <1>10 DEF SetTarget
<1>11. CASE UNCHANGED vars
  BY <1>11 DEF vars, param, sched
<1> QED
  BY <1>1, <1>2, <1>3, <1>4, <1>5, <1>6, <1>7, <1>8, <1>9, <1>10, <1>11 DEF Next, Work, Exit

(* The invariant is inductive.                                             *)
THEOREM SignalInvariant == Spec => []SignalInv
<1>1. SignalInv /\ [Next]_vars => SignalInv'
  BY SignalTypes, SignalStopped DEF SignalInv
<1> QED
  BY <1>1, SignalInit, PTL DEF Spec

(* Whatever the pids and wherever the unload meets the work function, no   *)
(* process is left stopped by a module that is gone, unless the parameter  *)
(* was written (demo_exit()).                                              *)
THEOREM NoneLeftStopped == Spec => []LeftRunning
<1>1. SignalInv => LeftRunning
  BY Zenon DEF SignalInv, StoppedIsNoted, LeftRunning
<1> QED
  BY <1>1, SignalInvariant, PTL

(* Every step of the module is one of PeriodicWork or changes nothing of   *)
(* it: no tick queues work, and no work runs, once demo_exit() is over.    *)
THEOREM StepsArePeriodic == Spec => Periodic!Init /\ [][Periodic!Next]_(Periodic!vars)
<1>1. Init => Periodic!Init
  BY DEF Init, Periodic!Init
<1>2. SignalInv /\ [Next]_vars => [Periodic!Next]_(Periodic!vars)
  <2> SUFFICES ASSUME SignalInv, [Next]_vars
               PROVE  Periodic!Next \/ UNCHANGED Periodic!vars
    OBVIOUS
  <2> USE DEF Periodic!Next, Periodic!vars
  <2>1. CASE Tick
    BY <2>1 DEF Tick, Periodic!Tick
  <2>2. CASE Lookup
    BY <2>2, Zenon DEF Lookup, Periodic!Begin
  <2>3. CASE Signal \/ Note
    BY <2>3 DEF Signal, Note, sched
  <2>4. CASE PutTask
    BY <2>4 DEF PutTask, Periodic!End, sched
  <2>5. CASE CancelTimer
    BY <2>5 DEF CancelTimer, Periodic!CancelTimer
  <2>6. CASE CancelWork
    BY <2>6 DEF CancelWork, Periodic!CancelWork
  <2>7. CASE Resume
    BY <2>7 DEF Resume, Periodic!Unload
  <2>8. CASE \E p \in Pids : Load(p)
    BY <2>8 DEF Load, Periodic!Load
  <2>9. CASE \E p \in Pids : ProcExit(p) \/ ProcStart(p) \/ ProcContinued(p)
    BY <2>9 DEF ProcExit, ProcStart, ProcContinued, sched
  <2>10. CASE \E p \in Pids \cup {0} : SetTarget(p)
    BY <2>10 DEF SetTarget, sched
  <2>11. CASE UNCHANGED vars
    BY <2>11 DEF vars, sched
  <2> QED
    BY <2>1, <2>2, <2>3, <2>4, <2>5, <2>6, <2>7, <2>8, <2>9, <2>10, <2>11 DEF Next, Work, Exit
<1> QED
  BY <1>1, <1>2, SignalInvariant, PTL DEF Spec

-----------------------------------------------------------------------------
(* Where a thread is in the handlers of the breakpoint.                   *)
Places ==
  {"run", "preReinit", "preWait", "preReleased", "stepped", "postReinit", "postWait",
   "postReleased"}

(* A completion that can still be taken was given to all who wait now:     *)
(* handler_pre() and handler_post() reset it before they wait.             *)
DoneIsAnswer ==
  /\ pc \in [Threads -> Places]
  /\ done # 0 => Debugger!Waiting \subseteq answered
  /\ Debugger!ReleasedByCommand

(* The invariant is inductive.                                             *)
LEMMA DoneIsAnswerKept == DoneIsAnswer /\ [Debugger!Next]_(Debugger!vars) => DoneIsAnswer'
<1> SUFFICES ASSUME DoneIsAnswer, [Debugger!Next]_(Debugger!vars) PROVE DoneIsAnswer'
  OBVIOUS
<1> USE DEF DoneIsAnswer, Debugger!ReleasedByCommand, Debugger!Waiting, Places
<1>1. CASE \E t \in Threads : Debugger!Hit(t)
  BY <1>1 DEF Debugger!Hit, Debugger!Goto
<1>2. CASE \E t \in Threads : Debugger!Reinit(t)
  BY <1>2 DEF Debugger!Reinit, Debugger!Goto, Debugger!flags
<1>3. CASE \E t \in Threads : Debugger!Released(t)
  <2>1. PICK t \in Threads : Debugger!Released(t)
    BY <1>3
  <2>2. done # 0
    BY <2>1 DEF Debugger!Released
  <2> QED
    BY <2>1, <2>2 DEF Debugger!Released, Debugger!Goto, Debugger!flags
<1>4. CASE \E t \in Threads : Debugger!Leave(t)
  BY <1>4 DEF Debugger!Leave, Debugger!Goto
<1>5. CASE \E t \in Threads : Debugger!Step(t)
  BY <1>5 DEF Debugger!Step, Debugger!Goto
<1>6. CASE \E u \in Users, c \in {"ss", "c"} : Debugger!Write(u, c)
  BY <1>6 DEF Debugger!Write, Debugger!flags
<1>7. CASE \E u \in Users : Debugger!SetMode(u) \/ Debugger!WriteReturns(u)
  BY <1>7 DEF Debugger!SetMode, Debugger!WriteReturns, Debugger!flags
<1>8. CASE \E u \in Users : Debugger!Complete(u)
  BY <1>8 DEF Debugger!Complete, Debugger!flags
<1>9. CASE Debugger!CompleteAll
  BY <1>9 DEF Debugger!CompleteAll, Debugger!flags
<1>10. CASE Debugger!Unload \/ Debugger!Load
  BY <1>10 DEF Debugger!Unload, Debugger!Disarm, Debugger!Unregister, Debugger!Load, Debugger!flags
<1>11. CASE UNCHANGED Debugger!vars
  BY <1>11 DEF Debugger!vars, Debugger!flags
<1> QED
  BY <1>1, <1>2, <1>3, <1>4, <1>5, <1>6, <1>7, <1>8, <1>9, <1>10, <1>11
  DEF Debugger!Next, Debugger!Handler, Debugger!Command

(* No thread is released by a command that was left over: complete() and   *)
(* complete_all() count for the threads that wait when they are called.    *)
THEOREM NoStaleRelease == Debugger!Spec => []Debugger!ReleasedByCommand
<1>1. Debugger!Init => DoneIsAnswer
  BY DEF Debugger!Init, DoneIsAnswer, Debugger!ReleasedByCommand, Debugger!Waiting, Places
<1>2. DoneIsAnswer => Debugger!ReleasedByCommand
  BY DEF DoneIsAnswer
<1> QED
  BY <1>1, <1>2, DoneIsAnswerKept, PTL DEF Debugger!Spec

-----------------------------------------------------------------------------
(* The one thread is in the breakpoint exactly while the flag is set, and  *)
(* the module is unloaded only when it is not.                             *)
FlagFollowsThread ==
  /\ pc \in [Threads -> Places]
  /\ \A t \in Threads : pc[t] \notin {"run", "stepped"} => in_breakpoint
  /\ unload = "unloaded" => \A t \in Threads : pc[t] = "run"

(* With one thread the flag follows it through every step.                 *)
LEMMA FlagFollowsKept ==
  ASSUME \A s, t \in Threads : s = t
  PROVE  FlagFollowsThread /\ [Debugger!Next]_(Debugger!vars) => FlagFollowsThread'
<1> USE DEF FlagFollowsThread, Places
<1> SUFFICES ASSUME FlagFollowsThread, [Debugger!Next]_(Debugger!vars) PROVE FlagFollowsThread'
  OBVIOUS
<1>1. CASE \E t \in Threads : Debugger!Hit(t)
  BY <1>1 DEF Debugger!Hit, Debugger!Goto
<1>2. CASE \E t \in Threads : Debugger!Reinit(t) \/ Debugger!Released(t)
  BY <1>2 DEF Debugger!Reinit, Debugger!Released, Debugger!Goto, Debugger!flags
<1>3. CASE \E t \in Threads : Debugger!Leave(t)
  BY <1>3 DEF Debugger!Leave, Debugger!Goto
<1>4. CASE \E t \in Threads : Debugger!Step(t)
  BY <1>4 DEF Debugger!Step, Debugger!Goto
<1>5. CASE \E u \in Users, c \in {"ss", "c"} : Debugger!Write(u, c)
  BY <1>5 DEF Debugger!Write, Debugger!flags
<1>6. CASE \E u \in Users : Debugger!Command(u)
  BY <1>6 DEF Debugger!Command, Debugger!SetMode, Debugger!Complete, Debugger!WriteReturns, Debugger!flags
<1>7. CASE Debugger!CompleteAll \/ Debugger!Unload
  BY <1>7 DEF Debugger!CompleteAll, Debugger!Unload, Debugger!Disarm, Debugger!Unregister, Debugger!flags
<1>8. CASE Debugger!Load
  BY <1>8 DEF Debugger!Load
<1>9. CASE UNCHANGED Debugger!vars
  BY <1>9 DEF Debugger!vars, Debugger!flags
<1> QED
  BY <1>1, <1>2, <1>3, <1>4, <1>5, <1>6, <1>7, <1>8, <1>9 DEF Debugger!Next, Debugger!Handler

(* Of two threads the first to leave clears the flag under the other; with *)
(* one, kdbg_write() never refuses a command for a thread that waits.      *)
THEOREM OneThreadIsVisible ==
  ASSUME \A s, t \in Threads : s = t
  PROVE  Debugger!Spec => []Debugger!WaitingIsVisible
<1>1. Debugger!Init => FlagFollowsThread
  BY DEF Debugger!Init, FlagFollowsThread, Places
<1>2. FlagFollowsThread => Debugger!WaitingIsVisible
  BY Zenon DEF FlagFollowsThread, Debugger!WaitingIsVisible, Debugger!Waiting
<1> QED
  BY <1>1, <1>2, FlagFollowsKept, PTL DEF Debugger!Spec

(* Whichever of the two modules was inserted, each step is one of its own  *)
(* steps or leaves its state alone.                                        *)
LEMMA EitherSteps ==
  [NextEither]_<<vars, debugVars, loaded>> => [Next]_vars /\ [Debugger!Next]_(Debugger!vars)
BY DEF NextEither, vars, param, sched, debugVars, Debugger!vars, Debugger!flags

(* With one thread at the probe, a breakpoint works in every course of the *)
(* two modules: it is left only by a command given while it waited, and    *)
(* kdbg_write() takes a command whenever a thread waits for one.           *)
THEOREM OneThreadBreakpointWorks ==
  ASSUME \A s, t \in Threads : s = t
  PROVE  SpecEither => []BreakpointWorks
<1>1. InitEither => DoneIsAnswer /\ FlagFollowsThread
  BY DEF InitEither, Debugger!Init, DoneIsAnswer, FlagFollowsThread,
         Debugger!ReleasedByCommand, Debugger!Waiting, Places
<1>2. DoneIsAnswer /\ FlagFollowsThread => BreakpointWorks
  BY Zenon DEF DoneIsAnswer, FlagFollowsThread, BreakpointWorks, Debugger!WaitingIsVisible,
               Debugger!Waiting
<1> QED
  BY <1>1, <1>2, EitherSteps, DoneIsAnswerKept, FlagFollowsKept, PTL DEF SpecEither
=============================================================================
