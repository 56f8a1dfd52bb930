---------------------------- MODULE PeriodicWork ----------------------------
(***************************************************************************)
(* A timer whose ticks queue one work item (timer_work_demo.c).  A tick    *)
(* while the item is queued is lost, a tick while it runs makes it run     *)
(* again.  Unloading stops the timer first, then the work.                 *)
(***************************************************************************)
VARIABLES
  timer,        \* the timer is armed
  pending,      \* the work item is queued
  running,      \* the work function runs
  exit          \* progress of demo_exit()

vars == <<timer, pending, running, exit>>

Init == timer = TRUE /\ pending = FALSE /\ running = FALSE /\ exit = "loaded"

(* The callback queues the work and arms the timer again.                  *)
Tick ==
  /\ timer
  /\ pending' = TRUE
  /\ UNCHANGED <<timer, running, exit>>

Begin ==
  /\ pending /\ ~running
  /\ pending' = FALSE /\ running' = TRUE
  /\ UNCHANGED <<timer, exit>>

End ==
  /\ running
  /\ running' = FALSE
  /\ UNCHANGED <<timer, pending, exit>>

(* hrtimer_cancel() *)
CancelTimer ==
  /\ exit = "loaded"
  /\ exit' = "timerOff" /\ timer' = FALSE
  /\ UNCHANGED <<pending, running>>

(* cancel_work_sync(): the item is taken from the queue, and its function  *)
(* waited for.                                                             *)
CancelWork ==
  /\ exit = "timerOff"
  /\ exit' = "flushing" /\ pending' = FALSE
  /\ UNCHANGED <<timer, running>>

Unload ==
  /\ exit = "flushing" /\ ~running
  /\ exit' = "unloaded"
  /\ UNCHANGED <<timer, pending, running>>

Load ==
  /\ exit = "unloaded"
  /\ exit' = "loaded" /\ timer' = TRUE
  /\ UNCHANGED <<pending, running>>

Next == Tick \/ Begin \/ End \/ CancelTimer \/ CancelWork \/ Unload \/ Load

(* The workqueue runs what is queued, and an unload that has begun goes on.*)
Spec == /\ Init /\ [][Next]_vars
        /\ WF_vars(Begin) /\ WF_vars(End) /\ WF_vars(CancelWork \/ Unload)
=============================================================================
