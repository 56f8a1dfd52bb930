------------------------------ MODULE Debugger ------------------------------
(***************************************************************************)
(* The kernel debugger (projects/debugger/breakpoint_controller.c).  A     *)
(* thread that reaches the probed function waits in the kprobe handler     *)
(* until a command is written to /dev/kdbg; single stepping makes it wait  *)
(* once more.  All threads and writers share one completion and two flags. *)
(***************************************************************************)
EXTENDS Integers

CONSTANTS
  Threads,      \* threads that call the probed function
  Users,        \* writers of /dev/kdbg
  MaxDone       \* bound: completions that are counted

(* What complete_all() leaves in the completion.                           *)
All == MaxDone + 1

VARIABLES
  pc,           \* of the threads
  user,         \* of the writers
  cmd,          \* the command of a writer
  exit,         \* progress of controller_exit()
  done,         \* cmd_done
  single_step_mode,
  in_breakpoint,
  answered      \* threads for which a command came since they began to wait

flags == <<single_step_mode, in_breakpoint>>
vars == <<pc, user, cmd, exit, done, flags, answered>>

Init ==
  /\ pc = [t \in Threads |-> "run"]
  /\ user = [u \in Users |-> "idle"]
  /\ cmd = [u \in Users |-> "c"]
  /\ exit = "loaded"
  /\ done = 0
  /\ single_step_mode = FALSE /\ in_breakpoint = FALSE
  /\ answered = {}

Goto(t, from, to) == pc[t] = from /\ pc' = [pc EXCEPT ![t] = to]

-----------------------------------------------------------------------------
(* handler_pre() and, from "stepped" on, handler_post().  A wait is made   *)
(* of the flag, the reset of the completion, and the wait itself.          *)
Hit(t) ==
  /\ exit \in {"loaded", "completed"}
  /\ Goto(t, "run", "preReinit")
  /\ in_breakpoint' = TRUE
  /\ UNCHANGED <<user, cmd, exit, done, single_step_mode, answered>>

(* Mutant: the completion is not reset.                                   *)
ReinitKeeps(t) ==
  /\ Goto(t, "preReinit", "preWait") \/ Goto(t, "postReinit", "postWait")
  /\ UNCHANGED done
  /\ answered' = answered \ {t}
  /\ UNCHANGED <<user, cmd, exit, flags>>

Reinit(t) ==
  /\ Goto(t, "preReinit", "preWait") \/ Goto(t, "postReinit", "postWait")
  /\ done' = 0
  /\ answered' = answered \ {t}
  /\ UNCHANGED <<user, cmd, exit, flags>>

Released(t) ==
  /\ done > 0
  /\ Goto(t, "preWait", "preReleased") \/ Goto(t, "postWait", "postReleased")
  /\ done' = IF done = All THEN All ELSE done - 1
  /\ UNCHANGED <<user, cmd, exit, flags, answered>>

Leave(t) ==
  /\ Goto(t, "preReleased", "stepped") \/ Goto(t, "postReleased", "run")
  /\ in_breakpoint' = FALSE
  /\ UNCHANGED <<user, cmd, exit, done, single_step_mode, answered>>

Step(t) ==
  /\ \/ /\ single_step_mode
        /\ Goto(t, "stepped", "postReinit")
        /\ in_breakpoint' = TRUE
     \/ /\ ~single_step_mode
        /\ Goto(t, "stepped", "run")
        /\ UNCHANGED in_breakpoint
  /\ UNCHANGED <<user, cmd, exit, done, single_step_mode, answered>>

-----------------------------------------------------------------------------
(* kdbg_write(): "bt" changes nothing, "ss" and "c" release a thread.  The *)
(* device cannot be opened once the module is going.                       *)
Write(u, c) ==
  /\ user[u] = "idle" /\ exit = "loaded"
  /\ IF in_breakpoint
     THEN user' = [user EXCEPT ![u] = "set"] /\ cmd' = [cmd EXCEPT ![u] = c]
     ELSE user' = [user EXCEPT ![u] = "refused"] /\ UNCHANGED cmd
  /\ UNCHANGED <<pc, exit, done, flags, answered>>

SetMode(u) ==
  /\ user[u] = "set"
  /\ user' = [user EXCEPT ![u] = "complete"]
  /\ single_step_mode' = (cmd[u] = "ss")
  /\ UNCHANGED <<pc, cmd, exit, done, in_breakpoint, answered>>

Waiting == {t \in Threads : pc[t] \in {"preWait", "postWait"}}

Complete(u) ==
  /\ user[u] = "complete" /\ done < MaxDone
  /\ user' = [user EXCEPT ![u] = "accepted"]
  /\ done' = done + 1
  /\ answered' = answered \cup Waiting
  /\ UNCHANGED <<pc, cmd, exit, flags>>

WriteReturns(u) ==
  /\ user[u] \in {"refused", "accepted"}
  /\ user' = [user EXCEPT ![u] = "idle"]
  /\ UNCHANGED <<pc, cmd, exit, done, flags, answered>>

-----------------------------------------------------------------------------
(* controller_exit(), possible when nobody has the device open.  To        *)
(* unregister the probe is to disarm it and to wait for its handlers.      *)
CompleteAll ==
  /\ exit = "loaded" /\ \A u \in Users : user[u] = "idle"
  /\ exit' = "completed"
  /\ done' = All
  /\ answered' = answered \cup Waiting
  /\ UNCHANGED <<pc, user, cmd, flags>>

Disarm ==
  /\ exit = "completed"
  /\ exit' = "disarmed"
  /\ UNCHANGED <<pc, user, cmd, done, flags, answered>>

(* The handlers have returned; the device and the module go.               *)
Unregister ==
  /\ exit = "disarmed" /\ \A t \in Threads : pc[t] = "run"
  /\ exit' = "unloaded"
  /\ UNCHANGED <<pc, user, cmd, done, flags, answered>>

(* The module is loaded again, with its data as at the first time.         *)
Load ==
  /\ exit = "unloaded"
  /\ exit' = "loaded" /\ done' = 0
  /\ single_step_mode' = FALSE /\ in_breakpoint' = FALSE
  /\ UNCHANGED <<pc, user, cmd, answered>>

Handler(t) == Reinit(t) \/ Released(t) \/ Leave(t) \/ Step(t)
Command(u) == SetMode(u) \/ Complete(u) \/ WriteReturns(u)
Unload == Disarm \/ Unregister

Next ==
  \/ \E t \in Threads : Hit(t) \/ Handler(t)
  \/ \E u \in Users : \/ \E c \in {"ss", "c"} : Write(u, c)
                      \/ Command(u)
  \/ CompleteAll \/ Unload \/ Load

Spec == Init /\ [][Next]_vars

-----------------------------------------------------------------------------
(* Properties *)

(* The type invariant; the completion is never taken more often than given. *)
TypeOK ==
  /\ pc \in [Threads -> {"run", "preReinit", "preWait", "preReleased", "stepped",
                         "postReinit", "postWait", "postReleased"}]
  /\ user \in [Users -> {"idle", "set", "complete", "accepted", "refused"}]
  /\ done \in 0 .. All

(* A thread leaves the breakpoint only for a command given, or an unload   *)
(* begun, while it was waiting there: not for one left over from an        *)
(* earlier breakpoint.                                                     *)
ReleasedByCommand ==
  \A t \in Threads : pc[t] \in {"preReleased", "postReleased"} => t \in answered

(* With one thread, a thread that waits is one a command can reach.        *)
WaitingIsVisible ==
  exit = "loaded" => \A t \in Waiting : in_breakpoint
=============================================================================
