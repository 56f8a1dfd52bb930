------------------------------ MODULE MCCourse ------------------------------
(***************************************************************************)
(* A kernel with one of two modules of the course loaded: the debugger or  *)
(* the signal demonstration.  They share no state, so nothing is lost by   *)
(* leaving out the kernels in which both are.                              *)
(***************************************************************************)
EXTENDS SignalControl

CONSTANTS Threads, Users, MaxDone

ASSUME CourseAssumption == MaxDone \in Nat \ {0}

VARIABLES
  pc, user, cmd, unload, done, single_step_mode, in_breakpoint, answered,
  loaded        \* the module

debugVars ==
  <<pc, user, cmd, unload, done, single_step_mode, in_breakpoint, answered>>

Debugger == INSTANCE Debugger WITH exit <- unload

InitEither ==
  /\ loaded \in {"debugger", "signal"}
  /\ Init
  /\ Debugger!Init

NextEither ==
  /\ UNCHANGED loaded
  /\ \/ loaded = "signal" /\ Next /\ UNCHANGED debugVars
     \/ loaded = "debugger" /\ Debugger!Next /\ UNCHANGED vars

SpecEither ==
  /\ InitEither
  /\ [][NextEither]_<<vars, debugVars, loaded>>
  /\ WF_vars(Work) /\ WF_vars(Exit)

(* A thread leaves the breakpoint only for a command given, or an unload   *)
(* begun, while it was waiting there, not for one left over; and a thread  *)
(* that waits is one a command can reach, if it is the only one.           *)
BreakpointWorks == Debugger!ReleasedByCommand /\ Debugger!WaitingIsVisible
=============================================================================
