----------------------------- MODULE ShellRuns -----------------------------
(***************************************************************************)
(* The runs of a session against what a run promises, whichever engine     *)
(* executes the kernels and whatever the shell did before.  History        *)
(* variables remember the state each superstep started in, and the result  *)
(* of the run before.                                                      *)
(***************************************************************************)
EXTENDS Session

CONSTANT NoRun   \* there was no run with the same inputs

VARIABLES
  out0,     \* v_out when the superstep started
  votes0,   \* updates when the superstep started
  last      \* the values the last run ended with, if nothing but the engine
            \* has changed in what it was given

runVars == <<allVars, out0, votes0, last>>

InitRuns == InitSession /\ out0 = v_out /\ votes0 = updates /\ last = NoRun

Remember == out0' = v_out' /\ votes0' = updates'

SameInputs ==
  /\ graph' = graph /\ program' = program
  /\ [config' EXCEPT !.jit = FALSE] = [config EXCEPT !.jit = FALSE]

NextRuns ==
  \/ Shell /\ Remember /\ last' = IF SameInputs THEN last ELSE NoRun
  \/ /\ EndSuperstep /\ Remember
     /\ last' = IF phase' = "idle" THEN v_self' ELSE last
  \/ /\ Compile \/ Scan \/ InterpretedKernel
        \/ EnterKernel \/ NativeStep \/ NativeStray \/ LeaveKernel
     /\ UNCHANGED <<out0, votes0, last>>

SpecRuns == InitRuns /\ [][NextRuns]_runVars

-----------------------------------------------------------------------------
(* Every superstep of every run, interpreted or compiled, is the superstep of *)
(* the execution model.                                                       *)
S == INSTANCE Superstep WITH
       val <- v_self, out <- out0, front <- active, votes <- votes0, inRun <- phase # "idle"
ImplementsSuperstep == S!Spec

(* README.md line 73, "Deterministic execution".  When every vertex is        *)
(* activated, every kernel writes its vertex and no run leaves votes behind,  *)
(* a run ends with the values of the run before if it is given the same       *)
(* graph, program and configuration, whichever of the two was compiled and    *)
(* whatever else the run before left in the machine.  (Otherwise the values   *)
(* left in v_out and the votes left over show.)                               *)
Repeatable ==
  [][phase # "idle" /\ phase' = "idle" /\ last # NoRun /\ (\A v \in V : ActiveIn(v))
       => v_self' = last]_runVars
=============================================================================
