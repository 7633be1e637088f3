----------------------------- MODULE RunHistory -----------------------------
(***************************************************************************)
(* The decisions at the barrier against the superstep they conclude.       *)
(* History variables remember how many times VOTE_CHANGE was executed in   *)
(* the superstep in progress, where the code has a counter that wraps and  *)
(* that only some ways out of a superstep reset, and whether the superstep *)
(* is the first of its run.                                                *)
(***************************************************************************)
EXTENDS GCVM

VARIABLES
  cast,    \* the votes of the superstep
  first    \* whether it is the first of its run

historyVars == <<vars, cast, first>>

InitHistory == Init /\ cast = 0 /\ first = TRUE

NextHistory ==
  \/ Host /\ cast' = 0 /\ first' = TRUE
  \/ /\ SkipInactive \/ LoadContext \/ LocalStep \/ GraphStep \/ StoreContext
     /\ UNCHANGED <<cast, first>>
  \/ SystemStep /\ cast' = cast + 1 /\ UNCHANGED first
  \/ Barrier /\ cast' = 0 /\ first' = FALSE

SpecHistory == InitHistory /\ [][NextHistory]_historyVars

-----------------------------------------------------------------------------
(* runtime.md lines 191-193: "Execution stops when: no active vertices OR no  *)
(* state changes".  From the second superstep of a run on this is exact: the  *)
(* run goes on if and only if some vertex was activated and some vertex       *)
(* voted, in a superstep with fewer votes than the unsigned 32-bit counter    *)
(* can tell from none.  (In the first superstep it also holds the votes of    *)
(* earlier runs that ended with no active vertex, however many they are.)     *)
ConvergenceExactLater ==
  [][Barrier /\ ~first /\ cast < UpdatesMod
       => (phase' = "scan" <=> active' # {} /\ cast # 0)]_historyVars

(* execution.md line 101: "Inactive vertices are skipped".  From the second   *)
(* superstep of a run on a vertex that is not active keeps its value: both    *)
(* buffers of a vertex agree until it is executed, so the commit of all of    *)
(* v_out rewrites the values of the inactive vertices with themselves.  (In   *)
(* the first superstep it replaces the value the host seeded.)                *)
InactiveSkippedLater ==
  [][Barrier /\ ~first => \A v \in V \ active : v_self'[v] = v_self[v]]_historyVars
=============================================================================
