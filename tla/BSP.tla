-------------------------------- MODULE BSP --------------------------------
(***************************************************************************)
(* What a run promises: bulk synchronous parallel execution.  The kernels  *)
(* of the active vertices run as threads, interleaved instruction by       *)
(* instruction in any order; a kernel reads the committed values and       *)
(* writes only its own next value, marks and votes; the barrier is passed  *)
(* when every active vertex is done.  GCVM, which runs them one after the  *)
(* other over the same arrays, implements this.                            *)
(*                                                                         *)
(* Between runs the host may change everything but the marks and the votes *)
(* (the votes too survive a run that ends with no active vertex).          *)
(***************************************************************************)
EXTENDS Kernel

CONSTANT UpdatesMod

VARIABLES
  graph, program,
  val,       \* the committed value of each vertex
  out,       \* its next value
  front,     \* the active vertices of the superstep
  marks,     \* the vertices activated for the next one
  votes,     \* the votes of the superstep
  threads,   \* the context and pc of each kernel in progress
  done,      \* the active vertices whose kernel has finished
  inRun

vars == <<graph, program, val, out, front, marks, votes, threads, done, inRun>>

Host ==
  /\ ~inRun
  /\ UNCHANGED <<marks, votes, threads, done>>

(* Faulty: a vertex that is done may run again. *)
Begin_Again(v) ==
  /\ inRun /\ v \in front \ DOMAIN threads
  /\ threads' = [u \in DOMAIN threads \cup {v} |->
                   IF u = v THEN [ctx |-> load_context(graph, val, out, v), pc |-> 0]
                   ELSE threads[u]]
  /\ UNCHANGED <<graph, program, val, out, front, marks, votes, done, inRun>>

Begin(v) ==
  /\ inRun /\ v \in front \ (done \cup DOMAIN threads)
  /\ threads' = [u \in DOMAIN threads \cup {v} |->
                   IF u = v THEN [ctx |-> load_context(graph, val, out, v), pc |-> 0]
                   ELSE threads[u]]
  /\ UNCHANGED <<graph, program, val, out, front, marks, votes, done, inRun>>

Instr(v) ==
  LET t    == threads[v]
      inst == Fetch(program, t.pc)
  IN  /\ inRun /\ v \in DOMAIN threads /\ Running(program, t.pc)
      /\ threads' = [threads EXCEPT ![v] = Execute(t.ctx, t.pc, graph, program, val, v)]
      /\ marks' = marks \cup Scattered(inst, t.ctx, graph, v)
      /\ votes' = (votes + Votes(inst)) % UpdatesMod
      /\ UNCHANGED <<graph, program, val, out, front, done, inRun>>

(* Faulty: the next value of a vertex is visible before the barrier. *)
Finish_Visible(v) ==
  /\ inRun /\ v \in DOMAIN threads /\ ~Running(program, threads[v].pc)
  /\ out' = [out EXCEPT ![v] = threads[v].ctx.v_out]
  /\ val' = [val EXCEPT ![v] = threads[v].ctx.v_out]
  /\ done' = done \cup {v}
  /\ threads' = [u \in DOMAIN threads \ {v} |-> threads[u]]
  /\ UNCHANGED <<graph, program, front, marks, votes, inRun>>

Finish(v) ==
  /\ inRun /\ v \in DOMAIN threads /\ ~Running(program, threads[v].pc)
  /\ out' = [out EXCEPT ![v] = threads[v].ctx.v_out]
  /\ done' = done \cup {v}
  /\ threads' = [u \in DOMAIN threads \ {v} |-> threads[u]]
  /\ UNCHANGED <<graph, program, val, front, marks, votes, inRun>>

Barrier ==
  /\ inRun /\ front \subseteq done
  /\ val' = out
  /\ front' = marks /\ marks' = {} /\ done' = {}
  /\ inRun' = (marks # {} /\ votes # 0)
  /\ votes' = IF marks = {} THEN votes ELSE 0
  /\ UNCHANGED <<graph, program, out, threads>>

Run == (\E v \in front : Begin(v) \/ Instr(v) \/ Finish(v)) \/ Barrier

Next == Host \/ Run

Init ==
  /\ marks = {} /\ votes = 0 /\ done = {}
  /\ threads = [v \in {} |-> 0]
  /\ ~inRun

Spec == Init /\ [][Next]_vars
=============================================================================
