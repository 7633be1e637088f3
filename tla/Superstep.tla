----------------------------- MODULE Superstep -----------------------------
(***************************************************************************)
(* A superstep as one function of the state it starts in: every active     *)
(* vertex runs its kernel to the end on the committed values, the next     *)
(* values are committed, and the vertices that were marked are the active  *)
(* ones.  A specification whose supersteps implement this one is           *)
(* deterministic, whatever the order in which the kernels run.             *)
(***************************************************************************)
EXTENDS Kernel

CONSTANT UpdatesMod

VARIABLES graph, program, val, out, front, votes, inRun

vars == <<graph, program, val, out, front, votes, inRun>>

-----------------------------------------------------------------------------
(* A kernel in progress: its context and pc, the vertices it has marked and  *)
(* the votes it has cast.                                                    *)
Started(g, vs, vo, v) ==
  [ctx |-> load_context(g, vs, vo, v), pc |-> 0, marked |-> {}, cast |-> 0]

Turned(s, g, p, vs, v) ==
  IF ~Running(p, s.pc) THEN s
  ELSE LET inst == Fetch(p, s.pc)
           turn == Execute(s.ctx, s.pc, g, p, vs, v)
       IN  [ctx    |-> turn.ctx, pc |-> turn.pc,
            marked |-> s.marked \cup Scattered(inst, s.ctx, g, v),
            cast   |-> s.cast + Votes(inst)]

(* The kernel of v after any number of turns, and where it ends. *)
After(g, p, vs, vo, v) ==
  LET run[n \in Nat] == IF n = 0 THEN Started(g, vs, vo, v)
                        ELSE Turned(run[n - 1], g, p, vs, v)
  IN  run

Outcome(g, p, vs, vo, v) ==
  LET run == After(g, p, vs, vo, v)
      end[n \in Nat] == IF Running(p, run[n].pc) THEN end[n + 1] ELSE run[n]
  IN  end[0]

(* cast[0] + ... + cast[n - 1]. *)
Total(cast, n) ==
  LET sum[k \in Nat] == IF k = 0 THEN 0 ELSE sum[k - 1] + cast[k - 1]
  IN  sum[n]

Advanced ==
  LET outcome == [v \in front |-> Outcome(graph, program, val, out, v)]
      marked  == UNION {outcome[v].marked : v \in front}
      cast    == [v \in Nat |-> IF v \in front THEN outcome[v].cast ELSE 0]
      total   == (votes + Total(cast, graph.num_vertices)) % UpdatesMod
  IN  /\ inRun
      /\ out' = [v \in DOMAIN out |-> IF v \in front THEN outcome[v].ctx.v_out ELSE out[v]]
      /\ val' = out'
      /\ front' = marked
      /\ inRun' = (marked # {} /\ total # 0)
      /\ votes' = IF marked = {} THEN total ELSE 0
      /\ UNCHANGED <<graph, program>>

Host == ~inRun /\ UNCHANGED votes

Init == votes \in 0 .. UpdatesMod - 1

Spec == Init /\ [][Host \/ Advanced]_vars
=============================================================================
