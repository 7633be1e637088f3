------------------------------ MODULE Debugger ------------------------------
(***************************************************************************)
(* The debugging methods of class GCVM: debug_add_breakpoint, debug_step   *)
(* and debug_continue, called between runs on a machine that the host has  *)
(* loaded, together with the other methods, which leave the state of the   *)
(* debugger alone.                                                         *)
(***************************************************************************)
EXTENDS GCVM

CONSTANT Breaks   \* the pcs the host may set breakpoints at

ASSUME BreaksAssumption == Breaks \subseteq Nat

VARIABLES
  breakpoints, dpc, current_vertex, finished,   \* struct Debugger
  call,    \* "none", "continue" in the loop of debug_continue, "fault" where
           \* an assertion fails or an instruction past the end is fetched
  clean    \* whether nothing but the debugger was called since the start

dbg == <<breakpoints, dpc, current_vertex, finished>>
allvars == <<vars, dbg, call, clean>>

(* The machine when the host has loaded and seeded it and set active vertices. *)
InitLoaded ==
  /\ graph \in Graphs /\ program \in Programs
  /\ v_self \in [V -> Seeds] /\ v_out = [v \in V |-> 0]
  /\ active \in SUBSET V /\ next_active = {} /\ updates = 0
  /\ phase = "idle" /\ cur = 0 /\ ctx = NoContext /\ pc = 0
  /\ breakpoints = {} /\ dpc = 0 /\ current_vertex = 0 /\ finished = FALSE
  /\ call = "none" /\ clean = TRUE

-----------------------------------------------------------------------------
debug_add_breakpoint(at) ==
  /\ phase = "idle" /\ call = "none"
  /\ breakpoints' = breakpoints \cup {at}
  /\ UNCHANGED <<vars, dpc, current_vertex, finished, call, clean>>

(* Faulty: the next vertex starts where the last one stopped, past the first  *)
(* instruction; the context is stored into the committed values.              *)
check_finished_Late(at, marked, cast, stored) ==
  /\ v_self' = stored
  /\ next_active' = marked /\ updates' = cast /\ UNCHANGED active
  /\ finished' = FALSE
  /\ dpc' = (IF at < 0 THEN 1 ELSE at)
  /\ current_vertex' = (IF at < 0 THEN current_vertex + 1 ELSE current_vertex)

check_finished_Commits(at, marked, cast, stored) ==
  /\ v_self' = (IF at < 0 THEN v_out' ELSE stored)
  /\ next_active' = marked /\ updates' = cast /\ UNCHANGED active
  /\ finished' = FALSE
  /\ dpc' = (IF at < 0 THEN 0 ELSE at)
  /\ current_vertex' = (IF at < 0 THEN current_vertex + 1 ELSE current_vertex)

(* What both methods do before they return or turn: the end of a vertex, and  *)
(* the end of a superstep when the vertices are exhausted.                    *)
check_finished(at, marked, cast, stored) ==
  IF at < 0 /\ current_vertex = graph.num_vertices
  THEN /\ v_self' = v_out'
       /\ active' = marked /\ next_active' = {}
       /\ finished' = (marked = {} \/ cast = 0)
       /\ updates' = IF marked = {} THEN cast ELSE 0
       /\ dpc' = (IF finished' THEN at ELSE 0)
       /\ current_vertex' = (IF finished' THEN current_vertex ELSE 0)
  ELSE /\ v_self' = stored
       /\ next_active' = marked /\ updates' = cast /\ UNCHANGED active
       /\ finished' = FALSE
       /\ dpc' = (IF at < 0 THEN 0 ELSE at)
       /\ current_vertex' = (IF at < 0 THEN current_vertex + 1 ELSE current_vertex)

(* load_context asserts that the vertex exists; the pc indexes the program. *)
InRange == current_vertex \in V /\ Running(program, dpc)

(* One instruction, of whatever vertex, in a context loaded for it alone. *)
Turn ==
  /\ InRange
  /\ LET before == load_context(graph, v_self, v_out, current_vertex)
         inst   == Fetch(program, dpc)
         after  == Execute(before, dpc, graph, program, v_self, current_vertex)
     IN  /\ v_out' = [v_out EXCEPT ![current_vertex] = after.ctx.v_out]
         /\ check_finished(after.pc,
              next_active \cup Scattered(inst, before, graph, current_vertex),
              (updates + Votes(inst)) % UpdatesMod,
              [v_self EXCEPT ![current_vertex] = after.ctx.v_self])
  /\ UNCHANGED <<graph, program, phase, cur, ctx, pc, breakpoints, clean>>

debug_step ==
  /\ phase = "idle" /\ call = "none" /\ ~finished
  /\ Turn
  /\ UNCHANGED call

debug_continue ==
  /\ phase = "idle" /\ call = "none" /\ ~finished
  /\ call' = "continue"
  /\ UNCHANGED <<vars, dbg, clean>>

ContinueTurn ==
  /\ call = "continue" /\ dpc \notin breakpoints
  /\ Turn
  /\ call' = (IF finished' THEN "none" ELSE "continue")

ContinueBreak ==
  /\ call = "continue" /\ dpc \in breakpoints
  /\ call' = "none"
  /\ UNCHANGED <<vars, dbg, clean>>

Fault ==
  /\ \/ phase = "idle" /\ call = "none" /\ ~finished
     \/ call = "continue" /\ dpc \notin breakpoints
  /\ ~InRange
  /\ call' = "fault"
  /\ UNCHANGED <<vars, dbg, clean>>

DebugNext ==
  \/ \E at \in Breaks : debug_add_breakpoint(at)
  \/ debug_step \/ debug_continue \/ ContinueTurn \/ ContinueBreak \/ Fault

(* The other methods do not reset the debugger. *)
Elsewhere ==
  /\ call = "none"
  /\ Host \/ RunStep
  /\ clean' = FALSE
  /\ UNCHANGED <<dbg, call>>

SpecDebug == InitLoaded /\ [][DebugNext \/ Elsewhere]_allvars

-----------------------------------------------------------------------------
(* The instruction that ends the kernel of a vertex, and with the last vertex *)
(* the superstep, where a session is to commit like a run ("Update state",    *)
(* "Update active vertices", graphcore.cpp lines 748 and 753).                *)
KernelEnds ==
  LET before == load_context(graph, v_self, v_out, current_vertex)
  IN  Execute(before, dpc, graph, program, v_self, current_vertex).pc < 0
SuperstepEnds == KernelEnds /\ current_vertex + 1 = graph.num_vertices

(* A session works on the arrays, marks and votes that runs read afterwards.  *)
(* Within a superstep no instruction changes the committed values and the     *)
(* active set, or the next value of a vertex it is not at; it marks nothing   *)
(* but out-neighbours of its vertex, withdraws no mark and casts at most one  *)
(* vote; and the session goes on to the next vertex when, and only when, the  *)
(* kernel of this one has ended.                                              *)
SessionIsLocal ==
  [][Turn /\ ~SuperstepEnds =>
       /\ v_self' = v_self /\ active' = active
       /\ \A v \in V \ {current_vertex} : v_out'[v] = v_out[v]
       /\ next_active \subseteq next_active'
       /\ next_active' \ next_active \subseteq OutNeighbors(graph, current_vertex)
       /\ updates' \in {updates, (updates + 1) % UpdatesMod}
       /\ current_vertex' = IF KernelEnds THEN current_vertex + 1 ELSE current_vertex]_allvars

StraightLine ==
  \A i \in DOMAIN program.code :
    program.code[i].op \notin {"JMP", "JZ", "JNZ", "ITER_NEIGHBORS", "END_ITER", "SCATTER_IF"}

(* The indices of the instructions with the given op that a straight-line     *)
(* kernel has executed when it is at pc.                                      *)
Passed(op, at) == {i \in 0 .. at - 1 : Fetch(program, i).op = op}
KernelEnd == CHOOSE i \in DOMAIN program.code :
               /\ program.code[i].op = "HALT"
               /\ \A j \in 1 .. i - 1 : program.code[j].op # "HALT"
At(v) == IF v < current_vertex THEN KernelEnd ELSE IF v = current_vertex THEN dpc ELSE 0

(* However it is driven, by steps, by continues and past breakpoints, a       *)
(* session executes every instruction of every vertex once, in order: the     *)
(* marks and the votes are those of the kernels up to where it stands.        *)
EachInstructionOnce ==
  clean /\ StraightLine =>
    /\ next_active = UNION {OutNeighbors(graph, v) :
                              v \in {u \in V : Passed("SCATTER", At(u)) # {}}}
    /\ updates = Cardinality({turn \in V \X (0 .. Len(program.code)) :
                                turn[2] \in Passed("VOTE_CHANGE", At(turn[1]))}) % UpdatesMod

(* graphcore.cpp line 577, the assertion of load_context: a session on a      *)
(* loaded machine with kernels that HALT stays inside the arrays of vertices. *)
StaysInRange == clean => call # "fault"
=============================================================================
