# GCVM in TLA+

GCVM is a virtual machine for vertex-centric graph programs: a kernel written
in a small assembly language runs once per active vertex and superstep, reads
the values its neighbours had in the superstep before, writes its own next
value, activates neighbours and votes that something changed. This directory
holds a specification of it: the modules, the TLC configurations that check
them on small instances, and the theorems TLAPS checks for every instance.

Source paths are relative to the repository (`src/graphcore.cpp` of the
repository is `src/src/graphcore.cpp` in `PROJECT.json`).

## 1. The system

| Component | State | Operations | Interacts with |
|---|---|---|---|
| Graph storage (`include/graph.h`, `cmd_graph` and `parse_line` of `gcvm.cpp`) | two CSR directions: offsets, columns, edge attributes | parse a text file, write and read the binary file, counting sort per direction | gives the runtime an immutable `Graph` |
| Instruction set (`include/program.h`, `include/state.h`, `exec_*` of `graphcore.cpp`) | the `Context` of one vertex: registers, its two values, the edge iterator and copies of what it points at | one handler per instruction | reads `v_self`; marks `next_active`; adds to `updates` |
| Runtime (`GCVM` of `graphcore.cpp`) | `v_self`, `v_out`, `active`, `next_active`, `updates` | `load_graph`, `load_program`, `set_active`, `set_seed_self`, `run`, `get_results` | drives the interpreter or the JIT |
| Assembler (`include/assembler.h`, `cmd_assemble`) | labels, instructions, constant pool | two passes over the lines | produces the `Program` |
| Debugger (`debug_*` of `graphcore.cpp`) | breakpoints, current vertex, current pc | step, continue, inspect | runs the interpreter's handlers itself |
| JIT (`jit.cpp`, `lowered_ir.h`) | lowered instructions, code, pointers into a graph | `init`, `lower`, `compile` | called by `compile` and `run(true)` |
| Command line and shell (`gcvm.cpp`) | a `VMConfig`, one `GCVM` | `assemble`, `graph`, `run`, `shell` | calls everything above |

What is hard in it is not threads: the code runs sequentially, although its
documents promise parallel execution. It is the following, each listed with its
line and the properties that watch it under `hazards` in `PROJECT.json`.

* **Consistency of reads.** `store_context` writes a whole context, the value
  of the vertex included, back to arrays that later kernels of the same
  superstep read. That a read sees "state from previous superstep"
  (`docs/execution.md`) is a relation among four pieces of state.
* **Order independence.** Section 7 of `docs/runtime.md` allows a parallel
  loop; only one order is ever executed, and so tested.
* **Two buffers, one copy.** The commit copies all of `v_out`, and a vertex that
  is not executed commits what an earlier superstep, or run, left there.
* **Marks and votes across runs.** The loop of `run` has two exits, and what each
  resets decides how the next run behaves.
* **Copies in the iterator.** Neighbour value and edge attribute are copied when
  the iterator moves and read by later instructions.
* **Two engines.** An interpreted and a compiled kernel agree only if the lowering keeps
  every instruction, operand and branch target; the compiled one has other comparisons
  (`ucomisd`), registers that start with anything, and labels that may not exist.
* **Termination.** A run ends because the active set becomes empty or votes cease.
* **Numbers at their edges.** NaN as a key of the constant pool, the sign of the
  pc as the signal for HALT, 14-bit immediates, a 16-bit count of constants, a vote
  counter of 32 bits, vertex counts that need not cover the vertex numbers, empty rows.
* **Files cut off.** Both loaders read what is there and accept it.
* **Stale captures.** Pointers the JIT captured, a compiled kernel reused by an
  interpreter run, a debugger context made anew for every instruction.

What makes each component correct:

* graph storage: the row of a vertex holds exactly its edges, in file order, and
  no cursor leaves its row;
* instruction set: a context stays a context, and the iterator is on an edge of
  the vertex with current copies of it;
* runtime: reads observe the previous superstep, writes are local, marks are
  consumed, convergence is decided on the votes of the superstep, inactive vertices
  keep their value, and a converging kernel reaches the fixed point and stops;
* execution model: any interleaving of the kernels gives one outcome;
* assembler: a branch lands at its label, `LOADI` loads its constant, and the
  runtime's requirements on a program are met;
* debugger: a session executes every instruction once, wherever it is interrupted; until
  the end of the superstep it leaves the committed values and the active set alone, and of
  the marks and votes changes only what the instruction it is at does;
* JIT: compiled kernels do to their vertex, the marks and the votes what the
  interpreter does, in the programs for which the lowering is right; a compiled
  kernel is that of the program loaded;
* command line and shell: what a run computes depends on the graph, the program and
  the configuration, not on the engine or on the runs before.

## 2. The modules

| Module | Models | Extends |
|---|---|---|
| `Doubles` | the type `double`: overflow, infinities, NaN, comparisons that NaN fails | |
| `CSR` | `Graph`: well-formedness, degrees, rows, and `build` as one operator | `Doubles` |
| `Kernel` | every instruction as an operator on the context; one turn of `execute_vertex` | `CSR` |
| `GCVM` | the runtime: host calls between runs, `run` step by step | `Kernel` |
| `BSP` | abstract: kernels as interleaved threads over isolated state, and a barrier | `Kernel` |
| `Superstep` | more abstract: a superstep as one function of the state it starts in | `Kernel` |
| `BSPOrder` | `BSP` with the start of the superstep remembered and the turns of each kernel counted, to be compared with `Superstep` | `BSP` |
| `RunHistory` | `GCVM` with history variables for the votes | `GCVM` |
| `LabelRun` | `GCVM` started inside one run of a label-propagation kernel | `GCVM` |
| `Assembler` | both passes of the assembler, the fields of an instruction, the bytecode file written and read, whole or cut off | `Kernel` |
| `GraphBuild` | from text file to graph file, whole or cut off, to CSR arrays, loop by loop | `CSR` |
| `Debugger` | `debug_step`, `debug_continue`, breakpoints, on the state of `GCVM` | `GCVM` |
| `JIT` | `lower`, what `compile` accepts, and what the code of a lowered instruction does | `Kernel` |
| `Compiled` | one kernel on one vertex, in both engines | `JIT` |
| `Session` | the shell: configurations, loads and runs with either engine, the pointers the JIT keeps | `GCVM`, `JIT` |
| `ShellRuns` | `Session` with history variables, to be compared with `Superstep` | `Session` |
| `KernelProofs`, `GCVMProofs`, `OrderProofs`, `CompiledProofs`, `SessionProofs`, `AssemblerProofs`, `GraphBuildProofs`, `LabelProofs` | theorems | |
| `MC*` | values of the constants for TLC | |

The refinements form a chain: `GCVM` implements `BSP` (checked in `gcvm_core`,
proved in `GCVMProofs`), and `BSP`, seen from barrier to barrier, implements
`Superstep` (checked in `bsp_order`, proved in `OrderProofs`). So the sequential run computes, superstep
by superstep, the function that the documents describe. `Session`, with the
interpreter or with compiled kernels, implements `Superstep` as well (checked in
`session`): the two engines are interchangeable.

### State and code

`GCVM` keeps the names of the code: `graph`, `program`, `v_self`, `v_out`,
`active`, `next_active`, `updates`, and the locals of `run` and `execute_vertex`
(`v` as `cur`, `ctx`, `pc`). The two vectors of flags are the sets of vertices
whose flag is set. `phase` is the place in the code: between calls, in the loop
over the vertices, in a kernel. One action is

* one call of a host method (`load_graph`, `load_program`, `set_active`,
  `set_seed_self`, `StartRun`), possible between runs only;
* one vertex skipped (`SkipInactive`) or loaded (`LoadContext`);
* one turn of the loop of `execute_vertex`: `LocalStep` (control, ALU, memory,
  unknown opcodes), `GraphStep` (which may mark), `SystemStep` (which votes);
* `StoreContext`, where the pc has left the program;
* one barrier, with the three ways on: `StopInactive`, `StopConverged`,
  `NextSuperstep`. Commit, activation and the convergence test are one action
  because nothing runs between them.

`set_active` and `set_seed_self` assert that the vertex exists (`graphcore.cpp` lines 36 and
47); the host of the model names only vertices of the graph. An immediate that no `switch`
has a case for leaves the context alone, as in the code.

In `Debugger` one turn of `debug_continue` and one `debug_step` are an action each: a
single instruction in a context loaded for it alone, stored back, and `check_finished`.
`call` says whether `debug_continue` is in its loop, or where an assertion failed
(`fault`). The other methods of the class are in the model too, without effect on the
debugger, and `clean` remembers that none of them was called.

In `Assembler` a file is read line by line; a line is a token with its operands. The
bytecode file is a count, which wraps like the 16 bits it is written in, and words:
two for a constant, one for an instruction. `from_file(n)` reads its first `n`
words, as a file that was cut off would have them, into a program that may have
loaded another file before.

In `GraphBuild` the state is the vectors under construction, the cursors and the
loop index; an index past the end of `row_offsets` is a stage of its own, `fault`,
where the C++ program has no defined behaviour. A line that `parse_line` refuses ends the
command with an exception (`BadLine`), before anything is written. `ReadFile(n)` reads a file that ends
after `n` whole edges; one that ends within the count throws (`NoCount`).

`JIT` gives `lower` as a function from positions to lowered instructions (NOPs are
dropped; a branch keeps the bytecode index it was given), `CompileOutcome` for what
`compile` makes of it (a kernel, an exception, or the undefined behaviour of a label
outside the vector of labels), and `LExecute` for the machine code of one lowered
instruction, with the flags of `ucomisd`. `Compiled` runs it beside `Execute` on the same
vertex: `Skip` is a NOP of the interpreter, `Together` an instruction of both, `CatchUp`
and `Alone` a step of an engine that is behind, or whose partner has left the kernel.

`Session` is a runtime under the shell. `config` is the configuration, `compiled` is
`jit_compiled`, and `live` says which of the pointers captured by `JIT::init` still
point to the storage in use: `load_graph` replaces the vectors of the vertices, and those
of the graph when they exceed their `capacity`. `NativeStep` runs while the pointers it
uses are live; `NativeStray` is a step through another one, after which nothing is known.
`ShellRun` is the shell's `run` command up to the loop; `Compile` is what `run(true)` does
first. `cmd_run` is the session of one load of each kind and one run. It discards what
`load_config` returns, so that it runs under the default configuration whatever
`-c` names: `jit` is false there, although the example of `README.md` sets it.

### What is abstracted

* **Numbers.** `Doubles` is a format with finite integers `-MaxFin .. MaxFin`,
  two infinities and NaN. It keeps what the properties can tell apart: overflow
  to an infinity, infinity minus infinity, zero over zero, comparisons with NaN.
  It has neither fractions (a quotient is truncated) nor a negative zero.
* **Registers.** `R_COUNT` is a parameter: 32 in the code, 2 or 3 for TLC.
* **Instruction words.** An instruction is its fields; opcode and subop are one name.
  The masking of registers and the sign extension of immediates are modelled
  (`RegField`, `ImmField`), with `HalfField`, half the number of immediates, 2^13 in the
  code and 2 for TLC. `HalfCount`, the same for the count of constants in a file, is
  2^15 in the code and 4 for TLC.
* **The vote counter** wraps at `UpdatesMod`: 2^32 in the code, 4 or 8 for TLC.
* **Text and files.** Tokenizing, printing, option parsing and failures to open a
  file are left out.
* **Machine code.** `asmjit` is taken as correct: a virtual register is a register, and
  each lowered instruction does what the instructions emitted for it do.

## 3. The runs

| Run | Asks | Result |
|---|---|---|
| `gcvm_core` | With a host that loads, seeds and runs in any order: types, currency of iterators, marks consumed, reads of the previous superstep, local writes, and the refinement of `BSP`; from the second superstep of a run on, convergence decided by the votes of that superstep, and inactive vertices that keep their values | holds |
| `label_run` | Does label propagation end, at the least label of the ancestors of each vertex? | holds |
| `bsp_order` | Do all interleavings of the kernels of a superstep give the outcome of `Superstep`? Is each kernel, at every moment, where it would be alone on the values of the start of the superstep? | holds |
| `assembler` | For every file of up to four lines: branches, pooled constants, requirements of the runtime; and for its bytecode file, whole or cut off anywhere: what is loaded | holds |
| `branch_to_start` | The branch property without the exception for instruction 0 | violated |
| `graph_build` | For every file of up to three edges, read whole or cut off: well-formed arrays, the rows of the file, agreement with the operator `build` | holds |
| `vertex_gaps` | Does the vertex count in the file cover the vertex numbers? | violated |
| `debugger` | With any mixture of steps, continues, breakpoints and other calls: is every instruction of every vertex executed once, and does each, within a superstep, disturb nothing but what is its own: not the committed values, the active set, or marks and votes of others? | holds |
| `debug_past_end` | Does a session stay inside the arrays of vertices? | violated |
| `compiled` | Is every portable program accepted by `compile`? Do the two engines stay at the same instruction with the same effects, and end together? | holds |
| `session` | With loads, configurations and runs of either engine in any order: is a compiled kernel that of the program loaded, each superstep that of `Superstep`, and a repeated run the same? | holds |
| `stale_arrays` | Do compiled kernels work on the arrays of the runtime? | violated |

### Bounds and why they are enough

* `MCGCVM` has graphs with parallel and antiparallel edges, a self-loop, a vertex
  without in-edges and one without out-edges, with and without edge attributes, and
  kernels that between them use iteration and gathers, every class of
  instruction, and the three ways a run ends. The state space of `gcvm_core`
  is finite without a bound on steps: values saturate at the infinities
  and the host may reload at any time. `UpdatesMod = 4` makes the counter wrap within
  a few steps (three vertices vote, and votes add up across runs).
* In `label_run` every one of the 3^4 labellings of three graphs with four vertices (a
  chain with a cycle in it, a cycle, a diamond) is a start; `UpdatesMod = 8`
  exceeds the four votes of a superstep, as 2^32 exceeds those of any graph of the code
  that fits into memory.
* `bsp_order` has three threads and kernels of four to seven instructions with no bound
  on the interleaving. Two vertices could not show a value passed on within a superstep.
* In `assembler`, `HalfField = 2` makes offsets overflow within four lines, and
  `HalfCount = 4` the count of constants; the properties speak of what is within reach. Two
  labels, used before and after their definition, and defined twice, occur within four
  lines, and a file can be loaded after a longer one.
* In `graph_build` three edges over three vertices give rows of length 0 to 3 in
  each direction, duplicates and self-loops, and every place for the cut.
* In `debugger` two vertices, so that a session moves on once and ends once, every set of
  active vertices, a breakpoint inside each of two kernels, in one of them at its first vote
  (an instruction lost or repeated there is seen), and runs and reloads at any time. `EachInstructionOnce` speaks of the
  straight-line kernels, in which the marks and votes tell where a session must be.
  With two votes per vertex the counter wraps within a session.
* `compiled` executes about 450 kernels: a load followed by every sequence of two
  instructions of an alphabet of ten or three of seven, with forward and backward branches
  and NOPs in every place, and three kernels with loops, on an empty row and a row of
  two, from values among them NaN. The registers of the compiled kernel start with 2
  where the interpreter has 0.
* `session` has graphs of two sizes, so that a load may or may not exceed the capacity of
  the one before, four kernels, one of which `compile` has no label for, and five
  configurations that differ in the engine, the seeds and the active vertices. Its state
  space is finite without a bound on the commands.

Deadlock is checked in `gcvm_core`: the machine can always be called again. The other
runs stop where a file has been assembled or built, where the one run or kernel they
model returns, where a debugger session has failed an assertion, and where a session
has met an exception or undefined behaviour.

### Fairness

Two runs need it. `label_run` has weak fairness of `RunStep`: the run is one thread in a
loop without waiting, so while it can take a step it does. `compiled` has weak fairness of
its `Next`: both engines are such code, and a step of the pair is a step of one or of
both. `FinishTogether` does not say that a kernel ends, for a kernel may loop for ever; it
says that an engine which has ended, or gone ahead, is met by the other. No fairness is
assumed of the host or of the user, and none in any other run.

### Faulty variants

For each property a variant of one definition, such as `Commit_KeepingMarks` or
`PoolIndex_PastEnd`, stands before the definition it varies. Put in the place of the
definition it makes the property fail (`mutants` in `PROJECT.json`). They model
plausible mistakes and are used nowhere else.

## 4. Where code and documents disagree

Each is a run of its own, expected to find its property violated.

1. `branch_to_start`: a taken branch to instruction 0 yields pc -1, which is HALT.
2. `vertex_gaps`: the vertex count is the number of distinct vertices; a gap in the
   numbering makes `build` index past `row_offsets`.
3. `debug_past_end`: `check_finished` looks for the end of the vertices before it counts
   the vertex that has just halted, so a session never ends: it goes on to a vertex that
   does not exist, where `load_context` fails its assertion. What the code has for the end
   of a superstep ("Update state", "Update active vertices", `graphcore.cpp` lines 748 and
   753) is never reached: a session commits nothing, and its marks and votes stay.
   `SessionIsLocal` does not speak of that step, so that it is right also of a debugger
   that reaches it.
4. `stale_arrays`: `JIT::init` captures the pointers of the vectors once. After another
   `load_graph` compiled kernels read and mark storage that has been freed.

Further behaviour that a reader of the documents may not expect is in the models, and
the properties are stated so as to allow for it:

* `run` leaves its loop before `check_convergence` when no vertex is active, so the votes
  stay in `updates`, and the next run goes on after a first superstep in which nobody voted,
  where `docs/runtime.md` has "no active vertices OR no state changes". From the second
  superstep on the decision is exact (`ConvergenceExactLater`).
* The commit copies `v_out` of every vertex. A seed given to a vertex that is not active is
  overwritten at the first barrier, with 0 or what an earlier run left. From the second
  superstep on both buffers of an unexecuted vertex agree (`InactiveSkippedLater`). For
  these two reasons `Repeatable` speaks of configurations that activate every vertex and of
  kernels that write it and leave no votes behind.
* `LOADI nan` is encoded with pool index 0 whatever stands there (`NumbersLoaded`).
* With more than 32767 constants the count in the bytecode file is negative or too small,
  and the file reads as another program (`Fits`).
* A graph file that is cut off is a graph with fewer edges, and the vertices of the whole
  file; a bytecode file cut off within the constants is a program without instructions.
* `debug_continue` called at a breakpoint returns at once, every time, so only `debug_step`
  gets past it; the debugger executes vertices whatever their active flag; and it clears
  registers and iterator before every instruction (`ContinueBreak`, `Turn`).
* `lower` drops NOPs ("No operation", `docs/isa.md` line 58) but keeps the bytecode indices of
  branches as positions of the lowered program: a branch over a NOP, or to a place after one,
  lands elsewhere. A branch past the last instruction, and an `END_ITER` or `SCATTER_IF` at the
  end, use a label that does not exist, which is undefined. `Portable` is the class of programs
  without these.
* Compiled comparisons, tests and minima read a NaN as both less and equal, the
  interpreter's, like "RD = RS1 < RS2 ? 1 : 0" (`docs/isa.md` line 178), as neither; compiled
  registers start with anything, the interpreter's with 0. `clean` is false from where one of
  these has mattered. No property that a run checks covers what `Portable` and `clean`
  exclude: there the engines do differ.
* `run(false)` executes the compiled kernel if an earlier `run(true)` left one. Since the two
  agree, `Repeatable` does not see it.

## 5. What is proved

Assumptions: those of the modules, each named there (`DoublesAssumption`,
`RegistersAssumption`, `GraphsAssumption`, `ProgramsAssumption`, `SeedsAssumption`,
`UpdatesAssumption`, `LeftoversAssumption`, `ConfigsAssumption`, `WidthsAssumption`,
`LinesAssumption`, `MisreadAssumption`, `EdgesAssumption`, `LabelAssumption`). The host loads well-formed
graphs of any size and programs whose `LOADI` indices lie in their pool. That is not a
leap: `ArraysMatchFile` proves the first of everything `build` makes of a file that does
not send it out of its vectors, and `AssembledRunnable` and `CutFilesRunnable` the second
of everything the assembler and the loader produce. `LabelAssumption` concerns `LabelRun` alone:
the graphs have the same edges in both directions, which `SameEdges` proves of every graph `build`
makes, and fewer vertices than the 32 bits of the vote counter can count; no label is NaN.

Every theorem below is about all values of the constants: any number of vertices,
edges, instructions, registers, lines and configurations.

**`KernelProofs`** has the facts about operators. The format of numbers is closed under
its operations. A gather is a recursive function over a row (`LoopExists`, `LoopType`): it
is defined and yields doubles on the whole row, by an argument about the least
counterexample (`LeastNatural`), since induction principles with an operator parameter are
beyond the prover. `ExecuteType` puts them together: one instruction takes a context to
a context, does not touch the vertex's own value, and keeps `IteratorAt`: an
iterator inside its row is on an edge of that row and the copies match it. The second part has
the same facts about the other engine. `lower` is given by a choice of the pc with as many
instructions kept before it; `LoweredAt` and the lemmas before it show that `Pos` numbers the
kept instructions without gaps, so that the choice is unique. `LExecuteType` is the counterpart
of `ExecuteType`.

**`GCVMProofs`** has the inductive invariant of `GCVM`:

    IInv == TypeOK /\ KernelInv /\ IdleInv

`TypeOK` by itself is not inductive: `StoreContext` writes `ctx.v_self` into `v_self`, and
`END_ITER` indexes the graph with the iterator it finds. `KernelInv` says what the context
was loaded from (the current vertex, an active one, whose value it still holds, with
`IteratorAt`), and `IdleInv` that between runs the loop variable is back at 0 and no mark
is left. From `Spec => []IInv` follow

* `TypeCorrectness`: `Spec => []TypeOK`
* `Currency`: `Spec => []IteratorCurrent`
* `MarksConsumed`: `Spec => []NoMarkOutlivesRun`
* `SuperstepConsistency`: `Spec => ReadsPreviousSuperstep`, through `StoreKeepsValues`
* `LocalWrites`: `Spec => WritesAreLocal`

* `Refinement`: `Spec => ImplementsBSP`. The mapping makes the kernel in progress the only
  thread, and the active vertices below `cur` those that are done. `SkipInactive` is a
  stuttering step, `LoadContext` begins a thread, an instruction is a step of it,
  `StoreContext` finishes it, and the three ends of a superstep are the barrier. `BSP` is an
  instance with its own copy of `Kernel`, so the proof first shows that the two copies of every
  operator agree (`SameExecute` and the lemmas before it).

and, with the history variables of `RunHistory`,

* `ConvergenceIsExact`: `SpecHistory => ConvergenceExactLater`
* `InactiveKept`: `SpecHistory => InactiveSkippedLater`

Both rest on `LaterInv`: after the first superstep of a run the counter is the number of votes cast
since the barrier, as long as it can hold them, and both buffers agree at every vertex that has not
been executed since the barrier.

**`OrderProofs`** proves that the order of execution does not matter.

* `Isolation`: `SpecOrder => []Isolated`
* `OrderIndependence`: `SpecOrder => OrderDoesNotMatter`

The inductive invariant `OrderInv` says that there is a function `turns`, from the vertices to the
numbers, such that each kernel that has begun is where the recursive function `After` of
`Superstep` is after `turns[v]` turns, each kernel that is done is where `Outcome` is, and the
marks and the votes are the union and the sum of theirs (`Progress`), and that `turns` is what
`executed` counts, from the values remembered in `val0` (`Remembered`). `Isolated` follows, since a
kernel in progress is then where `After` has one that is alone. An instruction of one
thread adds one to one of the numbers and leaves the others standing (`StandsStill`), whichever
thread it is. At the barrier all active vertices are done, so what is committed is `Advanced`.
The recursive functions of `Superstep` are choices of a function with given equations:
`RecursionExists` and `RecursionUnique` prove, by the least counterexample, that there is one and
only one such function, and `OutcomeIs` that `Outcome` is the last state of `After`. The sum of the votes is
proved not to depend on the order of its terms where it is needed (`TotalGrows`), and
`WrappedSum` of `KernelProofs` lets the counter wrap at each vote or once at the end.

**`CompiledProofs`** proves the invariants of `Compiled`, the agreement of the two engines:

* `TypeCorrect`: `Spec => []TypeOK`, from `IInv`, which adds to the types that both
  iterators are inside their row (`IteratorAt`) and the degrees those of the graph.
* `Lockstep`: `Spec => []InLockstep`. `InLockstep` is itself inductive on top of `IInv`. Every
  lowered instruction is compared with the one it comes from, from contexts that agree in
  the registers written: the same value written, the same branch taken, the same marks. The
  two loops of a gather are equal by the least edge at which they could differ.
  The case that takes thought is a loop over an empty row, where the interpreter jumps past
  `END_ITER` and the compiled kernel to it: `Leaving` is the state between.
* `SameOutcomes`: `Spec => []SameOutcome`, since at the end the two agree in everything that
  `store_context` and the runtime use.
* `Compiles`: `Spec => []PortableCompiles`.

**`SessionProofs`** has the inductive invariant of sessions,

    SInv == SessionTypeOK /\ CompiledIsCurrent /\ KernelAccepted /\ (Alive => IInv)

where `IInv` is the one of `GCVM` and `Alive` excludes what follows an exception or undefined
behaviour. Loads and runs of the interpreter are actions of `GCVM`, and its lemmas are cited
for them; native steps preserve `IInv` by `LExecuteType`. It yields `SessionTypes` and
`NoStaleKernel`, and shows that the properties of the runtime survive the second engine and
the pointers it keeps: `SessionCurrency`, `SessionMarksConsumed`, `SessionConsistency`
and `SessionLocalWrites` are the properties of `GCVM`, for `SpecSession`.

Its second part is about sessions of the debugger, for kernels of any length.

* `SessionsAreLocal`: `SpecDebug => SessionIsLocal`
* `InstructionsOnce`: `SpecDebug => []EachInstructionOnce`

`SessionsAreLocal` is about every turn but the one that ends the superstep. `IInv` does not
hold here, because a session leaves marks between runs. `DebugInv` is `IInv` without
that part (`StateInv` of `GCVMProofs`). `OnceInv` adds, for a session that no other call has interfered
with, where it stands (`Standing`: at an instruction with no `HALT` before it) and that marks and votes are
those of the instructions passed on every vertex (`Counted`). One turn passes one instruction more on one
vertex; after a `HALT` the session is at the first instruction of the next.

**`AssemblerProofs`** proves the six invariants of `assembler`. The inductive invariant says that
each label stands for the number of instructions above its last definition so far
(`LabelInv`), that each instruction emitted is the encoding of its line with the labels as they
are and the constant where it is (`CodeInv`: the pool only grows, and holds every number
once), and that what was loaded is the reading of some front of the file (`FileInv`). So
`TypeCorrectness`, `ConstantsKept`, `AssembledRunnable`, `CutFiles`, `CutFilesRunnable`, and
`BranchTargets`, whose last step is the arithmetic of the sign-extended field.

**`GraphBuildProofs`** proves that the counting sort is right. `Rank(d, v, n)` is the number of the
first `n` edges whose row in direction `d` is that of `v`, and `Below(d, v, n)` of those in rows
before it. The inductive invariant gives the vectors at every turn of each loop: the counts are
ranks, the sums up to the loop's vertex are `Below`, the cursor of a row is `Below` plus the rank
among the edges met, and each edge met is at `Position`, where it belongs. That no edge
overwrites another is `PositionsDiffer`: positions are in disjoint rows, or in the same row at
different ranks. So `TypeCorrectness`, `CursorsInRows` and `ArraysMatchFile`.
`LoopsBuild`, `Spec => []BuildAgrees`, says that the loops compute the operator `build` of `CSR`,
the graphs of all other models. The operator is a recursive function over the vertices
(`Offsets`) and another over the edges (`Placement`). `OffsetsAre` and `PlacementIs` show that the
functions given by `Below` and `Position` satisfy their equations and that nothing else does
(`SameByStep`); by the pigeonhole principle every position receives an edge (`PositionsCover`).
From the same facts, `SameEdges`: the outgoing and the incoming arrays hold the same edges.

**`LabelProofs`** proves what a whole run computes.

* `LeastLabels`: `SpecLabels => []LeastLabelReached`

On top of `IInv` the invariant `LabelInv` has four parts. `Labelled`: the label of a vertex is not above
its seed and is the seed of an ancestor. `Frontier`: a vertex off the frontier is settled, that
is not above any in-neighbour, and its two buffers agree. `Executed`: a vertex executed in the
superstep has for next value the least of its own and its in-neighbours', and if it falls has marked its
out-neighbours and voted. `Place`: the same for the kernel in progress, instruction by instruction; in
the loop `r0` is the least of the edges below the iterator. At the barrier a vertex that is not marked has no
in-neighbour whose label fell, so it is settled for the new values as well; when no vertex is marked, or
nobody voted, every vertex is. `Ancestors` is a closure, so `SettledPaths` needs no paths and no induction: the
vertices whose label is not below that of `v` form a set closed under in-neighbours. `Counter` bounds the
votes by the vertices scanned, so that the counter does not wrap to 0 in a superstep with votes.

Only model-checked:

* liveness (`RunReturns`, `FinishTogether`), out of this prover's reach;
* the refinement of `Superstep` by `ShellRuns`, for either engine, and with it `Repeatable`;
* what the documents say and the code does not do (section 4).

## 6. Not modelled

* `asmjit`: register allocation, encoding and memory of the machine code, and the lines of
  `JIT::compile` that only name its registers.
* Rounding of `double` beyond overflow, fractions, negative zero.
* Text: tokenizing, number syntax, options, messages, file names, statistics.
* Files that cannot be opened, and files with other damage than a missing end.
* `asmjit`'s errors: `compile` without memory for the code.
* What a debugger session does across `load_graph` and `load_program` is modelled (`Elsewhere`,
  `Fault`) without a property: no document says what it should do.

## 7. Running

    tlc -config GCVMCore.cfg MCRunHistory    # any run of section 3, see PROJECT.json
    tlapm CompiledProofs.tla                 # any module of section 5

The longest run takes less than two minutes on two workers; the longest proof, `CompiledProofs`, a few
minutes.

## 8. Plan

Done: the core (`Doubles`, `CSR`, `Kernel`, `GCVM`), its abstract specifications (`BSP`,
`Superstep`), the assembler and the construction of graphs with their files, the debugger, the
JIT, the shell, and the theorems of section 5.

What could come next:

* `ImplementsSuperstep` as a theorem. That sessions implement `Superstep` with the interpreter
  follows the lines of `OrderProofs`, with one thread. With compiled kernels it needs `Lockstep`
  for a kernel within a session, and an assumption on the programs (portable, and clean of the
  codes on which the two execution paths differ), without which it is false.
  `Repeatable` follows, since `Superstep` is a function.
