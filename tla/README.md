# TLA+ models of the debug server

This directory holds TLA+ models of the debug server in
`src/program/server/server.go`, TLC configurations that model-check them, and
TLAPS proofs of their main invariants.

## The system

The server answers RPC requests about one executable. Every handler holds `s.mu`
for its whole run, so handlers never interleave with each other. Its parts:

| part | code | state |
|---|---|---|
| executable loader | `New`, `loadExecutable`, `parseElf` | `arch`, `dwarfData`, `table` (fixed after `New`) |
| process controller | `Run`, `Resume`, `waitForTrap` | `proc`, `procIsUp`, `stoppedPid`, `stoppedRegs` |
| breakpoint table | `Breakpoint`, `setBreakpoints`, `liftBreakpoints` | `breakpoints` (pc -> saved instruction) |
| expression evaluator | `Eval`, `eval`, `evalAddress`, `lookupSource` | none (reads `table`) |
| frame walker | `Frames` (`evalLocation`, `entryForPC` outside `src/`) | none (reads the stopped task and `dwarfData`) |
| auxiliary file table | `Open`, `ReadAt`, `Close` | `files` |
| trace channel | `ptraceRun` and the `ptrace*` wrappers (outside `src/`) | one OS thread running every ptrace call |

How they interact: `Run` kills the previous debuggee and starts a new one stopped
at exec. `Breakpoint` resolves an expression through the evaluator, then saves the
instruction at each resolved pc by peeking through `s.stoppedPid`. `Resume`
waits for the exec stop on its first call. On later calls, when stopped on a
breakpoint, it single-steps over it. It then pokes the breakpoint instruction at
every pc of the table (`setBreakpoints`) and continues the stopped task. Next it
blocks in `waitForTrap(-1)`. That loop continues every task that reports a clone
event or another signal, and returns the first plain SIGTRAP. Finally `Resume`
pokes the saved instructions back (`liftBreakpoints`) and backs the task's pc up
over the breakpoint instruction (`Rip -= BreakpointSize`).

What makes it hard: the debuggee runs while `Resume` is blocked in `wait`; it has
several threads once it clones (the server sets `PTRACE_O_TRACECLONE`); threads
die together on `exit_group`; `Run` may replace a debuggee that is still running;
and each ptrace request fails unless its target task is in ptrace-stop.

## Modules

- `Tracee.tla`: the debuggee and the kernel's ptrace rules. Its state is
  `tstate` (unused, running, stopped, zombie, reaped), `status` (the wait status
  not yet collected), `pc`, `stepping`, `member` (the tasks of the current
  process), `mem` (each code address holds `"orig"` or `"trap"`) and
  `traceClone`. Actions: `HitBreakpoint` (the x86 `int3` stops the task with the
  pc just past it), `ExecInstr` (an ordinary instruction; SIGTRAP if
  single-stepped), `CloneThread` (the parent reports a clone event, the child a
  SIGSTOP), `ExitGroup` (every task dies and leaves an exit status), `Fault`
  (an instruction at a `FaultAddrs` address raises a signal other than SIGTRAP,
  e.g. SIGSEGV: the task stops with status `"signal"` and its pc unchanged, so
  continuing it with signal 0 re-executes the faulting instruction). The ptrace
  wrappers are not under `src/`. Their effect is modelled from the spec's
  process-trace contract (`PtraceStopped`, `ContinuedState`, `ContinuedStatus`,
  `ReapedState`).
- `Server.tla`: the process controller and the breakpoint table. Its state is
  `proc`, `procIsUp`, `stoppedPid`, `stoppedRip` (`s.stoppedRegs.Rip`), and
  `breakpoints[a]` (the saved instruction, or `"none"`). `rs` names the wait the
  running `Resume` is blocked in. `broken` records that a `Resume` has failed
  since the last `Run`; it is a history variable, used only by properties.
  Actions:
  - `Run`: the kill, then `startProcess` success or failure.
  - `Resume`, up to its first wait: no process; the first call, which waits for
    exec; the step over a breakpoint; or `setBreakpoints` and cont.
  - `WaitForTrapContinue(t)`: one turn of `waitForTrap`'s loop: a clone
    event, a SIGSTOP, an exit or any other signal is continued with signal 0
    (line 326), and the loop waits again.
  - `WaitForTrapReturns(t)`: `waitForTrap` returns. What happens next depends on
    the wait: after the exec wait, set TRACECLONE then set breakpoints and cont;
    after the step wait, set breakpoints and cont; after the final wait, lift the
    breakpoints and rewind the pc.
  - `Breakpoint`: the requested addresses are taken in order, with the duplicate
    check, the peek, and a failure part-way.

  `WaitStep` is one return of `wait4` to the blocked handler, either of the two
  wait actions. `LiveSpec` adds `WF_vars(WaitStep)`; `FaultSpec` adds as well
  weak fairness of each debuggee thread (`DebuggeeFairness`).

  Every ptrace request goes through `s.stoppedPid` and fails unless that task is
  in ptrace-stop, exactly as in the code. The resulting error return is the
  `ResumeFails` disjunct.
- `MCServer.tla`: the TLC instance: three task ids (two in `MCThreads2`), and
  five instruction addresses `2, 4, 6, 8, 10` with the control flow
  `2 -> {4, 8}`, `4 -> 6`, `6 -> {2, 10}`, `8 -> 2`, `10 -> 2`. The instruction
  at 4 clones, the one at 8 exits and the one at 10 faults. The
  breakpoint size is 1, so a pc just past a breakpoint is never an instruction
  start. A Breakpoint request resolves to at most 2 addresses.
- `Debugger.tla`: what the controller promises its client, after the state
  table of the spec (4.5). Its state is `phase` (none, started, running,
  stopped, failed), `table` (the pcs with a breakpoint) and `reported` (the pc
  the last successful `Resume` returned). Its actions are `Run`, `Resume`,
  `Stop`, `Fail` and `AddBreakpoints`. `Server.tla` maps onto it (`AbsPhase`,
  `Dbg`): a `Resume` blocked in a wait is "running", and once one has failed
  since `Run` the phase is "failed" until the next `Run`.
- `ExprEval.tla`: the evaluator and how `Breakpoint` resolves a request through
  it (`eval`, `evalAddress`, `lookupSource`; lines 333-462). A string is
  abstracted to what it denotes: a symbol name, a number printed by `%#x`, or a
  `file:line` pair. A request is a record whose kind is its prefix. The
  symbol/line table is not under `src/`, so `Enclosing` (lookupPC) is modelled
  from the spec. Its `Breakpoint` keeps the order of the code: `eval`, then for
  each string `evalAddress`, the duplicate check and the insert, stopping at the
  first failure.
- `FileTable.tla`: `Open`, `ReadAt` and `Close` over `s.files` (lines 150-220).
  A host file is a handle id. `crashed` records a handler panic.
- `FileDescriptors.tla`: the abstract descriptor table of spec section 6, a
  finite map from descriptor to host file. `Open` takes the lowest free
  descriptor; `Close` frees the one it is given. `FileTable.tla` is shown to
  implement it through `AbsFds` (the slots that are not nil, by index).
- `PatternMatch.tla`: the test helper `matches`/`isHex` of
  `src/ogle/demo/ogler/ogler_test.go` (lines 203-240). A call is a run of the
  function's two loops as steps: `i` and `j` are its 0-based positions in the
  pattern `p` and the value `s`, and `phase` says which loop test comes next
  (`"loop"` for the outer loop, `"hex"` for the inner loop over hex digits) or
  that the call has returned `result` (`"done"`). Actions:
  - `LoopEnd`: the outer loop test fails and `j == len(s)` is returned.
  - `ValueEnd`: the value ran out first.
  - `MatchX`: an `X` needs a hex digit, then the inner loop starts.
  - `HexStep`, `HexEnd`: one turn of the inner loop, and its end with `continue`.
  - `MatchChar`: any other character must be the next one of the value.

  `Init` takes every pattern and value of at most `MaxLen` characters.
  `RefMatch` is the reference, with no recursion: some split `cut` of the value
  gives one piece per pattern character. An `X` piece is any non-empty run of hex
  digits, not necessarily the longest, and any other piece is that character.
- `FrameWalk.tla`: the `Frames` handler (lines 464-537). Its inputs are the
  function's children as the DWARF reader yields them, whether `s.stoppedPid`
  is stopped, and whether `entryForPC` finds a function. A DWARF entry is a
  record: its tag, whether it has children, and its attribute fields in the
  order they appear. A field's value is what it denotes: a frame offset, a
  name, or a type kind (`int`, `other`, or `bad` when the lookup fails).
  The handler runs under `s.mu`, so its two loops are steps:
  - `pc`: which loop it is in (`"walk"`, `"fields"`), or `"idle"`.
  - `k`: the entries read.
  - `fi`: the fields of the current parameter done.
  - `st`: the locals, `location` and what has been rendered.
  - `frame`: `frame.S` so far.

  Actions:
  - `Unimplemented`, `NoFrame`: the early returns (Count, registers, `entryForPC`).
  - `StartWalk`: the walk begins.
  - `ReadEntry`: one turn of the reader loop. It ends at the null entry, skips a
    non-parameter, rejects a parameter with children, or starts on a
    parameter's fields.
  - `FieldStep`/`TypeStep`: one field of the switch.
  - `FieldsEnd`: the parameter is done.

  The string `frame.S` is abstracted to a function from the child index of each
  parameter to a record of what was rendered for it. The code appends in
  reading order, which is index order, and a handler that fails drops the
  string. `SpecFrames` is the reference after spec 4.7: attributes are looked
  up by kind, and the first failing parameter (`Min` of the failing indices)
  gives the error. The checks are an `IF`/`ELSE` chain in the order of the
  code: a `CASE` whose guards overlap chooses any true arm, not the first.
  `entryForPC` and `evalLocation` are outside `src/` and are modelled from the
  spec.
- `MCExprEval.tla`, `MCFileTable.tla`, `MCPatternMatch.tla`, `MCFrameWalk.tla`:
  their TLC instances.
- `ServerProofs.tla`, `ServerRefinement.tla`, `ServerBoundary.tla`,
  `FileTableProofs.tla`, `ExprEvalProofs.tla`, `PatternMatchProofs.tla` and
  `FrameWalkProofs.tla`: the TLAPS proofs.

In `Server.tla`, expression resolution is abstracted: a Breakpoint request is
any list of 1..`MaxReqAddrs` code addresses. `ExprEval.tla` models the
resolution itself, against an always-stopped process.

## Runs

| run | cfg | checks | result |
|---|---|---|---|
| `server_core` | `MCServer.cfg` | `TypeOK`, `BreakpointTransparency`, `PCRewound`, `RunningAtBoundary`, `ImplementsDebugger` (`Dbg!Spec`), `WaitCollectsPendingStops` (liveness), under `LiveSpec` | pass, 1,078,075 distinct states |
| `stopped_at_rest` | `MCServer_StoppedAtRest.cfg` | `DebuggeeStoppedAtRest` | violation |
| `step_over_clone` | `MCServer_StepOver.cfg` | `StepOverStaysArmed` | violation |
| `rerun_resume` | `MCServer_ResumeFails.cfg` | `ResumeFailsOnlyWhenDebuggeeGone` (action property) | violation |
| `fault_livelock` | `MCServer_Fault.cfg` | `FaultEndsResume` (liveness, `FaultSpec`) | violation |
| `file_table` | `MCFileTable.cfg` | `DescriptorsTrackOpenFiles`, `DescriptorsStable` (action property), `ImplementsDescriptors` (refinement) | pass, 303 distinct states |
| `readat_negative_len` | `MCFileTable_NegLen.cfg` | `NeverCrashes` | violation |
| `expr_resolve` | `MCExprEval.cfg` | `ResolvesToReference` | pass, 145 distinct states |
| `breakpoint_src` | `MCExprEval_Src.cfg` | `SrcBreakpointResolves` | violation |
| `pattern_match` | `MCPatternMatch.cfg` | `MatchesAgreesWithReference` | pass, 61,218 distinct states |
| `frame_walk` | `MCFrameWalk.cfg` | `FramesFollowsSpec` | pass, 362,565 distinct states |
| `frames_nil_type` | `MCFrameWalk_Panic.cfg` | `FramesNeverPanics` | violation |

The passing runs' properties:

- `BreakpointTransparency`: whenever there is a debuggee, no handler runs and no
  `Resume` has failed since `Run`, every code address holds its original
  instruction. It says nothing about threads: it passes while other threads
  run at rest (`stopped_at_rest` catches that). It also says nothing about the
  state after a failed wait that leaves the breakpoint instructions in place
  (line 290). No run property covers that state; `SavedOriginal` proves that
  those instructions are never saved as originals.
- `PCRewound`: after a successful `Resume`, the stopped task's pc equals the
  cached `Rip`, and that pc is in the breakpoint table.
- `RunningAtBoundary`: no task ever runs from the middle of an instruction.
  It passes while the step-over bug of `step_over_clone` is present: the
  stepping task runs freely from a real instruction start.
- `ImplementsDebugger`: every behaviour is one of `Debugger.tla`. Breakpoints
  are added only while a process is there to peek. A `Resume` that has not
  failed since `Run` returns a pc of the table.
- `DescriptorsTrackOpenFiles`: every open host file has exactly one descriptor,
  the index it recorded, and no slot names a closed file.
- `DescriptorsStable` (action property): no step moves an open file to another
  descriptor or drops the slot of a descriptor in use; a slot in use stays or
  becomes nil.
- `ImplementsDescriptors`: the file table is the dense table of
  `FileDescriptors.tla`: every `Open` takes the lowest free descriptor.
- `ResolvesToReference`: a `Breakpoint` request that succeeds inserts exactly
  the pcs the spec's grammar resolves it to. For a numeric pc, that is the entry
  of the enclosing function, since `eval` returns the function's name.
- `MatchesAgreesWithReference`: `matches` accepts only values its pattern
  describes. For patterns where no hex digit or `X` follows an `X` (all the
  test's expected forms), it accepts every such value. With a hex digit after an
  `X`, the greedy run swallows that digit, so such patterns never match. This is
  documented behaviour of the helper ("greedily").
- `WaitCollectsPendingStops` (liveness): while `Resume` is blocked in
  `waitForTrap`, every stop status that wait can collect (any task's for
  `wait(-1)`, the stopped task's for `wait(pid)`) is eventually collected, or
  the wait ends. A `wait` that ignored a task it should reap would hang the
  handler. The one exception is a pending fault: a task that refaults forever
  can be reported by `wait(-1)` ahead of every other task (finding 6).
- `FramesFollowsSpec`: for DWARF laid out as Go's linker emits it (location
  before type, type references that resolve), `Frames` answers what spec 4.7
  describes: the parameters in order, each int one with the value at
  `Rsp + PointerSize + offset`, or the first failing parameter's error.

Each property has a mutant of the model that TLC catches (see `PROJECT.json`):

- `liftBreakpoints` never called;
- the rewound registers never written back;
- the stale cached registers rewound;
- a failed peek ignored by `Breakpoint`;
- `Open` always appending instead of reusing the free slot (caught by
  `DescriptorsTrackOpenFiles` and by `ImplementsDescriptors`);
- the slot search's nil test inverted, so `Open` overwrites a slot in use;
- the numeric case of `eval` returning the address instead of the function name;
- `matches` accepting any rest of the value;
- `wait(pid)` treated as `wait(-1)` only for the stopped task;
- the frame pointer taken to be `Rsp`.

The violation runs are three disagreements between the code and the spec:

1. **Other threads keep running** (`stopped_at_rest`). `Resume` stops and
   continues only the task that trapped. A cloned thread keeps running after
   `Resume` returns and the breakpoints are lifted. The spec's invariant I1 and
   its state table say the debuggee is stopped.
2. **Step over a clone** (`step_over_clone`). When the instruction under a
   breakpoint is a clone, the wait for the single step sees the clone event.
   `waitForTrap` then `ptraceCont`s the stepping task (line 326), which runs
   freely with every breakpoint lifted.
3. **Rerun** (`rerun_resume`). `Run` kills the old process and never waits for
   it. The next `Resume`'s `wait(-1)` reaps one of its zombies, and `ptraceCont`
   on it fails. `Resume` then returns an error while the new debuggee is alive.

Three more disagreements come from the new modules:

4. **Negative read length** (`readat_negative_len`). `ReadAt` checks the
   descriptor but not `req.Len`, so `make([]byte, req.Len)` (line 202) panics.
   The spec (section 6) says `ReadAt` returns data or `BadFd`.
5. **`src:` breakpoints** (`breakpoint_src`). `eval` answers `src:<pc>` with a
   `file:line` string. `evalAddress` then fails on it (line 456), because that
   string is neither a symbol nor a number. Spec scenario S3 sets exactly such a
   breakpoint.
Two more come from the fault model and the frame walker:

6. **A fault livelocks `Resume`** (`fault_livelock`). `waitForTrap` continues
   a task stopped by any signal other than SIGTRAP with signal 0 (line 326).
   The signal is dropped and the faulting instruction runs again, so a
   SIGSEGV repeats forever and `Resume` never returns, even when every thread
   is scheduled fairly. The spec (4.5) mandates signal 0 and says signals are
   handled transparently, but it does not say what happens to a fault; its
   Cancellation paragraph expects `Resume` to return.
7. **Unresolvable type** (`frames_nil_type`). When `dwarfData.Type` fails,
   `Frames` calls `t.String()` on the nil type (line 522) and the handler
   panics. Spec sections 6 and 7 say every request answers with a result or an
   error.
Two more points were met while modelling. They are hazards in `PROJECT.json`,
not runs:

- `sym:` and `re:` also resolve data symbols, so `setBreakpoints` can poke the
  breakpoint instruction into data. The spec does not say whether these
  prefixes may name data, so no run states a rule.
- `Frames` peeks an int parameter when it meets the type attribute, using the
  location seen so far (line 524). When the type comes first, as gcc emits it,
  it fails with "no location for FormalParameter", while spec 4.7 decodes the
  location whatever the order. Go's linker emits the location first, so
  `FramesFollowsSpec` is stated for that layout, and no run property covers
  the other order.

Bounds: three task ids are enough for a first process that clones (two ids) and a
second `Run` (the third id). The control-flow graph reaches a clone, an exit
and a loop back from either. Each id is used once, as the kernel never reuses a
pid of a process the tracer has not reaped. TLC reaches every action and every
disjunct; the search is 47 steps deep. Deadlock is checked: once every id is used up, `Resume`
still has error paths, so the system never stops.

The fault address 10 sits after the loop body, so a fault is reached with and
without a clone before it. `server_core` uses no symmetry, because it checks
temporal properties. The run takes about 2.5 minutes. `fault_livelock` needs
only two ids to find its lasso.

Bounds of the other instances:

- `FileTable`: at most 5 host opens (`MaxOpens`), enough to fill slots, close
  some and reuse them out of order. Descriptors from -1 to one past the end are
  requested. Lengths are 0 and 4, plus -1 in the violation run.
- `ExprEval`: three functions (one at the end of the text) and one data symbol.
  Code addresses include ones inside functions and a pc just past the text. Two
  addresses share a line. The 12 requests cover every prefix, unknown symbols,
  bad numbers and a bad syntax, and `re:` matches both functions and data.
- `PatternMatch`: an alphabet with `X`, a hex digit that is a letter (`a`), one
  that is a digit (`0`), and two non-hex characters. Every pattern and value up
  to 3 characters is an initial state, so every loop iteration of `matches`
  on them is reached. A call ends in `"done"` with nothing left to do, so
  deadlock is not checked in this run.
- `FrameWalk`: children lists of up to 2 entries, each a variable or a formal
  parameter with or without children and with up to 3 distinct fields in any
  order. Offsets 0 and 16, one name, `Sp = 100`, `PointerSize = 8`, and a stack
  mapped at 100 and 108 only. So a parameter at offset 0 reads 42, the wrong
  frame pointer reads 1, and offset 16 fails the peek. Whether the task is
  stopped and whether a function is found are initial choices, and every
  request from an idle handler can have either `Count`.

Fairness: `LiveSpec` assumes only `WF_vars(WaitStep)`. While the handler is
blocked in `wait4` and a status it waits for is pending, the kernel wakes it,
and nothing else can take that status. The debuggee is not assumed fair there:
a program may never trap, and then `Resume` rightly never returns. Client
requests are not fair either. `FaultSpec` adds weak fairness of every debuggee
thread, so its lasso is not an unscheduled thread: the scheduler runs every
runnable thread.

## Proofs (`ServerProofs.tla`, checked by `tlapm`)

Assumptions: `TraceeAssumption` and `ServerAssumption`. Breakpoint size is a
positive natural, addresses are naturals of at least that size, `Entry` is an
address, `Succ` maps addresses to sets of addresses, and `NoPid` is not a task id.

- `TypeCorrect`: `Spec => []TypeOK`. `TypeOK` alone is not inductive: the rewind
  `pc - BreakpointSize` stays natural only because every pending SIGTRAP was
  raised at a pc of at least `BreakpointSize`. The strengthening is
  `TypeInv == TypeOK /\ TrapPcBound`, proved one lemma per action.
- `Transparency`: `Spec => []BreakpointTransparency`.
- `SavedOriginal`: `Spec => []SavedInstrIsOriginal`.

Both rest on the inductive invariant `TransparencyInv`, which conjoins `TypeInv`
with three facts:

- `TrapsInTable`: a code address holds the breakpoint instruction only if its pc
  is in the table, because `setBreakpoints` pokes nothing else.
- `SavedInstrIsOriginal`: a pc is peeked only while it is not yet in the table,
  so it still holds its original instruction.
- `CleanBeforeSet`: before `setBreakpoints`, the code is untouched.

`liftBreakpoints` then restores exactly the original code. This was checked
with TLC as an invariant before it was proved.

`SavedInstrIsOriginal` is proved but not in a run. No single plausible mutant of
the model reaches a peek of a trapped pc: a failed final wait sets `stoppedPid`
to 0, and then every peek fails.

## Refinement proof (`ServerRefinement.tla`)

- `Implements`: `Spec => ImplementsDebugger`, the refinement of
  `Debugger.tla`, for every instance.
- `Rewound`: `Spec => []PCRewound`.

Both rest on `RefineInv`, which conjoins `TransparencyInv` with six facts:

- `WaitingUp`: a waiting `Resume` has a started process.
- `LiveIsMember`: every live task belongs to the current process, because `Run`
  kills the old one.
- `TrapStopped`: a pending SIGTRAP belongs to a stopped task.
- `NoProcNoPid`: without a process, `stoppedPid` is 0, so `Breakpoint` peeks
  fail.
- `SteppingOnlyOver`: only the task stepped over is single-stepped.
- `TrapOrigins`: a pending SIGTRAP was raised just past a pc of the table, or it
  is `stoppedPid`'s exec stop or single-step stop.

The exec stop and the single-step stop are collected by the waits for
`stoppedPid`. So once `waitForTrap(-1)` is reached with no failure, it can only
return a breakpoint trap, and that is the `Stop` step of `Debugger.tla`. The
proof maps each action onto an abstract step, one lemma per action. `Rewound`
adds `RewoundInv`: the task `Resume` returned stays out of the running state
until the next `Resume`. Both invariants were checked with TLC on the
`server_core` instance before they were proved.

## Boundary proof (`ServerBoundary.tla`)

- `Boundary`: `Spec => []RunningAtBoundary`. No task ever runs from the middle
  of an instruction, for every instance.

The only way to leave the instruction boundary is a breakpoint trap, which
leaves the pc just past the `int3`. The proof shows that such a task stays
stopped until `Resume` rewinds it. The inductive invariant `BoundaryInv`
conjoins `RefineInv` and `RewoundInv` with four facts:

- `OffBoundaryTrapped`: a live task whose pc is off the boundary is stopped
  with a pending SIGTRAP, and it is not the task being single-stepped over.
  This is the property itself, made strong enough to survive `waitForTrap`'s
  continue, which never sees a SIGTRAP.
- `StatusPending`: a pending status belongs to a stopped or zombie task. So a
  task continued in `waitForTrap` had its status collected first.
- `BrokenDead`: after a failed `Resume`, no handler waits, and the stopped task
  is gone. A failed `Resume` skips `liftBreakpoints` and the rewind, so this is
  what keeps a trapped task from being continued without its rewind.
- `ExecStop`: before the exec wait has returned, the only task is the stopped
  one, at `Entry`, with its exec SIGTRAP pending.

Each action preserves them by a lemma of its own (`BoundaryRun`,
`BoundaryResume`, `BoundaryWaitContinue`, `BoundaryWaitReturns`,
`BoundaryBreakpoint`, `BoundaryDebuggee`). `BoundaryInv` was checked with TLC
on the `server_core` instance (1,078,075 states) before it was proved.

## File table proofs (`FileTableProofs.tla`)

`FilesTracked` proves `DescriptorsTrackOpenFiles`, `FilesStable` proves
`DescriptorsStable` and `DescriptorsRefined` proves `ImplementsDescriptors`, for
every `MaxOpens \in Nat` and every set of integer read lengths.

The invariant alone is not inductive: an `Open` writes the handle
`nextHandle` into a slot, and nothing in `DescriptorsTrackOpenFiles` says that
no slot already holds that handle. The inductive invariant `FTInv` adds the type
of the state (`FTTypeOK`) and `HandlesIssued`: every handle in a slot is below
`nextHandle`. The slot search (`FreeSlot`, a `CHOOSE`) needs a least-number
argument: `FreeSlotExists` takes the least index that is `Len(files)` or a nil
slot, by `WFMin` of `WellFoundedInduction` over `<` on `Nat`, and `FreeSlotSpec`
states what the search returns. `StoreSpec` states what the append-or-reuse
store leaves in the table.

The refinement maps the table to `AbsFds`, the function from each index of a
non-nil slot to its handle. A successful `Open` is the abstract `Open` at
`FreeSlot` (all lower slots are in use, by `FreeSlotSpec`); a `Close` of a good
descriptor is the abstract `Close` of it; `ReadAt` and a failed `Open` leave
`files` and `nextHandle` alone and are stutters.

## Expression proof (`ExprEvalProofs.tla`)

`Resolves` proves `ResolvesToReference` for every symbol table, line table and
set of requests satisfying `ExprEvalAssumption`. The invariant is about the last
step only, so the proof is one case per request kind: for `re:` and plain symbols
the inserted set equals the reference set; a `file:line` request cannot succeed
(`evalAddress` rejects the string `eval` prints, the finding of
`breakpoint_src`); for a numeric pc every function of `Enclosing(pc)` has the
same entry (`EnclosingSameEntry`), which is the pc `evalAddress` returns for the
name `eval` printed. The assumption that a regular expression's matches are
symbols of the table is what `lookupRE` returns.

## Pattern matcher proof (`PatternMatchProofs.tla`)

`MatchesCorrect` proves `MatchesAgreesWithReference` for every alphabet and
length bound. The matcher's loops are steps of the model, so the proof is an
inductive invariant, with no induction over strings. `IInv` is `TypeOK /\
Sound /\ Complete`:
- `Sound`: in the outer loop, some split of the first `i` pattern characters
  ends at `j`. In the inner loop, the `X` being matched has a hex run from its
  piece's start up to `j`, and the run is non-empty or can still grow. Once the
  call has returned true, `RefMatch` holds.
- `Complete`: for a greedy-safe pattern that describes the value, every split
  that fits has `cut[i] = j` in the outer loop. In the inner loop it has
  `cut[i] <= j <= cut[i+1]`. When the call returns, the result is true.

  This is where greediness needs `GreedySafe`. Because the character after an
  `X` is not a hex digit, the fitting split's `X` piece ends exactly where the
  greedy run ends. TLC finds the counterexample `p = "XX"`, `s = "00"` when the
  hypothesis is dropped.

There is one lemma per action (`LoopEndIInv` ... `MatchCharIInv`). Lemmas on
splits (`ExtendPieces`, `PieceGrows`, `NextPiece`) carry a split one character
further. TLC checked `IInv` on every reachable state of `pattern_match` first.

## Frame walker proof (`FrameWalkProofs.tla`)

`FramesCorrect` proves `FramesFollowsSpec` for every children list, offset set,
stack contents, stack pointer and pointer size allowed by `FrameWalkAssumption`.
The invariant follows the handler's two loops:
- `WalkInv(k)`: every parameter among the first `k` children passed the checks
  of the reference, and `frame` is the reference frame of those parameters,
  `RefFrame(k)`.
- `FieldInv(e, fi, st)`: what has been rendered for the current parameter `e`
  is what the reference reads from its first `fi` fields (`AttrUpTo`).
  `location` is 0 until the location field is read, then `fp` plus its offset.
  Once an int type has been handled, `location` is non-zero and mapped, and the
  peeked value is recorded.

Under Go's layout (`GoLayout`), `LocBeforeType` says that the location comes
before the type, so at the type field the location the handler holds is the
one the reference reads. A failure there is the reference's error for this
parameter. `WalkInv(k-1)` makes it the first failing one (`FirstBad`, through
`MinIs`, the least element of a finite set of integers). At the null entry,
`AllGood` turns `WalkInv` into the reference's `Ok` answer.

The proof has one lemma per action (`ReadEntryIInv`, `FieldStepIInv` with one
case per attribute and type outcome, `FieldsEndIInv`, ...). TLC checked the
invariant on every reachable state of `frame_walk`.

Writing this proof showed that a `CASE` with overlapping guards, as the
reference's checks were first written, is in TLA+ a choice among all true
arms. TLC takes the first true arm, so the runs did not show it; the prover
cannot. The checks are now `IF`/`ELSE` chains, which mean what the code does.

## What stays with TLC

- The violation runs.
- The liveness properties `WaitCollectsPendingStops` and `FaultEndsResume`.
  Liveness under fairness needs `ENABLED`, which is out of this prover's reach.
- `FramesNeverPanics` holds only under `GoLayout` (`FramesCorrect` covers it
  there, since the reference never panics). Without that layout it is violated
  (`frames_nil_type`).

Every invariant of a passing run is now proved for every instance.

## Not modelled

- The executable loader (`New`, `loadExecutable`, `parseElf`). It is pure
  parsing of an ELF file, done once before any request, and its results are
  fixed after `New`. In the models its outputs are constants: the symbol table
  in `ExprEval`, and the DWARF entries in `FrameWalk`.
- Nested children lists in `Frames`. The reader loop (line 493) walks every
  entry after the function's, not only its children. A null entry that ends a
  nested list would end the walk, and a parameter of a nested entry would be
  reported as the function's. `FrameWalk`'s children are a flat list. The Go
  linker this code targets gives a function's parameters and locals no
  children, and the code rejects a parameter with children (line 503), which is
  modelled. Reader errors (`r.Next()` failing) are not modelled either: the
  reader is outside `src/`.
- The RPC transport (marshalling of requests and responses). It holds no state
  the handlers share.
- No run checks the re-peek hazard at line 347: a pc peeked while it holds the
  breakpoint instruction would save that instruction as the original. Two
  guards prevent it, and each is enough alone:
  - the `alreadySet` check;
  - the failed `waitForTrap(-1)` that leaves the breakpoint instructions poked
    in assigns 0 to `s.stoppedPid` (line 290), so every later peek fails until
    `Run`.

  TLC finds `SavedInstrIsOriginal` violated only with both guards removed, so
  no single mutant breaks it. It is proved for every instance (`SavedOriginal`).
