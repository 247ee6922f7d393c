------------------------------ MODULE Tracee ------------------------------
(***************************************************************************)
(* The debuggee and the kernel's process-trace (ptrace) facility, as the   *)
(* debug server in src/program/server/server.go sees them.                 *)
(*                                                                         *)
(* The debuggee is a set of threads (tasks) running one program over a    *)
(* small code segment.  Every code address holds either the program's own  *)
(* instruction ("orig") or the architecture's breakpoint instruction       *)
(* ("trap") that the server pokes there.  A thread in ptrace-stop has a    *)
(* wait status that the tracer has not yet collected ("none" once it has). *)
(* The ptrace wrappers of the server (ptraceCont, ptraceSingleStep, wait,  *)
(* ptraceSetOptions, ptracePeek/Poke, ptraceGetRegs/SetRegs) live in a     *)
(* file of the repository that is not under src/; they are modelled from  *)
(* the spec's process-trace contract (spec.md sections 4.1 and 6).        *)
(***************************************************************************)
EXTENDS Integers

CONSTANTS
    Threads,        \* the task ids the kernel can hand out (never reused)
    Addrs,          \* instruction start addresses of the code segment
    Entry,          \* the program's entry point, where exec stops it
    Succ,           \* Succ[a]: the addresses control may reach after a
    CloneAddrs,     \* addresses of clone instructions (new thread)
    ExitAddrs,      \* addresses of exit_group instructions
    FaultAddrs,     \* addresses of instructions that fault (SIGSEGV)
    BreakpointSize  \* arch.BreakpointSize: bytes of the breakpoint instruction

ASSUME TraceeAssumption ==
    /\ BreakpointSize \in Nat \ {0}
    /\ Addrs \subseteq Nat
    /\ \A a \in Addrs : a >= BreakpointSize
    /\ Entry \in Addrs
    /\ Succ \in [Addrs -> SUBSET Addrs]
    /\ CloneAddrs \subseteq Addrs
    /\ ExitAddrs \subseteq Addrs
    /\ CloneAddrs \cap ExitAddrs = {}
    /\ FaultAddrs \subseteq Addrs \ (CloneAddrs \cup ExitAddrs)
    /\ \A a \in Addrs \ ExitAddrs : Succ[a] # {}

VARIABLES
    tstate,     \* tstate[t]: "unused", "running", "stopped", "zombie", "reaped"
    status,     \* status[t]: the wait status not yet collected by wait()
    pc,         \* pc[t]: the thread's instruction pointer (Rip)
    stepping,   \* stepping[t]: resumed with PTRACE_SINGLESTEP
    member,     \* the threads of the current debuggee process
    mem,        \* mem[a]: what the current process's code holds at a
    traceClone  \* PTRACE_O_TRACECLONE is set on the current process

traceeVars == <<tstate, status, pc, stepping, member, mem, traceClone>>

ThreadStates == {"unused", "running", "stopped", "zombie", "reaped"}

(* "trap": SIGTRAP with no event (breakpoint, single-step or exec stop);  *)
(* "clone": SIGTRAP | PTRACE_EVENT_CLONE << 8; "sigstop": the initial stop *)
(* of an auto-attached new thread; "exit": the thread has died; "signal": *)
(* a signal-delivery stop for a signal other than SIGTRAP.                *)
WaitStatuses == {"none", "trap", "clone", "sigstop", "exit", "signal"}

Instr == {"orig", "trap"}

Live(t) == tstate[t] \in {"running", "stopped"}

(* A traced thread that is in ptrace-stop: the only kind of thread a       *)
(* ptrace request (peek, poke, cont, step, regs, options) succeeds on;    *)
(* any other target makes the request fail with ESRCH.                    *)
PtraceStopped(t) == t \in Threads /\ tstate[t] = "stopped"


-----------------------------------------------------------------------------
(* The debuggee's own steps.  A running thread fetches the instruction at *)
(* its pc; a pc that is not an instruction start is never fetched (the    *)
(* thread would execute garbage; invariants of the server rule it out).   *)

Fetch(t) == tstate[t] = "running" /\ pc[t] \in Addrs

StopWith(t, st) ==
    /\ tstate' = [tstate EXCEPT ![t] = "stopped"]
    /\ status' = [status EXCEPT ![t] = st]
    /\ stepping' = [stepping EXCEPT ![t] = FALSE]

(* Executing a breakpoint instruction raises SIGTRAP with the pc just past *)
(* it (the x86 int3 retires before the trap).                             *)
HitBreakpoint(t) ==
    /\ Fetch(t)
    /\ mem[pc[t]] = "trap"
    /\ StopWith(t, "trap")
    /\ pc' = [pc EXCEPT ![t] = pc[t] + BreakpointSize]
    /\ UNCHANGED <<member, mem, traceClone>>

(* An ordinary instruction, or a clone that creates no traced thread (the *)
(* option is off, or no free task id).  A single-stepped thread then      *)
(* stops with SIGTRAP.                                                     *)
ExecInstr(t) ==
    /\ Fetch(t)
    /\ mem[pc[t]] = "orig"
    /\ pc[t] \notin ExitAddrs \cup FaultAddrs
    /\ pc[t] \in CloneAddrs => ~traceClone \/ \A u \in Threads : tstate[u] # "unused"
    /\ \E n \in Succ[pc[t]] : pc' = [pc EXCEPT ![t] = n]
    /\ IF stepping[t] THEN StopWith(t, "trap")
                      ELSE UNCHANGED <<tstate, status, stepping>>
    /\ UNCHANGED <<member, mem, traceClone>>

(* clone under PTRACE_O_TRACECLONE: the child is auto-attached and starts  *)
(* in a SIGSTOP stop; the parent stops with the clone event.  The kernel   *)
(* keeps the parent's single-step mode until the tracer resumes it.        *)
CloneThread(t) ==
    /\ Fetch(t)
    /\ mem[pc[t]] = "orig"
    /\ pc[t] \in CloneAddrs
    /\ traceClone
    /\ \E u \in Threads, n \in Succ[pc[t]] :
         /\ tstate[u] = "unused"
         /\ tstate' = [tstate EXCEPT ![t] = "stopped", ![u] = "stopped"]
         /\ status' = [status EXCEPT ![t] = "clone", ![u] = "sigstop"]
         /\ pc' = [pc EXCEPT ![t] = n, ![u] = n]
         /\ stepping' = [stepping EXCEPT ![u] = FALSE]
         /\ member' = member \cup {u}
    /\ UNCHANGED <<mem, traceClone>>

(* exit_group: every thread of the process dies, stopped ones included,   *)
(* and each leaves an exit status for the tracer to collect.              *)
Killed(ts) == [t \in Threads |-> IF t \in ts /\ Live(t) THEN "zombie" ELSE tstate[t]]

KilledStatus(ts) == [t \in Threads |-> IF t \in ts /\ Live(t) THEN "exit" ELSE status[t]]

ExitGroup(t) ==
    /\ Fetch(t)
    /\ mem[pc[t]] = "orig"
    /\ pc[t] \in ExitAddrs
    /\ tstate' = Killed(member)
    /\ status' = KilledStatus(member)
    /\ UNCHANGED <<pc, stepping, member, mem, traceClone>>

(* An instruction that faults (a bad memory access) does not retire: the   *)
(* kernel queues SIGSEGV and the traced thread enters a signal-delivery   *)
(* stop with its pc still on the faulting instruction.  The signal is     *)
(* delivered (here: the process killed) only if the tracer passes it on   *)
(* when it resumes the thread; resumed with signal 0, the thread executes *)
(* the same instruction again.                                             *)
Fault(t) ==
    /\ Fetch(t)
    /\ mem[pc[t]] = "orig"
    /\ pc[t] \in FaultAddrs
    /\ StopWith(t, "signal")
    /\ UNCHANGED <<pc, member, mem, traceClone>>

DebuggeeStep(t) ==
    \/ HitBreakpoint(t)
    \/ ExecInstr(t)
    \/ CloneThread(t)
    \/ ExitGroup(t)
    \/ Fault(t)

-----------------------------------------------------------------------------
(* Effects of the ptrace requests the server issues, on a stopped thread.  *)

(* PTRACE_CONT with signal 0: the stop status is dropped, single-step mode  *)
(* is cleared.                                                             *)
ContinuedState(t) == [tstate EXCEPT ![t] = "running"]
ContinuedStatus(t) == [status EXCEPT ![t] = "none"]

(* wait() collects t's status; a zombie is reaped by it.                   *)
ReapedState(t) == IF tstate[t] = "zombie" THEN [tstate EXCEPT ![t] = "reaped"]
                                          ELSE tstate
=============================================================================
