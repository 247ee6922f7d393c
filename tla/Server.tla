------------------------------ MODULE Server ------------------------------
(***************************************************************************)
(* The process controller and breakpoint table of the debug server,        *)
(* src/program/server/server.go: the handlers Run, Resume and Breakpoint,  *)
(* with waitForTrap, setBreakpoints and liftBreakpoints.                   *)
(*                                                                         *)
(* Every handler holds s.mu for its whole duration, so handlers never      *)
(* interleave with each other; a handler does interleave with the          *)
(* debuggee while it blocks in wait().  Resume is therefore split at its   *)
(* waits: rs names the wait the Resume in progress is blocked in, and      *)
(* rs = "idle" means no handler holds the mutex.                           *)
(***************************************************************************)
EXTENDS Tracee, Sequences

CONSTANTS
    NoPid,       \* the zero pid: s.stoppedPid before Run and after a failed wait
    MaxReqAddrs  \* bound: how many addresses one Breakpoint request resolves to

ASSUME ServerAssumption ==
    /\ NoPid \notin Threads
    /\ MaxReqAddrs \in Nat \ {0}

VARIABLES
    proc,         \* s.proc # nil
    procIsUp,     \* s.procIsUp
    stoppedPid,   \* s.stoppedPid
    stoppedRip,   \* s.stoppedRegs.Rip
    breakpoints,  \* breakpoints[a]: origInstr of s.breakpoints[a], or "none"
    rs,           \* the wait the Resume in progress is blocked in, or "idle"
    broken        \* history: a Resume has failed since the last Run

serverVars == <<proc, procIsUp, stoppedPid, stoppedRip, breakpoints, rs, broken>>
vars == <<traceeVars, serverVars>>

Phases == {"idle", "waitExec", "waitStep", "waitTrap"}

(* The address lists a Breakpoint request can resolve to (s.eval).         *)
Requests == UNION {[1..n -> Addrs] : n \in 1..MaxReqAddrs}

(* _, ok := s.breakpoints[x]                                              *)
HasBreakpoint(x) == x \in Addrs /\ breakpoints[x] # "none"

(* For properties: a debuggee exists and one of its threads is alive.     *)
ProcAlive == proc /\ \E t \in member : Live(t)

-----------------------------------------------------------------------------
Init ==
    /\ tstate = [t \in Threads |-> "unused"]
    /\ status = [t \in Threads |-> "none"]
    /\ pc = [t \in Threads |-> 0]
    /\ stepping = [t \in Threads |-> FALSE]
    /\ member = {}
    /\ mem = [a \in Addrs |-> "orig"]
    /\ traceClone = FALSE
    /\ proc = FALSE
    /\ procIsUp = FALSE
    /\ stoppedPid = NoPid
    /\ stoppedRip = 0
    /\ breakpoints = [a \in Addrs |-> "none"]
    /\ rs = "idle"
    /\ broken = FALSE

-----------------------------------------------------------------------------
(* Run: kill the previous process if there is one (nobody waits for it),   *)
(* reset the process state, and fork/exec the executable under ptrace.     *)
(* The child stops at exec with SIGTRAP; Run does not wait for it.  The    *)
(* breakpoint table is kept.                                               *)
Run ==
    /\ rs = "idle"
    /\ LET killed == IF proc THEN Killed(member) ELSE tstate
           killedStatus == IF proc THEN KilledStatus(member) ELSE status
       IN \/ \E u \in Threads :
               /\ tstate[u] = "unused"
               /\ tstate' = [killed EXCEPT ![u] = "stopped"]
               /\ status' = [killedStatus EXCEPT ![u] = "trap"]
               /\ pc' = [pc EXCEPT ![u] = Entry]
               /\ stepping' = [stepping EXCEPT ![u] = FALSE]
               /\ member' = {u}
               /\ mem' = [a \in Addrs |-> "orig"]
               /\ traceClone' = FALSE
               /\ proc' = TRUE
               /\ stoppedPid' = u
          \/ \* startProcess fails: s.proc stays nil
             /\ tstate' = killed
             /\ status' = killedStatus
             /\ proc' = FALSE
             /\ stoppedPid' = NoPid
             /\ UNCHANGED <<pc, stepping, member, mem, traceClone>>
    /\ procIsUp' = FALSE
    /\ stoppedRip' = 0
    /\ broken' = FALSE
    /\ UNCHANGED <<breakpoints, rs>>

-----------------------------------------------------------------------------
(* A Resume returns an error: the mutex is released, state stays as is.    *)
ResumeFails ==
    /\ rs' = "idle"
    /\ broken' = TRUE

(* setBreakpoints: poke the breakpoint instruction at every pc of the      *)
(* table, through s.stoppedPid.                                            *)
InstalledMem == [a \in Addrs |-> IF HasBreakpoint(a) THEN "trap" ELSE mem[a]]

(* Faulty variant (mutation): liftBreakpoints never called.              *)
LiftedMemDropped == mem

(* liftBreakpoints: poke every saved original instruction back.            *)
LiftedMem == [a \in Addrs |-> IF HasBreakpoint(a) THEN breakpoints[a] ELSE mem[a]]

(* setBreakpoints, then ptraceCont(s.stoppedPid, 0), then block in         *)
(* waitForTrap(-1).  The pokes and the cont all fail (ESRCH) unless       *)
(* s.stoppedPid is in ptrace-stop.                                         *)
SetBreakpointsAndCont ==
    IF PtraceStopped(stoppedPid)
    THEN /\ mem' = InstalledMem
         /\ tstate' = ContinuedState(stoppedPid)
         /\ status' = ContinuedStatus(stoppedPid)
         /\ stepping' = [stepping EXCEPT ![stoppedPid] = FALSE]
         /\ rs' = "waitTrap"
         /\ UNCHANGED broken
    ELSE /\ ResumeFails
         /\ UNCHANGED <<mem, tstate, status, stepping>>

(* Resume, up to its first wait.                                           *)
Resume ==
    /\ rs = "idle"
    /\ \/ /\ ~proc
          /\ ResumeFails
          /\ UNCHANGED <<traceeVars, procIsUp>>
       \/ \* first Resume: wait for the exec SIGTRAP
          /\ proc
          /\ ~procIsUp
          /\ procIsUp' = TRUE
          /\ rs' = "waitExec"
          /\ UNCHANGED <<traceeVars, broken>>
       \/ \* stopped on a breakpoint: single-step over its original instruction
          /\ proc
          /\ procIsUp
          /\ HasBreakpoint(stoppedRip)
          /\ IF PtraceStopped(stoppedPid)
             THEN /\ tstate' = ContinuedState(stoppedPid)
                  /\ status' = ContinuedStatus(stoppedPid)
                  /\ stepping' = [stepping EXCEPT ![stoppedPid] = TRUE]
                  /\ rs' = "waitStep"
                  /\ UNCHANGED broken
             ELSE /\ ResumeFails
                  /\ UNCHANGED <<tstate, status, stepping>>
          /\ UNCHANGED <<pc, member, mem, traceClone, procIsUp>>
       \/ /\ proc
          /\ procIsUp
          /\ ~HasBreakpoint(stoppedRip)
          /\ SetBreakpointsAndCont
          /\ UNCHANGED <<pc, member, traceClone, procIsUp>>
    /\ UNCHANGED <<proc, stoppedPid, stoppedRip, breakpoints>>

-----------------------------------------------------------------------------
(* waitForTrap(pid): the waits of Resume.  waitExec and waitStep wait for  *)
(* s.stoppedPid, waitTrap for any task (-1).                               *)
Waiting == rs \in {"waitExec", "waitStep", "waitTrap"}

(* Faulty variant (mutation): the wait for any task waits for the         *)
(* controlled task only.                                                   *)
WaitsForStoppedOnly(t) == t = stoppedPid

WaitsFor(t) == rs \in {"waitExec", "waitStep"} => t = stoppedPid

(* After a failed waitForTrap(-1), s.stoppedPid is assigned its 0 result.  *)
StoppedPidAfterWaitError == IF rs = "waitTrap" THEN NoPid ELSE stoppedPid

(* wait() reports a status that is not a plain SIGTRAP: the loop           *)
(* continues the reporting task with signal 0 (server.go:326), so a        *)
(* pending SIGSEGV is discarded.  For an exited task the                   *)
(* cont fails and so does the Resume.                                      *)
WaitForTrapContinue(t) ==
    /\ Waiting
    /\ WaitsFor(t)
    /\ status[t] \in {"clone", "sigstop", "exit", "signal"}
    /\ IF tstate[t] = "stopped"
       THEN /\ tstate' = ContinuedState(t)
            /\ stepping' = [stepping EXCEPT ![t] = FALSE]
            /\ UNCHANGED <<rs, broken, stoppedPid>>
       ELSE /\ tstate' = ReapedState(t)
            /\ ResumeFails
            /\ stoppedPid' = StoppedPidAfterWaitError
            /\ UNCHANGED stepping
    /\ status' = [status EXCEPT ![t] = "none"]
    /\ UNCHANGED <<pc, member, mem, traceClone, proc, procIsUp, stoppedRip, breakpoints>>

(* Resume after its last wait: lift the breakpoints, read the registers,   *)
(* back the pc up over the breakpoint instruction and write them back.     *)
(* Faulty variants (mutation): the registers are backed up in the cache   *)
(* but never written back with ptraceSetRegs; ptraceGetRegs is skipped and *)
(* the stale cached registers are backed up.                               *)
RewindPCCacheOnly(t) ==
    /\ stoppedRip' = pc[t] - BreakpointSize
    /\ UNCHANGED pc

RewindStaleRegs(t) ==
    /\ stoppedRip' = stoppedRip - BreakpointSize
    /\ pc' = [pc EXCEPT ![t] = stoppedRip - BreakpointSize]

RewindPC(t) ==
    /\ stoppedRip' = pc[t] - BreakpointSize
    /\ pc' = [pc EXCEPT ![t] = pc[t] - BreakpointSize]

ReportStop(t) ==
    /\ stoppedPid' = t
    /\ mem' = LiftedMem
    /\ RewindPC(t)
    /\ rs' = "idle"
    /\ UNCHANGED <<tstate, stepping, traceClone, broken>>

(* waitForTrap returns t on a plain SIGTRAP, and Resume goes on.           *)
WaitForTrapReturns(t) ==
    /\ Waiting
    /\ WaitsFor(t)
    /\ status[t] = "trap"
    /\ \/ /\ rs = "waitExec"   \* then ptraceSetOptions(PTRACE_O_TRACECLONE)
          /\ traceClone' = TRUE
          /\ SetBreakpointsAndCont
          /\ UNCHANGED <<pc, stoppedPid, stoppedRip>>
       \/ /\ rs = "waitStep"
          /\ SetBreakpointsAndCont
          /\ UNCHANGED <<pc, traceClone, stoppedPid, stoppedRip>>
       \/ /\ rs = "waitTrap"
          /\ status' = [status EXCEPT ![t] = "none"]
          /\ ReportStop(t)
    /\ UNCHANGED <<member, proc, procIsUp, breakpoints>>

-----------------------------------------------------------------------------
(* Breakpoint: for each address the request resolves to, in order, fail   *)
(* on a pc already in the table, else peek the original instruction        *)
(* through s.stoppedPid (which fails unless that task is in ptrace-stop)   *)
(* and insert it.  Entries inserted before a failure stay.                 *)
Dup(req, i) == HasBreakpoint(req[i]) \/ \E j \in 1..(i - 1) : req[j] = req[i]

(* Faulty variant (mutation): a failed peek is ignored.                    *)
InsertedIgnoringPeek(req) ==
    {req[i] : i \in {k \in 1..Len(req) : \A j \in 1..k : ~Dup(req, j)}}

Inserted(req) ==
    IF PtraceStopped(stoppedPid)
    THEN {req[i] : i \in {k \in 1..Len(req) : \A j \in 1..k : ~Dup(req, j)}}
    ELSE {}

Breakpoint ==
    /\ rs = "idle"
    /\ \E req \in Requests :
         breakpoints' = [a \in Addrs |-> IF a \in Inserted(req) THEN mem[a]
                                                                ELSE breakpoints[a]]
    /\ UNCHANGED <<traceeVars, proc, procIsUp, stoppedPid, stoppedRip, rs, broken>>

-----------------------------------------------------------------------------
(* One turn of the wait loop of waitForTrap, for whichever task wait()     *)
(* reports.                                                                *)
WaitStep == \E t \in Threads : WaitForTrapContinue(t) \/ WaitForTrapReturns(t)

ServerStep ==
    \/ Run
    \/ Resume
    \/ Breakpoint
    \/ WaitStep

DebuggeeNext ==
    /\ \E t \in Threads : DebuggeeStep(t)
    /\ UNCHANGED serverVars

Next == ServerStep \/ DebuggeeNext

Spec == Init /\ [][Next]_vars

(* Fairness.  A Resume blocked in waitForTrap is a goroutine blocked in    *)
(* wait4: while a traced task it waits for has a status pending, the      *)
(* kernel wakes it and the loop takes its next turn, so the wait steps    *)
(* are weakly fair.  The client's requests (Run, Resume, Breakpoint) are   *)
(* not: a client may stop sending them.                                    *)
WaitFairness == WF_vars(WaitStep)

LiveSpec == Spec /\ WaitFairness

(* The scheduler keeps running every runnable task of the debuggee, so a   *)
(* running thread's next instruction is eventually executed.               *)
DebuggeeFairness == \A t \in Threads : WF_vars(DebuggeeStep(t) /\ UNCHANGED serverVars)

FaultSpec == LiveSpec /\ DebuggeeFairness
-----------------------------------------------------------------------------
(* Every variable has its type.                                            *)
TypeOK ==
    /\ tstate \in [Threads -> ThreadStates]
    /\ status \in [Threads -> WaitStatuses]
    /\ pc \in [Threads -> Nat]
    /\ stepping \in [Threads -> BOOLEAN]
    /\ member \subseteq Threads
    /\ mem \in [Addrs -> Instr]
    /\ traceClone \in BOOLEAN
    /\ proc \in BOOLEAN
    /\ procIsUp \in BOOLEAN
    /\ stoppedPid \in Threads \cup {NoPid}
    /\ stoppedRip \in Nat
    /\ breakpoints \in [Addrs -> Instr \cup {"none"}]
    /\ rs \in Phases
    /\ broken \in BOOLEAN

(* Breakpoint transparency (spec I1, property 1): whenever there is a      *)
(* debuggee, no handler is running and no Resume has failed since Run,     *)
(* every code byte reads as the program's own instruction: each            *)
(* successful Resume lifted what setBreakpoints poked.                     *)
BreakpointTransparency ==
    proc /\ rs = "idle" /\ ~broken => \A a \in Addrs : mem[a] = "orig"

(* The instruction Breakpoint saves for a pc is the program's own, even    *)
(* after Resumes that failed with the breakpoints still poked in: a pc     *)
(* already in the table is never peeked again.                             *)
SavedInstrIsOriginal ==
    \A a \in Addrs : HasBreakpoint(a) => breakpoints[a] = "orig"

(* Program counter rewind (spec property 2): after a successful Resume the *)
(* stopped task's pc equals the cached s.stoppedRegs.Rip it returned, and  *)
(* that is a pc of the breakpoint table: waitForTrap(-1) only ever         *)
(* returns a breakpoint trap, so backing up by BreakpointSize is right.    *)
PCRewound ==
    rs = "idle" /\ procIsUp /\ ~broken /\ PtraceStopped(stoppedPid)
        => /\ pc[stoppedPid] = stoppedRip
           /\ HasBreakpoint(stoppedRip)

(* No thread of the debuggee is ever resumed in the middle of an           *)
(* instruction (one not backed up after a trap, or backed up wrongly).     *)
RunningAtBoundary ==
    \A t \in member : tstate[t] = "running" => pc[t] \in Addrs

(* Spec I1 and the state table of 4.5: when control returns to the       *)
(* caller after a successful Resume, the debuggee is stopped, so nothing   *)
(* runs while the breakpoints are lifted.  The code stops and resumes      *)
(* only the task that trapped; the other threads of a multi-threaded       *)
(* debuggee keep running.                                                  *)
DebuggeeStoppedAtRest ==
    rs = "idle" /\ procIsUp /\ ~broken
        => \A t \in member : tstate[t] # "running"

(* Spec property 4: the step over the breakpoint the controlled task is    *)
(* stopped on executes one instruction, and that task never runs freely   *)
(* while the breakpoints are lifted.                                       *)
StepOverStaysArmed ==
    PtraceStopped(stoppedPid) \/ stoppedPid \notin member
    \/ tstate[stoppedPid] # "running" \/ stepping[stoppedPid]
    \/ \A a \in Addrs : HasBreakpoint(a) => mem[a] = "trap"

(* Spec sections 4.5 and 7: Run replaces the previous debuggee, and a      *)
(* Resume fails only on a kernel error: the first Resume to fail after a   *)
(* Run does so only when the debuggee it controls is gone.                 *)
ResumeFailsOnlyWhenDebuggeeGone ==
    [][~broken /\ broken' => ~ProcAlive']_vars
(* Spec 4.5: a Resume waits for the task it controls, then for any task. *)
(* While it waits, every stop pending for a task it waits for is          *)
(* collected: a SIGTRAP ends the wait, any other stop (clone event, the   *)
(* SIGSTOP of a new thread, an exit) is consumed and the task resumed, so *)
(* no task of the debuggee stays stopped behind a wait that never sees it *)
(* and no trap to report is left pending.  The one exception is a task    *)
(* that faults: server.go:326 continues it onto the same fault, and       *)
(* wait(-1) may report it again and again ahead of the others.            *)
WaitCollectsPendingStops ==
    \A t \in Threads :
        (Waiting /\ (rs = "waitTrap" \/ t = stoppedPid) /\ status[t] # "none")
            ~> (status[t] = "none" \/ ~Waiting \/ \E u \in Threads : status[u] = "signal")

(* A Resume whose debuggee faults comes back.  Untraced, a task that     *)
(* faults dies of SIGSEGV; spec 4.5 asks wait_for_trap to continue other  *)
(* stops "transparently", and the spec's Cancellation paragraph says a    *)
(* Resume blocks until the debuggee stops.  So a fault must end the Resume *)
(* (it fails with the debuggee gone, spec section 7) rather than keep it  *)
(* waiting; the wait loop at server.go:326 continues the faulting task    *)
(* with signal 0.                                                          *)
FaultEndsResume ==
    (Waiting /\ \E t \in Threads : status[t] = "signal") ~> rs = "idle"
-----------------------------------------------------------------------------
(* The refinement mapping onto the client's view, Debugger.tla.  A Resume  *)
(* blocked in a wait is "running"; once one has failed since Run, the      *)
(* state is "failed" until the next Run.                                   *)
AbsPhase ==
    IF ~proc THEN "none"
    ELSE IF rs # "idle" THEN "running"
    ELSE IF broken THEN "failed"
    ELSE IF ~procIsUp THEN "started"
    ELSE "stopped"

Dbg == INSTANCE Debugger WITH Pcs <- Addrs, phase <- AbsPhase,
                              table <- {a \in Addrs : HasBreakpoint(a)},
                              reported <- stoppedRip

(* The server implements the client's view: Breakpoint adds pcs only while *)
(* there is a debuggee to peek, no handler runs during a Resume, and a     *)
(* Resume that succeeds returns the pc of a breakpoint of the table.       *)
ImplementsDebugger == Dbg!Spec
=============================================================================
