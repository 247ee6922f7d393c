------------------------- MODULE ServerRefinement -------------------------
(***************************************************************************)
(* Proof that the process controller of Server.tla implements the client's *)
(* view of Debugger.tla under the mapping of Server.tla (AbsPhase, the     *)
(* pcs with a breakpoint, the cached Rip), for every value of the          *)
(* constants.                                                              *)
(*                                                                         *)
(* The step that needs an argument is the return of waitForTrap(-1): the   *)
(* pc Resume reports must be a pc of the table.  A pending SIGTRAP has one *)
(* of three origins: a breakpoint instruction of the table (the pc is just *)
(* past it), the exec stop (collected by the first Resume's wait for       *)
(* s.stoppedPid), or the end of a single-step (collected by the step-over's*)
(* wait for s.stoppedPid); and only the task stepped over is single-       *)
(* stepped.  So when waitForTrap(-1) is reached without a failure, only    *)
(* breakpoint traps are left.                                              *)
(***************************************************************************)
EXTENDS ServerProofs

(* A Resume blocked in a wait has a started process.                       *)
WaitingUp == rs # "idle" => proc /\ procIsUp

(* Every live task is a task of the current process: Run kills the old     *)
(* process's tasks before it starts a new one.                             *)
LiveIsMember == \A t \in Threads : Live(t) => proc /\ t \in member

(* A SIGTRAP not yet collected belongs to a task in ptrace-stop.           *)
TrapStopped == \A t \in Threads : status[t] = "trap" => tstate[t] = "stopped"

(* Without a process there is no s.stoppedPid.                             *)
NoProcNoPid == ~proc => stoppedPid = NoPid

(* Only the task being stepped over runs in single-step mode.              *)
SteppingOnlyOver ==
    ~broken => \A t \in Threads : stepping[t] /\ Live(t) => t = stoppedPid /\ rs = "waitStep"

(* The three origins of a pending SIGTRAP.                                 *)
TrapOrigins ==
    ~broken => \A t \in Threads : status[t] = "trap" =>
        \/ HasBreakpoint(pc[t] - BreakpointSize)
        \/ t = stoppedPid /\ rs = "waitStep"
        \/ t = stoppedPid /\ pc[t] = Entry /\ (rs = "waitExec" \/ (rs = "idle" /\ ~procIsUp))

RefineInv ==
    /\ TransparencyInv
    /\ WaitingUp
    /\ LiveIsMember
    /\ TrapStopped
    /\ NoProcNoPid
    /\ SteppingOnlyOver
    /\ TrapOrigins

(* PCRewound, strengthened: after a successful Resume the task it returned *)
(* stays out of the running state until the next Resume, so its backed-up *)
(* pc is still the cached Rip while it is stopped.                         *)
RewoundInv ==
    rs = "idle" /\ procIsUp /\ ~broken
        => /\ stoppedPid \in Threads
           /\ tstate[stoppedPid] \in {"stopped", "zombie", "reaped"}
           /\ tstate[stoppedPid] = "stopped"
                => pc[stoppedPid] = stoppedRip /\ HasBreakpoint(stoppedRip)

(* The conjuncts RefineInv adds to TransparencyInv.                        *)
RefineExtra ==
    WaitingUp /\ LiveIsMember /\ TrapStopped /\ NoProcNoPid /\ SteppingOnlyOver /\ TrapOrigins

-----------------------------------------------------------------------------
(* setBreakpoints and ptraceCont(s.stoppedPid) followed by waitForTrap(-1): *)
(* if at most s.stoppedPid was single-stepping, or had a SIGTRAP from      *)
(* another origin than a breakpoint, the continue clears both.             *)
LEMMA RefineSetAndCont ==
    ASSUME RefineInv, SetBreakpointsAndCont, proc, procIsUp,
           UNCHANGED <<pc, member, proc, procIsUp, stoppedPid, breakpoints>>,
           \A t \in Threads : ~broken /\ status[t] = "trap" /\ t # stoppedPid
                                  => HasBreakpoint(pc[t] - BreakpointSize),
           \A t \in Threads : ~broken /\ stepping[t] /\ Live(t) => t = stoppedPid
    PROVE  RefineExtra'
<1> USE DEF RefineInv, RefineExtra, TransparencyInv, TypeInv, TypeOK, WaitingUp,
            LiveIsMember, TrapStopped, NoProcNoPid, SteppingOnlyOver, TrapOrigins
<1>1. CASE PtraceStopped(stoppedPid)
  <2>1. /\ tstate' = [tstate EXCEPT ![stoppedPid] = "running"]
        /\ status' = [status EXCEPT ![stoppedPid] = "none"]
        /\ stepping' = [stepping EXCEPT ![stoppedPid] = FALSE]
        /\ rs' = "waitTrap" /\ UNCHANGED broken
        /\ stoppedPid \in Threads /\ tstate[stoppedPid] = "stopped"
    BY <1>1 DEF SetBreakpointsAndCont, ContinuedState, ContinuedStatus, PtraceStopped
  <2>2. QED
    BY <2>1 DEF Live, HasBreakpoint
<1>2. CASE ~PtraceStopped(stoppedPid)
  <2>1. rs' = "idle" /\ broken' = TRUE /\ UNCHANGED <<tstate, status, stepping>>
    BY <1>2 DEF SetBreakpointsAndCont, ResumeFails
  <2>2. QED
    BY <2>1 DEF Live
<1>3. QED
  BY <1>1, <1>2

LEMMA RefineDebuggee ==
    ASSUME RefineInv, NEW t \in Threads, DebuggeeStep(t), UNCHANGED serverVars
    PROVE  RefineExtra'
<1> USE DEF RefineInv, RefineExtra, TransparencyInv, TypeInv, TypeOK, WaitingUp,
            LiveIsMember, TrapStopped, NoProcNoPid, SteppingOnlyOver, TrapOrigins,
            serverVars, Fetch, StopWith
<1>1. CASE HitBreakpoint(t)
  <2>1. HasBreakpoint(pc[t])
    BY <1>1 DEF HitBreakpoint, TrapsInTable
  <2>2. pc'[t] - BreakpointSize = pc[t]
    BY <1>1, TraceeAssumption DEF HitBreakpoint
  <2>3. QED
    BY <1>1, <2>1, <2>2 DEF HitBreakpoint, Live, HasBreakpoint
<1>2. CASE ExecInstr(t)
  <2>1. status[t] # "trap"
    BY <1>2 DEF ExecInstr
  <2>2. CASE stepping[t]
    <3>1. ~broken => t = stoppedPid /\ rs = "waitStep"
      BY <1>2, <2>2 DEF ExecInstr, Live
    <3>2. QED
      BY <1>2, <2>1, <2>2, <3>1 DEF ExecInstr, Live, HasBreakpoint
  <2>3. CASE ~stepping[t]
    BY <1>2, <2>1, <2>3 DEF ExecInstr, Live, HasBreakpoint
  <2>4. QED
    BY <2>2, <2>3
<1>3. CASE CloneThread(t)
  <2>1. PICK u \in Threads, n \in Succ[pc[t]] :
          /\ tstate[u] = "unused"
          /\ tstate' = [tstate EXCEPT ![t] = "stopped", ![u] = "stopped"]
          /\ status' = [status EXCEPT ![t] = "clone", ![u] = "sigstop"]
          /\ pc' = [pc EXCEPT ![t] = n, ![u] = n]
          /\ stepping' = [stepping EXCEPT ![u] = FALSE]
          /\ member' = member \cup {u}
    BY <1>3 DEF CloneThread
  <2>2. tstate[t] = "running"
    BY <1>3 DEF CloneThread
  <2>3. proc /\ t \in member /\ u # t
    BY <2>1, <2>2 DEF Live
  <2>4. QED
    BY <1>3, <2>1, <2>2, <2>3 DEF CloneThread, Live, HasBreakpoint
<1>4. CASE ExitGroup(t)
  <2>1. \A x \in Threads : status'[x] # "trap" /\ (Live(x)' => Live(x))
    BY <1>4 DEF ExitGroup, Killed, KilledStatus, Live
  <2>2. QED
    BY <1>4, <2>1 DEF ExitGroup, Killed, Live
<1>5. CASE Fault(t)
  <2>1. status[t] # "trap" /\ ~stepping'[t]
    BY <1>5 DEF Fault
  <2>2. QED
    BY <1>5, <2>1 DEF Fault, Live, HasBreakpoint
<1>6. QED
  BY <1>1, <1>2, <1>3, <1>4, <1>5 DEF DebuggeeStep

(* Run kills every task of the old process, so afterwards the only live     *)
(* task, and the only pending SIGTRAP, is the new process's exec stop.     *)
LEMMA RefineRun ==
    ASSUME RefineInv, Run
    PROVE  RefineExtra'
<1> USE DEF RefineInv, TransparencyInv, TypeInv, TypeOK
<1> DEFINE killed == IF proc THEN Killed(member) ELSE tstate
           killedStatus == IF proc THEN KilledStatus(member) ELSE status
<1>1. rs' = "idle" /\ broken' = FALSE /\ procIsUp' = FALSE
  BY DEF Run
<1>2. \A x \in Threads : killed[x] \notin {"running", "stopped"} /\ killedStatus[x] # "trap"
  BY DEF Killed, KilledStatus, LiveIsMember, TrapStopped, Live
<1>3. CASE \E u \in Threads :
             /\ tstate' = [killed EXCEPT ![u] = "stopped"]
             /\ status' = [killedStatus EXCEPT ![u] = "trap"]
             /\ pc' = [pc EXCEPT ![u] = Entry]
             /\ stepping' = [stepping EXCEPT ![u] = FALSE]
             /\ member' = {u}
             /\ proc' = TRUE
             /\ stoppedPid' = u
  <2>1. PICK u \in Threads :
             /\ tstate' = [killed EXCEPT ![u] = "stopped"]
             /\ status' = [killedStatus EXCEPT ![u] = "trap"]
             /\ pc' = [pc EXCEPT ![u] = Entry]
             /\ stepping' = [stepping EXCEPT ![u] = FALSE]
             /\ member' = {u}
             /\ proc' = TRUE
             /\ stoppedPid' = u
    BY <1>3
  <2>2. \A x \in Threads \ {u} : tstate'[x] \notin {"running", "stopped"} /\ status'[x] # "trap"
    BY <1>2, <2>1 DEF Killed
  <2>3. tstate'[u] = "stopped" /\ status'[u] = "trap" /\ pc'[u] = Entry /\ stepping'[u] = FALSE
    BY <2>1 DEF Killed, KilledStatus
  <2>4. QED
    BY <1>1, <2>1, <2>2, <2>3 DEF RefineExtra, WaitingUp, LiveIsMember, TrapStopped,
                                  NoProcNoPid, SteppingOnlyOver, TrapOrigins, Live
<1>4. CASE tstate' = killed /\ status' = killedStatus /\ proc' = FALSE /\ stoppedPid' = NoPid
  BY <1>1, <1>2, <1>4 DEF RefineExtra, WaitingUp, LiveIsMember, TrapStopped,
                          NoProcNoPid, SteppingOnlyOver, TrapOrigins, Live
<1>5. QED
  BY <1>3, <1>4 DEF Run

(* The first Resume hands the exec stop over to its wait; the others       *)
(* continue or single-step s.stoppedPid, clearing its status.              *)
LEMMA RefineResume ==
    ASSUME RefineInv, Resume
    PROVE  RefineExtra'
<1> USE DEF RefineInv, TransparencyInv, TypeInv, TypeOK
<1>1. rs = "idle" /\ UNCHANGED <<proc, stoppedPid, stoppedRip, breakpoints>>
  BY DEF Resume
<1>2. CASE ~proc /\ ResumeFails /\ UNCHANGED <<traceeVars, procIsUp>>
  BY <1>1, <1>2 DEF ResumeFails, traceeVars, RefineExtra, WaitingUp, LiveIsMember,
                    TrapStopped, NoProcNoPid, SteppingOnlyOver, TrapOrigins, Live
<1>3. CASE proc /\ ~procIsUp /\ procIsUp' = TRUE /\ rs' = "waitExec"
           /\ UNCHANGED <<traceeVars, broken>>
  BY <1>1, <1>3 DEF traceeVars, RefineExtra, WaitingUp, LiveIsMember,
                    TrapStopped, NoProcNoPid, SteppingOnlyOver, TrapOrigins, Live, HasBreakpoint
<1>4. CASE /\ proc /\ procIsUp
           /\ IF PtraceStopped(stoppedPid)
              THEN /\ tstate' = ContinuedState(stoppedPid)
                   /\ status' = ContinuedStatus(stoppedPid)
                   /\ stepping' = [stepping EXCEPT ![stoppedPid] = TRUE]
                   /\ rs' = "waitStep"
                   /\ UNCHANGED broken
              ELSE /\ ResumeFails
                   /\ UNCHANGED <<tstate, status, stepping>>
           /\ UNCHANGED <<pc, member, mem, traceClone, procIsUp>>
  <2>1. CASE PtraceStopped(stoppedPid)
    <3>1. /\ tstate' = [tstate EXCEPT ![stoppedPid] = "running"]
          /\ status' = [status EXCEPT ![stoppedPid] = "none"]
          /\ stepping' = [stepping EXCEPT ![stoppedPid] = TRUE]
          /\ rs' = "waitStep" /\ UNCHANGED broken
          /\ stoppedPid \in Threads /\ tstate[stoppedPid] = "stopped"
      BY <1>4, <2>1 DEF ContinuedState, ContinuedStatus, PtraceStopped
    <3>2. QED
      BY <1>1, <1>4, <3>1 DEF RefineExtra, WaitingUp, LiveIsMember, TrapStopped,
                              NoProcNoPid, SteppingOnlyOver, TrapOrigins, Live, HasBreakpoint
  <2>4. CASE ~PtraceStopped(stoppedPid)
    BY <1>1, <1>4, <2>4 DEF ResumeFails, RefineExtra, WaitingUp, LiveIsMember,
                            TrapStopped, NoProcNoPid, SteppingOnlyOver, TrapOrigins, Live
  <2>5. QED
    BY <2>1, <2>4
<1>5. CASE proc /\ procIsUp /\ SetBreakpointsAndCont /\ UNCHANGED <<pc, member, procIsUp>>
  <2>1. \A t \in Threads : ~broken /\ status[t] = "trap" /\ t # stoppedPid
                               => HasBreakpoint(pc[t] - BreakpointSize)
    BY <1>1, <1>5 DEF TrapOrigins
  <2>2. \A t \in Threads : ~broken /\ stepping[t] /\ Live(t) => t = stoppedPid
    BY <1>1 DEF SteppingOnlyOver
  <2>3. QED
    BY <1>1, <1>5, <2>1, <2>2, RefineSetAndCont
<1>6. QED
  BY <1>2, <1>3, <1>4, <1>5 DEF Resume

(* A clone, SIGSTOP or exit status is collected and the task continued, or *)
(* the exited task reaped and the Resume failed.                            *)
LEMMA RefineWaitContinue ==
    ASSUME RefineInv, NEW t \in Threads, WaitForTrapContinue(t)
    PROVE  RefineExtra'
<1> USE DEF RefineInv, TransparencyInv, TypeInv, TypeOK
<1>1. /\ status' = [status EXCEPT ![t] = "none"]
      /\ UNCHANGED <<pc, member, proc, procIsUp, breakpoints>>
      /\ proc /\ procIsUp
  BY DEF WaitForTrapContinue, Waiting, WaitingUp
<1>2. CASE tstate[t] = "stopped"
  <2>1. /\ tstate' = [tstate EXCEPT ![t] = "running"]
        /\ stepping' = [stepping EXCEPT ![t] = FALSE]
        /\ UNCHANGED <<rs, broken, stoppedPid>>
    BY <1>2 DEF WaitForTrapContinue, ContinuedState
  <2>2. QED
    BY <1>1, <1>2, <2>1 DEF RefineExtra, WaitingUp, LiveIsMember, TrapStopped,
                            NoProcNoPid, SteppingOnlyOver, TrapOrigins, Live, HasBreakpoint
<1>3. CASE tstate[t] # "stopped"
  <2>1. /\ tstate' = ReapedState(t)
        /\ rs' = "idle" /\ broken' = TRUE
    BY <1>3 DEF WaitForTrapContinue, ResumeFails
  <2>2. \A x \in Threads : (tstate'[x] \in {"running", "stopped"} => Live(x))
                            /\ (tstate[x] = "stopped" => tstate'[x] = "stopped")
    BY <2>1 DEF ReapedState, Live
  <2>3. QED
    BY <1>1, <2>1, <2>2 DEF RefineExtra, WaitingUp, LiveIsMember, TrapStopped,
                            NoProcNoPid, SteppingOnlyOver, TrapOrigins, Live
<1>4. QED
  BY <1>2, <1>3

(* The exec stop and the single-step stop are collected by the waits for   *)
(* s.stoppedPid, and then waitForTrap(-1) can only meet breakpoint traps;  *)
(* the SIGTRAP it returns is cleared with the task's pc backed up.        *)
LEMMA RefineWaitReturns ==
    ASSUME RefineInv, NEW t \in Threads, WaitForTrapReturns(t)
    PROVE  RefineExtra'
<1> USE DEF RefineInv, TransparencyInv, TypeInv, TypeOK
<1>1. /\ UNCHANGED <<member, proc, procIsUp, breakpoints>>
      /\ proc /\ procIsUp /\ status[t] = "trap"
  BY DEF WaitForTrapReturns, Waiting, WaitingUp
<1>2. CASE rs \in {"waitExec", "waitStep"}
  <2>1. t = stoppedPid
    BY <1>2 DEF WaitForTrapReturns, WaitsFor
  <2>2. SetBreakpointsAndCont /\ UNCHANGED <<pc, stoppedPid>>
    BY <1>2 DEF WaitForTrapReturns
  <2>3. \A x \in Threads : ~broken /\ status[x] = "trap" /\ x # stoppedPid
                               => HasBreakpoint(pc[x] - BreakpointSize)
    BY DEF TrapOrigins
  <2>4. \A x \in Threads : ~broken /\ stepping[x] /\ Live(x) => x = stoppedPid
    BY DEF SteppingOnlyOver
  <2>5. QED
    BY <1>1, <2>2, <2>3, <2>4, RefineSetAndCont
<1>3. CASE rs = "waitTrap"
  <2>1. /\ status' = [status EXCEPT ![t] = "none"]
        /\ stoppedPid' = t /\ rs' = "idle"
        /\ pc' = [pc EXCEPT ![t] = pc[t] - BreakpointSize]
        /\ UNCHANGED <<tstate, stepping, broken>>
    BY <1>3 DEF WaitForTrapReturns, ReportStop, RewindPC
  <2>2. QED
    BY <1>1, <1>3, <2>1 DEF RefineExtra, WaitingUp, LiveIsMember, TrapStopped,
                            NoProcNoPid, SteppingOnlyOver, TrapOrigins, Live, HasBreakpoint
<1>4. QED
  BY <1>2, <1>3 DEF WaitForTrapReturns, Waiting

(* Breakpoint only adds pcs to the table, so a breakpoint trap stays one.  *)
LEMMA RefineBreakpoint ==
    ASSUME RefineInv, Breakpoint
    PROVE  RefineExtra'
<1> USE DEF RefineInv, TransparencyInv, TypeInv, TypeOK
<1>1. PICK req \in Requests :
        breakpoints' = [a \in Addrs |-> IF a \in Inserted(req) THEN mem[a]
                                                               ELSE breakpoints[a]]
  BY DEF Breakpoint
<1>2. \A a \in Addrs : HasBreakpoint(a) => HasBreakpoint(a)'
  BY <1>1 DEF HasBreakpoint, Instr
<1>3. UNCHANGED <<traceeVars, proc, procIsUp, stoppedPid, rs, broken>>
  BY DEF Breakpoint
<1>4. QED
  BY <1>2, <1>3 DEF traceeVars, RefineExtra, WaitingUp, LiveIsMember, TrapStopped,
                    NoProcNoPid, SteppingOnlyOver, TrapOrigins, Live, HasBreakpoint

LEMMA RefineStep == RefineInv /\ [Next]_vars => RefineInv'
<1> SUFFICES ASSUME RefineInv, [Next]_vars PROVE RefineInv'
  OBVIOUS
<1>1. TransparencyInv'
  BY TransparencyStep DEF RefineInv
<1>2. RefineExtra'
  <2>1. CASE Run
    BY <2>1, RefineRun
  <2>2. CASE Resume
    BY <2>2, RefineResume
  <2>3. CASE Breakpoint
    BY <2>3, RefineBreakpoint
  <2>4. CASE \E t \in Threads : WaitForTrapContinue(t) \/ WaitForTrapReturns(t)
    BY <2>4, RefineWaitContinue, RefineWaitReturns
  <2>5. CASE DebuggeeNext
    BY <2>5, RefineDebuggee DEF DebuggeeNext
  <2>6. CASE UNCHANGED vars
    BY <2>6 DEF vars, traceeVars, serverVars, RefineInv, RefineExtra, WaitingUp,
                LiveIsMember, TrapStopped, NoProcNoPid, SteppingOnlyOver, TrapOrigins,
                Live, HasBreakpoint
  <2>7. QED
    BY <2>1, <2>2, <2>3, <2>4, <2>5, <2>6 DEF Next, ServerStep, WaitStep
<1>3. QED
  BY <1>1, <1>2 DEF RefineInv, RefineExtra

LEMMA RefineInit == Init => RefineInv
BY TypeInvInit, TransparencyInit
   DEF Init, RefineInv, TransparencyInv, WaitingUp, LiveIsMember, TrapStopped,
       NoProcNoPid, SteppingOnlyOver, TrapOrigins, Live

LEMMA RefineInductive == Spec => []RefineInv
BY RefineInit, RefineStep, PTL DEF Spec

-----------------------------------------------------------------------------
(* The step mapping: every step of the server and the debuggee is a step   *)
(* of Debugger.tla, or leaves its variables as they are.                   *)
LEMMA MapInit == Init => Dbg!Init
BY DEF Init, Dbg!Init, AbsPhase, HasBreakpoint

LEMMA MapRun ==
    ASSUME RefineInv, Run
    PROVE  Dbg!Run
<1>1. rs = "idle" /\ rs' = "idle" /\ broken' = FALSE /\ procIsUp' = FALSE
      /\ stoppedRip' = 0 /\ UNCHANGED breakpoints
  BY DEF Run
<1>2. proc' \in BOOLEAN
  BY DEF Run
<1>3. QED
  BY <1>1, <1>2 DEF Dbg!Run, AbsPhase, HasBreakpoint

LEMMA MapResume ==
    ASSUME RefineInv, Resume
    PROVE  [Dbg!Next]_Dbg!dvars
<1> USE DEF RefineInv, TransparencyInv, TypeInv, TypeOK
<1>1. rs = "idle" /\ UNCHANGED <<proc, stoppedRip, breakpoints>>
  BY DEF Resume
<1>2. CASE ~proc
  BY <1>1, <1>2 DEF Dbg!dvars, AbsPhase, HasBreakpoint
<1>3. CASE proc /\ ~procIsUp
  <2>1. rs' = "waitExec"
    BY <1>3 DEF Resume
  <2>2. Dbg!Resume
    BY <1>1, <1>3, <2>1 DEF Dbg!Resume, AbsPhase, HasBreakpoint
  <2>3. QED
    BY <2>2 DEF Dbg!Next
<1>4. CASE proc /\ procIsUp
  <2>1. rs' \in {"waitStep", "waitTrap"} \/ (rs' = "idle" /\ broken')
    BY <1>4 DEF Resume, SetBreakpointsAndCont, ResumeFails
  <2>2. CASE rs' \in {"waitStep", "waitTrap"}
    <3>1. Dbg!Resume
      BY <1>1, <1>4, <2>2 DEF Dbg!Resume, AbsPhase, HasBreakpoint
    <3>2. QED
      BY <3>1 DEF Dbg!Next
  <2>3. CASE rs' = "idle" /\ broken'
    <3>1. Dbg!Fail
      BY <1>1, <1>4, <2>3 DEF Dbg!Fail, AbsPhase, HasBreakpoint
    <3>2. QED
      BY <3>1 DEF Dbg!Next
  <2>4. QED
    BY <2>1, <2>2, <2>3
<1>5. QED
  BY <1>2, <1>3, <1>4

(* A wait that continues a task, or hands over to the next wait, is        *)
(* invisible to the client; a failed one is a failure of the Resume.       *)
LEMMA MapWaitContinue ==
    ASSUME RefineInv, NEW t \in Threads, WaitForTrapContinue(t)
    PROVE  [Dbg!Next]_Dbg!dvars
<1> USE DEF RefineInv, TransparencyInv, TypeInv, TypeOK
<1>1. UNCHANGED <<proc, stoppedRip, breakpoints>> /\ proc /\ rs # "idle"
  BY DEF WaitForTrapContinue, Waiting, WaitingUp
<1>2. CASE tstate[t] = "stopped"
  BY <1>1, <1>2 DEF WaitForTrapContinue, Dbg!dvars, AbsPhase, HasBreakpoint
<1>3. CASE tstate[t] # "stopped"
  <2>1. rs' = "idle" /\ broken' = TRUE
    BY <1>3 DEF WaitForTrapContinue, ResumeFails
  <2>2. Dbg!Fail
    BY <1>1, <2>1 DEF Dbg!Fail, AbsPhase, HasBreakpoint
  <2>3. QED
    BY <2>2 DEF Dbg!Next
<1>4. QED
  BY <1>2, <1>3

(* waitForTrap(-1) returning without an earlier failure is the debuggee    *)
(* stopping at a pc of the table: the trap has no other origin.            *)
LEMMA MapWaitReturns ==
    ASSUME RefineInv, RefineInv', NEW t \in Threads, WaitForTrapReturns(t)
    PROVE  [Dbg!Next]_Dbg!dvars
<1> USE DEF RefineInv, TransparencyInv, TypeInv, TypeOK
<1>1. /\ UNCHANGED <<proc, procIsUp, breakpoints>> /\ proc /\ procIsUp
      /\ status[t] = "trap"
  BY DEF WaitForTrapReturns, Waiting, WaitingUp
<1>2. CASE rs \in {"waitExec", "waitStep"}
  <2>1. SetBreakpointsAndCont /\ UNCHANGED stoppedRip
    BY <1>2 DEF WaitForTrapReturns
  <2>2. CASE rs' = "waitTrap"
    BY <1>1, <1>2, <2>1, <2>2 DEF Dbg!dvars, AbsPhase, HasBreakpoint
  <2>3. CASE rs' # "waitTrap"
    <3>1. rs' = "idle" /\ broken' = TRUE
      BY <2>1, <2>3 DEF SetBreakpointsAndCont, ResumeFails
    <3>2. Dbg!Fail
      BY <1>1, <1>2, <2>1, <3>1 DEF Dbg!Fail, AbsPhase, HasBreakpoint
    <3>3. QED
      BY <3>2 DEF Dbg!Next
  <2>4. QED
    BY <2>2, <2>3
<1>3. CASE rs = "waitTrap"
  <2>1. stoppedRip' = pc[t] - BreakpointSize /\ rs' = "idle" /\ UNCHANGED broken
    BY <1>3 DEF WaitForTrapReturns, ReportStop, RewindPC
  <2>2. CASE ~broken
    <3>1. HasBreakpoint(pc[t] - BreakpointSize)
      BY <1>1, <1>3, <2>2 DEF TrapOrigins
    <3>2. Dbg!Stop
      BY <1>1, <1>3, <2>1, <2>2, <3>1 DEF Dbg!Stop, AbsPhase, HasBreakpoint
    <3>3. QED
      BY <3>2 DEF Dbg!Next
  <2>3. CASE broken
    <3>1. stoppedRip' \in Nat
      BY DEF RefineInv, TransparencyInv, TypeInv, TypeOK
    <3>2. Dbg!Fail
      BY <1>1, <1>3, <2>1, <2>3, <3>1 DEF Dbg!Fail, AbsPhase, HasBreakpoint
    <3>3. QED
      BY <3>2 DEF Dbg!Next
  <2>4. QED
    BY <2>2, <2>3
<1>4. QED
  BY <1>2, <1>3 DEF WaitForTrapReturns, Waiting

(* Breakpoint peeks through s.stoppedPid, which there is none of without a *)
(* process; with one, it adds pcs to the table.                            *)
LEMMA MapBreakpoint ==
    ASSUME RefineInv, Breakpoint
    PROVE  [Dbg!Next]_Dbg!dvars
<1> USE DEF RefineInv, TransparencyInv, TypeInv, TypeOK
<1>1. PICK req \in Requests :
        breakpoints' = [a \in Addrs |-> IF a \in Inserted(req) THEN mem[a]
                                                               ELSE breakpoints[a]]
  BY DEF Breakpoint
<1>2. rs = "idle" /\ UNCHANGED <<proc, procIsUp, stoppedPid, stoppedRip, rs, broken>>
  BY DEF Breakpoint
<1>3. CASE ~proc
  <2>1. Inserted(req) = {}
    BY <1>3, ServerAssumption DEF NoProcNoPid, Inserted, PtraceStopped
  <2>2. UNCHANGED breakpoints
    BY <1>1, <2>1
  <2>3. QED
    BY <1>2, <2>2 DEF Dbg!dvars, AbsPhase, HasBreakpoint
<1>4. CASE proc
  <2>1. \A a \in Addrs : HasBreakpoint(a) => HasBreakpoint(a)'
    BY <1>1 DEF HasBreakpoint, Instr
  <2>2. {a \in Addrs : HasBreakpoint(a)'}
          = {a \in Addrs : HasBreakpoint(a)} \cup {a \in Addrs : HasBreakpoint(a)'}
    BY <2>1
  <2>3. Dbg!AddBreakpoints
    BY <1>2, <1>4, <2>2 DEF Dbg!AddBreakpoints, AbsPhase
  <2>4. QED
    BY <2>3 DEF Dbg!Next
<1>5. QED
  BY <1>3, <1>4

LEMMA MapStep == RefineInv /\ RefineInv' /\ [Next]_vars => [Dbg!Next]_Dbg!dvars
<1> SUFFICES ASSUME RefineInv, RefineInv', [Next]_vars PROVE [Dbg!Next]_Dbg!dvars
  OBVIOUS
<1>1. CASE Run
  BY <1>1, MapRun DEF Dbg!Next
<1>2. CASE Resume
  BY <1>2, MapResume
<1>3. CASE Breakpoint
  BY <1>3, MapBreakpoint
<1>4. CASE \E t \in Threads : WaitForTrapContinue(t) \/ WaitForTrapReturns(t)
  BY <1>4, MapWaitContinue, MapWaitReturns
<1>5. CASE DebuggeeNext \/ UNCHANGED vars
  BY <1>5 DEF DebuggeeNext, vars, serverVars, Dbg!dvars, AbsPhase, HasBreakpoint
<1>6. QED
  BY <1>1, <1>2, <1>3, <1>4, <1>5 DEF Next, ServerStep, WaitStep

(* The debug server implements the client's view of Debugger.tla: no       *)
(* breakpoint is added without a process, nothing happens between a        *)
(* Resume's start and its end but the debuggee's own steps, and a Resume   *)
(* that has not failed since Run returns the pc of a breakpoint of the     *)
(* table, for any program, any number of tasks and any breakpoint size.    *)
THEOREM Implements == Spec => ImplementsDebugger
<1>1. Spec => [][RefineInv /\ RefineInv' /\ [Next]_vars]_vars
  BY RefineInductive, PTL DEF Spec
<1>2. [RefineInv /\ RefineInv' /\ [Next]_vars]_vars => [Dbg!Next]_Dbg!dvars
  BY MapStep DEF vars, serverVars, Dbg!dvars, AbsPhase, HasBreakpoint
<1>3. QED
  BY <1>1, <1>2, MapInit, PTL DEF Spec, ImplementsDebugger, Dbg!Spec

-----------------------------------------------------------------------------
(* Every Resume step either leaves the Resume waiting or fails it.         *)
LEMMA ResumeNotAtRest ==
    ASSUME Resume
    PROVE  rs' # "idle" \/ broken'
BY DEF Resume, SetBreakpointsAndCont, ResumeFails

LEMMA RewoundStep == RefineInv /\ RewoundInv /\ [Next]_vars => RewoundInv'
<1> SUFFICES ASSUME RefineInv, RewoundInv, [Next]_vars PROVE RewoundInv'
  OBVIOUS
<1> USE DEF RefineInv, TransparencyInv, TypeInv, TypeOK
<1>1. CASE Run
  BY <1>1 DEF Run, RewoundInv
<1>2. CASE Resume
  BY <1>2, ResumeNotAtRest DEF RewoundInv
<1>3. CASE Breakpoint
  <2>1. PICK req \in Requests :
          breakpoints' = [a \in Addrs |-> IF a \in Inserted(req) THEN mem[a]
                                                                 ELSE breakpoints[a]]
    BY <1>3 DEF Breakpoint
  <2>2. \A a \in Addrs : HasBreakpoint(a) => HasBreakpoint(a)'
    BY <2>1 DEF HasBreakpoint, Instr
  <2>3. UNCHANGED <<traceeVars, procIsUp, stoppedPid, stoppedRip, rs, broken>>
    BY <1>3 DEF Breakpoint
  <2>4. QED
    BY <2>2, <2>3 DEF traceeVars, RewoundInv, HasBreakpoint
<1>4. ASSUME NEW t \in Threads, WaitForTrapContinue(t)
      PROVE  RewoundInv'
  <2>1. CASE tstate[t] = "stopped"
    BY <1>4, <2>1 DEF WaitForTrapContinue, Waiting, RewoundInv
  <2>2. CASE tstate[t] # "stopped"
    BY <1>4, <2>2 DEF WaitForTrapContinue, ResumeFails, RewoundInv
  <2>3. QED
    BY <2>1, <2>2
<1>5. ASSUME NEW t \in Threads, WaitForTrapReturns(t)
      PROVE  RewoundInv'
  <2>1. CASE rs \in {"waitExec", "waitStep"}
    <3>1. SetBreakpointsAndCont
      BY <1>5, <2>1 DEF WaitForTrapReturns
    <3>2. rs' # "idle" \/ broken'
      BY <3>1 DEF SetBreakpointsAndCont, ResumeFails
    <3>3. QED
      BY <3>2 DEF RewoundInv
  <2>2. CASE rs = "waitTrap"
    <3>1. /\ stoppedPid' = t /\ stoppedRip' = pc[t] - BreakpointSize
          /\ pc' = [pc EXCEPT ![t] = pc[t] - BreakpointSize]
          /\ UNCHANGED <<tstate, broken, breakpoints>>
          /\ status[t] = "trap"
      BY <1>5, <2>2 DEF WaitForTrapReturns, ReportStop, RewindPC
    <3>2. tstate[t] = "stopped"
      BY <3>1 DEF TrapStopped
    <3>3. ~broken => HasBreakpoint(pc[t] - BreakpointSize)
      BY <2>2, <3>1 DEF TrapOrigins
    <3>4. QED
      BY <3>1, <3>2, <3>3 DEF RewoundInv, HasBreakpoint
  <2>3. QED
    BY <1>5, <2>1, <2>2 DEF WaitForTrapReturns, Waiting
<1>6. ASSUME NEW t \in Threads, DebuggeeStep(t), UNCHANGED serverVars
      PROVE  RewoundInv'
  <2> USE DEF serverVars, Fetch, StopWith
  <2> SUFFICES ASSUME rs = "idle", procIsUp, ~broken
               PROVE  RewoundInv'
    BY <1>6 DEF RewoundInv
  <2>1. t # stoppedPid
    BY <1>6 DEF DebuggeeStep, HitBreakpoint, ExecInstr, CloneThread, ExitGroup, Fault,
                RewoundInv
  <2>2. CASE HitBreakpoint(t) \/ ExecInstr(t) \/ Fault(t)
    <3>1. UNCHANGED breakpoints /\ tstate'[stoppedPid] = tstate[stoppedPid]
          /\ pc'[stoppedPid] = pc[stoppedPid]
      BY <1>6, <2>1, <2>2 DEF HitBreakpoint, ExecInstr, Fault, RewoundInv
    <3>2. QED
      BY <1>6, <3>1 DEF RewoundInv, HasBreakpoint
  <2>3. CASE CloneThread(t)
    <3>1. PICK u \in Threads, n \in Succ[pc[t]] :
            /\ tstate[u] = "unused"
            /\ tstate' = [tstate EXCEPT ![t] = "stopped", ![u] = "stopped"]
            /\ pc' = [pc EXCEPT ![t] = n, ![u] = n]
      BY <2>3 DEF CloneThread
    <3>2. u # stoppedPid
      BY <3>1 DEF RewoundInv
    <3>3. QED
      BY <1>6, <2>1, <3>1, <3>2 DEF RewoundInv, HasBreakpoint
  <2>4. CASE ExitGroup(t)
    BY <1>6, <2>4 DEF ExitGroup, Killed, Live, RewoundInv, HasBreakpoint
  <2>5. QED
    BY <1>6, <2>2, <2>3, <2>4 DEF DebuggeeStep
<1>7. CASE UNCHANGED vars
  BY <1>7 DEF vars, traceeVars, serverVars, RewoundInv, HasBreakpoint
<1>8. QED
  BY <1>1, <1>2, <1>3, <1>4, <1>5, <1>6, <1>7 DEF Next, ServerStep, WaitStep, DebuggeeNext

(* Program counter rewind (spec property 2): for any program and any      *)
(* breakpoint size, after a successful Resume the task it stopped has its *)
(* pc backed up to the cached Rip Resume returned, and that is a pc of the *)
(* breakpoint table, because waitForTrap(-1) only meets breakpoint traps.  *)
THEOREM Rewound == Spec => []PCRewound
<1>1. Init => RewoundInv
  BY DEF Init, RewoundInv
<1>2. RewoundInv => PCRewound
  BY DEF RewoundInv, PCRewound, PtraceStopped
<1>3. QED
  BY <1>1, <1>2, RefineInductive, RewoundStep, PTL DEF Spec
=============================================================================
