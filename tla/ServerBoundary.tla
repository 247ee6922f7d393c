-------------------------- MODULE ServerBoundary --------------------------
(***************************************************************************)
(* A proof that no thread of the debuggee is ever resumed in the middle of *)
(* an instruction (RunningAtBoundary of Server.tla), for every program,   *)
(* every breakpoint size and every set of task ids.  The only step that   *)
(* leaves a pc off an instruction start is a breakpoint trap; the proof    *)
(* shows that every task the server resumes (with ptraceCont or           *)
(* ptraceSingleStep) is not such a task, or has been backed up first.      *)
(***************************************************************************)
EXTENDS ServerRefinement

(* A Resume that failed leaves no task to control: s.stoppedPid is 0, or   *)
(* the task it names has died.  So every later Resume fails at once, and  *)
(* nothing is resumed until the next Run.                                  *)
BrokenDead ==
    broken => /\ rs = "idle"
              /\ stoppedPid = NoPid \/ tstate[stoppedPid] \in {"zombie", "reaped"}

(* From Run until the exec stop is collected, the new process is a single  *)
(* task, stopped at the entry point with its exec SIGTRAP pending.         *)
ExecStop ==
    proc /\ (~procIsUp \/ rs = "waitExec")
        => /\ ~broken
           /\ member = {stoppedPid}
           /\ tstate[stoppedPid] = "stopped"
           /\ status[stoppedPid] = "trap"
           /\ pc[stoppedPid] = Entry

(* A status not yet collected belongs to a task in ptrace-stop or to a     *)
(* zombie.                                                                 *)
StatusPending ==
    \A t \in Threads : status[t] # "none" => tstate[t] \in {"stopped", "zombie"}

(* A live task whose pc is not an instruction start has just executed a    *)
(* breakpoint instruction: it is stopped with the SIGTRAP pending, and it  *)
(* is not the task being stepped over (the breakpoints are lifted then).   *)
OffBoundaryTrapped ==
    \A t \in Threads : Live(t) /\ pc[t] \notin Addrs
        => /\ tstate[t] = "stopped"
           /\ status[t] = "trap"
           /\ ~(t = stoppedPid /\ rs = "waitStep")

(* The conjuncts BoundaryInv adds to RefineInv and RewoundInv.            *)
BoundaryExtra == BrokenDead /\ ExecStop /\ StatusPending /\ OffBoundaryTrapped

BoundaryInv ==
    /\ RefineInv
    /\ RewoundInv
    /\ BrokenDead
    /\ ExecStop
    /\ StatusPending
    /\ OffBoundaryTrapped

-----------------------------------------------------------------------------
LEMMA BoundaryInit == Init => BoundaryExtra
BY DEF Init, BoundaryExtra, BrokenDead, ExecStop, StatusPending, OffBoundaryTrapped, Live

(* The debuggee's own steps: only a breakpoint trap leaves a pc off an     *)
(* instruction start, and it stops the task with the SIGTRAP pending; the  *)
(* stepped task cannot trap, the code being clean while it steps.          *)
LEMMA BoundaryDebuggee ==
    ASSUME BoundaryInv, NEW t \in Threads, DebuggeeStep(t), UNCHANGED serverVars
    PROVE  BoundaryExtra'
<1> USE ServerAssumption DEF BoundaryInv, RefineInv, TransparencyInv, TypeInv, TypeOK, serverVars,
                            Fetch, StopWith
<1>1. tstate[t] = "running" /\ pc[t] \in Addrs
  BY DEF DebuggeeStep, HitBreakpoint, ExecInstr, CloneThread, ExitGroup, Fault
<1>2. t \in member /\ proc
  BY <1>1 DEF LiveIsMember, Live
<1>3. ~(~procIsUp \/ rs = "waitExec")
  BY <1>1, <1>2 DEF ExecStop
<1>4. ExecStop'
  BY <1>3 DEF ExecStop
<1>5. t # stoppedPid \/ ~broken
  BY <1>1 DEF BrokenDead
<1>6. CASE HitBreakpoint(t)
  <2>1. rs = "waitStep" => t # stoppedPid
    <3>1. rs = "waitStep" => ~broken /\ proc
      BY DEF BrokenDead, WaitingUp
    <3>2. QED
      BY <1>6, <3>1 DEF HitBreakpoint, CleanBeforeSet
  <2>2. QED
    BY <1>1, <1>6, <2>1 DEF HitBreakpoint, BoundaryExtra, BrokenDead, StatusPending,
                            OffBoundaryTrapped, ExecStop, Live
<1>7. CASE ExecInstr(t)
  <2>1. PICK n \in Succ[pc[t]] : pc' = [pc EXCEPT ![t] = n]
    BY <1>7 DEF ExecInstr
  <2>2. n \in Addrs
    BY <1>1, <2>1, TraceeAssumption
  <2>3. QED
    BY <1>1, <1>7, <2>1, <2>2 DEF ExecInstr, BoundaryExtra, BrokenDead, StatusPending,
                                 OffBoundaryTrapped, ExecStop, Live
<1>8. CASE CloneThread(t)
  <2>1. PICK u \in Threads, n \in Succ[pc[t]] :
          /\ tstate[u] = "unused"
          /\ tstate' = [tstate EXCEPT ![t] = "stopped", ![u] = "stopped"]
          /\ status' = [status EXCEPT ![t] = "clone", ![u] = "sigstop"]
          /\ pc' = [pc EXCEPT ![t] = n, ![u] = n]
          /\ stepping' = [stepping EXCEPT ![u] = FALSE]
          /\ member' = member \cup {u}
    BY <1>8 DEF CloneThread
  <2>2. n \in Addrs
    BY <1>1, <2>1, TraceeAssumption
  <2>3. broken => u # stoppedPid
    BY <2>1 DEF BrokenDead
  <2>4. QED
    BY <1>1, <1>4, <1>5, <2>1, <2>2, <2>3
       DEF BoundaryExtra, BrokenDead, StatusPending, OffBoundaryTrapped, Live
<1>9. CASE ExitGroup(t)
  BY <1>4, <1>9 DEF ExitGroup, Killed, KilledStatus, Live, BoundaryExtra, BrokenDead,
                    StatusPending, OffBoundaryTrapped
<1>10. CASE Fault(t)
  BY <1>1, <1>4, <1>5, <1>10 DEF Fault, BoundaryExtra, BrokenDead, StatusPending,
                                 OffBoundaryTrapped, Live
<1>11. QED
  BY <1>6, <1>7, <1>8, <1>9, <1>10 DEF DebuggeeStep
(* Run kills every live task of the old process; the one live task after  *)
(* it is the new process's, stopped at the entry point.                    *)
LEMMA BoundaryRun ==
    ASSUME BoundaryInv, Run
    PROVE  BoundaryExtra'
<1> USE DEF BoundaryInv, RefineInv, TransparencyInv, TypeInv, TypeOK
<1> DEFINE killed == IF proc THEN Killed(member) ELSE tstate
           killedStatus == IF proc THEN KilledStatus(member) ELSE status
<1>1. \A x \in Threads : killed[x] \notin {"running", "stopped"}
  BY DEF Killed, LiveIsMember, Live
<1>2. \A x \in Threads : killedStatus[x] # "none" => killed[x] \in {"stopped", "zombie"}
  BY DEF Killed, KilledStatus, StatusPending, Live
<1>3. broken' = FALSE /\ procIsUp' = FALSE /\ rs' = "idle"
  BY DEF Run
<1>4. CASE \E u \in Threads :
               /\ tstate[u] = "unused"
               /\ tstate' = [killed EXCEPT ![u] = "stopped"]
               /\ status' = [killedStatus EXCEPT ![u] = "trap"]
               /\ pc' = [pc EXCEPT ![u] = Entry]
               /\ member' = {u}
               /\ proc' = TRUE
               /\ stoppedPid' = u
  <2>1. PICK u \in Threads :
               /\ tstate[u] = "unused"
               /\ tstate' = [killed EXCEPT ![u] = "stopped"]
               /\ status' = [killedStatus EXCEPT ![u] = "trap"]
               /\ pc' = [pc EXCEPT ![u] = Entry]
               /\ member' = {u}
               /\ proc' = TRUE
               /\ stoppedPid' = u
    BY <1>4
  <2>2. Entry \in Addrs
    BY TraceeAssumption
  <2>3. killed \in [Threads -> ThreadStates] /\ killedStatus \in [Threads -> WaitStatuses]
    BY DEF Killed, KilledStatus, ThreadStates, WaitStatuses, Live
  <2>4. ExecStop'
    BY <1>3, <2>1, <2>2, <2>3 DEF ExecStop
  <2>5. StatusPending'
    BY <1>2, <2>1, <2>3 DEF StatusPending
  <2>6. OffBoundaryTrapped'
    BY <1>1, <2>1, <2>2, <2>3 DEF OffBoundaryTrapped, Live
  <2>7. QED
    BY <1>3, <2>4, <2>5, <2>6 DEF BoundaryExtra, BrokenDead
<1>5. CASE /\ tstate' = killed
           /\ status' = killedStatus
           /\ proc' = FALSE
  BY <1>1, <1>2, <1>3, <1>5
     DEF BoundaryExtra, BrokenDead, ExecStop, StatusPending, OffBoundaryTrapped, Live
<1>6. QED
  BY <1>4, <1>5 DEF Run

(* Resume resumes s.stoppedPid only when it is stopped, hence only after a *)
(* Resume that succeeded, at the backed-up pc of a breakpoint, or at the   *)
(* entry point; a Resume that fails leaves s.stoppedPid dead.              *)
LEMMA BoundaryResume ==
    ASSUME BoundaryInv, Resume
    PROVE  BoundaryExtra'
<1> USE DEF BoundaryInv, RefineInv, TransparencyInv, TypeInv, TypeOK
<1>1. rs = "idle" /\ UNCHANGED <<proc, stoppedPid, stoppedRip, breakpoints>>
  BY DEF Resume
<1>2. PtraceStopped(stoppedPid) /\ procIsUp
        => ~broken /\ pc[stoppedPid] = stoppedRip /\ HasBreakpoint(stoppedRip)
  <2>1. PtraceStopped(stoppedPid) => ~broken
    BY ServerAssumption DEF PtraceStopped, BrokenDead
  <2>2. QED
    BY <1>1, <2>1 DEF RewoundInv, PtraceStopped
<1>3. ~PtraceStopped(stoppedPid) /\ proc /\ procIsUp
        => stoppedPid = NoPid \/ tstate[stoppedPid] \in {"zombie", "reaped"}
  BY <1>1 DEF RewoundInv, PtraceStopped, BrokenDead
<1>4. CASE ~proc /\ ResumeFails /\ UNCHANGED <<traceeVars, procIsUp>>
  BY <1>1, <1>4 DEF ResumeFails, traceeVars, NoProcNoPid, BoundaryExtra, BrokenDead,
                    ExecStop, StatusPending, OffBoundaryTrapped, Live
<1>5. CASE proc /\ ~procIsUp /\ procIsUp' = TRUE /\ rs' = "waitExec"
           /\ UNCHANGED <<traceeVars, broken>>
  BY <1>1, <1>5 DEF traceeVars, BoundaryExtra, BrokenDead, ExecStop, StatusPending,
                    OffBoundaryTrapped, Live
<1>6. CASE /\ proc /\ procIsUp
           /\ HasBreakpoint(stoppedRip)
           /\ IF PtraceStopped(stoppedPid)
              THEN /\ tstate' = ContinuedState(stoppedPid)
                   /\ status' = ContinuedStatus(stoppedPid)
                   /\ rs' = "waitStep"
                   /\ UNCHANGED broken
              ELSE /\ ResumeFails
                   /\ UNCHANGED <<tstate, status, stepping>>
           /\ UNCHANGED <<pc, member, mem, traceClone, procIsUp>>
  <2>1. CASE PtraceStopped(stoppedPid)
    <3>1. /\ tstate' = [tstate EXCEPT ![stoppedPid] = "running"]
          /\ status' = [status EXCEPT ![stoppedPid] = "none"]
          /\ rs' = "waitStep" /\ ~broken'
          /\ stoppedPid \in Threads /\ pc[stoppedPid] \in Addrs
      BY <1>2, <1>6, <2>1 DEF ContinuedState, ContinuedStatus, PtraceStopped, HasBreakpoint
    <3>2. QED
      BY <1>1, <1>6, <3>1 DEF BoundaryExtra, BrokenDead, ExecStop, StatusPending,
                              OffBoundaryTrapped, Live
  <2>2. CASE ~PtraceStopped(stoppedPid)
    BY <1>1, <1>3, <1>6, <2>2 DEF ResumeFails, BoundaryExtra, BrokenDead, ExecStop,
                                  StatusPending, OffBoundaryTrapped, Live
  <2>3. QED
    BY <2>1, <2>2
<1>7. CASE proc /\ procIsUp /\ ~HasBreakpoint(stoppedRip) /\ SetBreakpointsAndCont
           /\ UNCHANGED <<pc, member, procIsUp>>
  <2>1. ~PtraceStopped(stoppedPid)
    BY <1>2, <1>7
  <2>2. ResumeFails /\ UNCHANGED <<tstate, status>>
    BY <1>7, <2>1 DEF SetBreakpointsAndCont
  <2>3. QED
    BY <1>1, <1>3, <1>7, <2>1, <2>2 DEF ResumeFails, BoundaryExtra, BrokenDead, ExecStop,
                                  StatusPending, OffBoundaryTrapped, Live
<1>8. QED
  BY <1>4, <1>5, <1>6, <1>7 DEF Resume
(* A stop other than a plain SIGTRAP is collected: the task is continued   *)
(* at an instruction start (only a pending SIGTRAP can sit off one), or,   *)
(* if it has exited, it is reaped and the Resume fails with it dead.       *)
LEMMA BoundaryWaitContinue ==
    ASSUME BoundaryInv, NEW t \in Threads, WaitForTrapContinue(t)
    PROVE  BoundaryExtra'
<1> USE DEF BoundaryInv, RefineInv, TransparencyInv, TypeInv, TypeOK
<1>1. Waiting /\ ~broken /\ proc /\ procIsUp
  BY DEF WaitForTrapContinue, Waiting, BrokenDead, WaitingUp
<1>2. status[t] \in {"clone", "sigstop", "exit", "signal"} /\ WaitsFor(t)
  BY DEF WaitForTrapContinue
<1>3. rs = "waitExec" => t = stoppedPid /\ status[stoppedPid] = "trap"
  BY <1>1, <1>2 DEF WaitsFor, ExecStop
<1>4. rs # "waitExec"
  BY <1>2, <1>3
<1>5. CASE tstate[t] = "stopped"
  <2>1. /\ tstate' = [tstate EXCEPT ![t] = "running"]
        /\ status' = [status EXCEPT ![t] = "none"]
        /\ UNCHANGED <<rs, broken, stoppedPid, pc, proc, procIsUp, member>>
    BY <1>5 DEF WaitForTrapContinue, ContinuedState
  <2>2. pc[t] \in Addrs
    BY <1>2, <1>5 DEF OffBoundaryTrapped, Live
  <2>3. QED
    BY <1>1, <1>4, <2>1, <2>2 DEF BoundaryExtra, BrokenDead, ExecStop, StatusPending,
                                  OffBoundaryTrapped, Live
<1>6. CASE tstate[t] # "stopped"
  <2>1. tstate[t] = "zombie"
    BY <1>2, <1>6 DEF StatusPending
  <2>2. /\ tstate' = [tstate EXCEPT ![t] = "reaped"]
        /\ status' = [status EXCEPT ![t] = "none"]
        /\ rs' = "idle" /\ broken' = TRUE
        /\ stoppedPid' = StoppedPidAfterWaitError
        /\ UNCHANGED <<pc, proc, procIsUp, member>>
    BY <1>6, <2>1 DEF WaitForTrapContinue, ReapedState, ResumeFails
  <2>3. stoppedPid' = NoPid \/ stoppedPid' = t
    BY <1>1, <1>2, <2>2 DEF StoppedPidAfterWaitError, WaitsFor, Waiting
  <2>4. QED
    BY <1>1, <2>1, <2>2, <2>3 DEF BoundaryExtra, BrokenDead, ExecStop, StatusPending,
                                  OffBoundaryTrapped, Live
<1>7. QED
  BY <1>5, <1>6

(* waitForTrap returns a task with a pending SIGTRAP.  After the exec or   *)
(* the single-step wait, s.stoppedPid is continued at the entry point or   *)
(* at the instruction after the one stepped over; after the wait for any  *)
(* task, the task returned is backed up over its breakpoint instruction.  *)
LEMMA BoundaryWaitReturns ==
    ASSUME BoundaryInv, NEW t \in Threads, WaitForTrapReturns(t)
    PROVE  BoundaryExtra'
<1> USE DEF BoundaryInv, RefineInv, TransparencyInv, TypeInv, TypeOK
<1>1. Waiting /\ ~broken /\ proc /\ procIsUp /\ status[t] = "trap" /\ tstate[t] = "stopped"
  BY DEF WaitForTrapReturns, Waiting, BrokenDead, WaitingUp, TrapStopped
<1>2. UNCHANGED <<member, proc, procIsUp>>
  BY DEF WaitForTrapReturns
<1>3. CASE rs \in {"waitExec", "waitStep"}
  <2>1. t = stoppedPid
    BY <1>3 DEF WaitForTrapReturns, WaitsFor
  <2>2. pc[stoppedPid] \in Addrs
    <3>1. CASE rs = "waitExec"
      BY <1>1, <2>1, <3>1, TraceeAssumption DEF ExecStop
    <3>2. CASE rs = "waitStep"
      <4>1. stoppedPid \in Threads /\ Live(stoppedPid)
        BY <1>1, <2>1 DEF Live
      <4>2. QED
        BY <4>1, <3>2 DEF OffBoundaryTrapped
    <3>3. QED
      BY <1>3, <3>1, <3>2
  <2>3. SetBreakpointsAndCont /\ UNCHANGED <<pc, stoppedPid>>
    BY <1>3 DEF WaitForTrapReturns
  <2>4. /\ tstate' = [tstate EXCEPT ![stoppedPid] = "running"]
        /\ status' = [status EXCEPT ![stoppedPid] = "none"]
        /\ rs' = "waitTrap" /\ UNCHANGED broken
    BY <1>1, <2>1, <2>3 DEF SetBreakpointsAndCont, PtraceStopped, ContinuedState,
                            ContinuedStatus
  <2>5. QED
    BY <1>1, <1>2, <2>1, <2>2, <2>3, <2>4
       DEF BoundaryExtra, BrokenDead, ExecStop, StatusPending, OffBoundaryTrapped, Live
<1>4. CASE rs = "waitTrap"
  <2>1. /\ status' = [status EXCEPT ![t] = "none"]
        /\ stoppedPid' = t
        /\ pc' = [pc EXCEPT ![t] = pc[t] - BreakpointSize]
        /\ rs' = "idle"
        /\ UNCHANGED <<tstate, broken>>
    BY <1>4 DEF WaitForTrapReturns, ReportStop, RewindPC
  <2>2. pc[t] - BreakpointSize \in Addrs
    BY <1>1, <1>4 DEF TrapOrigins, HasBreakpoint
  <2>3. QED
    BY <1>1, <1>2, <2>1, <2>2
       DEF BoundaryExtra, BrokenDead, ExecStop, StatusPending, OffBoundaryTrapped, Live
<1>5. QED
  BY <1>1, <1>3, <1>4 DEF Waiting

LEMMA BoundaryBreakpoint ==
    ASSUME BoundaryInv, Breakpoint
    PROVE  BoundaryExtra'
BY DEF Breakpoint, traceeVars, BoundaryInv, BoundaryExtra, BrokenDead, ExecStop,
       StatusPending, OffBoundaryTrapped, Live

LEMMA BoundaryStep == BoundaryInv /\ [Next]_vars => BoundaryExtra'
<1> SUFFICES ASSUME BoundaryInv, [Next]_vars PROVE BoundaryExtra'
  OBVIOUS
<1>1. CASE Run
  BY <1>1, BoundaryRun
<1>2. CASE Resume
  BY <1>2, BoundaryResume
<1>3. CASE Breakpoint
  BY <1>3, BoundaryBreakpoint
<1>4. ASSUME NEW t \in Threads, WaitForTrapContinue(t) PROVE BoundaryExtra'
  BY <1>4, BoundaryWaitContinue
<1>5. ASSUME NEW t \in Threads, WaitForTrapReturns(t) PROVE BoundaryExtra'
  BY <1>5, BoundaryWaitReturns
<1>6. ASSUME NEW t \in Threads, DebuggeeStep(t), UNCHANGED serverVars PROVE BoundaryExtra'
  BY <1>6, BoundaryDebuggee
<1>7. CASE UNCHANGED vars
  BY <1>7 DEF vars, traceeVars, serverVars, BoundaryInv, BoundaryExtra, BrokenDead,
              ExecStop, StatusPending, OffBoundaryTrapped, Live
<1>8. QED
  BY <1>1, <1>2, <1>3, <1>4, <1>5, <1>6, <1>7 DEF Next, ServerStep, WaitStep, DebuggeeNext

(* No thread of the debuggee is ever resumed in the middle of an           *)
(* instruction, for every program and breakpoint size: every task Resume   *)
(* and waitForTrap continue is at an instruction start, because the only   *)
(* task off one is a task just past a breakpoint instruction whose         *)
(* SIGTRAP is still pending, and Resume backs it up before returning it.   *)
THEOREM Boundary == Spec => []RunningAtBoundary
<1>1. Init => BoundaryInv
  BY RefineInit, BoundaryInit DEF Init, BoundaryInv, BoundaryExtra, RewoundInv
<1>2. BoundaryInv /\ [Next]_vars => BoundaryInv'
  BY RefineStep, RewoundStep, BoundaryStep DEF BoundaryInv, BoundaryExtra
<1>3. BoundaryInv => RunningAtBoundary
  BY DEF BoundaryInv, OffBoundaryTrapped, RunningAtBoundary, RefineInv, LiveIsMember, Live,
         TransparencyInv, TypeInv, TypeOK
<1>4. QED
  BY <1>1, <1>2, <1>3, PTL DEF Spec
=============================================================================
