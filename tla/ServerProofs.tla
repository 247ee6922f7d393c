--------------------------- MODULE ServerProofs ---------------------------
(***************************************************************************)
(* Proofs about the process controller of Server.tla, for every value of   *)
(* the constants that satisfies TraceeAssumption and ServerAssumption.     *)
(***************************************************************************)
EXTENDS Server, TLAPS

(* TypeOK alone is not inductive: Resume backs the pc of the task wait()   *)
(* returned up by BreakpointSize, which stays a natural number only        *)
(* because every pending SIGTRAP was raised at a pc of at least            *)
(* BreakpointSize (past a breakpoint, at an instruction start, or at the   *)
(* entry point).                                                           *)
TrapPcBound == \A t \in Threads : status[t] = "trap" => pc[t] >= BreakpointSize

TypeInv == TypeOK /\ TrapPcBound

(* BreakpointTransparency is not inductive either.  It rests on three     *)
(* facts: a code address holds a breakpoint instruction only if it is a pc *)
(* of the breakpoint table (setBreakpoints pokes nothing else); every      *)
(* saved instruction is the program's own (Breakpoint peeks only pcs not   *)
(* yet in the table, and those hold their original instruction); and while *)
(* Resume has not yet called setBreakpoints, the code is untouched.        *)
TrapsInTable == \A a \in Addrs : mem[a] = "trap" => HasBreakpoint(a)

CleanBeforeSet ==
    proc /\ rs \in {"idle", "waitExec", "waitStep"} /\ ~broken
        => \A a \in Addrs : mem[a] = "orig"

TransparencyInv == TypeInv /\ TrapsInTable /\ SavedInstrIsOriginal /\ CleanBeforeSet

LEMMA TypeInvInit == Init => TypeInv
<1> SUFFICES ASSUME Init PROVE TypeInv
  OBVIOUS
<1>1. TypeOK
  BY DEF Init, TypeOK, ThreadStates, WaitStatuses, Instr, Phases
<1>2. TrapPcBound
  BY DEF Init, TrapPcBound
<1>3. QED
  BY <1>1, <1>2 DEF TypeInv

LEMMA TypeInvDebuggee ==
    ASSUME TypeInv, NEW t \in Threads, DebuggeeStep(t), UNCHANGED serverVars
    PROVE  TypeInv'
<1> USE DEF TypeInv, TypeOK, TrapPcBound, ThreadStates, WaitStatuses, Instr,
            serverVars, Fetch, StopWith
<1>1. CASE HitBreakpoint(t)
  BY <1>1, TraceeAssumption DEF HitBreakpoint
<1>2. CASE ExecInstr(t)
  <2>1. PICK n \in Succ[pc[t]] : pc' = [pc EXCEPT ![t] = n]
    BY <1>2 DEF ExecInstr
  <2>2. n \in Nat /\ n >= BreakpointSize
    BY <2>1, <1>2, TraceeAssumption DEF ExecInstr
  <2>3. CASE stepping[t]
    <3>1. /\ tstate' = [tstate EXCEPT ![t] = "stopped"]
          /\ status' = [status EXCEPT ![t] = "trap"]
          /\ stepping' = [stepping EXCEPT ![t] = FALSE]
          /\ UNCHANGED <<member, mem, traceClone>>
      BY <1>2, <2>3 DEF ExecInstr
    <3>2. TypeOK' BY <1>2, <2>1, <2>2, <3>1
    <3>3. TrapPcBound' BY <2>1, <2>2, <3>1
    <3> QED BY <3>2, <3>3
  <2>4. CASE ~stepping[t]
    BY <1>2, <2>1, <2>2, <2>4 DEF ExecInstr
  <2>5. QED
    BY <2>3, <2>4
<1>3. CASE CloneThread(t)
  <2>1. PICK u \in Threads, n \in Succ[pc[t]] :
               /\ tstate[u] = "unused"
               /\ tstate' = [tstate EXCEPT ![t] = "stopped", ![u] = "stopped"]
               /\ status' = [status EXCEPT ![t] = "clone", ![u] = "sigstop"]
               /\ pc' = [pc EXCEPT ![t] = n, ![u] = n]
               /\ stepping' = [stepping EXCEPT ![u] = FALSE]
               /\ member' = member \cup {u}
    BY <1>3 DEF CloneThread
  <2>2. n \in Nat
    BY <2>1, <1>3, TraceeAssumption DEF CloneThread
  <2>3. QED
    BY <1>3, <2>1, <2>2 DEF CloneThread
<1>4. CASE ExitGroup(t)
  BY <1>4 DEF ExitGroup, Killed, KilledStatus, Live
<1>5. CASE Fault(t)
  BY <1>5 DEF Fault, StopWith, Fetch
<1>6. QED
  BY <1>1, <1>2, <1>3, <1>4, <1>5 DEF DebuggeeStep

LEMMA TypeInvRun == TypeInv /\ Run => TypeInv'
<1> SUFFICES ASSUME TypeInv, Run PROVE TypeInv'
  OBVIOUS
<1> USE DEF TypeInv, TypeOK, TrapPcBound, ThreadStates, WaitStatuses, Instr, Phases
<1> DEFINE killed == IF proc THEN Killed(member) ELSE tstate
           killedStatus == IF proc THEN KilledStatus(member) ELSE status
<1>1. killed \in [Threads -> ThreadStates] /\ killedStatus \in [Threads -> WaitStatuses]
  BY DEF Killed, KilledStatus
<1>2. \A t \in Threads : killedStatus[t] = "trap" => status[t] = "trap"
  BY DEF KilledStatus
<1>3. CASE \E u \in Threads :
               /\ tstate[u] = "unused"
               /\ tstate' = [killed EXCEPT ![u] = "stopped"]
               /\ status' = [killedStatus EXCEPT ![u] = "trap"]
               /\ pc' = [pc EXCEPT ![u] = Entry]
               /\ stepping' = [stepping EXCEPT ![u] = FALSE]
               /\ member' = {u}
               /\ mem' = [a \in Addrs |-> "orig"]
               /\ traceClone' = FALSE
               /\ proc' = TRUE
               /\ stoppedPid' = u
  <2>1. PICK u \in Threads :
               /\ tstate[u] = "unused"
               /\ tstate' = [killed EXCEPT ![u] = "stopped"]
               /\ status' = [killedStatus EXCEPT ![u] = "trap"]
               /\ pc' = [pc EXCEPT ![u] = Entry]
               /\ stepping' = [stepping EXCEPT ![u] = FALSE]
               /\ member' = {u}
               /\ mem' = [a \in Addrs |-> "orig"]
               /\ traceClone' = FALSE
               /\ proc' = TRUE
               /\ stoppedPid' = u
    BY <1>3
  <2>2. Entry \in Nat /\ Entry >= BreakpointSize
    BY TraceeAssumption
  <2>3. TypeOK'
    BY <1>1, <2>1, <2>2 DEF Run
  <2>4. TrapPcBound'
    BY <1>2, <2>1, <2>2 DEF Run
  <2>5. QED
    BY <2>3, <2>4
<1>4. CASE /\ tstate' = killed
           /\ status' = killedStatus
           /\ proc' = FALSE
           /\ stoppedPid' = NoPid
           /\ UNCHANGED <<pc, stepping, member, mem, traceClone>>
  BY <1>1, <1>2, <1>4 DEF Run
<1>5. QED
  BY <1>3, <1>4 DEF Run

(* setBreakpoints followed by ptraceCont keeps the types, whatever        *)
(* traceClone becomes (Resume keeps it, the exec stop sets it).            *)
LEMMA TypeInvSetAndCont ==
    ASSUME TypeInv, SetBreakpointsAndCont, traceClone' \in BOOLEAN,
           UNCHANGED <<pc, member, proc, procIsUp, stoppedPid, stoppedRip, breakpoints>>
    PROVE  TypeInv'
<1> USE DEF TypeInv, TypeOK, TrapPcBound, ThreadStates, WaitStatuses, Instr, Phases
<1>1. CASE PtraceStopped(stoppedPid)
  <2>1. /\ mem' = InstalledMem
        /\ tstate' = ContinuedState(stoppedPid)
        /\ status' = ContinuedStatus(stoppedPid)
        /\ stepping' = [stepping EXCEPT ![stoppedPid] = FALSE]
        /\ rs' = "waitTrap"
        /\ UNCHANGED broken
    BY <1>1 DEF SetBreakpointsAndCont
  <2>2. stoppedPid \in Threads
    BY <1>1 DEF PtraceStopped
  <2>3. mem' \in [Addrs -> Instr]
    BY <2>1 DEF InstalledMem
  <2>4. /\ tstate' \in [Threads -> ThreadStates]
        /\ status' \in [Threads -> WaitStatuses]
        /\ stepping' \in [Threads -> BOOLEAN]
    BY <2>1, <2>2 DEF ContinuedState, ContinuedStatus
  <2>5. TrapPcBound'
    BY <2>1, <2>2 DEF ContinuedStatus
  <2>6. QED
    BY <2>1, <2>3, <2>4, <2>5
<1>2. CASE ~PtraceStopped(stoppedPid)
  BY <1>2 DEF SetBreakpointsAndCont, ResumeFails
<1>3. QED
  BY <1>1, <1>2

LEMMA TypeInvResume == TypeInv /\ Resume => TypeInv'
<1> SUFFICES ASSUME TypeInv, Resume PROVE TypeInv'
  OBVIOUS
<1> USE DEF TypeInv, TypeOK, TrapPcBound, ThreadStates, WaitStatuses, Instr, Phases
<1>1. CASE ~proc /\ ResumeFails /\ UNCHANGED <<traceeVars, procIsUp>>
  BY <1>1 DEF Resume, ResumeFails, traceeVars
<1>2. CASE proc /\ ~procIsUp /\ procIsUp' = TRUE /\ rs' = "waitExec"
           /\ UNCHANGED <<traceeVars, broken>>
  BY <1>2 DEF Resume, traceeVars
<1>3. CASE /\ proc /\ procIsUp /\ HasBreakpoint(stoppedRip)
           /\ IF PtraceStopped(stoppedPid)
              THEN /\ tstate' = ContinuedState(stoppedPid)
                   /\ status' = ContinuedStatus(stoppedPid)
                   /\ stepping' = [stepping EXCEPT ![stoppedPid] = TRUE]
                   /\ rs' = "waitStep"
                   /\ UNCHANGED broken
              ELSE /\ ResumeFails
                   /\ UNCHANGED <<tstate, status, stepping>>
           /\ UNCHANGED <<pc, member, mem, traceClone, procIsUp>>
  <2>1. CASE PtraceStopped(stoppedPid)
    BY <1>3, <2>1 DEF Resume, PtraceStopped, ContinuedState, ContinuedStatus
  <2>2. CASE ~PtraceStopped(stoppedPid)
    BY <1>3, <2>2 DEF Resume, ResumeFails
  <2>3. QED
    BY <2>1, <2>2
<1>4. CASE /\ proc /\ procIsUp /\ ~HasBreakpoint(stoppedRip)
           /\ SetBreakpointsAndCont
           /\ UNCHANGED <<pc, member, traceClone, procIsUp>>
  BY <1>4, TypeInvSetAndCont DEF Resume
<1>5. QED
  BY <1>1, <1>2, <1>3, <1>4 DEF Resume

LEMMA TypeInvWaitContinue ==
    ASSUME TypeInv, NEW t \in Threads, WaitForTrapContinue(t)
    PROVE  TypeInv'
BY DEF TypeInv, TypeOK, TrapPcBound, ThreadStates, WaitStatuses, Instr, Phases,
       WaitForTrapContinue, ResumeFails, ContinuedState, ReapedState,
       StoppedPidAfterWaitError

LEMMA TypeInvWaitReturns ==
    ASSUME TypeInv, NEW t \in Threads, WaitForTrapReturns(t)
    PROVE  TypeInv'
<1> USE DEF TypeInv, TypeOK, TrapPcBound, ThreadStates, WaitStatuses, Instr, Phases
<1>1. CASE rs = "waitExec"
  BY <1>1, TypeInvSetAndCont DEF WaitForTrapReturns
<1>2. CASE rs = "waitStep"
  BY <1>2, TypeInvSetAndCont DEF WaitForTrapReturns
<1>3. CASE rs = "waitTrap"
  <2>1. /\ status' = [status EXCEPT ![t] = "none"]
        /\ ReportStop(t)
        /\ UNCHANGED <<member, proc, procIsUp, breakpoints>>
    BY <1>3 DEF WaitForTrapReturns
  <2>2. pc[t] >= BreakpointSize /\ pc[t] \in Nat
    BY DEF WaitForTrapReturns
  <2>3. pc[t] - BreakpointSize \in Nat
    BY <2>2, TraceeAssumption
  <2>4. QED
    BY <2>1, <2>3 DEF ReportStop, RewindPC, LiftedMem, HasBreakpoint
<1>4. QED
  BY <1>1, <1>2, <1>3 DEF WaitForTrapReturns, Waiting

LEMMA TypeInvBreakpoint == TypeInv /\ Breakpoint => TypeInv'
BY DEF TypeInv, TypeOK, TrapPcBound, Instr, Breakpoint, traceeVars

-----------------------------------------------------------------------------
(* The strengthening of BreakpointTransparency, step by step.              *)

LEMMA TransparencyInit == Init => TrapsInTable /\ SavedInstrIsOriginal /\ CleanBeforeSet
BY DEF Init, TrapsInTable, SavedInstrIsOriginal, CleanBeforeSet, HasBreakpoint

(* The debuggee's own steps never write its code segment.                  *)
LEMMA DebuggeeKeepsMem ==
    ASSUME NEW t \in Threads, DebuggeeStep(t)
    PROVE  UNCHANGED mem
BY DEF DebuggeeStep, HitBreakpoint, ExecInstr, CloneThread, ExitGroup, Fault

LEMMA TransparencyDebuggee ==
    ASSUME TransparencyInv, NEW t \in Threads, DebuggeeStep(t), UNCHANGED serverVars
    PROVE  (TrapsInTable /\ SavedInstrIsOriginal /\ CleanBeforeSet)'
BY DebuggeeKeepsMem DEF TransparencyInv, TrapsInTable, SavedInstrIsOriginal,
                         CleanBeforeSet, HasBreakpoint, serverVars

LEMMA TransparencyRun ==
    ASSUME TransparencyInv, Run
    PROVE  (TrapsInTable /\ SavedInstrIsOriginal /\ CleanBeforeSet)'
<1> USE DEF TransparencyInv, TrapsInTable, SavedInstrIsOriginal, CleanBeforeSet,
            HasBreakpoint
<1>1. mem' = [a \in Addrs |-> "orig"] \/ (proc' = FALSE /\ mem' = mem)
  BY DEF Run
<1>2. UNCHANGED breakpoints /\ broken' = FALSE
  BY DEF Run
<1>3. QED
  BY <1>1, <1>2

(* setBreakpoints pokes only pcs of the table, and Resume is then waiting  *)
(* for a trap (or has failed).                                             *)
LEMMA TransparencySetAndCont ==
    ASSUME TransparencyInv, SetBreakpointsAndCont,
           UNCHANGED <<proc, breakpoints>>
    PROVE  (TrapsInTable /\ SavedInstrIsOriginal /\ CleanBeforeSet)'
<1> USE DEF TransparencyInv, TrapsInTable, SavedInstrIsOriginal, CleanBeforeSet,
            HasBreakpoint
<1>1. CASE PtraceStopped(stoppedPid)
  BY <1>1 DEF SetBreakpointsAndCont, InstalledMem
<1>2. CASE ~PtraceStopped(stoppedPid)
  BY <1>2 DEF SetBreakpointsAndCont, ResumeFails
<1>3. QED
  BY <1>1, <1>2

LEMMA TransparencyResume ==
    ASSUME TransparencyInv, Resume
    PROVE  (TrapsInTable /\ SavedInstrIsOriginal /\ CleanBeforeSet)'
<1> USE DEF TransparencyInv, TrapsInTable, SavedInstrIsOriginal, CleanBeforeSet,
            HasBreakpoint
<1>1. UNCHANGED <<proc, breakpoints>> /\ rs = "idle"
  BY DEF Resume
<1>2. CASE proc /\ procIsUp /\ ~HasBreakpoint(stoppedRip) /\ SetBreakpointsAndCont
  BY <1>1, <1>2, TransparencySetAndCont
<1>3. CASE ~(proc /\ procIsUp /\ ~HasBreakpoint(stoppedRip))
  <2>1. UNCHANGED mem
    BY <1>3 DEF Resume, traceeVars
  <2>2. rs' \in {"waitExec", "waitStep"} \/ broken'
    BY <1>3 DEF Resume, ResumeFails
  <2>3. rs' \in {"waitExec", "waitStep"} => UNCHANGED broken
    BY <1>3 DEF Resume, ResumeFails
  <2>4. QED
    BY <1>1, <2>1, <2>2, <2>3
<1>4. QED
  BY <1>2, <1>3 DEF Resume

LEMMA TransparencyWaitContinue ==
    ASSUME TransparencyInv, NEW t \in Threads, WaitForTrapContinue(t)
    PROVE  (TrapsInTable /\ SavedInstrIsOriginal /\ CleanBeforeSet)'
BY DEF WaitForTrapContinue, ResumeFails, TransparencyInv, TrapsInTable,
       SavedInstrIsOriginal, CleanBeforeSet, HasBreakpoint

(* liftBreakpoints puts the saved instruction, the program's own, back at  *)
(* every pc of the table; every other address already holds its own.       *)
LEMMA TransparencyWaitReturns ==
    ASSUME TransparencyInv, NEW t \in Threads, WaitForTrapReturns(t)
    PROVE  (TrapsInTable /\ SavedInstrIsOriginal /\ CleanBeforeSet)'
<1> USE DEF TransparencyInv, TrapsInTable, SavedInstrIsOriginal, CleanBeforeSet,
            HasBreakpoint
<1>1. CASE rs \in {"waitExec", "waitStep"}
  BY <1>1, TransparencySetAndCont DEF WaitForTrapReturns
<1>2. CASE rs = "waitTrap"
  <2>1. mem' = LiftedMem /\ UNCHANGED <<proc, breakpoints>>
    BY <1>2 DEF WaitForTrapReturns, ReportStop
  <2>2. mem \in [Addrs -> Instr]
    BY DEF TypeInv, TypeOK
  <2>3. \A a \in Addrs : mem'[a] = "orig"
    BY <2>1, <2>2 DEF LiftedMem, Instr
  <2>4. QED
    BY <2>1, <2>3
<1>3. QED
  BY <1>1, <1>2 DEF WaitForTrapReturns, Waiting

(* Breakpoint saves an instruction only for a pc not yet in the table, and *)
(* such a pc still holds the program's own instruction.                    *)
LEMMA TransparencyBreakpoint ==
    ASSUME TransparencyInv, Breakpoint
    PROVE  (TrapsInTable /\ SavedInstrIsOriginal /\ CleanBeforeSet)'
<1> USE DEF TransparencyInv, TrapsInTable, SavedInstrIsOriginal, CleanBeforeSet
<1>1. PICK req \in Requests :
        breakpoints' = [a \in Addrs |-> IF a \in Inserted(req) THEN mem[a]
                                                               ELSE breakpoints[a]]
  BY DEF Breakpoint
<1>2. UNCHANGED <<mem, proc, rs, broken>>
  BY DEF Breakpoint, traceeVars
<1>3. \A a \in Inserted(req) : ~HasBreakpoint(a)
  BY DEF Inserted, Dup
<1>4. mem \in [Addrs -> Instr] /\ breakpoints \in [Addrs -> Instr \cup {"none"}]
  BY DEF TypeInv, TypeOK
<1>5. \A a \in Addrs : HasBreakpoint(a) => HasBreakpoint(a)'
  BY <1>1, <1>3, <1>4 DEF HasBreakpoint, Instr
<1>6. \A a \in Addrs : HasBreakpoint(a)' => breakpoints'[a] = "orig"
  BY <1>1, <1>3, <1>4 DEF HasBreakpoint, Instr
<1>7. QED
  BY <1>2, <1>5, <1>6

LEMMA TypeInvStep == TypeInv /\ [Next]_vars => TypeInv'
<1> SUFFICES ASSUME TypeInv, [Next]_vars PROVE TypeInv'
  OBVIOUS
<1>1. CASE Run
  BY <1>1, TypeInvRun
<1>2. CASE Resume
  BY <1>2, TypeInvResume
<1>3. CASE Breakpoint
  BY <1>3, TypeInvBreakpoint
<1>4. CASE \E t \in Threads : WaitForTrapContinue(t) \/ WaitForTrapReturns(t)
  BY <1>4, TypeInvWaitContinue, TypeInvWaitReturns
<1>5. CASE DebuggeeNext
  BY <1>5, TypeInvDebuggee DEF DebuggeeNext
<1>6. CASE UNCHANGED vars
  BY <1>6 DEF vars, traceeVars, serverVars, TypeInv, TypeOK, TrapPcBound
<1>7. QED
  BY <1>1, <1>2, <1>3, <1>4, <1>5, <1>6 DEF Next, ServerStep, WaitStep

(* Type correctness: in every reachable state every variable of the        *)
(* server and of the modelled debuggee has its type; in particular the pc  *)
(* Resume backs up over a breakpoint instruction never goes below zero.    *)
THEOREM TypeCorrect == Spec => []TypeOK
<1>1. TypeInv => TypeOK
  BY DEF TypeInv
<1>2. QED
  BY <1>1, TypeInvInit, TypeInvStep, PTL DEF Spec

(* Every step of the system preserves TransparencyInv.                    *)
LEMMA TransparencyStep == TransparencyInv /\ [Next]_vars => TransparencyInv'
<1> SUFFICES ASSUME TransparencyInv, [Next]_vars PROVE TransparencyInv'
  OBVIOUS
<1>1. TypeInv'
  BY TypeInvStep DEF TransparencyInv
<1>2. (TrapsInTable /\ SavedInstrIsOriginal /\ CleanBeforeSet)'
  <2>1. CASE Run
    BY <2>1, TransparencyRun
  <2>2. CASE Resume
    BY <2>2, TransparencyResume
  <2>3. CASE Breakpoint
    BY <2>3, TransparencyBreakpoint
  <2>4. CASE \E t \in Threads : WaitForTrapContinue(t) \/ WaitForTrapReturns(t)
    BY <2>4, TransparencyWaitContinue, TransparencyWaitReturns
  <2>5. CASE DebuggeeNext
    BY <2>5, TransparencyDebuggee DEF DebuggeeNext
  <2>6. CASE UNCHANGED vars
    BY <2>6 DEF vars, traceeVars, serverVars, TransparencyInv, TrapsInTable,
                SavedInstrIsOriginal, CleanBeforeSet, HasBreakpoint
  <2>7. QED
    BY <2>1, <2>2, <2>3, <2>4, <2>5, <2>6 DEF Next, ServerStep, WaitStep
<1>3. QED
  BY <1>1, <1>2 DEF TransparencyInv

(* TransparencyInv holds in every reachable state.                        *)
LEMMA TransparencyInductive == Spec => []TransparencyInv
<1>1. Init => TransparencyInv
  BY TypeInvInit, TransparencyInit DEF TransparencyInv
<1>2. QED
  BY <1>1, TransparencyStep, PTL DEF Spec

(* Breakpoint transparency (spec I1): whenever there is a debuggee, no     *)
(* handler runs and no Resume has failed since Run, the code holds only    *)
(* the program's own instructions: every successful Resume's              *)
(* liftBreakpoints undoes setBreakpoints, for any program and any table.   *)
THEOREM Transparency == Spec => []BreakpointTransparency
<1>1. TransparencyInv => BreakpointTransparency
  BY DEF TransparencyInv, CleanBeforeSet, BreakpointTransparency
<1>2. QED
  BY <1>1, TransparencyInductive, PTL

(* The dup check of Breakpoint keeps the breakpoint instruction out of the *)
(* table: every saved instruction liftBreakpoints would poke back is the   *)
(* program's own, even after Resumes that failed with traps poked in.      *)
THEOREM SavedOriginal == Spec => []SavedInstrIsOriginal
<1>1. TransparencyInv => SavedInstrIsOriginal
  BY DEF TransparencyInv
<1>2. QED
  BY <1>1, TransparencyInductive, PTL

=============================================================================
