----------------------------- MODULE Debugger -----------------------------
(***************************************************************************)
(* What the debug server promises its client, after the state table of     *)
(* the spec's process controller (4.5): a debuggee is absent, started,     *)
(* running (a Resume is in progress), stopped at a breakpoint, or in the   *)
(* unknown state a failed Resume leaves behind.  Breakpoints are added     *)
(* only while there is a process to peek, and a Resume that returns        *)
(* reports a pc of the breakpoint table.                                   *)
(***************************************************************************)
EXTENDS Naturals

CONSTANT Pcs   \* the pcs a breakpoint can be set at

VARIABLES
    phase,     \* "none", "started", "running", "stopped" or "failed"
    table,     \* the pcs of the breakpoint table
    reported   \* the pc the last successful Resume returned (0 after Run)

dvars == <<phase, table, reported>>

Phases == {"none", "started", "running", "stopped", "failed"}

Init ==
    /\ phase = "none"
    /\ table = {}
    /\ reported = 0

(* Run replaces the debuggee; if the new one cannot be started there is    *)
(* none.  The table is kept.                                               *)
Run ==
    /\ phase # "running"
    /\ phase' \in {"started", "none"}
    /\ reported' = 0
    /\ UNCHANGED table

(* A Resume lets the debuggee run.                                         *)
Resume ==
    /\ phase \in {"started", "stopped", "failed"}
    /\ phase' = "running"
    /\ UNCHANGED <<table, reported>>

(* The debuggee stops at a breakpoint and Resume returns its pc.           *)
Stop ==
    /\ phase = "running"
    /\ phase' = "stopped"
    /\ reported' \in table
    /\ UNCHANGED table

(* A Resume fails, before or after letting the debuggee run; one that ran  *)
(* after an earlier failure may return any pc.                             *)
Fail ==
    /\ phase \in {"stopped", "running", "failed"}
    /\ phase' = "failed"
    /\ reported' \in {reported} \cup (IF phase = "running" THEN Nat ELSE {})
    /\ UNCHANGED table

(* Breakpoint adds pcs, only while a debuggee is there and not running.    *)
AddBreakpoints ==
    /\ phase \in {"started", "stopped", "failed"}
    /\ \E new \in SUBSET Pcs : table' = table \cup new
    /\ UNCHANGED <<phase, reported>>

Next == Run \/ Resume \/ Stop \/ Fail \/ AddBreakpoints

Spec == Init /\ [][Next]_dvars
=============================================================================
