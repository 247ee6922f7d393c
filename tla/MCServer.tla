----------------------------- MODULE MCServer -----------------------------
(* A small instance of Server for TLC: three task ids (a first process    *)
(* with one clone, then a second Run), five instructions of which one     *)
(* clones, one exits and one faults, x86's one-byte breakpoint            *)
(* instruction.                                                            *)
EXTENDS Server, TLC

CONSTANTS t1, t2, t3

MCThreads == {t1, t2, t3}

(* Two task ids for the liveness runs, which cannot use symmetry: a       *)
(* process with one clone, or two processes with one thread each.         *)
MCThreads2 == {t1, t2}

(* Instructions start at even addresses, so a pc just past a breakpoint   *)
(* instruction (odd) is never an instruction start.                       *)
MCAddrs == {2, 4, 6, 8, 10}

MCSucc == (2 :> {4, 8}) @@ (4 :> {6}) @@ (6 :> {2, 10}) @@ (8 :> {2}) @@ (10 :> {2})

MCSymmetry == Permutations({t1, t2, t3})
=============================================================================
