-------------------------- MODULE FileDescriptors --------------------------
(***************************************************************************)
(* What the auxiliary file table promises its client (spec section 6 and  *)
(* component 9, "a dense indexed mapping of open host files").  Open       *)
(* answers no descriptor, so a client finds its file by density: Open      *)
(* takes the lowest descriptor not in use (scenario S5 reads fd 0 after    *)
(* the first Open).  Close frees exactly the descriptor it is given.  A    *)
(* host file is named by the order in which it was opened.                  *)
(***************************************************************************)
EXTENDS Naturals

VARIABLES
    fds,       \* fds[d]: the host file descriptor d names
    nextFile   \* how many host files have been opened

vars == <<fds, nextFile>>

Init ==
    /\ fds = [d \in {} |-> 0]
    /\ nextFile = 0

(* d is the lowest descriptor not in use.  It is 0 or one past a          *)
(* descriptor in use, which bounds the choice.                             *)
LowestFree(d) ==
    /\ d \notin DOMAIN fds
    /\ \A j \in 0..(d - 1) : j \in DOMAIN fds

Open ==
    /\ \E d \in {0} \cup {x + 1 : x \in DOMAIN fds} :
         /\ LowestFree(d)
         /\ fds' = [x \in DOMAIN fds \cup {d} |-> IF x = d THEN nextFile ELSE fds[x]]
    /\ nextFile' = nextFile + 1

Close ==
    /\ \E d \in DOMAIN fds : fds' = [x \in DOMAIN fds \ {d} |-> fds[x]]
    /\ UNCHANGED nextFile

Next == Open \/ Close

Spec == Init /\ [][Next]_vars
=============================================================================
