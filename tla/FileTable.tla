---------------------------- MODULE FileTable ----------------------------
(***************************************************************************)
(* The auxiliary file table of the debug server: the handlers Open, ReadAt *)
(* and Close of src/program/server/server.go over s.files, whose index is *)
(* the descriptor the client uses.  Handlers hold s.mu, so they run one at *)
(* a time.  A host file is a handle id; what a read returns is left out.   *)
(***************************************************************************)
EXTENDS Integers, Sequences

CONSTANTS
    MaxOpens,  \* bound: how many host files the server opens in a behaviour
    ReqLens    \* the req.Len values clients send

ASSUME FileTableAssumption ==
    /\ MaxOpens \in Nat
    /\ ReqLens \subseteq Int

VARIABLES
    files,       \* s.files: a sequence of slots, slot i is descriptor i - 1
    osOpen,      \* the host handles that are open (os.OpenFile, not yet closed)
    nextHandle,  \* the id the next successful os.OpenFile returns
    crashed      \* a handler panicked: the server process is gone

vars == <<files, osOpen, nextHandle, crashed>>

(* A nil slot of s.files. *)
Nil == [index |-> -1, f |-> -1]

Modes == {"r", "w", "rw"}

(* The descriptors a request may name: every slot, and one either side.    *)
ReqFds == -1..(MaxOpens + 1)

(* fd < 0 || len(s.files) <= fd || s.files[fd] == nil                     *)
BadFd(fd) == ~(0 <= fd /\ fd < Len(files) /\ files[fd + 1] # Nil)

(* Faulty variant (mutation): the loop's nil test inverted, so the search *)
(* stops at the first slot in use.                                         *)
FreeSlotFirstUsed ==
    CHOOSE i \in 0..Len(files) :
        /\ i = Len(files) \/ files[i + 1] # Nil
        /\ \A j \in 0..(i - 1) : files[j + 1] = Nil

(* The slot the search loop of Open stops at: the first nil slot, or the   *)
(* length of the table when there is none.                                 *)
FreeSlot ==
    CHOOSE i \in 0..Len(files) :
        /\ i = Len(files) \/ files[i + 1] = Nil
        /\ \A j \in 0..(i - 1) : files[j + 1] # Nil

Init ==
    /\ files = <<>>
    /\ osOpen = {}
    /\ nextHandle = 0
    /\ crashed = FALSE

-----------------------------------------------------------------------------
(* Open: a bad mode and a failing os.OpenFile return an error and change   *)
(* nothing; otherwise the new file goes into FreeSlot, appended when that  *)
(* is the end of the table.                                                *)
(* Faulty variant (mutation): the new file is always appended, also when  *)
(* the search stopped at an empty slot.                                    *)
StoreAppendOnly(index, f) == Append(files, f)

Store(index, f) ==
    IF index = Len(files) THEN Append(files, f)
                          ELSE [files EXCEPT ![index + 1] = f]

Open ==
    /\ ~crashed
    /\ nextHandle < MaxOpens
    /\ \E mode \in Modes \cup {"bad"} :
         \/ /\ mode \in Modes
            /\ files' = Store(FreeSlot, [index |-> FreeSlot, f |-> nextHandle])
            /\ osOpen' = osOpen \cup {nextHandle}
            /\ nextHandle' = nextHandle + 1
         \/ \* bad mode, or os.OpenFile fails: nothing is opened
            UNCHANGED <<files, osOpen, nextHandle>>
    /\ UNCHANGED crashed

(* ReadAt: a bad descriptor is an error; otherwise make([]byte, req.Len)   *)
(* panics on a negative length, and the read itself changes no state.      *)
ReadAt ==
    /\ ~crashed
    /\ \E fd \in ReqFds, len \in ReqLens :
         \/ /\ BadFd(fd)
            /\ UNCHANGED crashed
         \/ /\ ~BadFd(fd)
            /\ crashed' = (len < 0)
    /\ UNCHANGED <<files, osOpen, nextHandle>>

(* Close: a bad descriptor is an error; otherwise the host file is closed  *)
(* and its slot emptied whatever the close returned.                       *)
Close ==
    /\ ~crashed
    /\ \E fd \in ReqFds :
         /\ ~BadFd(fd)
         /\ osOpen' = osOpen \ {files[fd + 1].f}
         /\ files' = [files EXCEPT ![fd + 1] = Nil]
    /\ UNCHANGED <<nextHandle, crashed>>

Next == Open \/ ReadAt \/ Close

Spec == Init /\ [][Next]_vars

-----------------------------------------------------------------------------
(* Every open host file is reachable through exactly one descriptor, and   *)
(* that descriptor is the index the file recorded when Open stored it:     *)
(* Open reuses the lowest free slot and Close empties the slot of the file *)
(* it closes, so no handle leaks and no descriptor names a closed file.    *)
DescriptorsTrackOpenFiles ==
    /\ osOpen = {files[i].f : i \in {k \in DOMAIN files : files[k] # Nil}}
    /\ \A i \in DOMAIN files : files[i] # Nil => files[i].index = i - 1
    /\ \A i, j \in DOMAIN files :
          files[i] # Nil /\ files[j] # Nil /\ files[i].f = files[j].f => i = j

(* A descriptor a client holds keeps naming the same host file until that *)
(* descriptor is closed: no Open or Close of another descriptor overwrites *)
(* or drops its slot (Open stores only into the first nil slot or at the  *)
(* end; Close empties only the slot it was given).                         *)
DescriptorsStable ==
    [][\A i \in DOMAIN files :
          files[i] # Nil => i \in DOMAIN files' /\ files'[i] \in {files[i], Nil}]_vars

(* The client's view: descriptor d names the host file of slot d + 1.     *)
AbsFds == [d \in {x \in 0..(Len(files) - 1) : files[x + 1] # Nil} |-> files[d + 1].f]

Desc == INSTANCE FileDescriptors WITH fds <- AbsFds, nextFile <- nextHandle

(* Spec section 6 and scenario S5: s.files is a dense descriptor table.    *)
(* Open stores the new file at the lowest descriptor not in use, Close    *)
(* frees exactly the descriptor it is given, and ReadAt, a failed Open and *)
(* every error path change nothing the client can see.                    *)
ImplementsDescriptors == Desc!Spec

(* Spec section 6: ReadAt returns data or BadFd; no request brings the    *)
(* server down.                                                            *)
NeverCrashes == ~crashed
=============================================================================
