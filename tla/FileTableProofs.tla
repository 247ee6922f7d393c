-------------------------- MODULE FileTableProofs --------------------------
(***************************************************************************)
(* Proofs about the auxiliary file table (FileTable.tla): the descriptors  *)
(* track the open host files, and a descriptor keeps naming its file, for  *)
(* every MaxOpens and every set of request lengths.                         *)
(***************************************************************************)
EXTENDS FileTable, WellFoundedInduction, TLAPS

USE FileTableAssumption

(* A slot of s.files: nil, or a *file with its index and host handle.     *)
Slot == {Nil} \cup [index : Nat, f : Nat]

FTTypeOK ==
    /\ files \in Seq(Slot)
    /\ osOpen \subseteq Nat
    /\ nextHandle \in Nat
    /\ crashed \in BOOLEAN

(* Every handle in the table was returned by an earlier os.OpenFile, so    *)
(* the next one is new.                                                    *)
HandlesIssued == \A i \in DOMAIN files : files[i] # Nil => files[i].f < nextHandle

FTInv == FTTypeOK /\ HandlesIssued /\ DescriptorsTrackOpenFiles

-----------------------------------------------------------------------------
(* The search loop of Open terminates: some slot is the first nil one or   *)
(* the end of the table, by the least-number principle.                    *)
LEMMA FreeSlotExists ==
    ASSUME FTTypeOK
    PROVE  \E i \in 0..Len(files) :
               /\ i = Len(files) \/ files[i + 1] = Nil
               /\ \A j \in 0..(i - 1) : files[j + 1] # Nil
<1> DEFINE Stops == {i \in 0..Len(files) : i = Len(files) \/ files[i + 1] = Nil}
           Less == {ss \in Nat \X Nat : ss[1] < ss[2]}
<1>1. Less = OpToRel(<, Nat)
  BY Zenon DEF OpToRel
<1>2. Stops \subseteq Nat /\ Stops # {}
  <2>1. Len(files) \in Stops BY DEF FTTypeOK
  <2> QED BY <2>1
<1>3. IsWellFoundedOn(Less, Nat)
  BY <1>1, NatLessThanWellFounded
<1>4. PICK k \in Stops : \A y \in Stops : ~(<<y, k>> \in Less)
  <2> HIDE DEF Stops, Less
  <2> QED BY <1>2, <1>3, WFMin
<1>5. ASSUME NEW j \in 0..(k - 1), files[j + 1] = Nil
      PROVE  FALSE
  <2>1. k \in 0..Len(files) BY <1>4
  <2>2. j \in Stops BY <1>5, <2>1
  <2>3. <<j, k>> \in Less BY <2>1
  <2> QED BY <1>4, <2>2, <2>3
<1> QED BY <1>4, <1>5

(* What the slot search of Open returns.                                   *)
LEMMA FreeSlotSpec ==
    ASSUME FTTypeOK
    PROVE  /\ FreeSlot \in 0..Len(files)
           /\ FreeSlot = Len(files) \/ files[FreeSlot + 1] = Nil
           /\ \A j \in 0..(FreeSlot - 1) : files[j + 1] # Nil
BY FreeSlotExists DEF FreeSlot

(* Storing a record at the slot the search returned writes that slot,      *)
(* which was nil or one past the end, and leaves every other slot alone.  *)
LEMMA StoreSpec ==
    ASSUME FTTypeOK, NEW r \in Slot
    PROVE  LET k == FreeSlot
               new == Store(k, r)
           IN  /\ new \in Seq(Slot)
               /\ DOMAIN new = DOMAIN files \cup {k + 1}
               /\ new[k + 1] = r
               /\ \A i \in DOMAIN files : i # k + 1 => new[i] = files[i]
               /\ k + 1 \in DOMAIN files => files[k + 1] = Nil
<1> DEFINE k == FreeSlot
<1>1. k \in 0..Len(files) /\ (k = Len(files) \/ files[k + 1] = Nil)
  BY FreeSlotSpec
<1>2. CASE k = Len(files)
  BY <1>1, <1>2 DEF Store, FTTypeOK
<1>3. CASE k # Len(files)
  BY <1>1, <1>3 DEF Store, FTTypeOK
<1> QED BY <1>2, <1>3

-----------------------------------------------------------------------------
LEMMA InitFTInv == Init => FTInv
<1> SUFFICES ASSUME Init PROVE FTInv
  OBVIOUS
<1>1. DOMAIN files = {} BY DEF Init
<1>2. FTTypeOK
  <2>1. files \in Seq(Slot) BY DEF Init
  <2>2. crashed \in BOOLEAN BY Zenon DEF Init
  <2> QED BY <2>1, <2>2 DEF Init, FTTypeOK
<1>3. HandlesIssued BY <1>1 DEF HandlesIssued
<1>4. DescriptorsTrackOpenFiles BY <1>1 DEF Init, DescriptorsTrackOpenFiles
<1> QED BY <1>2, <1>3, <1>4 DEF FTInv

LEMMA OpenFTInv == FTInv /\ Open => FTInv'
<1> SUFFICES ASSUME FTInv, Open PROVE FTInv'
  OBVIOUS
<1> DEFINE k == FreeSlot
           r == [index |-> k, f |-> nextHandle]
           Used(fs) == {i \in DOMAIN fs : fs[i] # Nil}
<1>1. CASE UNCHANGED <<files, osOpen, nextHandle>>
  BY <1>1 DEF Open, FTInv, FTTypeOK, HandlesIssued, DescriptorsTrackOpenFiles
<1>2. CASE files' = Store(k, r) /\ osOpen' = osOpen \cup {nextHandle}
           /\ nextHandle' = nextHandle + 1
  <2>1. r \in Slot /\ r # Nil
    BY FreeSlotSpec DEF FTInv, FTTypeOK, Slot, Nil
  <2>2. /\ files' \in Seq(Slot)
        /\ DOMAIN files' = DOMAIN files \cup {k + 1}
        /\ files'[k + 1] = r
        /\ \A i \in DOMAIN files : i # k + 1 => files'[i] = files[i]
        /\ k + 1 \in DOMAIN files => files[k + 1] = Nil
    BY <1>2, <2>1, StoreSpec DEF FTInv
  <2>3. Used(files') = Used(files) \cup {k + 1}
    BY <2>1, <2>2
  <2>4. FTTypeOK'
    <3>1. crashed' = crashed BY DEF Open
    <3>2. crashed' \in BOOLEAN BY <3>1, Zenon DEF FTInv, FTTypeOK
    <3>3. osOpen' \subseteq Nat /\ nextHandle' \in Nat BY <1>2 DEF FTInv, FTTypeOK
    <3> QED BY <2>2, <3>2, <3>3 DEF FTTypeOK
  <2>5. HandlesIssued'
    <3> SUFFICES ASSUME NEW i \in DOMAIN files', files'[i] # Nil
                 PROVE  files'[i].f < nextHandle'
      BY DEF HandlesIssued
    <3>1. nextHandle \in Nat BY DEF FTInv, FTTypeOK
    <3>2. CASE i = k + 1 BY <1>2, <2>2, <3>1, <3>2
    <3>3. CASE i # k + 1
      <4>1. i \in DOMAIN files /\ files'[i] = files[i] BY <2>2, <3>3
      <4>2. files[i].f < nextHandle BY <4>1 DEF FTInv, HandlesIssued
      <4> QED BY <1>2, <3>1, <4>1, <4>2 DEF FTInv, FTTypeOK, Slot, Nil
    <3> QED BY <3>2, <3>3
  <2>6. osOpen' = {files'[i].f : i \in Used(files')}
    <3>a. osOpen = {files[i].f : i \in Used(files)}
      BY DEF FTInv, DescriptorsTrackOpenFiles
    <3>b. \A i \in Used(files) : files'[i].f = files[i].f
      BY <2>2
    <3> QED BY <1>2, <2>2, <2>3, <3>a, <3>b
  <2>7. \A i \in DOMAIN files' : files'[i] # Nil => files'[i].index = i - 1
    BY <2>2, FreeSlotSpec DEF FTInv, FTTypeOK, DescriptorsTrackOpenFiles
  <2>8. \A i, j \in DOMAIN files' :
          files'[i] # Nil /\ files'[j] # Nil /\ files'[i].f = files'[j].f => i = j
    <3>a. \A i \in DOMAIN files : files[i] # Nil => files[i].f # nextHandle
      BY DEF FTInv, FTTypeOK, HandlesIssued, Slot
    <3> QED BY <2>2, <3>a DEF FTInv, DescriptorsTrackOpenFiles
  <2> QED BY <2>4, <2>5, <2>6, <2>7, <2>8 DEF FTInv, DescriptorsTrackOpenFiles
<1> QED BY <1>1, <1>2 DEF Open

LEMMA ReadAtFTInv == FTInv /\ ReadAt => FTInv'
<1> SUFFICES ASSUME FTInv, ReadAt PROVE FTInv'
  OBVIOUS
<1>1. crashed' \in BOOLEAN
  <2>1. PICK fd \in ReqFds, len \in ReqLens :
          crashed' = crashed \/ crashed' = (len < 0)
    BY DEF ReadAt
  <2>2. (len < 0) \in BOOLEAN OBVIOUS
  <2> QED BY <2>1, <2>2, Zenon DEF FTInv, FTTypeOK
<1> QED BY <1>1 DEF ReadAt, FTInv, FTTypeOK, HandlesIssued, DescriptorsTrackOpenFiles

LEMMA CloseFTInv == FTInv /\ Close => FTInv'
<1> SUFFICES ASSUME FTInv, Close PROVE FTInv'
  OBVIOUS
<1>1. PICK fd \in ReqFds :
        /\ ~BadFd(fd)
        /\ osOpen' = osOpen \ {files[fd + 1].f}
        /\ files' = [files EXCEPT ![fd + 1] = Nil]
  BY DEF Close
<1> DEFINE c == fd + 1
           Used(fs) == {i \in DOMAIN fs : fs[i] # Nil}
<1>2. c \in DOMAIN files /\ files[c] # Nil
  BY <1>1 DEF BadFd, ReqFds, FTInv, FTTypeOK
<1>3. /\ files' \in Seq(Slot)
      /\ DOMAIN files' = DOMAIN files
      /\ files'[c] = Nil
      /\ \A i \in DOMAIN files : i # c => files'[i] = files[i]
  BY <1>1, <1>2 DEF FTInv, FTTypeOK, Slot
<1>4. Used(files') = Used(files) \ {c}
  BY <1>3
<1>5. FTTypeOK'
  BY <1>1, <1>3 DEF Close, FTInv, FTTypeOK
<1>6. HandlesIssued'
  BY <1>3 DEF Close, FTInv, HandlesIssued
<1>7. osOpen' = {files'[i].f : i \in Used(files')}
  <2>a. osOpen = {files[i].f : i \in Used(files)}
    BY DEF FTInv, DescriptorsTrackOpenFiles
  <2>b. \A i \in Used(files) : files[i].f = files[c].f => i = c
    BY <1>2 DEF FTInv, DescriptorsTrackOpenFiles
  <2> QED BY <1>1, <1>3, <1>4, <2>a, <2>b
<1>8. /\ \A i \in DOMAIN files' : files'[i] # Nil => files'[i].index = i - 1
      /\ \A i, j \in DOMAIN files' :
            files'[i] # Nil /\ files'[j] # Nil /\ files'[i].f = files'[j].f => i = j
  BY <1>3 DEF FTInv, DescriptorsTrackOpenFiles
<1> QED BY <1>5, <1>6, <1>7, <1>8 DEF FTInv, DescriptorsTrackOpenFiles

LEMMA StepFTInv == FTInv /\ [Next]_vars => FTInv'
<1> SUFFICES ASSUME FTInv, [Next]_vars PROVE FTInv'
  OBVIOUS
<1>1. CASE Open BY <1>1, OpenFTInv
<1>2. CASE ReadAt BY <1>2, ReadAtFTInv
<1>3. CASE Close BY <1>3, CloseFTInv
<1>4. CASE UNCHANGED vars
  BY <1>4 DEF vars, FTInv, FTTypeOK, HandlesIssued, DescriptorsTrackOpenFiles
<1> QED BY <1>1, <1>2, <1>3, <1>4 DEF Next

-----------------------------------------------------------------------------
(* The descriptors of s.files track the open host files in every reachable *)
(* state: one descriptor per open file, equal to the index it recorded.    *)
THEOREM FilesTracked == Spec => []DescriptorsTrackOpenFiles
<1>1. FTInv => DescriptorsTrackOpenFiles
  BY DEF FTInv
<1> QED BY <1>1, InitFTInv, StepFTInv, PTL DEF Spec
-----------------------------------------------------------------------------
(* The step DescriptorsStable constrains: every slot in use keeps its file *)
(* or is emptied.                                                          *)
KeepsSlots ==
    \A i \in DOMAIN files :
        files[i] # Nil => i \in DOMAIN files' /\ files'[i] \in {files[i], Nil}

LEMMA StepKeepsSlots == FTInv /\ [Next]_vars => [KeepsSlots]_vars
<1> SUFFICES ASSUME FTInv, [Next]_vars PROVE KeepsSlots
  BY DEF vars
<1>1. CASE Open
  <2>1. CASE UNCHANGED <<files, osOpen, nextHandle>>
    BY <2>1 DEF KeepsSlots
  <2>2. CASE files' = Store(FreeSlot, [index |-> FreeSlot, f |-> nextHandle])
    <3> DEFINE k == FreeSlot
               r == [index |-> k, f |-> nextHandle]
    <3>1. r \in Slot BY FreeSlotSpec DEF FTInv, FTTypeOK, Slot
    <3>2. /\ DOMAIN files' = DOMAIN files \cup {k + 1}
          /\ \A i \in DOMAIN files : i # k + 1 => files'[i] = files[i]
          /\ k + 1 \in DOMAIN files => files[k + 1] = Nil
      BY <2>2, <3>1, StoreSpec DEF FTInv
    <3> QED BY <3>2 DEF KeepsSlots
  <2> QED BY <1>1, <2>1, <2>2 DEF Open
<1>2. CASE ReadAt
  BY <1>2 DEF ReadAt, KeepsSlots
<1>3. CASE Close
  <2>1. PICK fd \in ReqFds :
          /\ ~BadFd(fd)
          /\ files' = [files EXCEPT ![fd + 1] = Nil]
    BY <1>3 DEF Close
  <2> QED BY <2>1 DEF KeepsSlots
<1>4. CASE UNCHANGED vars
  BY <1>4 DEF vars, KeepsSlots
<1> QED BY <1>1, <1>2, <1>3, <1>4 DEF Next

(* A descriptor a client holds keeps naming the same host file until it   *)
(* is closed: Open never overwrites a slot in use and Close empties only  *)
(* the slot it is given.                                                   *)
THEOREM FilesStable == Spec => DescriptorsStable
<1>1. FTInv /\ [Next]_vars => [KeepsSlots]_vars
  BY StepKeepsSlots
<1> QED BY <1>1, InitFTInv, StepFTInv, PTL DEF Spec, DescriptorsStable, KeepsSlots
-----------------------------------------------------------------------------
(* The descriptors in use, as the refinement mapping reads them.          *)
InUse == {x \in 0..(Len(files) - 1) : files[x + 1] # Nil}

LEMMA AbsFdsDef ==
    /\ DOMAIN AbsFds = InUse
    /\ \A d \in InUse : AbsFds[d] = files[d + 1].f
BY DEF AbsFds, InUse

LEMMA InitRefined == Init => Desc!Init
<1> SUFFICES ASSUME Init PROVE Desc!Init
  OBVIOUS
<1>1. InUse = {} BY DEF Init, InUse
<1>2. AbsFds = [d \in {} |-> 0] BY <1>1, AbsFdsDef
<1> QED BY <1>2 DEF Init, Desc!Init

(* A successful Open is the abstract Open at the slot the search found.    *)
LEMMA OpenRefined ==
    ASSUME FTInv,
           files' = Store(FreeSlot, [index |-> FreeSlot, f |-> nextHandle]),
           nextHandle' = nextHandle + 1
    PROVE  Desc!Open
<1> DEFINE k == FreeSlot
           r == [index |-> k, f |-> nextHandle]
<1>1. /\ k \in 0..Len(files)
      /\ k = Len(files) \/ files[k + 1] = Nil
      /\ \A j \in 0..(k - 1) : files[j + 1] # Nil
  BY FreeSlotSpec DEF FTInv
<1>2. r \in Slot /\ r # Nil
  BY <1>1 DEF FTInv, FTTypeOK, Slot, Nil
<1>3. /\ files' \in Seq(Slot)
      /\ DOMAIN files' = DOMAIN files \cup {k + 1}
      /\ files'[k + 1] = r
      /\ \A i \in DOMAIN files : i # k + 1 => files'[i] = files[i]
  BY <1>2, StoreSpec DEF FTInv
<1>4. files \in Seq(Slot) BY DEF FTInv, FTTypeOK
<1>5. k \notin InUse BY <1>1, <1>4 DEF InUse
<1>6. \A j \in 0..(k - 1) : j \in InUse BY <1>1, <1>4 DEF InUse
<1>7. k \in {0} \cup {x + 1 : x \in InUse}
  <2>1. CASE k = 0 BY <2>1
  <2>2. CASE k # 0
    <3>1. k - 1 \in InUse BY <1>1, <1>6, <2>2
    <3> QED BY <3>1, <1>1
  <2> QED BY <2>1, <2>2
<1>p. /\ AbsFds' = [d \in InUse' |-> files'[d + 1].f]
      /\ DOMAIN AbsFds' = InUse'
      /\ \A d \in InUse' : AbsFds'[d] = files'[d + 1].f
  BY DEF AbsFds, InUse
<1>8. InUse' = InUse \cup {k}
  BY <1>1, <1>2, <1>3, <1>4 DEF InUse
<1>9. AbsFds' = [x \in InUse \cup {k} |-> IF x = k THEN nextHandle ELSE AbsFds[x]]
  <2>1. DOMAIN AbsFds' = InUse \cup {k} BY <1>8, <1>p
  <2>2. ASSUME NEW x \in InUse \cup {k}
        PROVE  AbsFds'[x] = IF x = k THEN nextHandle ELSE AbsFds[x]
    <3>1. x \in InUse' BY <1>8
    <3>2. AbsFds'[x] = files'[x + 1].f BY <3>1, <1>p
    <3>3. CASE x = k BY <1>3, <3>2, <3>3
    <3>4. CASE x # k
      <4>1. x \in InUse /\ x + 1 \in DOMAIN files /\ x + 1 # k + 1
        BY <3>4, <1>1, <1>4 DEF InUse
      <4> QED BY <1>3, <3>2, <3>4, <4>1, AbsFdsDef
    <3> QED BY <3>3, <3>4
  <2> QED BY <2>1, <2>2, <1>p
<1> QED BY <1>5, <1>6, <1>7, <1>9, AbsFdsDef DEF Desc!Open, Desc!LowestFree

(* Close of a good descriptor is the abstract Close of that descriptor.   *)
LEMMA CloseRefined == FTInv /\ Close => Desc!Close
<1> SUFFICES ASSUME FTInv, Close PROVE Desc!Close
  OBVIOUS
<1>1. PICK fd \in ReqFds :
        /\ ~BadFd(fd)
        /\ files' = [files EXCEPT ![fd + 1] = Nil]
  BY DEF Close
<1>2. files \in Seq(Slot) BY DEF FTInv, FTTypeOK
<1>3. fd \in InUse BY <1>1, <1>2 DEF BadFd, ReqFds, InUse
<1>p. /\ AbsFds' = [d \in InUse' |-> files'[d + 1].f]
      /\ DOMAIN AbsFds' = InUse'
      /\ \A d \in InUse' : AbsFds'[d] = files'[d + 1].f
  BY DEF AbsFds, InUse
<1>4. InUse' = InUse \ {fd} BY <1>1, <1>2, <1>3 DEF InUse
<1>5. AbsFds' = [x \in InUse \ {fd} |-> AbsFds[x]]
  <2>1. DOMAIN AbsFds' = InUse \ {fd} BY <1>4, <1>p
  <2>2. ASSUME NEW x \in InUse \ {fd} PROVE AbsFds'[x] = AbsFds[x]
    <3>1. x \in InUse' BY <1>4
    <3>2. AbsFds'[x] = files'[x + 1].f BY <3>1, <1>p
    <3>3. files'[x + 1] = files[x + 1] BY <1>1, <1>2 DEF InUse, ReqFds
    <3> QED BY <3>2, <3>3, AbsFdsDef
  <2> QED BY <2>1, <2>2, <1>p
<1>6. nextHandle' = nextHandle BY DEF Close
<1> QED BY <1>3, <1>5, <1>6, AbsFdsDef DEF Desc!Close

LEMMA StepRefined == FTInv /\ [Next]_vars => [Desc!Next]_Desc!vars
<1> SUFFICES ASSUME FTInv, [Next]_vars PROVE [Desc!Next]_Desc!vars
  OBVIOUS
<1>1. CASE Open
  <2>1. CASE UNCHANGED <<files, osOpen, nextHandle>>
    BY <2>1 DEF Desc!vars, AbsFds
  <2>2. CASE files' = Store(FreeSlot, [index |-> FreeSlot, f |-> nextHandle])
             /\ nextHandle' = nextHandle + 1
    BY <2>2, OpenRefined DEF Desc!Next
  <2> QED BY <1>1, <2>1, <2>2 DEF Open
<1>2. CASE ReadAt
  BY <1>2 DEF ReadAt, Desc!vars, AbsFds
<1>3. CASE Close
  BY <1>3, CloseRefined DEF Desc!Next
<1>4. CASE UNCHANGED vars
  BY <1>4 DEF vars, Desc!vars, AbsFds
<1> QED BY <1>1, <1>2, <1>3, <1>4 DEF Next

(* The file table implements the dense descriptor table of spec section 6 *)
(* for every instance: Open takes the lowest free descriptor and Close    *)
(* frees the one it is given.                                              *)
THEOREM DescriptorsRefined == Spec => ImplementsDescriptors
<1>1. FTInv /\ [Next]_vars => [Desc!Next]_Desc!vars
  BY StepRefined
<1>2. Init => Desc!Init
  BY InitRefined
<1> QED BY <1>1, <1>2, InitFTInv, StepFTInv, PTL
        DEF Spec, ImplementsDescriptors, Desc!Spec
=============================================================================
