-------------------------- MODULE FrameWalkProofs --------------------------
(***************************************************************************)
(* Proof that the Frames handler answers what spec 4.7 describes, for     *)
(* every children list, offsets, stack contents and architecture sizes,   *)
(* when the DWARF is laid out as Go's linker lays it out.  The inductive  *)
(* invariant follows the two loops of the handler: the frame built so far *)
(* is the reference frame of the entries read (WalkInv), and the locals   *)
(* of the current parameter are what the reference reads from its fields *)
(* handled so far (FieldInv).                                              *)
(***************************************************************************)
EXTENDS FrameWalk, TLAPS

USE FrameWalkAssumption

(* The values the stack holds.                                             *)
StackVals == {Stack[a] : a \in DOMAIN Stack}

TypeOK ==
    /\ children \in Seq(Entries)
    /\ stopped \in BOOLEAN
    /\ inFunc \in BOOLEAN
    /\ req \in {0, 1, 2}
    /\ pc \in {"idle", "walk", "fields"}
    /\ k \in Nat
    /\ fi \in Nat
    /\ st \in [loc : Nat, rec : [off : SUBSET Nat, name : SUBSET Names,
                                 type : SUBSET TypeKinds, val : SUBSET StackVals]]

(* The values of the fields with attribute a among the first n of e.      *)
AttrUpTo(e, a, n) == {e.fields[q].v : q \in {q2 \in 1..n : e.fields[q2].a = a}}

(* The parameters among the first n children.                             *)
Seen(n) == {m \in ParamIdx(children) : m <= n}

(* The reference frame of the parameters among the first n children.      *)
RefFrame(n) == [m \in Seen(n) |-> SpecRec(children[m])]

(* The locals of parameter e after its first n fields: what it rendered   *)
(* is what the reference reads from them, location is fp plus the offset *)
(* once one is read, and an int has been peeked at a mapped address.      *)
FieldInv(e, n, s) ==
    /\ s.rec.off = AttrUpTo(e, "loc", n)
    /\ s.rec.name = AttrUpTo(e, "name", n)
    /\ s.rec.type = AttrUpTo(e, "type", n)
    /\ AttrUpTo(e, "loc", n) = {} => s.loc = 0
    /\ \A o \in AttrUpTo(e, "loc", n) : s.loc = FP + o
    /\ s.rec.val = IF AttrUpTo(e, "type", n) = {"int"} THEN {Stack[s.loc]} ELSE {}
    /\ AttrUpTo(e, "type", n) = {"int"} => s.loc # 0 /\ s.loc \in DOMAIN Stack

(* Every parameter read so far passed, and the frame holds its record.    *)
WalkInv(n) ==
    /\ \A m \in Seen(n) : SpecErr(children[m]) = "none"
    /\ frame = RefFrame(n)

Inv ==
    /\ pc # "idle" => stopped /\ inFunc /\ req = 1
    /\ pc = "walk" => k \in 0..Len(children)
    /\ pc = "fields" =>
          /\ k \in 1..Len(children)
          /\ children[k].tag = "param" /\ ~children[k].kids
          /\ fi \in 0..Len(children[k].fields)
    /\ GoLayout =>
          /\ pc = "walk" => WalkInv(k)
          /\ pc = "fields" => WalkInv(k - 1) /\ FieldInv(children[k], fi, st)
          /\ pc = "idle" /\ req # 0 => result = SpecFrames(req)

IInv == TypeOK /\ Inv
-----------------------------------------------------------------------------
(* What an entry of the children list is.                                  *)
LEMMA EntryFacts ==
    ASSUME NEW e \in Entries
    PROVE  /\ e.tag \in {"param", "var"}
           /\ e.kids \in BOOLEAN
           /\ e.fields \in Seq(Attrs)
           /\ \A q1, q2 \in DOMAIN e.fields : q1 # q2 => e.fields[q1].a # e.fields[q2].a
<1>1. CASE e = [tag |-> "var", kids |-> FALSE, fields |-> <<>>]
  BY <1>1
<1>2. CASE \E q \in BOOLEAN, fs \in FieldSeqs : e = [tag |-> "param", kids |-> q, fields |-> fs]
  <2>1. PICK q \in BOOLEAN, fs \in FieldSeqs : e = [tag |-> "param", kids |-> q, fields |-> fs]
    BY <1>2
  <2>2. PICK n \in 0..3 : fs \in [1..n -> Attrs] BY DEF FieldSeqs
  <2>3. fs \in Seq(Attrs) BY <2>2
  <2> QED BY <2>1, <2>3 DEF FieldSeqs
<1> QED BY <1>1, <1>2 DEF Entries

LEMMA AttrFacts ==
    ASSUME NEW f \in Attrs
    PROVE  /\ f.a \in {"loc", "name", "type"}
           /\ f.a = "loc" => f.v \in Offsets
           /\ f.a = "name" => f.v \in Names
           /\ f.a = "type" => f.v \in TypeKinds
<1>1. CASE \E o \in Offsets : f = [a |-> "loc", v |-> o] BY <1>1
<1>2. CASE \E n \in Names : f = [a |-> "name", v |-> n] BY <1>2
<1>3. CASE \E ty \in TypeKinds : f = [a |-> "type", v |-> ty] BY <1>3
<1> QED BY <1>1, <1>2, <1>3 DEF Attrs

LEMMA UpToZero == ASSUME NEW e, NEW a PROVE AttrUpTo(e, a, 0) = {}
BY DEF AttrUpTo

(* One more field adds its value to the attribute it carries.             *)
LEMMA UpToStep ==
    ASSUME NEW e, NEW a, NEW n \in Nat
    PROVE  AttrUpTo(e, a, n + 1) =
               AttrUpTo(e, a, n) \cup (IF e.fields[n + 1].a = a THEN {e.fields[n + 1].v} ELSE {})
BY DEF AttrUpTo

LEMMA UpToAll ==
    ASSUME NEW e, e.fields \in Seq(Attrs), NEW a
    PROVE  AttrUpTo(e, a, Len(e.fields)) = AttrOf(e, a)
BY DEF AttrUpTo, AttrOf

(* Each attribute appears once: before its field, none of its kind.       *)
LEMMA UpToFresh ==
    ASSUME NEW e \in Entries, NEW n \in Nat, n + 1 \in DOMAIN e.fields
    PROVE  AttrUpTo(e, e.fields[n + 1].a, n) = {}
BY EntryFacts DEF AttrUpTo

(* ... and the whole entry has just that value for it.                     *)
LEMMA OnlyOne ==
    ASSUME NEW e \in Entries, NEW q \in DOMAIN e.fields
    PROVE  AttrOf(e, e.fields[q].a) = {e.fields[q].v}
BY EntryFacts DEF AttrOf

(* With the location first, no type precedes a location field and no     *)
(* location follows a type field.                                          *)
LEMMA LocBeforeType ==
    ASSUME NEW e \in Entries, LocationFirst(e), NEW n \in Nat, n + 1 \in DOMAIN e.fields
    PROVE  /\ e.fields[n + 1].a = "loc" => AttrUpTo(e, "type", n) = {}
           /\ e.fields[n + 1].a = "type" => AttrOf(e, "loc") = AttrUpTo(e, "loc", n)
<1>1. e.fields \in Seq(Attrs) BY EntryFacts
<1> QED BY <1>1 DEF LocationFirst, AttrUpTo, AttrOf

LEMMA SeenZero == children \in Seq(Entries) => Seen(0) = {}
BY DEF Seen, ParamIdx

LEMMA SeenStep ==
    ASSUME children \in Seq(Entries), NEW n \in 0..(Len(children) - 1)
    PROVE  Seen(n + 1) =
               Seen(n) \cup (IF children[n + 1].tag = "param" THEN {n + 1} ELSE {})
BY DEF Seen, ParamIdx

LEMMA SeenAll == children \in Seq(Entries) => Seen(Len(children)) = ParamIdx(children)
BY DEF Seen, ParamIdx

(* The first failing parameter is the least of the failing ones.          *)
LEMMA MinIs ==
    ASSUME NEW S \in SUBSET Int, NEW x \in S, \A y \in S : x <= y
    PROVE  Min(S) = x
<1>1. \E m \in S : \A y \in S : m <= y OBVIOUS
<1>2. Min(S) \in S /\ \A y \in S : Min(S) <= y BY <1>1, Zenon DEF Min
<1>3. Min(S) <= x /\ x <= Min(S) BY <1>2
<1>4. Min(S) \in Int BY <1>2
<1> QED BY <1>3, <1>4

-----------------------------------------------------------------------------
(* The handler's inputs never change, so neither does the reference.      *)
LEMMA Frozen ==
    ASSUME children' = children, stopped' = stopped, inFunc' = inFunc
    PROVE  /\ GoLayout' = GoLayout
           /\ \A n : Seen(n)' = Seen(n)
           /\ \A n : RefFrame(n)' = RefFrame(n)
           /\ \A r : SpecFrames(r)' = SpecFrames(r)
BY DEF GoLayout, Seen, RefFrame, SpecFrames, SpecWalk, ParamIdx

(* A running handler answers for SpecWalk of the children.                *)
LEMMA RunningSpec ==
    ASSUME stopped, inFunc, req = 1
    PROVE  SpecFrames(req) = SpecWalk(children)
BY DEF SpecFrames

(* The first failing parameter decides the answer.                        *)
LEMMA FirstBad ==
    ASSUME children \in Seq(Entries), NEW m \in ParamIdx(children),
           SpecErr(children[m]) # "none",
           \A q \in Seen(m - 1) : SpecErr(children[q]) = "none"
    PROVE  SpecWalk(children) = Err(SpecErr(children[m]))
<1> DEFINE bad == {q \in ParamIdx(children) : SpecErr(children[q]) # "none"}
<1>1. m \in bad OBVIOUS
<1>2. bad \in SUBSET Int BY DEF ParamIdx
<1>3. \A y \in bad : m <= y BY DEF Seen, ParamIdx
<1>4. Min(bad) = m BY <1>1, <1>2, <1>3, MinIs
<1> QED BY <1>1, <1>4 DEF SpecWalk

(* No parameter fails: the answer is the reference frame of all of them.  *)
LEMMA AllGood ==
    ASSUME children \in Seq(Entries),
           \A q \in Seen(Len(children)) : SpecErr(children[q]) = "none"
    PROVE  SpecWalk(children) = Ok(RefFrame(Len(children)))
<1>1. Seen(Len(children)) = ParamIdx(children) BY SeenAll
<1> QED BY <1>1 DEF SpecWalk, RefFrame

(* A step that returns the reference's answer keeps the invariant.        *)
LEMMA ReturnIInv ==
    ASSUME IInv, NEW r, Return(r), pc # "idle",
           GoLayout => r = SpecFrames(req)
    PROVE  IInv'
<1>1. /\ result' = r /\ pc' = "idle"
      /\ UNCHANGED <<children, stopped, inFunc, req, k, fi, st, frame>>
  BY DEF Return
<1>2. TypeOK' BY <1>1 DEF IInv, TypeOK
<1>3. req # 0 BY DEF IInv, Inv
<1>4. Inv' BY <1>1, <1>3, Frozen DEF Inv
<1> QED BY <1>2, <1>4 DEF IInv

LEMMA InitIInv == Init => IInv
<1> SUFFICES ASSUME Init PROVE IInv
  OBVIOUS
<1>1. children \in Seq(Entries)
  <2>1. PICK n \in 0..MaxChildren : children \in [1..n -> Entries] BY DEF Init
  <2> QED BY <2>1
<1>2. stopped \in BOOLEAN /\ inFunc \in BOOLEAN BY Zenon DEF Init
<1>3. st \in [loc : Nat, rec : [off : SUBSET Nat, name : SUBSET Names,
                               type : SUBSET TypeKinds, val : SUBSET StackVals]]
  BY DEF Init, St0, NoRec
<1>4. TypeOK BY <1>1, <1>2, <1>3 DEF Init, TypeOK
<1>5. Inv BY DEF Init, Inv
<1> QED BY <1>4, <1>5 DEF IInv

(* Count != 1, a failed register read or no enclosing function: the       *)
(* answer is the reference's, and the handler is idle again.               *)
LEMMA RefusedIInv == IInv /\ (Unimplemented \/ NoFrame) => IInv'
<1> SUFFICES ASSUME IInv, Unimplemented \/ NoFrame PROVE IInv'
  OBVIOUS
<1>1. /\ pc = "idle" /\ pc' = "idle"
      /\ UNCHANGED <<children, stopped, inFunc, k, fi, st, frame>>
  BY DEF Unimplemented, NoFrame
<1>2. req' \in {1, 2} /\ result' = SpecFrames(req')
  <2>1. CASE Unimplemented
    <3>1. SpecFrames(2) = Err("unimplemented") BY DEF SpecFrames
    <3> QED BY <2>1, <3>1 DEF Unimplemented
  <2>2. CASE NoFrame /\ ~stopped
    <3>1. SpecFrames(1) = Err("regs") BY <2>2 DEF SpecFrames
    <3> QED BY <2>2, <3>1 DEF NoFrame
  <2>3. CASE NoFrame /\ stopped
    <3>1. ~inFunc /\ result' = Err("entry") /\ req' = 1 BY <2>3 DEF NoFrame
    <3> QED BY <2>3, <3>1 DEF SpecFrames
  <2> QED BY <2>1, <2>2, <2>3
<1>3. TypeOK' BY <1>1, <1>2 DEF IInv, TypeOK
<1>4. Inv' BY <1>1, <1>2, Frozen DEF Inv
<1> QED BY <1>3, <1>4 DEF IInv

(* frame := {}: nothing read yet.                                          *)
LEMMA StartWalkIInv == IInv /\ StartWalk => IInv'
<1> SUFFICES ASSUME IInv, StartWalk PROVE IInv'
  OBVIOUS
<1>1. /\ pc' = "walk" /\ k' = 0 /\ fi' = 0 /\ st' = St0 /\ frame' = EmptyFrame
      /\ req' = 1 /\ stopped /\ inFunc
      /\ UNCHANGED <<children, stopped, inFunc, result>>
  BY DEF StartWalk
<1>2. children \in Seq(Entries) BY DEF IInv, TypeOK
<1>3. TypeOK' BY <1>1 DEF IInv, TypeOK, St0, NoRec
<1>4. WalkInv(0)'
  <2>1. Seen(0) = {} BY <1>2, SeenZero
  <2>2. frame' = RefFrame(0) BY <1>1, <2>1 DEF EmptyFrame, RefFrame
  <2> QED BY <1>1, <2>1, <2>2, Frozen DEF WalkInv
<1>5. Inv' BY <1>1, <1>4 DEF Inv
<1> QED BY <1>3, <1>5 DEF IInv


(* While the inputs and the frame are unchanged, the loop invariants in  *)
(* the next state are those of the next indices and locals.               *)
LEMMA WalkPrimed ==
    ASSUME children' = children, frame' = frame
    PROVE  WalkInv(k)' = WalkInv(k')
BY DEF WalkInv, Seen, RefFrame, ParamIdx

LEMMA FieldPrimed ==
    ASSUME children' = children
    PROVE  FieldInv(children[k], fi, st)' = FieldInv(children[k'], fi', st')
BY DEF FieldInv, AttrUpTo

(* The walk invariant in the next state, the children unchanged.         *)
LEMMA WalkNext ==
    ASSUME children' = children
    PROVE  WalkInv(k)' = /\ \A m \in Seen(k') : SpecErr(children[m]) = "none"
                         /\ frame' = RefFrame(k')
BY DEF WalkInv, Seen, RefFrame, ParamIdx

(* One turn of the reader loop: at the null entry the frame is the        *)
(* reference's, a non-parameter changes nothing, a parameter with         *)
(* children is the first failing one, and any other starts its fields.    *)
LEMMA ReadEntryIInv == IInv /\ ReadEntry => IInv'
<1> SUFFICES ASSUME IInv, ReadEntry PROVE IInv'
  OBVIOUS
<1>1. /\ children \in Seq(Entries) /\ k \in 0..Len(children)
      /\ pc = "walk" /\ stopped /\ inFunc /\ req = 1
  BY DEF IInv, TypeOK, Inv, ReadEntry
<1>2. GoLayout => WalkInv(k) BY <1>1 DEF IInv, Inv
<1> DEFINE e == Entry(k + 1)
<1>3. CASE k = Len(children)
  <2>1. e = NullEntry BY <1>1, <1>3 DEF Entry
  <2>2. Return(Ok(frame)) BY <2>1 DEF ReadEntry, NullEntry
  <2>3. GoLayout => Ok(frame) = SpecFrames(req)
    <3> SUFFICES ASSUME GoLayout PROVE Ok(frame) = SpecFrames(req)
      OBVIOUS
    <3>1. WalkInv(k) BY <1>2
    <3>2. SpecWalk(children) = Ok(RefFrame(Len(children)))
      BY <3>1, <1>1, <1>3, AllGood DEF WalkInv
    <3> QED BY <3>1, <3>2, <1>1, <1>3, RunningSpec DEF WalkInv
  <2> QED BY <2>2, <2>3, <1>1, ReturnIInv
<1>4. CASE k < Len(children)
  <2>1. e = children[k + 1] /\ e \in Entries BY <1>1, <1>4 DEF Entry
  <2>2. e.tag \in {"param", "var"} /\ e.fields \in Seq(Attrs) BY <2>1, EntryFacts
  <2>3. CASE e.tag = "var"
    <3>1. Goto("walk", k + 1, fi, st, frame) BY <2>3 DEF ReadEntry
    <3>2. /\ pc' = "walk" /\ k' = k + 1 /\ fi' = fi /\ st' = st /\ frame' = frame
          /\ UNCHANGED <<children, stopped, inFunc, req, result>>
      BY <3>1 DEF Goto
    <3>3. TypeOK' BY <3>2, <1>1 DEF IInv, TypeOK
    <3>4. GoLayout => WalkInv(k)'
      <4> SUFFICES ASSUME GoLayout PROVE WalkInv(k)'
        OBVIOUS
      <4>1. WalkInv(k) BY <1>2
      <4>2. k \in 0..(Len(children) - 1) /\ children[k + 1].tag # "param"
        BY <1>1, <1>4, <2>1, <2>3
      <4>3. Seen(k + 1) = Seen(k) BY <1>1, <4>2, SeenStep
      <4>4. RefFrame(k + 1) = RefFrame(k) BY <4>3 DEF RefFrame
      <4>5. WalkInv(k + 1) BY <4>1, <4>3, <4>4, <3>2 DEF WalkInv
      <4> QED BY <4>5, <3>2, WalkPrimed
    <3> QED BY <3>2, <3>3, <3>4, <1>1, <1>4, Frozen DEF IInv, Inv
  <2>4. CASE e.tag = "param" /\ e.kids
    <3>1. Return(Err("children")) BY <2>4 DEF ReadEntry
    <3>2. GoLayout => Err("children") = SpecFrames(req)
      <4> SUFFICES ASSUME GoLayout PROVE Err("children") = SpecFrames(req)
        OBVIOUS
      <4>1. \A q \in Seen((k + 1) - 1) : SpecErr(children[q]) = "none"
        <5>1. (k + 1) - 1 = k BY <1>1
        <5> QED BY <5>1, <1>2 DEF WalkInv
      <4>2. k + 1 \in ParamIdx(children) BY <1>1, <1>4, <2>1, <2>4 DEF ParamIdx
      <4>3. SpecErr(children[k + 1]) = "children" BY <2>1, <2>4 DEF SpecErr
      <4>4. SpecWalk(children) = Err("children") BY <1>1, <4>1, <4>2, <4>3, FirstBad
      <4> QED BY <4>4, <1>1, RunningSpec
    <3> QED BY <3>1, <3>2, <1>1, ReturnIInv
  <2>5. CASE e.tag = "param" /\ ~e.kids
    <3>1. Goto("fields", k + 1, 0, St0, frame) BY <2>5 DEF ReadEntry
    <3>2. /\ pc' = "fields" /\ k' = k + 1 /\ fi' = 0 /\ st' = St0 /\ frame' = frame
          /\ UNCHANGED <<children, stopped, inFunc, req, result>>
      BY <3>1 DEF Goto
    <3>3. TypeOK' BY <3>2, <1>1 DEF IInv, TypeOK, St0, NoRec
    <3>4. /\ k + 1 \in 1..Len(children)
          /\ children[k + 1].tag = "param" /\ ~children[k + 1].kids
          /\ 0 \in 0..Len(children[k + 1].fields)
      BY <1>1, <1>4, <2>1, <2>2, <2>5
    <3>5. GoLayout => (WalkInv(k - 1) /\ FieldInv(children[k], fi, st))'
      <4> SUFFICES ASSUME GoLayout PROVE (WalkInv(k - 1) /\ FieldInv(children[k], fi, st))'
        OBVIOUS
      <4>1. WalkInv(k' - 1)
        <5>1. k' - 1 = k BY <1>1, <3>2
        <5> QED BY <5>1, <1>2
      <4>2. WalkInv(k - 1)' = WalkInv(k' - 1) BY <3>2 DEF WalkInv, Seen, RefFrame, ParamIdx
      <4>3. FieldInv(children[k'], fi', st') BY <3>2, UpToZero DEF FieldInv, St0, NoRec
      <4> QED BY <4>1, <4>2, <4>3, <3>2, FieldPrimed
    <3>6. GoLayout' = GoLayout BY <3>2, Frozen
    <3>7. (pc = "fields" =>
             /\ k \in 1..Len(children)
             /\ children[k].tag = "param" /\ ~children[k].kids
             /\ fi \in 0..Len(children[k].fields))'
      BY <3>2, <3>4
    <3> QED BY <1>1, <3>2, <3>3, <3>5, <3>6, <3>7 DEF IInv, Inv
  <2> QED BY <2>2, <2>3, <2>4, <2>5
<1> QED BY <1>1, <1>3, <1>4


(* A field step that stays in the field loop keeps the invariant when its *)
(* new locals are typed and, under Go's layout, are what the reference    *)
(* reads from one more field.                                              *)
LEMMA FieldGotoIInv ==
    ASSUME IInv, pc = "fields", fi < Len(children[k].fields), NEW s2,
           Goto("fields", k, fi + 1, s2, frame),
           s2 \in [loc : Nat, rec : [off : SUBSET Nat, name : SUBSET Names,
                                     type : SUBSET TypeKinds, val : SUBSET StackVals]],
           GoLayout => FieldInv(children[k], fi + 1, s2)
    PROVE  IInv'
<1>1. /\ pc' = "fields" /\ k' = k /\ fi' = fi + 1 /\ st' = s2 /\ frame' = frame
      /\ UNCHANGED <<children, stopped, inFunc, req, result>>
  BY DEF Goto
<1>2. /\ k \in 1..Len(children) /\ fi \in Nat
      /\ stopped /\ inFunc /\ req = 1
  BY DEF IInv, Inv, TypeOK
<1>3. TypeOK' BY <1>1, <1>2 DEF IInv, TypeOK
<1>4. GoLayout' = GoLayout BY <1>1, Frozen
<1>5. (pc = "fields" =>
         /\ k \in 1..Len(children)
         /\ children[k].tag = "param" /\ ~children[k].kids
         /\ fi \in 0..Len(children[k].fields))'
  BY <1>1, <1>2 DEF IInv, Inv
<1>6. GoLayout => (WalkInv(k - 1) /\ FieldInv(children[k], fi, st))'
  <2> SUFFICES ASSUME GoLayout PROVE (WalkInv(k - 1) /\ FieldInv(children[k], fi, st))'
    OBVIOUS
  <2>1. WalkInv(k - 1) BY DEF IInv, Inv
  <2>2. WalkInv(k - 1)' = WalkInv(k' - 1) BY <1>1 DEF WalkInv, Seen, RefFrame, ParamIdx
  <2> QED BY <2>1, <2>2, <1>1, FieldPrimed
<1> QED BY <1>1, <1>2, <1>3, <1>4, <1>5, <1>6 DEF IInv, Inv

(* One field of the current parameter: the location, the name, or the     *)
(* type, which under Go's layout comes after the location and resolves,   *)
(* so that a failed int is the first failing parameter's error.           *)
LEMMA FieldStepIInv == IInv /\ FieldStep => IInv'
<1> SUFFICES ASSUME IInv, FieldStep PROVE IInv'
  OBVIOUS
<1> DEFINE e == children[k]
           f == e.fields[fi + 1]
<1>1. /\ children \in Seq(Entries) /\ k \in 1..Len(children) /\ fi \in Nat
      /\ pc = "fields" /\ stopped /\ inFunc /\ req = 1
      /\ fi < Len(e.fields) /\ e.tag = "param" /\ ~e.kids
  BY DEF IInv, TypeOK, Inv, FieldStep
<1>2. /\ e \in Entries /\ e.fields \in Seq(Attrs)
      /\ fi + 1 \in DOMAIN e.fields /\ f \in Attrs
  BY <1>1, EntryFacts
<1>3. /\ f.a \in {"loc", "name", "type"}
      /\ f.a = "loc" => f.v \in Offsets
      /\ f.a = "name" => f.v \in Names
      /\ f.a = "type" => f.v \in TypeKinds
  BY <1>2, AttrFacts
<1>4. AttrUpTo(e, f.a, fi) = {} BY <1>1, <1>2, UpToFresh
<1>5. \A a : AttrUpTo(e, a, fi + 1) = AttrUpTo(e, a, fi) \cup (IF f.a = a THEN {f.v} ELSE {})
  BY <1>1 DEF AttrUpTo
<1>6. GoLayout => /\ WalkInv(k - 1) /\ FieldInv(e, fi, st)
                  /\ LocationFirst(e) /\ TypeResolves(e)
  BY <1>1 DEF IInv, Inv, GoLayout
<1>7. st \in [loc : Nat, rec : [off : SUBSET Nat, name : SUBSET Names,
                               type : SUBSET TypeKinds, val : SUBSET StackVals]]
  BY DEF IInv, TypeOK
<1>8. FP \in Nat \ {0} BY DEF FP
(* Under Go's layout a failing parameter k is the first failing one.      *)
<1>9. GoLayout /\ SpecErr(e) # "none" => SpecFrames(req) = Err(SpecErr(e))
  <2> SUFFICES ASSUME GoLayout, SpecErr(e) # "none" PROVE SpecFrames(req) = Err(SpecErr(e))
    OBVIOUS
  <2>1. k \in ParamIdx(children) BY <1>1 DEF ParamIdx
  <2>2. \A q \in Seen(k - 1) : SpecErr(children[q]) = "none" BY <1>6 DEF WalkInv
  <2>3. SpecWalk(children) = Err(SpecErr(e)) BY <1>1, <2>1, <2>2, FirstBad
  <2> QED BY <2>3, <1>1, RunningSpec
<1>10. CASE f.a = "loc"
  <2> DEFINE s2 == [st EXCEPT !.loc = FP + f.v, !.rec.off = {f.v}]
  <2>1. Goto("fields", k, fi + 1, s2, frame) BY <1>10 DEF FieldStep
  <2>0. /\ s2.loc = FP + f.v
        /\ s2.rec = [off |-> {f.v}, name |-> st.rec.name, type |-> st.rec.type,
                     val |-> st.rec.val]
    BY <1>7
  <2>2. s2 \in [loc : Nat, rec : [off : SUBSET Nat, name : SUBSET Names,
                                  type : SUBSET TypeKinds, val : SUBSET StackVals]]
    <3>0. f.v \in Offsets BY <1>3, <1>10
    <3>2. f.v \in Nat BY <3>0, FrameWalkAssumption
    <3>1. FP + f.v \in Nat BY <3>2, <1>8
    <3> QED BY <2>0, <3>1, <1>3, <1>7, <1>10
  <2>3. GoLayout => FieldInv(e, fi + 1, s2)
    <3> SUFFICES ASSUME GoLayout PROVE FieldInv(e, fi + 1, s2)
      OBVIOUS
    <3>1. AttrUpTo(e, "type", fi) = {} BY <1>1, <1>2, <1>6, <1>10, LocBeforeType
    <3>2. AttrUpTo(e, "loc", fi + 1) = {f.v} BY <1>4, <1>5, <1>10
    <3>3. AttrUpTo(e, "name", fi + 1) = AttrUpTo(e, "name", fi) BY <1>5, <1>10
    <3>4. AttrUpTo(e, "type", fi + 1) = {} BY <1>5, <1>10, <3>1
    <3>5. st.rec.val = {} BY <1>6, <3>1 DEF FieldInv
    <3>6. FieldInv(e, fi, st) BY <1>6
    <3>10. st.rec.name = AttrUpTo(e, "name", fi) /\ st.rec.type = AttrUpTo(e, "type", fi)
      BY <3>6 DEF FieldInv
    <3>11. s2.rec.off = AttrUpTo(e, "loc", fi + 1) BY <2>0, <3>2
    <3>12. s2.rec.name = AttrUpTo(e, "name", fi + 1) BY <2>0, <3>3, <3>10
    <3>13. s2.rec.type = AttrUpTo(e, "type", fi + 1) BY <2>0, <3>1, <3>4, <3>10
    <3>7. /\ s2.rec.off = AttrUpTo(e, "loc", fi + 1)
          /\ s2.rec.name = AttrUpTo(e, "name", fi + 1)
          /\ s2.rec.type = AttrUpTo(e, "type", fi + 1)
      BY <3>11, <3>12, <3>13
    <3>8. \A o \in AttrUpTo(e, "loc", fi + 1) : s2.loc = FP + o BY <2>0, <3>2
    <3>9. s2.rec.val = {} BY <2>0, <3>5
    <3> QED BY <3>2, <3>4, <3>7, <3>8, <3>9 DEF FieldInv
  <2> QED BY <1>1, <2>1, <2>2, <2>3, FieldGotoIInv
<1>11. CASE f.a = "name"
  <2> DEFINE s2 == [st EXCEPT !.rec.name = {f.v}]
  <2>1. Goto("fields", k, fi + 1, s2, frame) BY <1>11 DEF FieldStep
  <2>2. s2 \in [loc : Nat, rec : [off : SUBSET Nat, name : SUBSET Names,
                                  type : SUBSET TypeKinds, val : SUBSET StackVals]]
    BY <1>3, <1>7, <1>11
  <2>3. GoLayout => FieldInv(e, fi + 1, s2)
    <3> SUFFICES ASSUME GoLayout PROVE FieldInv(e, fi + 1, s2)
      OBVIOUS
    <3>1. AttrUpTo(e, "name", fi + 1) = {f.v} BY <1>4, <1>5, <1>11
    <3>2. AttrUpTo(e, "loc", fi + 1) = AttrUpTo(e, "loc", fi) BY <1>5, <1>11
    <3>3. AttrUpTo(e, "type", fi + 1) = AttrUpTo(e, "type", fi) BY <1>5, <1>11
    <3> QED BY <1>6, <1>7, <3>1, <3>2, <3>3 DEF FieldInv
  <2> QED BY <1>1, <2>1, <2>2, <2>3, FieldGotoIInv
<1>12. CASE f.a = "type"
  <2>0. TypeStep(f.v) BY <1>12 DEF FieldStep
  <2>1. f.v \in TypeKinds BY <1>3, <1>12
  <2>2. AttrUpTo(e, "type", fi) = {} BY <1>4, <1>12
  <2>3. /\ AttrUpTo(e, "loc", fi + 1) = AttrUpTo(e, "loc", fi)
        /\ AttrUpTo(e, "name", fi + 1) = AttrUpTo(e, "name", fi)
        /\ AttrUpTo(e, "type", fi + 1) = {f.v}
    BY <1>5, <1>12, <2>2
  <2>4. GoLayout => AttrOf(e, "type") = {f.v} /\ AttrOf(e, "loc") = AttrUpTo(e, "loc", fi)
    <3> SUFFICES ASSUME GoLayout
                 PROVE AttrOf(e, "type") = {f.v} /\ AttrOf(e, "loc") = AttrUpTo(e, "loc", fi)
      OBVIOUS
    <3>1. AttrOf(e, "type") = {f.v} BY <1>2, <1>12, OnlyOne
    <3>2. AttrOf(e, "loc") = AttrUpTo(e, "loc", fi) BY <1>1, <1>2, <1>6, <1>12, LocBeforeType
    <3> QED BY <3>1, <3>2
  <2>5. GoLayout => /\ st.rec.off = AttrUpTo(e, "loc", fi)
                    /\ AttrUpTo(e, "loc", fi) = {} => st.loc = 0
                    /\ \A o \in AttrUpTo(e, "loc", fi) : st.loc = FP + o
                    /\ st.rec.val = {}
    BY <1>6, <2>2 DEF FieldInv
  (* a type lookup that failed: excluded by Go's layout *)
  <2>6. CASE f.v = "bad"
    <3>1. Return(Panic) BY <2>0, <2>6 DEF TypeStep
    <3>2. ~GoLayout
      <4>1. f = [a |-> "type", v |-> "bad"] BY <1>2, <1>12, <2>6 DEF Attrs
      <4>2. ~TypeResolves(e) BY <1>2, <4>1 DEF TypeResolves
      <4> QED BY <1>6, <4>2
    <3> QED BY <1>1, <3>1, <3>2, ReturnIInv
  <2>7. CASE f.v = "other"
    <3> DEFINE s2 == [st EXCEPT !.rec.type = {"other"}]
    <3>1. Goto("fields", k, fi + 1, s2, frame) BY <2>0, <2>7 DEF TypeStep
    <3>2. /\ s2.loc = st.loc
          /\ s2.rec = [off |-> st.rec.off, name |-> st.rec.name, type |-> {"other"},
                       val |-> st.rec.val]
      BY <1>7
    <3>3. s2 \in [loc : Nat, rec : [off : SUBSET Nat, name : SUBSET Names,
                                    type : SUBSET TypeKinds, val : SUBSET StackVals]]
      BY <1>7, <3>2 DEF TypeKinds
    <3>4. GoLayout => FieldInv(e, fi + 1, s2)
      <4> SUFFICES ASSUME GoLayout PROVE FieldInv(e, fi + 1, s2)
        OBVIOUS
      <4>1. FieldInv(e, fi, st) BY <1>6
      <4>2. st.rec.name = AttrUpTo(e, "name", fi) BY <4>1 DEF FieldInv
      <4>3. AttrUpTo(e, "type", fi + 1) = {"other"} BY <2>3, <2>7
      <4> QED BY <2>3, <2>5, <3>2, <4>1, <4>2, <4>3 DEF FieldInv
    <3> QED BY <1>1, <3>1, <3>3, <3>4, FieldGotoIInv
  (* an int without a location: the parameter fails with noloc *)
  <2>8. CASE f.v = "int" /\ st.loc = 0
    <3>1. Return(Err("noloc")) BY <2>0, <2>8 DEF TypeStep
    <3>2. GoLayout => Err("noloc") = SpecFrames(req)
      <4> SUFFICES ASSUME GoLayout PROVE Err("noloc") = SpecFrames(req)
        OBVIOUS
      <4>1. AttrUpTo(e, "loc", fi) = {}
        <5> SUFFICES ASSUME NEW o \in AttrUpTo(e, "loc", fi) PROVE FALSE
          OBVIOUS
        <5>1. o \in Nat BY <1>7, <2>5
        <5>2. st.loc = FP + o BY <2>5
        <5> QED BY <5>1, <5>2, <1>8, <2>8
      <4>2. SpecErr(e) = "noloc" BY <1>1, <2>4, <2>8, <4>1 DEF SpecErr, IsInt
      <4> QED BY <1>9, <4>2
    <3> QED BY <1>1, <3>1, <3>2, ReturnIInv
  (* an int whose slot is not mapped: the peek fails *)
  <2>9. CASE f.v = "int" /\ st.loc # 0 /\ st.loc \notin DOMAIN Stack
    <3>1. Return(Err("peek")) BY <2>0, <2>9 DEF TypeStep
    <3>2. GoLayout => Err("peek") = SpecFrames(req)
      <4> SUFFICES ASSUME GoLayout PROVE Err("peek") = SpecFrames(req)
        OBVIOUS
      <4>1. PICK o \in AttrUpTo(e, "loc", fi) : TRUE BY <2>5, <2>9
      <4>2. st.loc \in Slots(e) BY <2>4, <2>5, <4>1 DEF Slots, SpecFP, FP
      <4>3. AttrOf(e, "loc") # {} BY <2>4, <4>1
      <4>4. SpecErr(e) = "peek" BY <1>1, <2>4, <2>9, <4>2, <4>3 DEF SpecErr, IsInt
      <4> QED BY <1>9, <4>4
    <3> QED BY <1>1, <3>1, <3>2, ReturnIInv
  (* an int peeked at its slot *)
  <2>10. CASE f.v = "int" /\ st.loc # 0 /\ st.loc \in DOMAIN Stack
    <3> DEFINE typed == [st EXCEPT !.rec.type = {"int"}]
               s2 == [typed EXCEPT !.rec.val = {Stack[st.loc]}]
    <3>1. Goto("fields", k, fi + 1, s2, frame) BY <2>0, <2>10 DEF TypeStep
    <3>5. typed = [loc |-> st.loc,
                   rec |-> [off |-> st.rec.off, name |-> st.rec.name, type |-> {"int"},
                            val |-> st.rec.val]]
      BY <1>7
    <3> HIDE DEF typed
    <3>2. s2 = [loc |-> st.loc,
                rec |-> [off |-> st.rec.off, name |-> st.rec.name, type |-> {"int"},
                         val |-> {Stack[st.loc]}]]
      BY <3>5
    <3> HIDE DEF s2
    <3>3. s2 \in [loc : Nat, rec : [off : SUBSET Nat, name : SUBSET Names,
                                    type : SUBSET TypeKinds, val : SUBSET StackVals]]
      BY <1>7, <2>10, <3>2 DEF StackVals, TypeKinds
    <3>4. GoLayout => FieldInv(e, fi + 1, s2)
      <4> SUFFICES ASSUME GoLayout PROVE FieldInv(e, fi + 1, s2)
        OBVIOUS
      <4>1. FieldInv(e, fi, st) BY <1>6
      <4>2. st.rec.name = AttrUpTo(e, "name", fi) BY <4>1 DEF FieldInv
      <4>3. AttrUpTo(e, "type", fi + 1) = {"int"} BY <2>3, <2>10
      <4>7. s2.rec.off = AttrUpTo(e, "loc", fi + 1) BY <2>3, <2>5, <3>2
      <4>8. s2.rec.name = AttrUpTo(e, "name", fi + 1) BY <2>3, <3>2, <4>2
      <4>9. s2.rec.type = AttrUpTo(e, "type", fi + 1) BY <3>2, <4>3
      <4>4. /\ s2.rec.off = AttrUpTo(e, "loc", fi + 1)
            /\ s2.rec.name = AttrUpTo(e, "name", fi + 1)
            /\ s2.rec.type = AttrUpTo(e, "type", fi + 1)
        BY <4>7, <4>8, <4>9
      <4>5. /\ AttrUpTo(e, "loc", fi + 1) = {} => s2.loc = 0
            /\ \A o \in AttrUpTo(e, "loc", fi + 1) : s2.loc = FP + o
        BY <2>3, <2>5, <3>2
      <4>6. /\ s2.rec.val = {Stack[s2.loc]}
            /\ s2.loc \in DOMAIN Stack
        BY <2>10, <3>2
      <4>10. s2.rec.val = IF AttrUpTo(e, "type", fi + 1) = {"int"} THEN {Stack[s2.loc]} ELSE {}
        BY <4>3, <4>6
      <4>11. AttrUpTo(e, "type", fi + 1) = {"int"} => s2.loc # 0 /\ s2.loc \in DOMAIN Stack
        BY <2>10, <3>2, <4>6
      <4> QED BY <4>4, <4>5, <4>10, <4>11 DEF FieldInv
    <3> QED BY <1>1, <3>1, <3>3, <3>4, FieldGotoIInv
  <2> QED BY <2>1, <2>6, <2>7, <2>8, <2>9, <2>10 DEF TypeKinds
<1> QED BY <1>3, <1>10, <1>11, <1>12


(* The field loop ends: the parameter passed every check of the reference, *)
(* and its record, now part of the frame, is the reference's record.      *)
LEMMA FieldsEndIInv == IInv /\ FieldsEnd => IInv'
<1> SUFFICES ASSUME IInv, FieldsEnd PROVE IInv'
  OBVIOUS
<1> DEFINE e == children[k]
           fr2 == [m \in DOMAIN frame \cup {k} |-> IF m = k THEN st.rec ELSE frame[m]]
<1>1. /\ children \in Seq(Entries) /\ k \in 1..Len(children)
      /\ pc = "fields" /\ stopped /\ inFunc /\ req = 1
      /\ fi = Len(e.fields) /\ e.tag = "param" /\ ~e.kids
  BY DEF IInv, TypeOK, Inv, FieldsEnd
<1>2. /\ pc' = "walk" /\ k' = k /\ fi' = fi /\ st' = st /\ frame' = fr2
      /\ UNCHANGED <<children, stopped, inFunc, req, result>>
  BY DEF FieldsEnd, Goto
<1>3. TypeOK' BY <1>1, <1>2 DEF IInv, TypeOK
<1>4. GoLayout => WalkInv(k)'
  <2> SUFFICES ASSUME GoLayout PROVE WalkInv(k)'
    OBVIOUS
  <2>1. e \in Entries /\ e.fields \in Seq(Attrs) BY <1>1, EntryFacts
  <2>2. WalkInv(k - 1) /\ FieldInv(e, fi, st) BY <1>1 DEF IInv, Inv
  <2>3. \A a : AttrUpTo(e, a, fi) = AttrOf(e, a) BY <1>1, <2>1, UpToAll
  <2>4. /\ st.rec.off = AttrOf(e, "loc")
        /\ st.rec.name = AttrOf(e, "name")
        /\ st.rec.type = AttrOf(e, "type")
        /\ \A o \in AttrOf(e, "loc") : st.loc = FP + o
        /\ st.rec.val = IF IsInt(e) THEN {Stack[st.loc]} ELSE {}
        /\ IsInt(e) => st.loc # 0 /\ st.loc \in DOMAIN Stack
    BY <2>2, <2>3 DEF FieldInv, IsInt
  <2>5. IsInt(e) => AttrOf(e, "loc") # {} /\ Slots(e) = {st.loc}
    <3> SUFFICES ASSUME IsInt(e) PROVE AttrOf(e, "loc") # {} /\ Slots(e) = {st.loc}
      OBVIOUS
    <3>1. AttrOf(e, "loc") # {} BY <2>2, <2>3 DEF FieldInv, IsInt
    <3> QED BY <3>1, <2>4 DEF Slots, SpecFP, FP
  <2>6. SpecErr(e) = "none" BY <1>1, <2>4, <2>5 DEF SpecErr
  <2>7. SpecRec(e) = st.rec
    <3>1. st.rec.val = IF IsInt(e) THEN {Stack[a] : a \in Slots(e)} ELSE {} BY <2>4, <2>5
    <3>2. st.rec \in [off : SUBSET Nat, name : SUBSET Names,
                      type : SUBSET TypeKinds, val : SUBSET StackVals]
      BY DEF IInv, TypeOK
    <3> QED BY <2>4, <3>1, <3>2 DEF SpecRec
  <2>8. Seen(k) = Seen(k - 1) \cup {k} /\ k \notin Seen(k - 1)
    <3>1. k - 1 \in 0..(Len(children) - 1) /\ (k - 1) + 1 = k BY <1>1
    <3>2. Seen((k - 1) + 1) = Seen(k - 1) \cup {(k - 1) + 1} BY <1>1, <3>1, SeenStep
    <3>3. k \notin Seen(k - 1) BY <1>1 DEF Seen, ParamIdx
    <3> QED BY <3>1, <3>2, <3>3
  <2>9. frame = RefFrame(k - 1) BY <2>2 DEF WalkInv
  <2>10. fr2 = RefFrame(k) BY <2>7, <2>8, <2>9 DEF RefFrame
  <2>11. \A m \in Seen(k) : SpecErr(children[m]) = "none" BY <2>2, <2>6, <2>8 DEF WalkInv
  <2> QED BY <1>2, <2>10, <2>11, WalkNext
<1>5. GoLayout' = GoLayout BY <1>2, Frozen
<1> QED BY <1>1, <1>2, <1>3, <1>4, <1>5 DEF IInv, Inv

(* Every step of the handler, and a stutter, keeps the invariant.          *)
LEMMA StepIInv == IInv /\ [Next]_vars => IInv'
<1> SUFFICES ASSUME IInv, [Next]_vars PROVE IInv'
  OBVIOUS
<1>1. CASE Unimplemented \/ NoFrame BY <1>1, RefusedIInv
<1>2. CASE StartWalk BY <1>2, StartWalkIInv
<1>3. CASE ReadEntry BY <1>3, ReadEntryIInv
<1>4. CASE FieldStep BY <1>4, FieldStepIInv
<1>5. CASE FieldsEnd BY <1>5, FieldsEndIInv
<1>6. CASE UNCHANGED vars
  <2>1. /\ children' = children /\ stopped' = stopped /\ inFunc' = inFunc
        /\ req' = req /\ result' = result /\ pc' = pc /\ k' = k /\ fi' = fi
        /\ st' = st /\ frame' = frame
    BY <1>6 DEF vars
  <2>2. WalkInv(k)' = WalkInv(k) /\ WalkInv(k - 1)' = WalkInv(k - 1)
    BY <2>1 DEF WalkInv, Seen, RefFrame, ParamIdx
  <2>3. FieldInv(children[k], fi, st)' = FieldInv(children[k], fi, st) BY <2>1, FieldPrimed
  <2>4. GoLayout' = GoLayout /\ SpecFrames(req)' = SpecFrames(req) BY <2>1, Frozen
  <2> QED BY <2>1, <2>2, <2>3, <2>4 DEF IInv, TypeOK, Inv
<1> QED BY <1>1, <1>2, <1>3, <1>4, <1>5, <1>6 DEF Next

-----------------------------------------------------------------------------
(* FramesFollowsSpec for every children list, offsets, stack and sizes:   *)
(* once the Frames handler (server.go:464-537) has returned, its answer   *)
(* is the frame, or the first failing parameter's error, that spec 4.7    *)
(* describes, whenever the DWARF is laid out as Go's linker lays it out.  *)
THEOREM FramesCorrect == Spec => []FramesFollowsSpec
<1>1. Init => IInv BY InitIInv
<1>2. IInv /\ [Next]_vars => IInv' BY StepIInv
<1>3. IInv => FramesFollowsSpec BY DEF IInv, Inv, FramesFollowsSpec
<1> QED BY <1>1, <1>2, <1>3, PTL DEF Spec

=============================================================================
