----------------------------- MODULE FrameWalk -----------------------------
(***************************************************************************)
(* The frame walker of the debug server: the Frames handler of             *)
(* src/program/server/server.go, and the algorithm of spec section 4.7 it  *)
(* is meant to implement.                                                  *)
(*                                                                         *)
(* Frames reads the registers of s.stoppedPid, takes the frame pointer to  *)
(* be Rsp + PointerSize (the pc is assumed to be a function's entry),      *)
(* finds the DWARF entry of the function enclosing the pc, and walks the   *)
(* entries the DWARF reader yields after it up to the first null entry.   *)
(* For each formal parameter it renders the attributes in the order they  *)
(* appear; for one of type int of the architecture's int size it peeks    *)
(* the value at fp + offset.                                               *)
(*                                                                         *)
(* The handler runs under s.mu and nothing else changes its inputs, so   *)
(* its two loops are modelled as steps: pc says where it is, k counts the *)
(* entries read, fi the fields of the current parameter done, and st is   *)
(* its locals (location and what has been rendered).  The frame string   *)
(* the handler builds by appending, in the order the entries are read, is *)
(* abstracted to a function from the child index of each parameter to    *)
(* the record of what was rendered for it: the index order is the order  *)
(* of the string.                                                          *)
(*                                                                         *)
(* A DWARF entry is a record: its tag ("param", "var" or "null"), whether *)
(* it has children, and its attribute fields in order.  A field's value   *)
(* is what it denotes: the frame offset its location expression          *)
(* evaluates to (evalLocation), the parameter's name, or the type the     *)
(* type reference resolves to: "int" (name "int", size IntSize), "other", *)
(* or "bad" when dwarfData.Type returns an error.  The string the handler *)
(* builds is abstracted to one record per parameter whose components are  *)
(* {} when absent.  entryForPC and evalLocation are not under src/ and    *)
(* are modelled from the spec (4.7).                                       *)
(***************************************************************************)
EXTENDS Integers, Sequences, FiniteSetsExt

CONSTANTS
    Offsets,      \* frame offsets location expressions evaluate to
    Names,        \* parameter names
    Sp,           \* the stopped task's Rsp
    PointerSize,  \* arch.PointerSize
    Stack,        \* Stack[a]: the int at a mapped stack address a
    MaxChildren   \* bound on the entries of the function's children list

ASSUME FrameWalkAssumption ==
    /\ Offsets \subseteq Nat
    /\ Sp \in Nat \ {0}
    /\ PointerSize \in Nat \ {0}
    /\ DOMAIN Stack \subseteq Nat
    /\ MaxChildren \in Nat

TypeKinds == {"int", "other", "bad"}

Attrs ==
    {[a |-> "loc", v |-> o] : o \in Offsets} \cup {[a |-> "name", v |-> n] : n \in Names}
        \cup {[a |-> "type", v |-> ty] : ty \in TypeKinds}

(* An entry's fields carry each attribute at most once, in any order.     *)
FieldSeqs ==
    {fs \in UNION {[1..n -> Attrs] : n \in 0..3} :
        \A i1, i2 \in DOMAIN fs : i1 # i2 => fs[i1].a # fs[i2].a}

Entries ==
    {[tag |-> "param", kids |-> q, fields |-> fs] : q \in BOOLEAN, fs \in FieldSeqs}
        \cup {[tag |-> "var", kids |-> FALSE, fields |-> <<>>]}

NullEntry == [tag |-> "null", kids |-> FALSE, fields |-> <<>>]

VARIABLES
    children,  \* the function's children as the DWARF reader yields them
    stopped,   \* s.stoppedPid is in ptrace-stop (ptraceGetRegs succeeds)
    inFunc,    \* entryForPC finds a function enclosing the pc
    req,       \* req.Count of the last Frames request (0: none yet)
    result,    \* what that request returned
    pc,        \* "idle", or the loop the running handler is in
    k,         \* entries read by r.Next()
    fi,        \* fields of the current parameter handled
    st,        \* its locals: location, and what has been rendered
    frame      \* frame.S so far: child index |-> rendered record

vars == <<children, stopped, inFunc, req, result, pc, k, fi, st, frame>>

-----------------------------------------------------------------------------
Ok(fr) == [kind |-> "ok", err |-> "none", frame |-> fr]
Err(e) == [kind |-> "err", err |-> e, frame |-> <<>>]
Panic == [kind |-> "panic", err |-> "none", frame |-> <<>>]

NoRec == [off |-> {}, name |-> {}, type |-> {}, val |-> {}]

(* location := uintptr(0), and nothing rendered yet.                      *)
St0 == [loc |-> 0, rec |-> NoRec]

EmptyFrame == [m \in {} |-> NoRec]

(* Faulty variant (mutation): the frame pointer is taken to be Rsp.        *)
FPAtSp == Sp

(* fp := regs.Rsp + PointerSize: the arguments start above the return pc. *)
FP == Sp + PointerSize

(* The n-th entry r.Next() yields: the children, then the null entry      *)
(* that ends the list.                                                     *)
Entry(n) == IF n <= Len(children) THEN children[n] ELSE NullEntry

(* The handler returns r; its locals are dropped.                          *)
Return(r) == /\ result' = r
             /\ pc' = "idle"
             /\ UNCHANGED <<children, stopped, inFunc, req, k, fi, st, frame>>

(* The handler goes on in loop l with locals kk, ff, ss, fr.              *)
Goto(l, kk, ff, ss, fr) ==
    /\ pc' = l /\ k' = kk /\ fi' = ff /\ st' = ss /\ frame' = fr
    /\ UNCHANGED <<children, stopped, inFunc, req, result>>

-----------------------------------------------------------------------------
(* if req.Count != 1: not implemented (2 stands for every other Count).   *)
Unimplemented ==
    /\ pc = "idle"
    /\ req' = 2
    /\ result' = Err("unimplemented")
    /\ UNCHANGED <<children, stopped, inFunc, pc, k, fi, st, frame>>

(* A request with Count 1 whose register read or entryForPC fails.        *)
NoFrame ==
    /\ pc = "idle"
    /\ req' = 1
    /\ \/ ~stopped /\ result' = Err("regs")
       \/ stopped /\ ~inFunc /\ result' = Err("entry")
    /\ UNCHANGED <<children, stopped, inFunc, pc, k, fi, st, frame>>

(* Registers read, function found: frame := {}; r.Seek(entry.Offset).     *)
StartWalk ==
    /\ pc = "idle"
    /\ stopped /\ inFunc
    /\ req' = 1
    /\ pc' = "walk" /\ k' = 0 /\ fi' = 0 /\ st' = St0 /\ frame' = EmptyFrame
    /\ UNCHANGED <<children, stopped, inFunc, result>>

(* One turn of the reader loop: stop at the null entry, skip what is not a *)
(* formal parameter, reject one with children, else start on its fields.  *)
ReadEntry ==
    /\ pc = "walk"
    /\ LET e == Entry(k + 1) IN
         \/ e.tag = "null" /\ Return(Ok(frame))
         \/ e.tag \notin {"null", "param"} /\ Goto("walk", k + 1, fi, st, frame)
         \/ e.tag = "param" /\ e.kids /\ Return(Err("children"))
         \/ e.tag = "param" /\ ~e.kids /\ Goto("fields", k + 1, 0, St0, frame)

(* case dwarf.AttrType: a type whose lookup failed leaves t nil, and       *)
(* t.String() panics; an int is peeked at location.                        *)
TypeStep(ty) ==
    LET typed == [st EXCEPT !.rec.type = {ty}]
    IN  \/ ty = "bad" /\ Return(Panic)
        \/ ty = "other" /\ Goto("fields", k, fi + 1, typed, frame)
        \/ ty = "int" /\ st.loc = 0 /\ Return(Err("noloc"))
        \/ ty = "int" /\ st.loc # 0 /\ st.loc \notin DOMAIN Stack /\ Return(Err("peek"))
        \/ /\ ty = "int" /\ st.loc # 0 /\ st.loc \in DOMAIN Stack
           /\ Goto("fields", k, fi + 1, [typed EXCEPT !.rec.val = {Stack[st.loc]}], frame)

(* One field of the current parameter, by its attribute.                  *)
FieldStep ==
    /\ pc = "fields"
    /\ fi < Len(children[k].fields)
    /\ LET f == children[k].fields[fi + 1] IN
         \/ f.a = "loc" /\ Goto("fields", k, fi + 1,
                                [st EXCEPT !.loc = FP + f.v, !.rec.off = {f.v}], frame)
         \/ f.a = "name" /\ Goto("fields", k, fi + 1, [st EXCEPT !.rec.name = {f.v}], frame)
         \/ f.a = "type" /\ TypeStep(f.v)

(* The field loop ends: the parameter's text is part of frame.S.          *)
FieldsEnd ==
    /\ pc = "fields"
    /\ fi = Len(children[k].fields)
    /\ Goto("walk", k, fi, st,
            [m \in DOMAIN frame \cup {k} |-> IF m = k THEN st.rec ELSE frame[m]])

-----------------------------------------------------------------------------
Init ==
    /\ children \in UNION {[1..n -> Entries] : n \in 0..MaxChildren}
    /\ stopped \in BOOLEAN
    /\ inFunc \in BOOLEAN
    /\ req = 0
    /\ result = Ok(EmptyFrame)
    /\ pc = "idle" /\ k = 0 /\ fi = 0 /\ st = St0 /\ frame = EmptyFrame

Next == Unimplemented \/ NoFrame \/ StartWalk \/ ReadEntry \/ FieldStep \/ FieldsEnd

Spec == Init /\ [][Next]_vars

-----------------------------------------------------------------------------
(* The frame spec section 4.7 describes, as a reference: for each formal  *)
(* parameter among the function's children, in order, reject children,   *)
(* decode its location, record its name, and if its type is int of the   *)
(* architecture's size, peek at fp + offset; the first failure is the     *)
(* answer.  Attributes are looked up by kind, wherever they appear.       *)
AttrOf(e, a) == {e.fields[q].v : q \in {q2 \in DOMAIN e.fields : e.fields[q2].a = a}}

IsInt(e) == AttrOf(e, "type") = {"int"}

(* Spec 4.7: fp = sp + pointer_size.                                       *)
SpecFP == Sp + PointerSize

Slots(e) == {SpecFP + o : o \in AttrOf(e, "loc")}

SpecErr(e) ==
    IF e.kids THEN "children"
    ELSE IF IsInt(e) /\ AttrOf(e, "loc") = {} THEN "noloc"
    ELSE IF IsInt(e) /\ ~(Slots(e) \subseteq DOMAIN Stack) THEN "peek"
    ELSE "none"

SpecRec(e) ==
    [off |-> AttrOf(e, "loc"), name |-> AttrOf(e, "name"), type |-> AttrOf(e, "type"),
     val |-> IF IsInt(e) THEN {Stack[a] : a \in Slots(e)} ELSE {}]

(* The formal parameters among the entries, by child index.               *)
ParamIdx(es) == {m \in DOMAIN es : es[m].tag = "param"}

SpecWalk(es) ==
    LET bad == {m \in ParamIdx(es) : SpecErr(es[m]) # "none"}
    IN  IF bad = {} THEN Ok([m \in ParamIdx(es) |-> SpecRec(es[m])])
                    ELSE Err(SpecErr(es[Min(bad)]))

SpecFrames(count) ==
    IF count # 1 THEN Err("unimplemented")
    ELSE IF ~stopped THEN Err("regs")
    ELSE IF ~inFunc THEN Err("entry")
    ELSE SpecWalk(children)

(* The layout Go's linker gives a formal parameter (name, location, type) *)
(* and a type reference that resolves.                                     *)
LocationFirst(e) ==
    \A q1, q2 \in DOMAIN e.fields :
        e.fields[q1].a = "loc" /\ e.fields[q2].a = "type" => q1 < q2

TypeResolves(e) == \A q \in DOMAIN e.fields : e.fields[q] # [a |-> "type", v |-> "bad"]

(* Every child is laid out the way FramesFollowsSpec expects.              *)
GoLayout == \A m \in DOMAIN children : LocationFirst(children[m]) /\ TypeResolves(children[m])

-----------------------------------------------------------------------------
(* Spec sections 6 and 7: every request answers with a result or an      *)
(* error.  Frames on a parameter whose type reference does not resolve   *)
(* must not crash the server (server.go:518-522 calls t.String() on the   *)
(* nil type dwarfData.Type returned with its error).                      *)
FramesNeverPanics == result.kind # "panic"

(* Once Frames has returned, it has answered what spec 4.7 describes, for *)
(* DWARF laid out as Go's linker lays it out: the parameters in order,    *)
(* each int one with the value peeked at Rsp + PointerSize + its offset, *)
(* and the first failing parameter's error otherwise.                     *)
FramesFollowsSpec ==
    pc = "idle" /\ req # 0 /\ GoLayout => result = SpecFrames(req)
=============================================================================
