--------------------------- MODULE ExprEvalProofs ---------------------------
(***************************************************************************)
(* Proof that a Breakpoint request which succeeds inserts exactly the pcs  *)
(* the spec's grammar resolves it to (ResolvesToReference), for every      *)
(* symbol table, line table and set of requests.                           *)
(***************************************************************************)
EXTENDS ExprEval, TLAPS

USE ExprEvalAssumption

(* lookupPC is well defined on addresses: every function it could return  *)
(* for a pc starts at the same entry, the greatest one at or below it.     *)
LEMMA EnclosingSameEntry ==
    ASSUME NEW pc, NEW f \in Enclosing(pc), NEW g \in Enclosing(pc)
    PROVE  SymAddr[f] = SymAddr[g]
<1>1. f \in FuncSyms /\ g \in FuncSyms BY DEF Enclosing
<1>2. SymAddr[g] <= SymAddr[f] /\ SymAddr[f] <= SymAddr[g]
  BY <1>1 DEF Enclosing
<1>3. SymAddr[f] \in Nat /\ SymAddr[g] \in Nat BY <1>1 DEF Syms
<1> QED BY <1>2, <1>3

(* evalAddress parses back what eval prints for a symbol: its address.     *)
LEMMA AddressOfName ==
    ASSUME NEW s \in Syms
    PROVE  EvalAddress(Name(s)) = [ok |-> TRUE, pc |-> SymAddr[s]]
BY DEF EvalAddress, Name

(* When the request succeeded, no string of eval's output failed, and what *)
(* was inserted is the set of their addresses.                            *)
LEMMA SucceededInsertsAll ==
    ASSUME NEW e \in Exprs, Breakpoint(e), lastErr' = "none"
    PROVE  /\ Eval(e).ok
           /\ \A k \in DOMAIN Eval(e).out : ~Fails(Eval(e).out, k)
           /\ lastInserted' = {EvalAddress(Eval(e).out[k]).pc : k \in DOMAIN Eval(e).out}
<1> DEFINE r == Eval(e)
           good == {k \in DOMAIN r.out : \A j \in 1..k : ~Fails(r.out, j)}
<1>1. r.ok /\ DOMAIN r.out \ good = {}
  BY DEF Breakpoint
<1>2. good = DOMAIN r.out BY <1>1
<1>3. ASSUME NEW k \in DOMAIN r.out PROVE ~Fails(r.out, k)
  <2>1. k \in good BY <1>2
  <2>2. k \in 1..k
    <3>1. DOMAIN r.out \subseteq Nat \ {0}
      <4>1. CASE e.k = "re"
        <5>1. e.m \in Seq(Syms) BY <4>1
        <5> QED BY <4>1, <5>1 DEF Eval, Result
      <4>2. CASE e.k # "re"
        BY <4>2 DEF Eval, EvalSym, EvalSrc, EvalNum, Result, Failure
      <4> QED BY <4>1, <4>2
    <3> QED BY <3>1
  <2> QED BY <2>1, <2>2
<1> QED BY <1>1, <1>2, <1>3 DEF Breakpoint

-----------------------------------------------------------------------------
(* Spec 4.6: a successful Breakpoint request inserts exactly the pcs its   *)
(* expression denotes; in particular eval's "num:" answer (the enclosing  *)
(* function's name) parses back to that function's entry.                  *)
THEOREM Resolves == Spec => []ResolvesToReference
<1>1. Init => ResolvesToReference
  BY DEF Init, ResolvesToReference
<1>2. ASSUME NEW e \in Exprs, Breakpoint(e) PROVE ResolvesToReference'
  <2> SUFFICES ASSUME lastErr' = "none", e.k # "none"
               PROVE  lastInserted' = Reference(e)
    BY <1>2 DEF ResolvesToReference, Breakpoint
  <2> DEFINE r == Eval(e)
  <2>1. /\ r.ok
        /\ \A k \in DOMAIN r.out : ~Fails(r.out, k)
        /\ lastInserted' = {EvalAddress(r.out[k]).pc : k \in DOMAIN r.out}
    BY <1>2, SucceededInsertsAll
  <2>2. CASE e.k = "re"
    <3>1. e.m \in Seq(Syms) BY <2>2
    <3>2. r.out = [i \in DOMAIN e.m |-> Name(e.m[i])] BY <2>2 DEF Eval, Result
    <3>3. \A i \in DOMAIN e.m : EvalAddress(r.out[i]).pc = SymAddr[e.m[i]]
      BY <3>1, <3>2, AddressOfName
    <3>4. DOMAIN r.out = DOMAIN e.m BY <3>2
    <3>5. lastInserted' = {SymAddr[e.m[i]] : i \in DOMAIN e.m}
      BY <2>1, <3>3, <3>4
    <3>6. Reference(e) = {SymAddr[e.m[i]] : i \in DOMAIN e.m}
      BY <2>2 DEF Reference
    <3> QED BY <3>5, <3>6
  <2>3. CASE e.k = "sym"
    <3>1. e.v \in Syms /\ r.out = <<Hex(SymAddr[e.v])>>
      BY <2>1, <2>3 DEF Eval, EvalSym, Result, Failure
    <3>2. EvalAddress(r.out[1]).pc = SymAddr[e.v]
      BY <3>1 DEF EvalAddress, Hex
    <3> QED BY <2>1, <2>3, <3>1, <3>2 DEF Reference
  <2>4. CASE e.k = "src"
    <3>1. r.out = <<FileLine(LineOf[e.v])>>
      BY <2>1, <2>4 DEF Eval, EvalSrc, Result, Failure
    <3>2. Fails(r.out, 1)
      BY <3>1 DEF Fails, EvalAddress, FileLine
    <3> QED BY <2>1, <3>1, <3>2
  <2>5. CASE e.k = "num"
    <3>1. e.v \in Nat /\ Enclosing(e.v) # {}
      BY <2>1, <2>5 DEF Eval, EvalNum, Failure
    <3> DEFINE c == CHOOSE f \in Enclosing(e.v) : TRUE
    <3>2. c \in Enclosing(e.v) /\ c \in Syms BY <3>1 DEF Enclosing, Syms
    <3>3. r.out = <<Name(c)>> BY <2>5, <3>1 DEF Eval, EvalNum, Result
    <3>4. EvalAddress(r.out[1]).pc = SymAddr[c] BY <3>2, <3>3, AddressOfName
    <3>5. {SymAddr[f] : f \in Enclosing(e.v)} = {SymAddr[c]}
      <4>1. \A f \in Enclosing(e.v) : SymAddr[f] = SymAddr[c]
        BY <3>2, EnclosingSameEntry
      <4> QED BY <3>2, <4>1
    <3>6. lastInserted' = {SymAddr[c]}
      <4>1. DOMAIN r.out = {1} BY <3>3
      <4>2. {EvalAddress(r.out[k]).pc : k \in DOMAIN r.out} = {SymAddr[c]}
        BY <3>4, <4>1
      <4> QED BY <2>1, <4>2
    <3>7. Reference(e) = {SymAddr[f] : f \in Enclosing(e.v)} BY <2>5 DEF Reference
    <3> QED BY <3>5, <3>6, <3>7
  <2>6. CASE e.k \notin {"re", "sym", "src", "num"}
    BY <2>1, <2>6 DEF Eval, Failure
  <2> QED BY <2>2, <2>3, <2>4, <2>5, <2>6
<1>3. ResolvesToReference /\ UNCHANGED vars => ResolvesToReference'
  BY DEF vars, ResolvesToReference
<1>4. ResolvesToReference /\ [Next]_vars => ResolvesToReference'
  BY <1>2, <1>3 DEF Next
<1> QED BY <1>1, <1>4, PTL DEF Spec
=============================================================================
