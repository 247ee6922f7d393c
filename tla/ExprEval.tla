----------------------------- MODULE ExprEval -----------------------------
(***************************************************************************)
(* The expression evaluator of the debug server (eval, evalAddress in      *)
(* src/program/server/server.go) and the way the Breakpoint handler        *)
(* resolves a request through it into pcs of the breakpoint table.         *)
(*                                                                         *)
(* A string is abstracted to what it denotes: a symbol name, a number      *)
(* printed by "%#x", or a "file:line" pair.  An expression is a record     *)
(* whose kind k is its prefix; a "re:" request carries the symbols its    *)
(* regexp matches (m), the others their argument (v).  The symbol/line    *)
(* table (lookupSym, lookupPC, lookupRE) is not under src/ and is          *)
(* modelled from the spec (4.3).                                           *)
(* The peek of Breakpoint is left to Server.tla; here every pc resolves    *)
(* against a stopped process.                                              *)
(***************************************************************************)
EXTENDS Integers, Sequences

CONSTANTS
    FuncSyms,   \* function symbols of the executable
    DataSyms,   \* data symbols (global variables)
    SymAddr,    \* SymAddr[s]: the address lookupSym returns for s
    CodeAddrs,  \* instruction starts of the text segment
    TextEnd,    \* first address past the text segment
    LineOf,     \* LineOf[a]: the source line PCToLine reports for a
    Exprs       \* the expressions clients send

Syms == FuncSyms \cup DataSyms

ASSUME ExprEvalAssumption ==
    /\ FuncSyms \cap DataSyms = {}
    /\ SymAddr \in [Syms -> Nat]
    /\ CodeAddrs \subseteq Nat
    /\ \A f \in FuncSyms : SymAddr[f] \in CodeAddrs
    /\ DOMAIN LineOf = CodeAddrs
    /\ \A e \in Exprs : e.k = "re" => e.m \in Seq(Syms)

VARIABLES
    table,        \* the pcs of s.breakpoints
    lastReq,      \* the expression of the last Breakpoint request
    lastErr,      \* which check failed it: "none", "eval", "addr" or "dup"
    lastInserted  \* the pcs it inserted

vars == <<table, lastReq, lastErr, lastInserted>>

-----------------------------------------------------------------------------
(* Strings, by what they denote.                                           *)
Name(s) == [k |-> "name", v |-> s]
Hex(n) == [k |-> "hex", v |-> n]
FileLine(l) == [k |-> "fileline", v |-> l]

Result(out) == [ok |-> TRUE, out |-> out]
Failure == [ok |-> FALSE, out |-> <<>>]

(* lookupPC: the function whose code encloses pc, that is the one with the *)
(* greatest entry at or below it, inside the text segment.                 *)
Enclosing(pc) == {f \in FuncSyms : /\ SymAddr[f] <= pc
                                   /\ pc < TextEnd
                                   /\ \A g \in FuncSyms : SymAddr[g] <= pc => SymAddr[g] <= SymAddr[f]}

(* lookupSource: file and line of pc; no line data outside the code.       *)
HasLine(pc) == pc \in CodeAddrs

(* eval, one operator per prefix.  A number that does not parse, an      *)
(* unknown symbol, or a pc without a function or line data is an error.   *)
(* "re:" returns the matching symbols in table order (e.m lists them).     *)
EvalSym(name) == IF name \in Syms THEN Result(<<Hex(SymAddr[name])>>) ELSE Failure

EvalSrc(n) == IF n \in Nat /\ HasLine(n) THEN Result(<<FileLine(LineOf[n])>>) ELSE Failure

(* Faulty variant (mutation): the numeric case returns the address itself. *)
EvalNumAsAddress(n) == IF n \in Nat /\ Enclosing(n) # {} THEN Result(<<Hex(n)>>) ELSE Failure

EvalNum(n) ==
    IF n \in Nat /\ Enclosing(n) # {}
    THEN Result(<<Name(CHOOSE f \in Enclosing(n) : TRUE)>>)
    ELSE Failure

Eval(e) ==
    CASE e.k = "re"  -> Result([i \in DOMAIN e.m |-> Name(e.m[i])])
      [] e.k = "sym" -> EvalSym(e.v)
      [] e.k = "src" -> EvalSrc(e.v)
      [] e.k = "num" -> EvalNum(e.v)
      [] OTHER       -> Failure

(* evalAddress: a symbol name first, else a number (strconv.ParseUint with *)
(* base prefix); "file:line" is neither.                                   *)
EvalAddress(str) ==
    IF str.k = "name" /\ str.v \in Syms THEN [ok |-> TRUE, pc |-> SymAddr[str.v]]
    ELSE IF str.k = "hex" THEN [ok |-> TRUE, pc |-> str.v]
    ELSE [ok |-> FALSE, pc |-> 0]

-----------------------------------------------------------------------------
Init ==
    /\ table = {}
    /\ lastReq = [k |-> "none", v |-> 0]
    /\ lastErr = "none"
    /\ lastInserted = {}

(* Breakpoint: eval the request, then for each string in order resolve it *)
(* with evalAddress, fail on a pc already in the table, insert it.  The    *)
(* first failure returns; what was inserted before it stays.              *)
Fails(strs, i) ==
    \/ ~EvalAddress(strs[i]).ok
    \/ EvalAddress(strs[i]).pc \in table
    \/ \E j \in 1..(i - 1) : EvalAddress(strs[j]).pc = EvalAddress(strs[i]).pc

Breakpoint(e) ==
    LET r == Eval(e)
        good == {k \in DOMAIN r.out : \A j \in 1..k : ~Fails(r.out, j)}
        new == {EvalAddress(r.out[k]).pc : k \in good}
        bad == DOMAIN r.out \ good
        first == CHOOSE k \in bad : \A j \in bad : k <= j
    IN /\ lastReq' = e
       /\ table' = table \cup new
       /\ lastInserted' = new
       /\ lastErr' = IF ~r.ok THEN "eval"
                     ELSE IF bad = {} THEN "none"
                     ELSE IF ~EvalAddress(r.out[first]).ok THEN "addr"
                     ELSE "dup"

Next == \E e \in Exprs : Breakpoint(e)

Spec == Init /\ [][Next]_vars

-----------------------------------------------------------------------------
(* What the spec (4.6, 4.3) says a request resolves to: the functions and  *)
(* variables a regexp matches, the named symbol, the entry of the function *)
(* enclosing a numeric pc, and the pcs of the line of a "src:" pc.         *)
Reference(e) ==
    CASE e.k = "re"  -> {SymAddr[e.m[i]] : i \in DOMAIN e.m}
      [] e.k = "sym" -> {SymAddr[e.v]}
      [] e.k = "num" -> {SymAddr[f] : f \in Enclosing(e.v)}
      [] e.k = "src" -> {a \in CodeAddrs : LineOf[a] = LineOf[e.v]}

(* A Breakpoint request that succeeds inserts exactly the pcs the spec's   *)
(* grammar resolves it to: eval's formatting and evalAddress's parsing     *)
(* agree for every prefix.                                                 *)
ResolvesToReference ==
    lastErr = "none" /\ lastReq.k # "none" => lastInserted = Reference(lastReq)

(* Spec scenario S3: a breakpoint on "src:<pc>" of a line with line data   *)
(* is set, unless that pc is already in the table.                         *)
SrcBreakpointResolves ==
    lastReq.k = "src" /\ lastReq.v \in CodeAddrs => lastErr \in {"none", "dup"}
=============================================================================
