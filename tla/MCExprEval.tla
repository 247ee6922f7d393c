---------------------------- MODULE MCExprEval ----------------------------
(* A small executable for ExprEval: three functions and a variable, a     *)
(* text segment of six instruction starts over three source lines, and    *)
(* one request of every kind, including ones that must fail.              *)
EXTENDS ExprEval, TLC

CONSTANTS f1, f2, f3, d1, nosuch

MCFuncSyms == {f1, f2, f3}
MCDataSyms == {d1}
MCSymAddr == (f1 :> 10) @@ (f2 :> 12) @@ (f3 :> 15) @@ (d1 :> 40)
MCCodeAddrs == {10, 11, 12, 13, 15, 16}
MCLineOf == (10 :> 100) @@ (11 :> 100) @@ (12 :> 101) @@ (13 :> 101)
            @@ (15 :> 102) @@ (16 :> 102)

MCExprs ==
    { [k |-> "re", m |-> <<f1, f2>>], [k |-> "re", m |-> <<f3, d1>>],
      [k |-> "sym", v |-> f3], [k |-> "sym", v |-> d1], [k |-> "sym", v |-> nosuch],
      [k |-> "src", v |-> 11], [k |-> "src", v |-> 20], [k |-> "src", v |-> -1],
      [k |-> "num", v |-> 13], [k |-> "num", v |-> 5], [k |-> "num", v |-> 16],
      [k |-> "bad", v |-> 0] }
=============================================================================
