CONSTANTS
    f1 = f1
    f2 = f2
    f3 = f3
    d1 = d1
    nosuch = nosuch
    FuncSyms <- MCFuncSyms
    DataSyms <- MCDataSyms
    SymAddr <- MCSymAddr
    CodeAddrs <- MCCodeAddrs
    TextEnd = 18
    LineOf <- MCLineOf
    Exprs <- MCExprs
SPECIFICATION Spec
INVARIANT ResolvesToReference
