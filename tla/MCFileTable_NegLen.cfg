CONSTANTS
    MaxOpens = 3
    ReqLens <- MCNegLens
SPECIFICATION Spec
INVARIANT NeverCrashes
