CONSTANTS
    MaxOpens = 5
    ReqLens = {0, 4}
SPECIFICATION Spec
INVARIANT DescriptorsTrackOpenFiles
PROPERTY DescriptorsStable
PROPERTY ImplementsDescriptors
