SPECIFICATION Spec
CONSTANTS
    MaxLayers = 1
    MaxAccept = 2
    Names = {"gzip", "*"}
    QVals = {0, 10}
INVARIANT NoneIfUnasked
CHECK_DEADLOCK FALSE
