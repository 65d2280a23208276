\* Every kind up to CXType_Auto.
SPECIFICATION Spec
INVARIANT
    KindsMapToNamesakes
CHECK_DEADLOCK FALSE
