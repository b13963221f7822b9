CONSTANTS
    Tabs = {t1, t2}
    MaxNonces <- MCMaxNonces
SPECIFICATION Spec
INVARIANT TypeOK
PROPERTY Refinement
SYMMETRY TabSymmetry
CHECK_DEADLOCK FALSE
