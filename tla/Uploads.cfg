CONSTANTS
    Slugs <- MCSlugs
    Sizes <- MCSizes
SPECIFICATION Spec
INVARIANT TypeOK
CHECK_DEADLOCK FALSE
