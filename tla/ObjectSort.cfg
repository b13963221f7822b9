CONSTANTS
    Keys <- MCKeys
    Sizes <- MCSizes
    Dates <- MCDates
    MaxLen <- MCMaxLen
SPECIFICATION Spec
INVARIANT TypeOK SortedAsReference
