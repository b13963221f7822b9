CONSTANTS
    Prefixes = {p0, p1}
    RootPrefix = p0
    Names = {"a", "b"}
    ImageNames = {"a", "b"}
    Writable = {p1}
    InitialContents <- MCInitialContents
    MaxRequests <- MCMaxRequests
    MaxExternal <- MCMaxExternal
    SortKeys <- MCSortKeys
SPECIFICATION Spec
INVARIANT TypeOK ListFromCurrentLocation LinksNameTheirObject RemovalsNameStoredObjects PreviewShowsItsRow
PROPERTY LoadingEventuallyEnds RemovedRowConfirmationCloses
