SPECIFICATION Spec
INVARIANT HealIsExact
INVARIANT ScopedAgrees
INVARIANT RowsShowChanges
INVARIANT RemoteMarksChanges
INVARIANT ScopedFiltersAgree
INVARIANT MergeKeepsEveryLine
INVARIANT BlobsReadBack
INVARIANT CachedMeansComplete
INVARIANT PacksReadBack
INVARIANT InspectionIsExact
INVARIANT SetupMatchesRemote
INVARIANT NamesAgree
CHECK_DEADLOCK FALSE
