\* Three rows, merged files of at most two rows, one failure or crash, tiering
\* acts once, one insert without the lock.
SPECIFICATION FairSpec
CONSTANTS
    Names = {f1, f2, f3, f4, f5, f6, f7, f8, f9}
    MaxRows = 3
    Target = 2
    MaxFaults = 1
    MaxTierings = 1
    MaxUnlocked = 1
INVARIANTS
    QuerySeesRows
    CatalogFilesOnDisk
    RowsOnce
PROPERTIES
    SmallFilesMerged
    OrphansReclaimed
