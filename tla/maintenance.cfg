\* Tiering: three volumes; native moves from the hot one, INSERT ... SELECT from
\* the warm one and as the fallback; two failures or crashes.
\* Compaction: one table, whose files make the merge of one engine fatal or of none,
\* three backups, one failure or crash besides, two starts, one damage, two restores.
SPECIFICATION ServiceSpec
CONSTANTS
    Rows = {r1, r2, r3}
    NumVolumes = 3
    NativeSources = {1}
    TTLVolumes = {1, 2, 3}
    SizeVolumes = {1}
    MaxFaults = 2
    Tables = {t1}
    Keep = 3
    MaxMergeFatals = 2
    CsMaxFaults = 1
    MaxDamages = 1
    MaxStarts = 2
    MaxRestores = 2
INVARIANTS
    LossNeedsLateFlush
    CopyIntoEmpty
    CyclesExclusive
    GoodBackupKept
    RestoreReversible
PROPERTIES
    NativeRetiresCopied
    PartitionNotStuck
    MaintenanceGoesOn
