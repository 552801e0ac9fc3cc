CONSTANT NumLevels = 4
SPECIFICATION FairSpec
INVARIANTS SettledIsBest ScanMissesNothing
PROPERTY RefreshEnds
