CONSTANTS
  NumSlots = 2
  Hour = 1
  Day = 4
  MinSamples = 3
  StartTime = 1
  MaxTime = 14
  SolPrices <- MCSolPrices
  LucraPrices <- MCLucraPrices

SPECIFICATION PHLiveSpec

INVARIANT PHTypeOK
INVARIANT OneSnapshotPerDay
INVARIANT ClosedDaysWellSampled
INVARIANT EvictsOldestFirst
PROPERTY LedgerKeepsUp
CONSTRAINT ClockBound
