CONSTANTS
  l1 = l1
  l2 = l2
  Loans <- OneLoan
  NumSlots = 2
  Hour = 1
  Day = 2
  MinSamples = 2
  StartTime = 1
  MaxTime = 6
  SolPrices <- MCSolPrices
  LucraPrices <- MCLucraPrices
  Deposits <- MCDeposits
  MataPrices <- MCMataPrices
  MataSwapOuts <- MCMataSwapOuts
  Pools <- MCPools
  Volumes <- MCVolumes
  CollateralRequirement = 200
  MinDeposit = 1
  Epoch = 2
  MinimumHarvestAmount = 1
  RewardFee = 1
  MaximumOutstandingMata = 12
  PegCheckEnabled = TRUE
  PegTolerance = 5
  LowRate = 1
  HighRate = 2
  RateDivisor = 4
  MaxVault = 8
  MaxPendingPenalty = 8

SPECIFICATION Spec
CONSTRAINT ClockBound

INVARIANT LendingTypeOK
INVARIANT VaultCoversBookedCollateral
PROPERTY LoanLedgerRefined
