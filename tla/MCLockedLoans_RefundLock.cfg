\* The peg-broken refund branch of create_loan: the loan account is closed
\* but the stake value is still added to locked_total.
CONSTANTS
  l1 = l1  a1 = a1  a2 = a2  b1 = b1  b2 = b2  v1 = v1  v2 = v2  p1 = p1  r1 = r1
  Loans <- OneLoan
  StakingAccounts <- OneAccount
  StakeBalances <- OneBalance
  VaultSets <- OneVaultSet
  PendingWithdrawals <- OnePending
  RewardAccounts <- OneReward
  Timeframes <- MCTimeframes
  LucraAmounts <- MCLucraAmounts
  DropExcesses <- MCDropExcesses
  SolPrices <- MCSolPrices
  LucraPrices <- MCLucraPrices
  Deposits <- MCDeposits
  MataPrices <- MCMataPrices
  MataSwapOuts <- MCMataSwapOuts
  Pools <- MCPools
  Volumes <- MCVolumes
  InitialLucra = 2
  StakingEpoch = 1
  OverflowWraps = FALSE
  U64Modulus = 65536
  Lcp = 50
  CollateralRequirement = 200
  MinDeposit = 1
  Epoch = 1
  MinimumHarvestAmount = 1
  RewardFee = 1
  MaximumOutstandingMata = 12
  PegCheckEnabled = TRUE
  PegTolerance = 5
  LowRate = 1
  HighRate = 2
  RateDivisor = 4
  MaxVault = 8
  MaxPendingPenalty = 8
  NumSlots = 2
  Hour = 1
  Day = 2
  MinSamples = 2
  StartTime = 1
  MaxTime = 7
INIT LockedInit
NEXT LockedNext
CONSTRAINT ClockBound
INVARIANTS LockedTotalMatchesLoans
