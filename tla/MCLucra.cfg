\* The whole program, one account of each kind: loans, locked-stake loans,
\* penalty accrual and harvest, staking, drops, redeems and the DAO's
\* switches and transfers, interleaved.
CONSTANTS
  l1 = l1  a1 = a1  b1 = b1  v1 = v1  p1 = p1  r1 = r1
  Loans <- OneLoan
  StakingAccounts <- OneAccount
  StakeBalances <- OneBalance
  VaultSets <- OneVaultSet
  PendingWithdrawals <- OnePending
  RewardAccounts <- OneReward
  Timeframes <- MCTimeframes
  LucraAmounts <- MCLucraAmounts
  DropExcesses <- MCDropExcesses
  SolPrices <- MCSolPrices
  LucraPrices <- MCLucraPrices
  Deposits <- MCDeposits
  MataPrices <- MCMataPrices
  MataSwapOuts <- MCMataSwapOuts
  Pools <- MCPools
  Volumes <- MCVolumes
  LucraSolPrices <- MCLucraSolPrices
  RewardTokenAmounts <- MCRewardTokenAmounts
  TransferAmounts <- MCTransferAmounts
  MaxTransferred = 1
  MaxRewardTokens = 1
  InitialLucra = 1
  StakingEpoch = 1
  OverflowWraps = FALSE
  U64Modulus = 65536
  Lcp = 50
  CollateralRequirement = 200
  MinDeposit = 1
  Epoch = 1
  MinimumHarvestAmount = 1
  RewardFee = 0
  MaximumOutstandingMata = 12
  PegCheckEnabled = TRUE
  PegTolerance = 5
  LowRate = 1
  HighRate = 2
  RateDivisor = 4
  MaxVault = 4
  MaxPendingPenalty = 1
  NumSlots = 1
  Hour = 1
  Day = 2
  MinSamples = 1
  StartTime = 1
  MaxTime = 3
INIT LucraInit
NEXT LucraNext
CONSTRAINT ClockBound
INVARIANTS LucraTypeOK LocksBackedByStake VaultBackedUnlessTransferred
