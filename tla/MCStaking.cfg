\* One balance with its own vaults and two withdrawal addresses: the
\* pending-vault bookkeeping, the timeframe lock and the reward arithmetic, over two drops.
CONSTANTS
  a1 = a1  a2 = a2  b1 = b1  b2 = b2  v1 = v1  v2 = v2  p1 = p1  p2 = p2  r1 = r1  r2 = r2
  StakingAccounts <- OneAccount
  StakeBalances <- OneBalance
  VaultSets <- OneVaultSet
  PendingWithdrawals <- TwoPending
  RewardAccounts <- TwoRewards
  Timeframes <- MCTimeframes
  LucraAmounts <- MCLucraAmounts
  DropExcesses <- MCDropExcesses
  SolPrices <- MCSolPrices
  LucraPrices <- MCLucraPrices
  InitialLucra = 2
  StakingEpoch = 1
  OverflowWraps = FALSE
  U64Modulus = 65536
  NumSlots = 2
  Hour = 1
  Day = 2
  MinSamples = 2
  StartTime = 1
  MaxTime = 7
SPECIFICATION StakingLiveSpec
CONSTRAINT ClockBound
INVARIANTS StakingTypeOK PendingVaultBacksWithdrawals ClaimsWithinReward
PROPERTIES StakeLockRespected StakeLedgerRefined 
