------------------------------- MODULE Staking -------------------------------
(***************************************************************************)
(* LUCRA staking and staking rewards, for one owner.  The owner's wallet,  *)
(* their staked-LUCRA receipt account, their StakingAccounts (any number:  *)
(* the address is not derived from the owner), their StakeBalances, the   *)
(* token vaults a StakeBalance points at, and the PendingWithdrawals of    *)
(* an unstake; the global StakingState and the Reward records a drop      *)
(* writes.                                                                 *)
(*                                                                         *)
(* Source: processor/process_create_staking_account.rs,                   *)
(*   process_create_stake_balance.rs, process_deposit_stake.rs,           *)
(*   process_stake.rs, process_start_unstake.rs, process_end_unstake.rs,   *)
(*   process_withdraw_stake.rs, process_drop_reward.rs,                    *)
(*   process_claim_reward.rs.  The StakingState / StakeBalance /           *)
(*   StakingAccount methods live in state.rs, which is not in src/; their  *)
(*   assumed effect is stated where they are used and marked in the map.   *)
(*                                                                         *)
(* A vault set is the (deposit, stake, pending) triple of token accounts   *)
(* create_stake_balance records.  It only checks that each is a LUCRA      *)
(* account owned by the PDA of (owner, system_state, nonce), so two of the *)
(* owner's balances may name the same triple.  close_account deletes a    *)
(* record at the end of the transaction: a closed balance or finished     *)
(* withdrawal reads as a fresh, uninitialised account afterwards.         *)
(***************************************************************************)
EXTENDS PriceHistory, FiniteSetsExt

CONSTANTS
  StakingAccounts,     \* addresses of the owner's StakingAccounts
  StakeBalances,       \* addresses of the owner's StakeBalances
  VaultSets,           \* (deposit, stake, pending) vault triples of the owner
  PendingWithdrawals,  \* addresses of PendingWithdrawal accounts
  RewardAccounts,      \* addresses of Reward accounts
  Timeframes,          \* StakingTimeframe: [weight, multiplier, inflation]
  LucraAmounts,        \* LUCRA an instruction may move
  InitialLucra,        \* LUCRA in the owner's wallet at the start
  StakingEpoch,        \* system_state.epoch
  DropExcesses,        \* msol_vault - total_sol_collateral when a drop runs
  OverflowWraps,       \* TRUE: the build wraps unchecked u64 arithmetic
  U64Modulus           \* 2^64, or any modulus above every model quantity

ASSUME OverflowWraps \in BOOLEAN
ASSUME \A tf \in Timeframes : tf.weight \in Nat \ {0} /\ tf.multiplier \in Nat

VARIABLES
  stakingCursor,       \* staking_state.reward_cursor
  lastDropTimestamp,   \* staking_state.last_drop_timestamp
  currentReward,       \* staking_state.current_reward_pubkey
  rewards,             \* Reward account of each address
  stakingAccounts,     \* StakingAccount of each address
  stakeBalances,       \* StakeBalance of each address
  pendingWithdrawals,  \* PendingWithdrawal of each address
  depositVault,        \* LUCRA in the deposit vault of each triple
  stakeVault,          \* LUCRA in the stake vault of each triple
  pendingVault,        \* LUCRA in the pending vault of each triple
  wallet,              \* the owner's LUCRA token account
  stakedLucra,         \* the owner's staked-LUCRA account (= the stake mint supply)
  rewardsVault,        \* mSOL in system_state.rewards_vault
  rewardTokens,        \* the cranker's reward-mint token account
  claimed,             \* history: mSOL paid out of each Reward
  lockedUntil          \* history: end of the latest timeframe lock on each stake vault

stakingVars == <<stakingCursor, lastDropTimestamp, currentReward, rewards,
                 stakingAccounts, stakeBalances, pendingWithdrawals,
                 depositVault, stakeVault, pendingVault, wallet, stakedLucra,
                 rewardsVault, rewardTokens, claimed, lockedUntil>>

NoReward == "NoReward"
NoVaults == "NoVaults"

NoRewardRecord == [initialized |-> FALSE, reward_cursor |-> 0, total |-> 0,
                   pool_token_supply |-> 0, start_timestamp |-> 0]
NoStakingAccount == [initialized |-> FALSE, total |-> 0, locked_total |-> 0]
NoStakeBalance == [initialized |-> FALSE, vaults |-> NoVaults,
                   timeframe |-> CHOOSE tf \in Timeframes : TRUE,
                   reward_cursor |-> 0, last_stake_timestamp |-> 0]
NoPendingWithdrawal == [initialized |-> FALSE, stake_balance |-> NoVaults,
                        lucra |-> 0, end_timestamp |-> 0]

(* StakingAccount::remove_total / remove_locked_total return nothing, so   *)
(* they cannot fail: a u64 counter lowered by more than it holds stops at 0.*)
SaturatingDecrement(a, b) == IF a >= b THEN a - b ELSE 0

(* value_locked_up - staking_account.locked_total, unchecked u64: with     *)
(* overflow checks the build panics (the instruction fails), otherwise it  *)
(* wraps round the modulus.  The set holds the outcomes the build allows.  *)
UncheckedSub(a, b) ==
  IF a >= b THEN {a - b}
  ELSE IF OverflowWraps THEN {a - b + U64Modulus} ELSE {}

(* calculate_inflation: calculate_annual_interest_rate(rate, amount, 1/52).*)
Inflation(rate, amount) == (rate * amount) \div (100 * 52)
-----------------------------------------------------------------------------
(* process_create_staking_account.                                         *)
CreateStakingAccount(a) ==
  /\ ~stakingAccounts[a].initialized
  /\ stakingAccounts' = [stakingAccounts EXCEPT ![a] =
                           [initialized |-> TRUE, total |-> 0, locked_total |-> 0]]
  /\ UNCHANGED <<stakingCursor, lastDropTimestamp, currentReward, rewards,
                 stakeBalances, pendingWithdrawals, depositVault, stakeVault,
                 pendingVault, wallet, stakedLucra, rewardsVault, claimed,
                 lockedUntil, rewardTokens>>

(* process_create_stake_balance: any triple of the owner's vaults, the     *)
(* caller's timeframe, and the current reward cursor.                      *)
CreateStakeBalance(b) ==
  \E v \in VaultSets, tf \in Timeframes :
    /\ ~stakeBalances[b].initialized
    /\ stakeBalances' = [stakeBalances EXCEPT ![b] =
                           [initialized |-> TRUE, vaults |-> v, timeframe |-> tf,
                            reward_cursor |-> stakingCursor,
                            last_stake_timestamp |-> 0]]
    /\ UNCHANGED <<stakingCursor, lastDropTimestamp, currentReward, rewards,
                   stakingAccounts, pendingWithdrawals, depositVault, stakeVault,
                   pendingVault, wallet, stakedLucra, rewardsVault, claimed,
                   lockedUntil, rewardTokens>>

(* process_deposit_stake: wallet -> the balance's deposit vault.           *)
DepositStake(b) ==
  \E lucra \in LucraAmounts :
    LET v == stakeBalances[b].vaults IN
    /\ lucra # 0
    /\ stakeBalances[b].initialized
    /\ wallet >= lucra
    /\ wallet' = wallet - lucra
    /\ depositVault' = [depositVault EXCEPT ![v] = @ + lucra]
    /\ UNCHANGED <<stakingCursor, lastDropTimestamp, currentReward, rewards,
                   stakingAccounts, stakeBalances, pendingWithdrawals,
                   stakeVault, pendingVault, stakedLucra, rewardsVault, claimed,
                   lockedUntil, rewardTokens>>

(* Seeded fault: the stake vault credited with the receipts minted.      *)
StakeVaultByWeight(a, b) ==
  \E lucra \in LucraAmounts :
    LET bal == stakeBalances[b]
        v   == bal.vaults
    IN
    /\ lucra > 0
    /\ stakingAccounts[a].initialized /\ bal.initialized
    /\ stakingCursor = bal.reward_cursor
    /\ depositVault[v] >= lucra
    /\ depositVault' = [depositVault EXCEPT ![v] = @ - lucra]
    /\ stakeVault' = [stakeVault EXCEPT ![v] = @ + lucra * bal.timeframe.weight]
    /\ stakedLucra' = stakedLucra + lucra * bal.timeframe.weight
    /\ stakeBalances' = [stakeBalances EXCEPT ![b].last_stake_timestamp = now,
                                              ![b].reward_cursor = stakingCursor + 1]
    /\ stakingAccounts' = [stakingAccounts EXCEPT ![a].total = @ + lucra]
    /\ lockedUntil' = [lockedUntil EXCEPT ![v] =
                         LET lock == now + StakingEpoch * bal.timeframe.multiplier
                         IN IF stakeVault[v] = 0 THEN lock ELSE Max({@, lock})]
    /\ UNCHANGED <<stakingCursor, lastDropTimestamp, currentReward, rewards,
                   pendingWithdrawals, pendingVault, wallet, rewardsVault, claimed, rewardTokens>>

(* process_stake: deposit vault -> stake vault, mint lucra * weight        *)
(* receipts, restart the timeframe lock, step the balance's cursor past    *)
(* the current one (StakeBalance::increment_reward_cursor(c) is taken to   *)
(* set it to c + 1) and add the LUCRA to the account's total.              *)
Stake(a, b) ==
  \E lucra \in LucraAmounts :
    LET bal == stakeBalances[b]
        v   == bal.vaults
    IN
    /\ lucra > 0
    /\ stakingAccounts[a].initialized /\ bal.initialized
    /\ stakingCursor = bal.reward_cursor
    /\ depositVault[v] >= lucra
    /\ depositVault' = [depositVault EXCEPT ![v] = @ - lucra]
    /\ stakeVault' = [stakeVault EXCEPT ![v] = @ + lucra]
    /\ stakedLucra' = stakedLucra + lucra * bal.timeframe.weight
    /\ stakeBalances' = [stakeBalances EXCEPT ![b].last_stake_timestamp = now,
                                              ![b].reward_cursor = stakingCursor + 1]
    /\ stakingAccounts' = [stakingAccounts EXCEPT ![a].total = @ + lucra]
    /\ lockedUntil' = [lockedUntil EXCEPT ![v] =
                         LET lock == now + StakingEpoch * bal.timeframe.multiplier
                         IN IF stakeVault[v] = 0 THEN lock ELSE Max({@, lock})]
    /\ UNCHANGED <<stakingCursor, lastDropTimestamp, currentReward, rewards,
                   pendingWithdrawals, pendingVault, wallet, rewardsVault, claimed, rewardTokens>>

(* Seeded fault: the locked total is not subtracted from the stake value. *)
UnlockCoveredIgnoringLocks(stakeValue, locked, unlockValue) ==
  stakeValue >= unlockValue

(* start_unstake line 126: value_locked_up - locked_total (unchecked) must *)
(* cover the value of the LUCRA being unstaked.                            *)
UnlockCovered(stakeValue, locked, unlockValue) ==
  \E left \in UncheckedSub(stakeValue, locked) : left >= unlockValue

(* Seeded fault: the lock ignores the timeframe multiplier.               *)
StakeUnlockedShortLock(bal) == bal.last_stake_timestamp + StakingEpoch <= now

(* start_unstake's lock check: the balance's timeframe lock has run out.  *)
StakeUnlocked(bal) ==
  bal.last_stake_timestamp + StakingEpoch * bal.timeframe.multiplier <= now

(* Seeded fault: the withdrawal's stake_balance field is never written.   *)
PendingRecordMissingKey(b, lucra) ==
  [initialized |-> TRUE, stake_balance |-> NoVaults, lucra |-> lucra,
   end_timestamp |-> now + StakingEpoch]

(* The PendingWithdrawal start_unstake writes: ends one epoch from now.   *)
PendingRecord(b, lucra) ==
  [initialized |-> TRUE, stake_balance |-> b, lucra |-> lucra,
   end_timestamp |-> now + StakingEpoch]

(* process_start_unstake: the value still staked in THIS balance's stake   *)
(* vault, less the account-wide locked_total (unchecked u64), must cover   *)
(* the value unstaked; the timeframe lock must be over.  Burn the          *)
(* receipts, move the LUCRA to the pending vault, open a withdrawal ending *)
(* one epoch later, restart the lock and lower the account's total.        *)
StartUnstake(a, b, p) ==
  \E lucra \in LucraAmounts, lucraPrice \in LucraPrices :
    LET bal == stakeBalances[b]
        v   == bal.vaults
    IN
    /\ lucra > 0
    /\ stakingAccounts[a].initialized /\ bal.initialized
    /\ ~pendingWithdrawals[p].initialized
    /\ stakingCursor = bal.reward_cursor
    /\ UnlockCovered(stakeVault[v] * lucraPrice, stakingAccounts[a].locked_total,
                     lucra * lucraPrice)
    /\ StakeUnlocked(bal)
    /\ lucra * bal.timeframe.weight <= stakedLucra
    /\ stakeVault[v] >= lucra
    /\ stakedLucra' = stakedLucra - lucra * bal.timeframe.weight
    /\ stakeVault' = [stakeVault EXCEPT ![v] = @ - lucra]
    /\ pendingVault' = [pendingVault EXCEPT ![v] = @ + lucra]
    /\ pendingWithdrawals' = [pendingWithdrawals EXCEPT ![p] = PendingRecord(b, lucra)]
    /\ stakeBalances' = [stakeBalances EXCEPT ![b].last_stake_timestamp = now]
    /\ stakingAccounts' = [stakingAccounts EXCEPT ![a].total =
                             SaturatingDecrement(@, lucra)]
    /\ UNCHANGED <<stakingCursor, lastDropTimestamp, currentReward, rewards,
                   depositVault, wallet, rewardsVault, claimed, lockedUntil, rewardTokens>>

(* Seeded fault: the withdrawal record is left open after paying out.     *)
EndUnstakeKeepsRecord(b, p) ==
  LET w == pendingWithdrawals[p]
      v == stakeBalances[b].vaults
  IN
  /\ w.initialized /\ stakeBalances[b].initialized
  /\ w.stake_balance = b
  /\ w.end_timestamp <= now
  /\ pendingVault[v] >= w.lucra
  /\ pendingVault' = [pendingVault EXCEPT ![v] = @ - w.lucra]
  /\ depositVault' = [depositVault EXCEPT ![v] = @ + w.lucra]
  /\ UNCHANGED pendingWithdrawals
  /\ UNCHANGED <<stakingCursor, lastDropTimestamp, currentReward, rewards,
                 stakingAccounts, stakeBalances, stakeVault, wallet, stakedLucra,
                 rewardsVault, claimed, lockedUntil, rewardTokens>>

EndUnstake(b, p) ==
  LET w == pendingWithdrawals[p]
      v == stakeBalances[b].vaults
  IN
  /\ w.initialized /\ stakeBalances[b].initialized
  /\ w.stake_balance = b
  /\ w.end_timestamp <= now
  /\ pendingVault[v] >= w.lucra
  /\ pendingVault' = [pendingVault EXCEPT ![v] = @ - w.lucra]
  /\ depositVault' = [depositVault EXCEPT ![v] = @ + w.lucra]
  /\ pendingWithdrawals' = [pendingWithdrawals EXCEPT ![p] = NoPendingWithdrawal]
  /\ UNCHANGED <<stakingCursor, lastDropTimestamp, currentReward, rewards,
                 stakingAccounts, stakeBalances, stakeVault, wallet, stakedLucra,
                 rewardsVault, claimed, lockedUntil, rewardTokens>>

(* process_withdraw_stake: deposit vault -> wallet; once all three vaults  *)
(* are empty the balance is closed and its account deleted.               *)
WithdrawStake(b) ==
  \E lucra \in LucraAmounts :
    LET v == stakeBalances[b].vaults IN
    /\ lucra > 0
    /\ stakeBalances[b].initialized
    /\ depositVault[v] >= lucra
    /\ depositVault' = [depositVault EXCEPT ![v] = @ - lucra]
    /\ wallet' = wallet + lucra
    /\ stakeBalances' =
         IF depositVault'[v] = 0 /\ stakeVault[v] = 0 /\ pendingVault[v] = 0
         THEN [stakeBalances EXCEPT ![b] = NoStakeBalance]
         ELSE stakeBalances
    /\ UNCHANGED <<stakingCursor, lastDropTimestamp, currentReward, rewards,
                   stakingAccounts, pendingWithdrawals, stakeVault, pendingVault,
                   stakedLucra, rewardsVault, claimed, lockedUntil, rewardTokens>>

(* process_drop_reward: at most once per epoch, split the vault's excess   *)
(* over the booked SOL collateral in two halves (one to the arbitrage      *)
(* coffer, one to the rewards vault) and record the reward: the current   *)
(* cursor, the half, the receipt supply and the time.  The cursor then     *)
(* moves on (StakingState::increment_reward_cursor: + 1), and the caller  *)
(* is paid one reward token (mint_reward).                                 *)
DropReward(r) ==
  \E excess \in DropExcesses :
    /\ lastDropTimestamp # 0 => lastDropTimestamp + StakingEpoch <= now
    /\ currentReward # NoReward => currentReward # r
    /\ ~rewards[r].initialized
    /\ rewards' = [rewards EXCEPT ![r] =
                     [initialized |-> TRUE, reward_cursor |-> stakingCursor,
                      total |-> excess \div 2, pool_token_supply |-> stakedLucra,
                      start_timestamp |-> now]]
    /\ currentReward' = r
    /\ lastDropTimestamp' = now
    /\ stakingCursor' = stakingCursor + 1
    /\ rewardsVault' = rewardsVault + excess \div 2
    /\ rewardTokens' = rewardTokens + 1
    /\ UNCHANGED <<stakingAccounts, stakeBalances, pendingWithdrawals,
                   depositVault, stakeVault, pendingVault, wallet, stakedLucra,
                   claimed, lockedUntil>>

(* Seeded fault: the balance's cursor is not moved past the reward.      *)
ClaimRewardKeepsCursor(b, r) ==
  LET bal    == stakeBalances[b]
      rw     == rewards[r]
      amount == IF rw.pool_token_supply = 0 THEN 0
                ELSE (stakedLucra * rw.total) \div rw.pool_token_supply
  IN
  /\ bal.initialized /\ rw.initialized
  /\ bal.last_stake_timestamp # 0
  /\ bal.last_stake_timestamp <= rw.start_timestamp
  /\ bal.reward_cursor <= rw.reward_cursor
  /\ bal.reward_cursor = rw.reward_cursor
  /\ rw.pool_token_supply # 0
  /\ rewardsVault >= amount
  /\ rewardsVault' = rewardsVault - amount
  /\ claimed' = [claimed EXCEPT ![r] = @ + amount]
  /\ wallet' = wallet + Inflation(bal.timeframe.inflation, stakedLucra)
  /\ UNCHANGED <<stakingCursor, lastDropTimestamp, currentReward, rewards,
                 stakingAccounts, pendingWithdrawals, depositVault, stakeVault,
                 pendingVault, stakedLucra, lockedUntil, stakeBalances, rewardTokens>>

(* process_claim_reward: a balance staked before the drop and whose cursor *)
(* is the reward's is paid receipts * total / supply of the rewards vault, *)
(* with the receipts read from the owner's staked-LUCRA account, plus the  *)
(* timeframe's weekly inflation in fresh LUCRA; its cursor moves past the  *)
(* reward.                                                                 *)
ClaimReward(b, r) ==
  LET bal    == stakeBalances[b]
      rw     == rewards[r]
      amount == IF rw.pool_token_supply = 0 THEN 0
                ELSE (stakedLucra * rw.total) \div rw.pool_token_supply
  IN
  /\ bal.initialized /\ rw.initialized
  /\ bal.last_stake_timestamp # 0
  /\ bal.last_stake_timestamp <= rw.start_timestamp
  /\ bal.reward_cursor <= rw.reward_cursor
  /\ bal.reward_cursor = rw.reward_cursor
  /\ rw.pool_token_supply # 0
  /\ rewardsVault >= amount
  /\ rewardsVault' = rewardsVault - amount
  /\ claimed' = [claimed EXCEPT ![r] = @ + amount]
  /\ wallet' = wallet + Inflation(bal.timeframe.inflation, stakedLucra)
  /\ stakeBalances' = [stakeBalances EXCEPT ![b].reward_cursor = rw.reward_cursor + 1]
  /\ UNCHANGED <<stakingCursor, lastDropTimestamp, currentReward, rewards,
                 stakingAccounts, pendingWithdrawals, depositVault, stakeVault,
                 pendingVault, stakedLucra, lockedUntil, rewardTokens>>

-----------------------------------------------------------------------------
StakingInit ==
  /\ PHInit
  /\ stakingCursor = 0
  /\ lastDropTimestamp = 0
  /\ currentReward = NoReward
  /\ rewards = [r \in RewardAccounts |-> NoRewardRecord]
  /\ stakingAccounts = [a \in StakingAccounts |-> NoStakingAccount]
  /\ stakeBalances = [b \in StakeBalances |-> NoStakeBalance]
  /\ pendingWithdrawals = [p \in PendingWithdrawals |-> NoPendingWithdrawal]
  /\ depositVault = [v \in VaultSets |-> 0]
  /\ stakeVault = [v \in VaultSets |-> 0]
  /\ pendingVault = [v \in VaultSets |-> 0]
  /\ wallet = InitialLucra
  /\ stakedLucra = 0
  /\ rewardsVault = 0
  /\ rewardTokens = 0
  /\ claimed = [r \in RewardAccounts |-> 0]
  /\ lockedUntil = [v \in VaultSets |-> 0]

(* One instruction of the staking processors, or time passing.             *)
StakingStep ==
  \/ \E a \in StakingAccounts : CreateStakingAccount(a)
  \/ \E b \in StakeBalances :
       \/ CreateStakeBalance(b)
       \/ DepositStake(b)
       \/ WithdrawStake(b)
       \/ \E a \in StakingAccounts : Stake(a, b)
       \/ \E a \in StakingAccounts, p \in PendingWithdrawals : StartUnstake(a, b, p)
       \/ \E p \in PendingWithdrawals : EndUnstake(b, p)
       \/ \E r \in RewardAccounts : ClaimReward(b, r)
  \/ \E r \in RewardAccounts : DropReward(r)

StakingNext ==
  \/ StakingStep /\ UNCHANGED phVars
  \/ Tick /\ UNCHANGED stakingVars

StakingSpec == StakingInit /\ [][StakingNext]_<<phVars, stakingVars>>

(* end_unstake is signed by the balance's owner, who is owed the LUCRA it  *)
(* moves: the owner is assumed to keep calling it while it can succeed.    *)
(* Nothing in the code schedules the call; staking_enabled is always on in *)
(* this module (Lucra adds the switch).                                    *)
StakingLiveSpec ==
  /\ StakingSpec
  /\ \A p \in PendingWithdrawals :
       WF_<<phVars, stakingVars>>((\E b \in StakeBalances : EndUnstake(b, p))
                                   /\ UNCHANGED phVars)

-----------------------------------------------------------------------------
StakingTypeOK ==
  /\ stakingCursor \in Nat /\ lastDropTimestamp \in Nat
  /\ currentReward \in RewardAccounts \cup {NoReward}
  /\ rewards \in [RewardAccounts -> [initialized : BOOLEAN, reward_cursor : Nat,
                                      total : Nat, pool_token_supply : Nat,
                                      start_timestamp : Nat]]
  /\ stakingAccounts \in [StakingAccounts -> [initialized : BOOLEAN, total : Nat,
                                              locked_total : Nat]]
  /\ stakeBalances \in [StakeBalances -> [initialized : BOOLEAN,
                                          vaults : VaultSets \cup {NoVaults},
                                          timeframe : Timeframes,
                                          reward_cursor : Nat,
                                          last_stake_timestamp : Nat]]
  /\ pendingWithdrawals \in [PendingWithdrawals ->
                              [initialized : BOOLEAN,
                               stake_balance : StakeBalances \cup {NoVaults},
                               lucra : Nat, end_timestamp : Nat]]
  /\ \A p \in PendingWithdrawals :
       pendingWithdrawals[p].initialized =>
         pendingWithdrawals[p].stake_balance \in StakeBalances
  /\ depositVault \in [VaultSets -> Nat] /\ stakeVault \in [VaultSets -> Nat]
  /\ pendingVault \in [VaultSets -> Nat]
  /\ wallet \in Nat /\ stakedLucra \in Nat /\ rewardsVault \in Nat
  /\ rewardTokens \in Nat
  /\ claimed \in [RewardAccounts -> Nat] /\ lockedUntil \in [VaultSets -> Nat]

(* Each pending vault holds exactly the LUCRA of the open withdrawals of   *)
(* the balances that use it: start_unstake opens a withdrawal for what it  *)
(* moves in, end_unstake pays it out once and deletes the record.          *)
PendingVaultBacksWithdrawals ==
  \A v \in VaultSets :
    pendingVault[v] =
      MapThenSumSet(LAMBDA p : pendingWithdrawals[p].lucra,
                    { p \in PendingWithdrawals :
                        /\ pendingWithdrawals[p].initialized
                        /\ stakeBalances[pendingWithdrawals[p].stake_balance].vaults = v })

(* LUCRA leaves a stake vault only once the timeframe lock of the stake    *)
(* that put it there has run out (start_unstake's                          *)
(* last_stake_timestamp + epoch * multiplier <= now check).               *)
StakeLockRespected ==
  [][\A v \in VaultSets :
       stakeVault'[v] < stakeVault[v] => now >= lockedUntil[v]]_<<phVars, stakingVars>>

(* A reward never pays out more than the mSOL dropped into it: each        *)
(* receipt holder gets receipts / supply of the total, once.              *)
ClaimsWithinReward == \A r \in RewardAccounts : claimed[r] <= rewards[r].total

(* The owner's withdrawals as StakeLedger sees them: the vault set of the  *)
(* balance a PendingWithdrawal names, its LUCRA and its end.               *)
AbstractPending ==
  [p \in PendingWithdrawals |->
     IF pendingWithdrawals[p].initialized
     THEN [vault  |-> stakeBalances[pendingWithdrawals[p].stake_balance].vaults,
           amount |-> pendingWithdrawals[p].lucra,
           end    |-> pendingWithdrawals[p].end_timestamp]
     ELSE [vault |-> "none", amount |-> 0, end |-> 0]]

OwnerStake == INSTANCE StakeLedger
                WITH clock <- now, free <- wallet, deposited <- depositVault,
                     staked <- stakeVault, pending <- AbstractPending,
                     Vaults <- VaultSets, Withdrawals <- PendingWithdrawals,
                     Cooldown <- StakingEpoch

(* The staking processors implement StakeLedger: every instruction moves   *)
(* the owner's LUCRA along one edge wallet -> deposit -> stake ->          *)
(* withdrawal -> deposit -> wallet by the amount it names, opens a         *)
(* withdrawal for exactly what start_unstake takes from the stake vault,   *)
(* pays it once after its end, and creates LUCRA only as a claim's         *)
(* inflation in the wallet.                                                *)
StakeLedgerRefined == OwnerStake!Spec

=============================================================================
