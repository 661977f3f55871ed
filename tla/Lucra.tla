------------------------------- MODULE Lucra -------------------------------
(***************************************************************************)
(* The whole program as processor/mod.rs dispatches it: every instruction  *)
(* of the loan, penalty, ledger, staking and reward components, plus the   *)
(* DAO's governance instructions, over one state.                          *)
(*                                                                         *)
(* Source: processor/mod.rs (process), process_update_state.rs,            *)
(*   process_transfer_funds.rs, process_redeem_reward_tokens.rs, and the   *)
(*   vault side of process_drop_reward.rs.                                 *)
(*                                                                         *)
(* What the composition adds to its parts:                                 *)
(*  - the loans_enabled and staking_enabled switches every loan and        *)
(*    staking processor checks first (update_state writes them);           *)
(*  - a drop's excess is the mSOL vault less total_sol_collateral, and     *)
(*    both halves leave the vault (one to the coffer, one to rewards);     *)
(*  - transfer_funds: the DAO moves lamports out of the mSOL vault;        *)
(*  - the reward token a drop pays its caller, redeemed for LUCRA.         *)
(* The arbitrage instructions are dispatched to processors whose source is *)
(* not in the repository and are left out.                                 *)
(***************************************************************************)
EXTENDS LockedLoans

CONSTANTS
  LucraSolPrices,      \* LUCRA/SOL oracle price a redeem reads (lamports per LUCRA)
  RewardTokenAmounts,  \* reward_tokens a redeem may burn
  TransferAmounts,     \* lamports a transfer_funds call may move
  MaxTransferred,      \* model bound: lamports all transfers together may move
  MaxRewardTokens      \* model bound: reward tokens the cranks may hold

ASSUME \A p \in LucraSolPrices : p \in Nat \ {0}

VARIABLES
  loansEnabled,        \* system_state.loans_enabled
  stakingEnabled,      \* system_state.staking_enabled
  transferred          \* history: lamports transfer_funds has taken from the vault

lucraVars == <<loansEnabled, stakingEnabled, transferred>>
programVars == <<allVars, lucraVars>>

-----------------------------------------------------------------------------
(* process_update_state: the DAO authority rewrites the configuration.    *)
(* The switches are inputs; the numeric parameters, arbitrage_enabled and *)
(* peg_check_enabled are this model's CONSTANTS, so the inputs rewrite     *)
(* them with the values they hold.                                         *)
UpdateState ==
  \E le, se \in BOOLEAN :
    /\ loansEnabled' = le
    /\ stakingEnabled' = se
    /\ UNCHANGED <<allVars, transferred>>

(* process_transfer_funds: the DAO authority moves any amount out of the   *)
(* mSOL vault (transfer_from_msol_vault; the token transfer fails on an    *)
(* amount above the balance).  Nothing is booked in SystemState.           *)
TransferFunds ==
  \E lamports \in TransferAmounts :
    /\ lamports <= msolVault
    /\ transferred + lamports <= MaxTransferred
    /\ msolVault' = msolVault - lamports
    /\ transferred' = transferred + lamports
    /\ UNCHANGED <<phVars, loans, pegBroken, totalOutstandingMata,
                   totalSolCollateral, mataSupply, charges, stakingVars,
                   loansEnabled, stakingEnabled>>

(* Seeded fault: the caller's reward-token balance is not checked.        *)
RedeemRewardTokensUnchecked ==
  \E tokens \in RewardTokenAmounts, lucraPrice \in LucraSolPrices :
    /\ tokens # 0
    /\ wallet' = wallet + (RewardFee * tokens) \div lucraPrice
    /\ rewardTokens' = rewardTokens - tokens
    /\ UNCHANGED <<phVars, lendVars, stakingCursor, lastDropTimestamp,
                   currentReward, rewards, stakingAccounts, stakeBalances,
                   pendingWithdrawals, depositVault, stakeVault, pendingVault,
                   stakedLucra, rewardsVault, claimed, lockedUntil, lucraVars>>

(* process_redeem_reward_tokens: burn reward tokens the caller holds and   *)
(* mint reward_fee lamports' worth of LUCRA per token at the LUCRA/SOL     *)
(* oracle price, floored.                                                  *)
RedeemRewardTokens ==
  \E tokens \in RewardTokenAmounts, lucraPrice \in LucraSolPrices :
    /\ tokens # 0
    /\ rewardTokens >= tokens
    /\ wallet' = wallet + (RewardFee * tokens) \div lucraPrice
    /\ rewardTokens' = rewardTokens - tokens
    /\ UNCHANGED <<phVars, lendVars, stakingCursor, lastDropTimestamp,
                   currentReward, rewards, stakingAccounts, stakeBalances,
                   pendingWithdrawals, depositVault, stakeVault, pendingVault,
                   stakedLucra, rewardsVault, claimed, lockedUntil, lucraVars>>

(* Seeded fault: the yield is taken as half the whole vault, the booked   *)
(* collateral not subtracted.                                              *)
DropRewardWholeVault(r) ==
  LET half == msolVault \div 2 IN
  /\ msolVault >= totalSolCollateral
  /\ DropReward(r)
  /\ rewards'[r].total = half
  /\ msolVault' = msolVault - 2 * half
  /\ UNCHANGED <<phVars, loans, pegBroken, totalOutstandingMata,
                 totalSolCollateral, mataSupply, charges, lucraVars>>

(* process_drop_reward, vault side: total = msol_vault - the booked SOL    *)
(* collateral (checked_sub), half to the arbitrage coffer and half to the *)
(* rewards vault, both out of the mSOL vault.                              *)
DropRewardFromVault(r) ==
  LET half == (msolVault - totalSolCollateral) \div 2 IN
  /\ msolVault >= totalSolCollateral
  /\ DropReward(r)
  /\ rewards'[r].total = half
  /\ msolVault' = msolVault - 2 * half
  /\ UNCHANGED <<phVars, loans, pegBroken, totalOutstandingMata,
                 totalSolCollateral, mataSupply, charges, lucraVars>>

-----------------------------------------------------------------------------
(* process_create_mata_loan: 22 accounts select the Default variant       *)
(* (create_mata_loan, which may refund), any other count the locked-stake  *)
(* one.  Both check loans_enabled first; the locked-stake one also checks  *)
(* staking_enabled.                                                        *)
CreateMataLoanInstruction(l) ==
  /\ loansEnabled
  /\ \/ (CreateMataLoan(l) \/ RefundMataLoan(l)) /\ UNCHANGED stakingVars
     \/ stakingEnabled /\ \E a \in StakingAccounts : CreateMataLoanWithLockedStake(l, a)
  /\ UNCHANGED lucraVars

(* process_add_collateral: 16 accounts select add_collateral, any other    *)
(* count add_collateral_with_locked_stake; the same switch checks.         *)
AddCollateralInstruction(l) ==
  /\ loansEnabled
  /\ \/ AddCollateral(l) /\ UNCHANGED stakingVars
     \/ stakingEnabled /\ \E a \in StakingAccounts : AddCollateralWithLockedStake(l, a)
  /\ UNCHANGED lucraVars

(* process_close_out_mata_loan: 16 accounts select the Default close, any  *)
(* other count the locked-stake close; the same switch checks.             *)
CloseOutMataLoanInstruction(l) ==
  /\ loansEnabled
  /\ \/ CloseMataLoan(l) /\ UNCHANGED stakingVars
     \/ stakingEnabled /\ \E a \in StakingAccounts : CloseOutMataLoanWithLockedStake(l, a)
  /\ UNCHANGED lucraVars

(* The loan arms of process.                                               *)
LoanInstruction ==
  \E l \in Loans :
    \/ CreateMataLoanInstruction(l)
    \/ AddCollateralInstruction(l)
    \/ CloseOutMataLoanInstruction(l)

(* The staking arms of process; every staking processor checks            *)
(* staking_enabled first.                                                  *)
StakingInstruction ==
  /\ stakingEnabled
  /\ \/ /\ \/ \E a \in StakingAccounts : CreateStakingAccount(a)
           \/ \E b \in StakeBalances :
                \/ CreateStakeBalance(b)
                \/ DepositStake(b)
                \/ WithdrawStake(b)
                \/ \E a \in StakingAccounts : Stake(a, b)
                \/ \E a \in StakingAccounts, p \in PendingWithdrawals :
                     StartUnstake(a, b, p)
                \/ \E p \in PendingWithdrawals : EndUnstake(b, p)
                \/ \E r \in RewardAccounts : ClaimReward(b, r)
        /\ UNCHANGED <<phVars, lendVars, lucraVars>>
     \/ \E r \in RewardAccounts : DropRewardFromVault(r)

(* system_state.mint_reward(.., 1, ..): the crank's caller is paid one    *)
(* reward token (process_update_price_history.rs:195,                      *)
(* process_determine_penalty.rs:95); the mint fails past the model bound.  *)
MintReward ==
  /\ rewardTokens < MaxRewardTokens
  /\ rewardTokens' = rewardTokens + 1
  /\ UNCHANGED <<stakingCursor, lastDropTimestamp, currentReward, rewards,
                 stakingAccounts, stakeBalances, pendingWithdrawals,
                 depositVault, stakeVault, pendingVault, wallet, stakedLucra,
                 rewardsVault, claimed, lockedUntil, lucraVars>>

(* DeterminePenalty, which pays its caller, and HarvestPenalty: no switch  *)
(* is checked.                                                             *)
PenaltyInstruction ==
  \E l \in Loans :
    \/ DeterminePenalty(l) /\ MintReward
    \/ /\ HarvestPenaltyOrca(l) \/ HarvestPenaltyRaydium(l)
       /\ UNCHANGED <<stakingVars, lucraVars>>

(* CreatePriceHistory, UpdatePriceHistory (which pays its caller), and     *)
(* time passing.                                                           *)
LedgerInstruction ==
  /\ UNCHANGED lendVars
  /\ \/ (CreatePriceHistory \/ Tick) /\ UNCHANGED <<stakingVars, lucraVars>>
     \/ UpdatePriceHistory /\ MintReward

LucraInit ==
  /\ LockedInit
  /\ loansEnabled \in BOOLEAN
  /\ stakingEnabled \in BOOLEAN
  /\ transferred = 0

(* process: one instruction of any caller.                                 *)
LucraNext ==
  \/ LoanInstruction
  \/ StakingInstruction
  \/ PenaltyInstruction
  \/ LedgerInstruction
  \/ UpdateState
  \/ TransferFunds
  \/ RedeemRewardTokens

LucraSpec == LucraInit /\ [][LucraNext]_programVars

-----------------------------------------------------------------------------
LucraTypeOK ==
  /\ LockedTypeOK
  /\ loansEnabled \in BOOLEAN /\ stakingEnabled \in BOOLEAN
  /\ transferred \in Nat

(* The mSOL vault falls below system_state.total_sol_collateral only by    *)
(* what the DAO has moved out with transfer_funds: no interleaving of      *)
(* deposits, locked-stake loans, harvests, closes and reward drops (which  *)
(* take the vault's excess over the booked total) by any callers spends   *)
(* the borrowers' booked collateral.                                       *)
VaultBackedUnlessTransferred == msolVault + transferred >= totalSolCollateral

=============================================================================
