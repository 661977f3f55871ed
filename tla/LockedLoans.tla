----------------------------- MODULE LockedLoans -----------------------------
(***************************************************************************)
(* Locked-stake (LucraBacked) loans: the composition of the loan ledger    *)
(* (Lending) with LUCRA staking (Staking).  A LucraBacked loan is backed   *)
(* by lamports in the mSOL vault plus a dollar value of staked LUCRA that  *)
(* is booked in a StakingAccount's locked_total; start_unstake refuses to  *)
(* unstake what that lock covers.                                          *)
(*                                                                         *)
(* Source: create_mata_loan_with_locked_stake (process_create_mata_loan.rs),*)
(*   add_collateral_with_locked_stake (process_add_collateral.rs),         *)
(*   close_out_mata_loan_with_locked_stake                                 *)
(*   (process_close_out_mata_loan.rs), over the _create_loan,              *)
(*   add_additional_collateral and close_loan steps of Lending and the     *)
(*   staking processors of Staking.  StakingAccount::add_locked_total /    *)
(*   remove_locked_total (state.rs) are modelled as u64 add and saturating *)
(*   subtract.                                                             *)
(*                                                                         *)
(* Penalty accrual and harvest are left to Lending's runs: they need the   *)
(* price ledger and never read or write the lock.                          *)
(***************************************************************************)
EXTENDS Lending, Staking

CONSTANT Lcp   \* system_state.lcp: stake value required, percent of the SOL value

(* Lending's loan timelock (close_out_mata_loan) and Staking's drop        *)
(* interval and unstake cooldown (drop_reward, start_unstake) all read the *)
(* one field system_state.epoch.                                           *)
ASSUME Epoch = StakingEpoch

allVars == <<phVars, lendVars, stakingVars>>

(* get_required_stake_value, floored as the code stores it.                *)
RequiredStakeValue(lamports, solPrice) == (lamports * Lcp * solPrice) \div 100

(* value_left_to_lock = total * lucra price - locked_total (checked_sub):  *)
(* the empty set when the subtraction fails.                               *)
ValueLeftToLock(acct, lucraPrice) ==
  IF acct.total * lucraPrice >= acct.locked_total
  THEN {acct.total * lucraPrice - acct.locked_total} ELSE {}

-----------------------------------------------------------------------------
(* create_mata_loan_with_locked_stake: refresh the peg, require unlocked   *)
(* stake value for the lcp share, then create_loan (or, with the peg       *)
(* broken, refund and close the loan account), and in either case add the  *)
(* required value to the staking account's locked_total.                   *)
CreateMataLoanWithLockedStake(l, a) ==
  \E lamports \in Deposits, solPrice \in SolPrices, mataCents \in MataPrices,
     lucraPrice \in LucraPrices :
    LET required == RequiredStakeValue(lamports, solPrice)
        cents    == 100 * solPrice * lamports + lamports * Lcp * solPrice
    IN
    /\ stakingAccounts[a].initialized
    /\ pegBroken' = IF PegCheckEnabled THEN PegBrokenAt(mataCents) ELSE pegBroken
    /\ \E left \in ValueLeftToLock(stakingAccounts[a], lucraPrice) : required <= left
    /\ \/ /\ ~(PegCheckEnabled /\ pegBroken')
          /\ CreateLoan(l, lamports, LoanAmount(cents), required, LucraBacked)
       \/ /\ PegCheckEnabled /\ pegBroken'
          /\ RefundLoanAccount(l)
          /\ UNCHANGED <<totalOutstandingMata, totalSolCollateral, msolVault, mataSupply>>
    /\ stakingAccounts' = [stakingAccounts EXCEPT ![a].locked_total = @ + required]
    /\ UNCHANGED <<phVars, charges, stakingCursor, lastDropTimestamp,
                   currentReward, rewards, stakeBalances, pendingWithdrawals,
                   depositVault, stakeVault, pendingVault, wallet, stakedLucra,
                   rewardsVault, claimed, lockedUntil, rewardTokens>>

(* add_collateral_with_locked_stake: the stake value required is the full  *)
(* dollar value of the lamports; it is added to the loan and to the lock.  *)
AddCollateralWithLockedStake(l, a) ==
  \E lamports \in Deposits, solPrice \in SolPrices, lucraPrice \in LucraPrices :
    LET required == lamports * solPrice IN
    /\ stakingAccounts[a].initialized
    /\ \E left \in ValueLeftToLock(stakingAccounts[a], lucraPrice) : required <= left
    /\ loans[l].loan_type = LucraBacked
    /\ AddAdditionalCollateral(l, lamports, required)
    /\ stakingAccounts' = [stakingAccounts EXCEPT ![a].locked_total = @ + required]
    /\ UNCHANGED <<phVars, pegBroken, totalOutstandingMata, mataSupply, charges,
                   stakingCursor, lastDropTimestamp, currentReward, rewards,
                   stakeBalances, pendingWithdrawals, depositVault, stakeVault,
                   pendingVault, wallet, stakedLucra, rewardsVault, claimed,
                   lockedUntil, rewardTokens>>

(* close_out_mata_loan_with_locked_stake: release the loan's stake value   *)
(* from the passed staking account (any of the owner's), then close_loan.  *)
CloseOutMataLoanWithLockedStake(l, a) ==
  /\ loans[l].loan_type = LucraBacked
  /\ stakingAccounts[a].initialized
  /\ stakingAccounts' = [stakingAccounts EXCEPT ![a].locked_total =
                           SaturatingDecrement(@, loans[l].staking_collateral_amount)]
  /\ CloseLoan(l)
  /\ UNCHANGED <<phVars, pegBroken, totalOutstandingMata, charges,
                 stakingCursor, lastDropTimestamp, currentReward, rewards,
                 stakeBalances, pendingWithdrawals, depositVault, stakeVault,
                 pendingVault, wallet, stakedLucra, rewardsVault, claimed,
                 lockedUntil, rewardTokens>>

-----------------------------------------------------------------------------
LockedInit == Init /\ StakingInit

(* Any staking instruction.  A stake moves the balance's reward cursor    *)
(* past the global one, so it cannot unstake again before the next drop:  *)
(* drops are part of the interplay with locks.                             *)
StakeStep == StakingStep /\ UNCHANGED <<phVars, lendVars>>

LockedNext ==
  \/ StakeStep
  \/ \E l \in Loans, a \in StakingAccounts :
       \/ CreateMataLoanWithLockedStake(l, a)
       \/ AddCollateralWithLockedStake(l, a)
       \/ CloseOutMataLoanWithLockedStake(l, a)
  \/ Tick /\ UNCHANGED <<lendVars, stakingVars>>

LockedSpec == LockedInit /\ [][LockedNext]_allVars

-----------------------------------------------------------------------------
LockedTypeOK == LendingTypeOK /\ StakingTypeOK

(* The stake value locked for loans never exceeds what the stake vaults    *)
(* hold at the highest LUCRA price: every lock is checked against the      *)
(* account's total, every unstake against the balance's stake vault less   *)
(* the lock (start_unstake line 126), so no sequence of stakes, locks and  *)
(* unstakes takes locked LUCRA out.                                        *)
LocksBackedByStake ==
  MapThenSumSet(LAMBDA a : stakingAccounts[a].locked_total, StakingAccounts)
    <= Max(LucraPrices) * MapThenSumSet(LAMBDA v : stakeVault[v], VaultSets)

(* spec.md 4.3: the locked value is what the open LucraBacked loans hold   *)
(* as staking collateral; a loan that is refunded or closed locks nothing. *)
LockedTotalMatchesLoans ==
  MapThenSumSet(LAMBDA a : stakingAccounts[a].locked_total, StakingAccounts)
    = MapThenSumSet(LAMBDA l : IF loans[l].status = Active /\ loans[l].loan_type = LucraBacked
                               THEN loans[l].staking_collateral_amount ELSE 0,
                    Loans)

=============================================================================
