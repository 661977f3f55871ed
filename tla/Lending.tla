------------------------------- MODULE Lending -------------------------------
(***************************************************************************)
(* Loan lifecycle, penalty accrual and penalty harvest over the Price      *)
(* History Ledger.  One variable per persisted record: the MataLoan        *)
(* accounts, the slice of SystemState the loan processors touch, and the   *)
(* two token balances they move (the pooled mSOL vault and the MATA supply).*)
(*                                                                         *)
(* Source: processor/process_create_mata_loan.rs, process_add_collateral.rs,*)
(*   process_close_out_mata_loan.rs, process_determine_penalty.rs,         *)
(*   process_harvest_penalty.rs.  MataLoan / SystemState methods (state.rs,*)
(*   not in src/) are modelled from spec.md and marked so in the map.      *)
(*                                                                         *)
(* Units: LAMPORTS_PER_SOL, LAMPORTS_PER_MATA and the 10^6 price scale are *)
(* folded to 1, and mSOL is exchanged 1:1 with lamports (the Marinade rate *)
(* is read, never set, by this program).  A Solana transaction is atomic:  *)
(* every failed check is a missing step, so each action is one successful  *)
(* instruction.                                                            *)
(***************************************************************************)
EXTENDS PriceHistory, FiniteSetsExt

CONSTANTS
  Loans,                  \* loan account addresses
  Deposits,               \* lamports a borrower may deposit or top up
  MataPrices,             \* MATA/USD market price in cents, from the oracles
  MataSwapOuts,           \* MATA a harvest swap may return
  Pools,                  \* [sol, mata] reserves of the SOL/MATA pool a harvest swaps in
  Volumes,                \* trailing volumes the SOL/MATA oracle reports per venue
  CollateralRequirement,  \* system_state.collateral_requirement, percent
  MinDeposit,             \* system_state.min_deposit
  Epoch,                  \* system_state.epoch (loan time-lock)
  MinimumHarvestAmount,   \* system_state.minimum_harvest_amount
  RewardFee,              \* system_state.reward_fee, lamports kept by harvester
  MaximumOutstandingMata, \* system_state.maximum_outstanding_mata
  PegCheckEnabled,        \* system_state.peg_check_enabled
  PegTolerance,           \* cents of deviation from $1 tolerated by update_peg
  LowRate, HighRate,      \* annual penalty rates (percent) of the risk bands
  RateDivisor,            \* 100 * 356: percent and the 1/356 day fraction
  MaxVault,               \* model bound: vault balance deposits may reach
  MaxPendingPenalty       \* model bound: penalty_to_harvest a loan may reach

ASSUME CollateralRequirement \in Nat \ {0} /\ RateDivisor \in Nat \ {0}
ASSUME PegCheckEnabled \in BOOLEAN
ASSUME \A p \in Pools : p.sol \in Nat /\ p.mata \in Nat

VARIABLES
  loans,                  \* MataLoan account of each address
  pegBroken,              \* system_state.peg_broken
  totalOutstandingMata,   \* system_state.total_outstanding_mata
  totalSolCollateral,     \* system_state.total_sol_collateral
  msolVault,              \* balance of system_state.msol_vault
  mataSupply,             \* supply of the MATA mint
  charges                 \* history: times each day was charged to each loan (0, 1, 2+)

lendVars == <<loans, pegBroken, totalOutstandingMata, totalSolCollateral,
              msolVault, mataSupply, charges>>
vars == <<phVars, lendVars>>

Uninitialized == "Uninitialized"
Active == "Active"
Repaid == "Repaid"
Default == "Default"
LucraBacked == "LucraBacked"

NoLoan == [status |-> Uninitialized, sol_collateral_amount |-> 0,
           staking_collateral_amount |-> 0, loan_amount |-> 0,
           collateral_rate |-> 0, penalty_harvested |-> 0,
           penalty_to_harvest |-> 0, last_day_penalty_was_checked |-> 0,
           loan_creation_date |-> 0, loan_type |-> Default]

(* u64 counter decremented by a SystemState method with no error path.    *)
SaturatingSub(a, b) == IF a >= b THEN a - b ELSE 0

-----------------------------------------------------------------------------
(* SystemState::update_peg: the peg is broken when MATA is off $1 by more  *)
(* than the configured tolerance.                                          *)
PegBrokenAt(mataCents) ==
  mataCents < 100 - PegTolerance \/ mataCents > 100 + PegTolerance

(* get_loan_amount: floor(dollar value / (collateral_requirement / 100)). *)
(* The value comes in hundredths of a dollar, so that the lcp-scaled stake *)
(* value of a locked-stake loan is still exact (the code keeps a Decimal). *)
LoanAmount(centValue) == centValue \div CollateralRequirement

(* calculate_penalty_multiplier: 1 at or above the peg, otherwise twice    *)
(* the number of 5-cent bands below $1.                                    *)
PenaltyMultiplier(mataCents) ==
  IF mataCents >= 100 THEN 1 ELSE (20 - mataCents \div 5) * 2

(* calculate_collateral_value for one snapshot.                            *)
CollateralValue(loan, h) ==
  loan.sol_collateral_amount * h.sol_price
    + loan.staking_collateral_amount * h.lucra_price

(* MataLoan::calc_penalty_rate_percentage: no penalty while the collateral *)
(* still covers collateral_rate, a low band down to half of it, then high. *)
PenaltyRatePercentage(loan, value) ==
  CASE value * 100 >= loan.loan_amount * loan.collateral_rate -> 0
    [] value * 200 >= loan.loan_amount * loan.collateral_rate -> LowRate
    [] OTHER -> HighRate

(* calculate_annual_interest_rate(rate, amount, 1/356), floored.           *)
DailyPenalty(loan, h) ==
  (PenaltyRatePercentage(loan, CollateralValue(loan, h)) * loan.sol_collateral_amount)
    \div RateDivisor

(* The loop filter of _accumulate_penalty_rate_charge.                     *)
ChargeableSlots(loan) ==
  { i \in Slots :
      /\ prices[i].sol_price # 0 /\ prices[i].lucra_price # 0
      /\ prices[i].date >= loan.loan_creation_date
      /\ prices[i].date # DayStart(now)
      /\ prices[i].date > DayStart(loan.last_day_penalty_was_checked) }

(* _accumulate_penalty_rate_charge: the sum over chargeable days, capped   *)
(* at the SOL collateral and at what penalty_harvested leaves of it.       *)
AccumulatePenaltyRateCharge(loan, multiplier) ==
  LET raw    == MapThenSumSet(LAMBDA i : DailyPenalty(loan, prices[i]) * multiplier,
                              ChargeableSlots(loan))
      sol    == loan.sol_collateral_amount
      capped == IF raw > sol THEN sol ELSE raw
  IN IF capped + loan.penalty_harvested > sol
     THEN sol - loan.penalty_harvested ELSE capped

-----------------------------------------------------------------------------
(* _create_loan: deposit, mint the MATA, initialise the record.  The       *)
(* Marinade deposit and vault transfer add the lamports to the vault.      *)
CreateLoan(l, lamports, amount, stakeValue, loanType) ==
  /\ loans[l].status = Uninitialized
  /\ totalOutstandingMata + amount <= MaximumOutstandingMata
  /\ lamports > MinDeposit
  /\ msolVault + lamports <= MaxVault
  /\ totalOutstandingMata' = totalOutstandingMata + amount
  /\ msolVault' = msolVault + lamports
  /\ mataSupply' = mataSupply + amount
  /\ loans' = [loans EXCEPT ![l] =
                 [status |-> Active, sol_collateral_amount |-> lamports,
                  staking_collateral_amount |-> stakeValue, loan_amount |-> amount,
                  collateral_rate |-> CollateralRequirement,
                  penalty_harvested |-> 0, penalty_to_harvest |-> 0,
                  last_day_penalty_was_checked |-> now,
                  loan_creation_date |-> now, loan_type |-> loanType]]
  /\ totalSolCollateral' = totalSolCollateral + lamports

(* process_create_mata_loan (Default loan type): refresh the peg from the  *)
(* MATA oracle, then create the loan, or, with the peg broken, close the   *)
(* fresh loan account and refund it (the refreshed peg_broken persists).   *)
CreateMataLoan(l) ==
  \E lamports \in Deposits, solPrice \in SolPrices, mataCents \in MataPrices :
    /\ pegBroken' = IF PegCheckEnabled THEN PegBrokenAt(mataCents) ELSE pegBroken
    /\ ~(PegCheckEnabled /\ pegBroken')
    /\ CreateLoan(l, lamports, LoanAmount(100 * solPrice * lamports), 0, Default)
    /\ UNCHANGED <<phVars, charges>>

(* create_loan's refund branch drains the passed loan account's lamports  *)
(* (close_account) whatever it holds; the runtime then deletes it, so the  *)
(* address reads as a fresh, uninitialised account afterwards.            *)
RefundLoanAccount(l) == loans' = [loans EXCEPT ![l] = NoLoan]

RefundMataLoan(l) ==
  \E mataCents \in MataPrices :
    /\ PegCheckEnabled
    /\ PegBrokenAt(mataCents)
    /\ pegBroken' = TRUE
    /\ RefundLoanAccount(l)
    /\ UNCHANGED <<phVars, totalOutstandingMata, totalSolCollateral,
                   msolVault, mataSupply, charges>>

(* add_additional_collateral: on an open loan, deposit the lamports into   *)
(* the vault and add them (and any stake value) to the loan's collateral.  *)
AddAdditionalCollateral(l, lamports, stakeValue) ==
  /\ loans[l].status = Active
  /\ msolVault + lamports <= MaxVault
  /\ msolVault' = msolVault + lamports
  /\ loans' = [loans EXCEPT ![l].sol_collateral_amount = @ + lamports,
                            ![l].staking_collateral_amount = @ + stakeValue]
  /\ totalSolCollateral' = totalSolCollateral + lamports

(* process_add_collateral (Default loan type): top up with lamports only. *)
AddCollateral(l) ==
  \E lamports \in Deposits :
    /\ loans[l].loan_type = Default
    /\ AddAdditionalCollateral(l, lamports, 0)
    /\ UNCHANGED <<phVars, pegBroken, totalOutstandingMata, mataSupply, charges>>

(* Seeded fault: penalty_to_harvest overwritten by the new charge.        *)
DeterminePenaltyOverwrite(l) ==
  \E mataCents \in MataPrices :
    LET loan   == loans[l]
        charge == AccumulatePenaltyRateCharge(loan, PenaltyMultiplier(mataCents))
        days   == { prices[i].date : i \in ChargeableSlots(loan) }
    IN
    /\ phInitialized
    /\ loan.status = Active
    /\ loan.penalty_harvested < loan.sol_collateral_amount
    /\ charge <= MaxPendingPenalty
    /\ loans' = [loans EXCEPT ![l].penalty_to_harvest = charge,
                              ![l].last_day_penalty_was_checked = now]
    /\ charges' = [charges EXCEPT ![l] =
                     [d \in Times |-> IF d \in days THEN Min({@[d] + 1, 2}) ELSE @[d]]]
    /\ UNCHANGED <<phVars, pegBroken, totalOutstandingMata, totalSolCollateral,
                   msolVault, mataSupply>>

(* process_determine_penalty: walk the ledger, add the capped charge to    *)
(* penalty_to_harvest and move the checkpoint to now.                      *)
DeterminePenalty(l) ==
  \E mataCents \in MataPrices :
    LET loan   == loans[l]
        charge == AccumulatePenaltyRateCharge(loan, PenaltyMultiplier(mataCents))
        days   == { prices[i].date : i \in ChargeableSlots(loan) }
    IN
    /\ phInitialized
    /\ loan.status = Active
    /\ loan.penalty_harvested < loan.sol_collateral_amount
    /\ loan.penalty_to_harvest + charge <= MaxPendingPenalty
    /\ loans' = [loans EXCEPT ![l].penalty_to_harvest = @ + charge,
                              ![l].last_day_penalty_was_checked = now]
    /\ charges' = [charges EXCEPT ![l] =
                     [d \in Times |-> IF d \in days THEN Min({@[d] + 1, 2}) ELSE @[d]]]
    /\ UNCHANGED <<phVars, pegBroken, totalOutstandingMata, totalSolCollateral,
                   msolVault, mataSupply>>

(* liquid_unstake_for_harvest: the penalty's mSOL leaves the vault (1:1)  *)
(* and is unstaked to the caller, who keeps reward_fee (checked_sub, line  *)
(* 379).  The SOL left to swap; the empty set when the subtraction fails.  *)
LiquidUnstakeForHarvest(penalty) ==
  IF penalty >= RewardFee THEN {penalty - RewardFee} ELSE {}

(* verify_orca_has_more_volume / verify_raydium_has_more_volume: the       *)
(* chosen venue's oracle volume is at least the other's.                   *)
VerifyOrcaHasMoreVolume(orcaVol, raydiumVol) == orcaVol >= raydiumVol
VerifyRaydiumHasMoreVolume(orcaVol, raydiumVol) == raydiumVol >= orcaVol

(* get_no_fee_amount(num / den, feeNum / feeDen): the amount less its fee, *)
(* at least 1, floored; the empty set where the difference is negative and *)
(* to_u64 fails.  Decimal division is taken as exact.                      *)
GetNoFeeAmount(num, den, feeNum, feeDen) ==
  CASE num = 0                      -> {0}
    [] feeNum * num >= feeDen * den -> {(num * (feeDen - feeNum)) \div (den * feeDen)}
    [] num >= den                   -> {(num - den) \div den}
    [] OTHER                        -> {}

(* spltokenswap::get_pool_swap_amounts, SOL in (a to b): the input less    *)
(* Orca's 3/1000 fee, the constant-product estimate of the MATA out, and   *)
(* that estimate less 3% as min_amount_out.  Errors: nothing to swap, an   *)
(* empty pool, or a fee subtraction below zero.                            *)
(* The MATA-in branch is not taken: harvest passes no MATA in.            *)
OrcaMinAmountOut(solIn, pool) ==
  IF solIn = 0 \/ pool.sol = 0 \/ pool.mata = 0 THEN {}
  ELSE UNION {GetNoFeeAmount(pool.mata * n, pool.sol + n, 3, 100) :
                n \in GetNoFeeAmount(solIn, 1, 3, 1000)}

(* raydium::get_pool_swap_amounts, coin (SOL) in: the input times          *)
(* 1 - RAYDIUM_FEE truncated (the f64 0.9975 is just above the exact value, *)
(* so this is the integer floor), the estimate truncated by to_u64, and    *)
(* min_amount_out one below it; the pc-in branch is not taken by harvest. *)
RaydiumMinAmountOut(solIn, pool) ==
  LET n   == (solIn * 9975) \div 10000
      est == (pool.mata * n) \div (pool.sol + n)
  IN IF solIn = 0 \/ pool.sol = 0 \/ pool.mata = 0 THEN {}
     ELSE {IF est > 1 THEN est - 1 ELSE 0}

Orca == "Orca"
Raydium == "Raydium"

(* The swap the harvest calls: the AMM returns at least min_amount_out or  *)
(* fails the transaction.                                                  *)
SwapReturns(venue, solIn, pool, burned) ==
  \E minOut \in IF venue = Orca THEN OrcaMinAmountOut(solIn, pool)
                                ELSE RaydiumMinAmountOut(solIn, pool) :
    burned >= minOut

(* Seeded fault: the harvested mSOL leaves the vault but is not removed   *)
(* from total_sol_collateral.                                              *)
HarvestPenaltyUnbooked(l, venue) ==
  \E burned \in MataSwapOuts, pool \in Pools :
    LET penalty == loans[l].penalty_to_harvest IN
    /\ loans[l].status = Active
    /\ penalty >= MinimumHarvestAmount
    /\ msolVault >= penalty
    /\ \E solIn \in LiquidUnstakeForHarvest(penalty) : SwapReturns(venue, solIn, pool, burned)
    /\ burned <= mataSupply
    /\ msolVault' = msolVault - penalty
    /\ mataSupply' = mataSupply - burned
    /\ totalOutstandingMata' = SaturatingSub(totalOutstandingMata, burned)
    /\ loans' = [loans EXCEPT ![l].penalty_harvested = @ + penalty,
                              ![l].penalty_to_harvest = 0]
    /\ UNCHANGED <<phVars, pegBroken, charges, totalSolCollateral>>

(* The body both venues share once their volume check has passed: the     *)
(* loan must be open with at least minimum_harvest_amount pending; unstake *)
(* it, swap what is left after the fee for MATA (an input), burn it, and   *)
(* book the harvest in the SystemState counters and the loan.              *)
HarvestPenalty(l, venue) ==
  \E burned \in MataSwapOuts, pool \in Pools :
    LET penalty == loans[l].penalty_to_harvest IN
    /\ loans[l].status = Active
    /\ penalty >= MinimumHarvestAmount
    /\ msolVault >= penalty
    /\ \E solIn \in LiquidUnstakeForHarvest(penalty) : SwapReturns(venue, solIn, pool, burned)
    /\ burned <= mataSupply
    /\ msolVault' = msolVault - penalty
    /\ mataSupply' = mataSupply - burned
    /\ totalOutstandingMata' = SaturatingSub(totalOutstandingMata, burned)
    /\ totalSolCollateral' = SaturatingSub(totalSolCollateral, penalty)
    /\ loans' = [loans EXCEPT ![l].penalty_harvested = @ + penalty,
                              ![l].penalty_to_harvest = 0]
    /\ UNCHANGED <<phVars, pegBroken, charges>>

(* process_harvest_penalty_orca: the SOL/MATA oracle's volumes must favour *)
(* Orca.                                                                   *)
HarvestPenaltyOrca(l) ==
  \E orcaVol, raydiumVol \in Volumes :
    /\ VerifyOrcaHasMoreVolume(orcaVol, raydiumVol)
    /\ HarvestPenalty(l, Orca)

(* process_harvest_penalty_raydium: the same body behind the Raydium check. *)
HarvestPenaltyRaydium(l) ==
  \E orcaVol, raydiumVol \in Volumes :
    /\ VerifyRaydiumHasMoreVolume(orcaVol, raydiumVol)
    /\ HarvestPenalty(l, Raydium)

(* MataLoan::calc_remaining_sol (state.rs, not in src/): the collateral    *)
(* left after harvested penalty.  It returns a plain u64; like             *)
(* remove_total and remove_collateral it is taken to saturate at 0.        *)
CalcRemainingSol(loan) ==
  SaturatingSub(loan.sol_collateral_amount, loan.penalty_harvested)

(* Seeded fault: close without checking the MATA to burn is there.       *)
CloseLoanUnchecked(l) ==
  LET loan     == loans[l]
      toReturn == CalcRemainingSol(loan)
  IN
  /\ loan.status = Active
  /\ loan.loan_creation_date + Epoch < now
  /\ msolVault >= toReturn
  /\ mataSupply' = mataSupply - loan.loan_amount
  /\ msolVault' = msolVault - toReturn
  /\ loans' = [loans EXCEPT ![l].status = Repaid]
  /\ totalSolCollateral' = SaturatingSub(totalSolCollateral, toReturn)

(* close_loan: after the time-lock, burn the loan amount and return the    *)
(* collateral left after harvested penalty (calc_remaining_sol).           *)
CloseLoan(l) ==
  LET loan     == loans[l]
      toReturn == CalcRemainingSol(loan)
  IN
  /\ loan.status = Active
  /\ loan.loan_creation_date + Epoch < now
  /\ mataSupply >= loan.loan_amount
  /\ msolVault >= toReturn
  /\ mataSupply' = mataSupply - loan.loan_amount
  /\ msolVault' = msolVault - toReturn
  /\ loans' = [loans EXCEPT ![l].status = Repaid]
  /\ totalSolCollateral' = SaturatingSub(totalSolCollateral, toReturn)

(* process_close_out_mata_loan (Default loan type).                        *)
CloseMataLoan(l) ==
  /\ loans[l].loan_type = Default
  /\ CloseLoan(l)
  /\ UNCHANGED <<phVars, pegBroken, totalOutstandingMata, charges>>

PHStep ==
  /\ CreatePriceHistory \/ UpdatePriceHistory \/ Tick
  /\ UNCHANGED lendVars

Init ==
  /\ PHInit
  /\ loans = [l \in Loans |-> NoLoan]
  /\ pegBroken = FALSE
  /\ totalOutstandingMata = 0
  /\ totalSolCollateral = 0
  /\ msolVault = 0
  /\ mataSupply = 0
  /\ charges = [l \in Loans |-> [d \in Times |-> 0]]

Next ==
  \/ PHStep
  \/ \E l \in Loans :
       \/ CreateMataLoan(l)
       \/ RefundMataLoan(l)
       \/ AddCollateral(l)
       \/ DeterminePenalty(l)
       \/ HarvestPenaltyOrca(l)
       \/ HarvestPenaltyRaydium(l)
       \/ CloseMataLoan(l)

Spec == Init /\ [][Next]_vars

-----------------------------------------------------------------------------
LoanRecord ==
  [status : {Uninitialized, Active, Repaid}, sol_collateral_amount : Nat,
   staking_collateral_amount : Nat, loan_amount : Nat, collateral_rate : Nat,
   penalty_harvested : Nat, penalty_to_harvest : Nat,
   last_day_penalty_was_checked : Nat, loan_creation_date : Nat,
   loan_type : {Default, LucraBacked}]

LendingTypeOK ==
  /\ PHTypeOK
  /\ loans \in [Loans -> LoanRecord]
  /\ pegBroken \in BOOLEAN
  /\ totalOutstandingMata \in Nat /\ totalSolCollateral \in Nat
  /\ msolVault \in Nat /\ mataSupply \in Nat
  /\ charges \in [Loans -> [Times -> Nat]]

(* The mSOL vault always covers system_state.total_sol_collateral.        *)
(* DropReward computes the staking yield as vault - total_sol_collateral  *)
(* with checked_sub, so a booked total above the vault would make it fail *)
(* for good.  Every deposit, harvest and close must move both in step.    *)
VaultCoversBookedCollateral == msolVault >= totalSolCollateral

(* The loan account seen by its borrower (LoanLedger): its state, the SOL *)
(* collateral, the MATA lent, the penalty charged in total (harvested plus *)
(* still to harvest) and the part harvests have already taken.            *)
AbstractLoan(l) ==
  [state      |-> CASE loans[l].status = Uninitialized -> "unused"
                    [] loans[l].status = Active        -> "open"
                    [] loans[l].status = Repaid        -> "repaid",
   collateral |-> loans[l].sol_collateral_amount,
   debt       |-> loans[l].loan_amount,
   owed       |-> loans[l].penalty_harvested + loans[l].penalty_to_harvest,
   paid       |-> loans[l].penalty_harvested]

LedgerAmounts == 0..(MaxVault + 2 * MaxPendingPenalty + MaximumOutstandingMata)

LoanSpec(l) == INSTANCE LoanLedger WITH loan <- AbstractLoan(l), Amounts <- LedgerAmounts

(* Every loan account behaves as LoanLedger allows, whatever the other     *)
(* loans, the ledger and the clock do: collateral only grows, penalty is   *)
(* only added while harvested < collateral, a harvest settles exactly the  *)
(* pending penalty, repayment happens once,                              *)
(* and a repaid loan is never touched again except by closing its account. *)
(* The conjunction over loans of LoanSpec(l)!Spec, in the form TLC checks. *)
LoanLedgerRefined ==
  /\ \A l \in Loans : LoanSpec(l)!Init
  /\ [][\A l \in Loans : LoanSpec(l)!Next \/ UNCHANGED AbstractLoan(l)]_vars

-----------------------------------------------------------------------------
(* Properties the code is found to violate (see README, Findings).         *)

(* spec.md 3 and 8: penalty_harvested + penalty_to_harvest never exceeds   *)
(* the SOL collateral of an open loan.                                     *)
PenaltyWithinCollateral ==
  \A l \in Loans :
    loans[l].status = Active =>
      loans[l].penalty_harvested + loans[l].penalty_to_harvest
        <= loans[l].sol_collateral_amount

(* spec.md 4.5 and 8 (idempotence): each day is charged to a loan at most  *)
(* once.                                                                   *)
DayChargedAtMostOnce == \A l \in Loans, d \in Times : charges[l][d] <= 1

(* An open loan keeps its record until it is repaid: nobody but the owner, *)
(* through close, ends it (its collateral is otherwise unreachable).       *)
OpenLoansPersist ==
  [][\A l \in Loans :
       loans[l].status = Active => loans'[l].status \in {Active, Repaid}]_vars

=============================================================================
