--------------------------- MODULE MCLockedLoans ---------------------------
(* Model-checking instance of LockedLoans: one loan address, the owner's   *)
(* staking accounts, stake balances and vaults, LUCRA at $1 or $2, SOL at  *)
(* $1, deposits of 2 lamports with lcp 50 (a stake value of 1 to lock at   *)
(* origination, 2 on a top-up), MATA on the peg or 10 cents below it.      *)
EXTENDS LockedLoans

CONSTANTS l1, a1, a2, b1, b2, v1, v2, p1, r1

OneLoan == {l1}
OneAccount == {a1}
TwoAccounts == {a1, a2}
OneBalance == {b1}
TwoBalances == {b1, b2}
OneVaultSet == {v1}
TwoVaultSets == {v1, v2}
OnePending == {p1}
OneReward == {r1}
Short == [weight |-> 1, multiplier |-> 1, inflation |-> 10]
MCTimeframes == {Short}
MCLucraAmounts == {1, 2}
MCDropExcesses == {2}
MCSolPrices == {1}
MCLucraPrices == {1, 2}
MCDeposits == {2}
MCMataPrices == {90, 100}
MCMataSwapOuts == {1}
MCPools == {[sol |-> 4, mata |-> 2], [sol |-> 1, mata |-> 8]}
MCVolumes == {1}
=============================================================================
