----------------------------- MODULE MCStaking -----------------------------
(* Model-checking instance of Staking: one owner with up to two staking    *)
(* accounts and two stake balances, a short (weight 1, lock 1 epoch) and a *)
(* long (weight 2, lock 3 epochs) timeframe, LUCRA at $1 or $2, one LUCRA  *)
(* per instruction, two PendingWithdrawal addresses, so that two          *)
(* withdrawals share a pending vault, and two Reward accounts, so that two *)
(* drops happen.                                                          *)
EXTENDS Staking

CONSTANTS a1, a2, b1, b2, v1, v2, p1, p2, r1, r2

Short == [weight |-> 1, multiplier |-> 1, inflation |-> 10]
Long == [weight |-> 2, multiplier |-> 3, inflation |-> 20]
MCTimeframes == {Short, Long}
MCLucraAmounts == {1}
MCDropExcesses == {2}
MCSolPrices == {1}
MCLucraPrices == {1, 2}
OneAccount == {a1}
OneBalance == {b1}
TwoBalances == {b1, b2}
OneVaultSet == {v1}
TwoVaultSets == {v1, v2}
OnePending == {p1}
TwoPending == {p1, p2}
TwoRewards == {r1, r2}
=============================================================================
