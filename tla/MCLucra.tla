------------------------------- MODULE MCLucra -------------------------------
(* Model-checking instance of Lucra: one loan address, one staking account, *)
(* balance, vault triple, pending withdrawal and reward; SOL at $1 or $3,   *)
(* so a loan opened at $3 is charged on a $1 day; LUCRA at $1; MATA on the *)
(* peg; deposits of 2.                                                      *)
EXTENDS Lucra

CONSTANTS l1, a1, b1, v1, p1, r1

OneLoan == {l1}
OneAccount == {a1}
OneBalance == {b1}
OneVaultSet == {v1}
OnePending == {p1}
OneReward == {r1}
Short == [weight |-> 1, multiplier |-> 1, inflation |-> 10]
MCTimeframes == {Short}
MCLucraAmounts == {1}
MCDropExcesses == 0..4
MCSolPrices == {1, 3}
MCLucraPrices == {1}
MCDeposits == {2}
MCMataPrices == {100}
MCMataSwapOuts == {1}
MCPools == {[sol |-> 4, mata |-> 2], [sol |-> 1, mata |-> 8]}
MCVolumes == {1}
MCLucraSolPrices == {1}
MCRewardTokenAmounts == {1}
MCTransferAmounts == {1}
=============================================================================
