----------------------------- MODULE MCLending -----------------------------
(* Model-checking instance of Lending: a 2-unit day, a 2-slot ledger, SOL  *)
(* at $1 or $3, MATA on the peg or 10 cents below it (multiplier 4),       *)
(* deposits of 4 lamports, rates scaled so that one under-collateralised   *)
(* day costs 1 or 2 lamports before the multiplier.                        *)
EXTENDS Lending

CONSTANTS l1, l2

MCSolPrices == {1, 3}
MCLucraPrices == {1}
MCDeposits == {4}
MCMataPrices == {90, 100}
MCMataSwapOuts == {1}
MCPools == {[sol |-> 4, mata |-> 2], [sol |-> 1, mata |-> 8]}
MCVolumes == {1, 2}          \* per-venue oracle volumes: either busier, or a tie
OneLoan == {l1}
TwoLoans == {l1, l2}
=============================================================================
