----------------------------- MODULE LoanLedger -----------------------------
(***************************************************************************)
(* What one loan account promises its borrower, with prices, the ledger,   *)
(* the vault and the MATA mint left out (spec.md 3 and 4.3-4.6).           *)
(*                                                                         *)
(* A loan is opened with some collateral and debt, may be topped up, is    *)
(* charged penalty (owed) which harvests settle (paid), and is repaid      *)
(* once: the borrower gets collateral - paid back.  Repaid is final; an    *)
(* account, open or repaid, may be closed, after which the address is      *)
(* unused again.  Closing an open loan is allowed here because the         *)
(* program does it (the peg-broken refund, run refund_deletes_loan);       *)
(* everything else a loan may do is fixed by this module.                  *)
(***************************************************************************)
EXTENDS Naturals

CONSTANT Amounts          \* the collateral and penalty amounts of interest

VARIABLE loan             \* [state, collateral, debt, owed, paid]

Unused == "unused"
Open   == "open"
Repaid == "repaid"

Empty == [state |-> Unused, collateral |-> 0, debt |-> 0, owed |-> 0, paid |-> 0]

Init == loan = Empty

(* A step that changes at most field f of the record.                      *)
OnlyChanges(f) == loan' = [loan EXCEPT ![f] = loan'[f]]

(* The borrower deposits collateral and is lent debt against it.           *)
Borrow ==
  /\ loan.state = Unused
  /\ loan' \in [state : {Open}, collateral : Amounts \ {0}, debt : Amounts,
               owed : {0}, paid : {0}]

(* More collateral; nothing else changes.                                  *)
TopUp ==
  /\ loan.state = Open
  /\ OnlyChanges("collateral")
  /\ loan'.collateral \in Amounts
  /\ loan'.collateral > loan.collateral

(* Penalty is charged while the harvested part is below the collateral.   *)
Charge ==
  /\ loan.state = Open
  /\ loan.paid < loan.collateral
  /\ OnlyChanges("owed")
  /\ loan'.owed \in Amounts
  /\ loan'.owed > loan.owed

(* A harvest settles everything charged so far.                            *)
Settle ==
  /\ loan.state = Open
  /\ loan.paid < loan.owed
  /\ loan' = [loan EXCEPT !.paid = loan.owed]

(* Repayment: what the harvests took is kept, the rest (nothing, if they  *)
(* took more than the collateral) goes back.                               *)
Repay ==
  /\ loan.state = Open
  /\ loan' = [loan EXCEPT !.state = Repaid]

(* The account is closed and its address becomes unused.                   *)
Close ==
  /\ loan.state # Unused
  /\ loan' = Empty

Next == Borrow \/ TopUp \/ Charge \/ Settle \/ Repay \/ Close

Spec == Init /\ [][Next]_loan

=============================================================================
