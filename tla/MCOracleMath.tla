---------------------------- MODULE MCOracleMath ----------------------------
(* Oracle reads of one decimal place (expo 1): SOL at $28.50 or $30.00 on  *)
(* either USD feed, 30.0 MATA per SOL, so MATA is exactly on the peg or on *)
(* the $0.95 band edge; a stale and an invalid USD feed; 3 digits.  The    *)
(* feeds are chosen so that the 3-digit rounding errs in the same          *)
(* direction as the 28-digit one (1/30 rounds down in both).               *)
EXTENDS OracleMath

Feed(p, slot, status) == [price |-> p, expo |-> 1, valid_slot |-> slot, status |-> status]

MCUsdFeeds == {Feed(285, 100, 1), Feed(300, 100, 1), Feed(285, 50, 1), Feed(285, 100, 0)}
MCMataFeeds == {Feed(300, 100, 1)}
MCSlots == {100, 125, 126}
=============================================================================
