----------------------------- MODULE StakeLedger -----------------------------
(***************************************************************************)
(* What LUCRA staking promises its owner, with receipts, reward cursors,   *)
(* staking accounts and locks left out (spec.md 3, staking).               *)
(*                                                                         *)
(* Every LUCRA of the owner is in one place: the wallet, the deposit or    *)
(* stake vault of a vault set, or an open withdrawal.  It moves only along *)
(* wallet -> deposit -> stake -> withdrawal -> deposit -> wallet; a        *)
(* withdrawal is opened for exactly what leaves the stake vault, ends one  *)
(* cooldown later, and is paid into the deposit vault once, after its end. *)
(* LUCRA appears only in the wallet (the inflation a claim mints) and      *)
(* disappears nowhere.                                                     *)
(***************************************************************************)
EXTENDS Naturals

CONSTANTS
  Vaults,        \* the owner's vault sets
  Withdrawals,   \* withdrawal addresses
  Cooldown       \* time from unstaking to the end of a withdrawal

VARIABLES
  clock,         \* the time
  free,          \* LUCRA in the wallet
  deposited,     \* LUCRA in each deposit vault
  staked,        \* LUCRA in each stake vault
  pending        \* each withdrawal: [vault, amount, end], or Closed

vars == <<clock, free, deposited, staked, pending>>

None == "none"
Closed == [vault |-> None, amount |-> 0, end |-> 0]

Init ==
  /\ clock \in Nat /\ free \in Nat
  /\ deposited = [v \in Vaults |-> 0]
  /\ staked = [v \in Vaults |-> 0]
  /\ pending = [w \in Withdrawals |-> Closed]

Deposit(v) ==
  \E n \in 1..free :
    /\ free' = free - n
    /\ deposited' = [deposited EXCEPT ![v] = @ + n]
    /\ UNCHANGED <<clock, staked, pending>>

Withdraw(v) ==
  \E n \in 1..deposited[v] :
    /\ deposited' = [deposited EXCEPT ![v] = @ - n]
    /\ free' = free + n
    /\ UNCHANGED <<clock, staked, pending>>

Stake(v) ==
  \E n \in 1..deposited[v] :
    /\ deposited' = [deposited EXCEPT ![v] = @ - n]
    /\ staked' = [staked EXCEPT ![v] = @ + n]
    /\ UNCHANGED <<clock, free, pending>>

Unstake(v, w) ==
  \E n \in 1..staked[v] :
    /\ pending[w] = Closed
    /\ staked' = [staked EXCEPT ![v] = @ - n]
    /\ pending' = [pending EXCEPT ![w] = [vault |-> v, amount |-> n,
                                          end |-> clock + Cooldown]]
    /\ UNCHANGED <<clock, free, deposited>>

Release(w) ==
  /\ pending[w] # Closed
  /\ pending[w].end <= clock
  /\ deposited' = [deposited EXCEPT ![pending[w].vault] = @ + pending[w].amount]
  /\ pending' = [pending EXCEPT ![w] = Closed]
  /\ UNCHANGED <<clock, free, staked>>

(* New LUCRA, in the wallet only.                                          *)
Reward ==
  /\ free' > free
  /\ UNCHANGED <<clock, deposited, staked, pending>>

Tick ==
  /\ clock' = clock + 1
  /\ UNCHANGED <<free, deposited, staked, pending>>

Next ==
  \/ \E v \in Vaults : Deposit(v) \/ Withdraw(v) \/ Stake(v)
  \/ \E v \in Vaults, w \in Withdrawals : Unstake(v, w)
  \/ \E w \in Withdrawals : Release(w)
  \/ Reward
  \/ Tick

Spec == Init /\ [][Next]_vars

=============================================================================
