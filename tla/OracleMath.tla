----------------------------- MODULE OracleMath -----------------------------
(***************************************************************************)
(* Oracle price derivation (helpers/oracle.rs) and the penalty multiplier  *)
(* it feeds (calculate_penalty_multiplier, process_determine_penalty.rs),  *)
(* as pure operators over rust_decimal values.                             *)
(*                                                                         *)
(* A Decimal is modelled as an integer count of 1/Scale units.  The crate  *)
(* keeps 28 fractional digits and rounds every quotient and any product    *)
(* that does not fit to the nearest representable value; the model keeps   *)
(* log10(Scale) digits and rounds the same way (half away from zero, all   *)
(* operands being non-negative).  Fewer digits make a rounding error       *)
(* larger but not different in kind: a reciprocal that is not exact is     *)
(* rounded, and the rounded value is what the next step multiplies.        *)
(*                                                                         *)
(* The raw feed a price is read from (get_oracle_price) is a record        *)
(* [price, expo, valid_slot, status]; a failed read is the empty set.      *)
(***************************************************************************)
EXTENDS Naturals

CONSTANTS
  Scale,            \* 10^digits: the Decimal unit
  MaxSlots,         \* ORACLE_PRICE_MAX_SLOTS
  UsdFeeds,         \* raw records the SOL/USDC and SOL/USDT accounts may hold
  MataFeeds,        \* raw records the SOL/MATA account may hold
  Slots             \* clock.slot values at the read

VARIABLE input      \* one read: the three feeds and the current slot

ASSUME Scale \in Nat \ {0} /\ Scale % 100 = 0

(* Decimal::from(n).                                                       *)
Dec(n) == n * Scale

(* checked_div and checked_mul, rounded to the nearest unit.               *)
DecDiv(a, b) == (2 * a * Scale + b) \div (2 * b)
DecMul(a, b) == (2 * a * b + Scale) \div (2 * Scale)

(* floor().to_u64().                                                       *)
DecFloor(a) == a \div Scale

(* get_price: mantissa / 10^expo.                                          *)
GetPrice(price, expo) == DecDiv(Dec(price), Dec(10 ^ expo))

(* calc_oracle_price: refuse a feed whose status is not 1 or whose valid   *)
(* slot is more than MaxSlots behind the current one.                      *)
CalcOraclePrice(feed, slot) ==
  IF feed.status # 1 \/ feed.valid_slot + MaxSlots < slot
  THEN {} ELSE {GetPrice(feed.price, feed.expo)}

(* get_sol_price: the lower of the SOL/USDC and SOL/USDT prices.           *)
GetSolPrice(usdc, usdt) == IF usdc > usdt THEN usdt ELSE usdc

(* get_mata_price: (1 / SOL-in-MATA) * SOL-in-USD.                        *)
GetMataPrice(solMata, solUsd) == DecMul(DecDiv(Dec(1), solMata), solUsd)

(* calculate_penalty_multiplier: 1 at or above $1, otherwise twice the     *)
(* number of 5-cent bands below $1 (20 - floor(price / 0.05)).             *)
CalculatePenaltyMultiplier(mataPrice) ==
  IF mataPrice >= Dec(1) THEN 1
  ELSE (20 - DecFloor(DecDiv(mataPrice, (Scale * 5) \div 100))) * 2

-----------------------------------------------------------------------------
(* Every combination of feeds and slot is one behaviour of length one.     *)
Init ==
  input \in [solUsdc : UsdFeeds, solUsdt : UsdFeeds, solMata : MataFeeds, slot : Slots]

Next == UNCHANGED input

Spec == Init /\ [][Next]_input

-----------------------------------------------------------------------------
(* Reference: the multiplier of the exact price SOL-in-USD / SOL-in-MATA,  *)
(* floored once, at the end (spec.md 4.1 and 4.5 step 2).                  *)
ExactMultiplier(solMata, solUsd) ==
  IF solUsd >= solMata THEN 1 ELSE (20 - (20 * solUsd) \div solMata) * 2

(* spec.md 4.1: a chained price is rounded only at the final step a caller *)
(* consumes; so the multiplier determine_penalty derives from the oracles  *)
(* is the multiplier of the exact cross-rate (spec.md 8: 0.95 gives 2).  *)
MultiplierFromExactPrice ==
  \A m \in CalcOraclePrice(input.solMata, input.slot),
     c \in CalcOraclePrice(input.solUsdc, input.slot),
     t \in CalcOraclePrice(input.solUsdt, input.slot) :
    CalculatePenaltyMultiplier(GetMataPrice(m, GetSolPrice(c, t)))
      = ExactMultiplier(m, GetSolPrice(c, t))

=============================================================================
