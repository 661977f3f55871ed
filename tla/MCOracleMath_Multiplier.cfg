\* SOL at $28.50 (or $30.00) and 30 MATA per SOL price MATA at exactly
\* $0.95 (or $1.00); the reciprocal 1/30 is rounded before the multiplication.
CONSTANTS
  Scale = 1000
  MaxSlots = 25
  UsdFeeds <- MCUsdFeeds
  MataFeeds <- MCMataFeeds
  Slots <- MCSlots
SPECIFICATION Spec
INVARIANT MultiplierFromExactPrice
