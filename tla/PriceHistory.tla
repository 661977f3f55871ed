---------------------------- MODULE PriceHistory ----------------------------
(***************************************************************************)
(* The Price History Ledger: the global ring of daily SOL and LUCRA price  *)
(* snapshots written by UpdatePriceHistory and read by DeterminePenalty.   *)
(*                                                                         *)
(* Source: processor/process_create_price_history.rs,                      *)
(*         processor/process_update_price_history.rs.  The PriceHistory    *)
(*         methods they call (find_price_by_timestamp, replace_oldest_     *)
(*         price, interval_end, update_interval, ...) live in state.rs,    *)
(*         which is not part of src/; they are modelled from spec.md 4.2.  *)
(*                                                                         *)
(* Time is abstract: one tick is one model time unit, Hour is UNIX_HOUR,   *)
(* Day is UNIX_DAY.  Prices are the fixed-point integers the code stores   *)
(* (price * 10^6, floored); the 10^6 scale is folded into the price set,   *)
(* so a stored price is a member of SolPrices and averaging is (a + b) \div 2. *)
(***************************************************************************)
EXTENDS Integers, FiniteSets

CONSTANTS
  NumSlots,     \* length of the prices ring (30 in the code)
  Hour,         \* UNIX_HOUR: minimum spacing between two samples
  Day,          \* UNIX_DAY: width of one sampling window
  MinSamples,   \* a closed window with fewer samples is zeroed (12 in the code)
  StartTime,    \* first clock value (the chain clock is never 0)
  MaxTime,      \* bound on the clock
  SolPrices,    \* fixed-point SOL/USD prices an oracle read can yield
  LucraPrices   \* fixed-point LUCRA/USD prices an oracle read can yield

ASSUME NumSlots \in Nat \ {0}
ASSUME Hour \in Nat \ {0} /\ Day \in Nat \ {0} /\ Hour < Day
ASSUME MinSamples \in Nat \ {0}
ASSUME StartTime \in Nat \ {0} /\ MaxTime \in Nat /\ StartTime < MaxTime
ASSUME 0 \notin SolPrices /\ 0 \notin LucraPrices

VARIABLES
  now,             \* Clock::get().unix_timestamp
  phInitialized,   \* price_history.meta_data.is_initialized
  prices,          \* price_history.prices: Slots -> HistoricPrice
  intervalStart,   \* price_history.interval_start
  updateCounter,   \* price_history.update_counter
  lastUpdate,      \* price_history.last_update_timestamp
  samples,         \* history: samples folded into the snapshot of each date
  written          \* history: every date a snapshot was ever written for

phVars == <<now, phInitialized, prices, intervalStart, updateCounter,
            lastUpdate, samples, written>>

Slots == 0 .. NumSlots - 1
Times == 0 .. MaxTime
HistoricPrice == [date : Times, sol_price : Nat, lucra_price : Nat]
EmptyPrice == [date |-> 0, sol_price |-> 0, lucra_price |-> 0]

(* Seeded fault: the day boundary rounded up instead of down.             *)
DayStartRoundedUp(t) == t + (Day - (t % Day))

(* Truncation of a timestamp to the start of its day (update_interval).    *)
DayStart(t) == t - (t % Day)

(* PriceHistory::interval_end: the current window is [start, start + Day]. *)
IntervalEnd == intervalStart + Day

(* PriceHistory::find_price_by_timestamp: the first slot with that date.   *)
HasPriceFor(d) == \E i \in Slots : prices[i].date = d
PriceSlotFor(d) ==
  CHOOSE i \in Slots : prices[i].date = d /\ \A j \in 0 .. i - 1 : prices[j].date # d

(* PriceHistory::replace_oldest_price: the slot of ring p with the        *)
(* smallest date, the lowest index among equals.                           *)
OldestSlot(p) ==
  CHOOSE i \in Slots : \A j \in Slots :
    \/ p[i].date < p[j].date
    \/ p[i].date = p[j].date /\ i <= j

(* Two-point average of the stored fixed-point price and a new sample.     *)
Average(old, new) == (new + old) \div 2

-----------------------------------------------------------------------------
(* process_create_price_history: the one-time, privileged initialisation.  *)
CreatePriceHistory ==
  /\ ~phInitialized
  /\ phInitialized' = TRUE
  /\ prices' = [i \in Slots |-> EmptyPrice]
  /\ lastUpdate' = 0
  /\ updateCounter' = 0
  /\ intervalStart' = now
  /\ UNCHANGED <<now, samples, written>>

(* Window still open and a snapshot for it exists: fold the sample in.     *)
FoldSample(sol, lucra) ==
  LET i == PriceSlotFor(intervalStart) IN
  /\ HasPriceFor(intervalStart)
  /\ prices' = [prices EXCEPT ![i].sol_price = Average(@, sol),
                              ![i].lucra_price = Average(@, lucra)]
  /\ updateCounter' = updateCounter + 1
  /\ samples' = [samples EXCEPT ![intervalStart] = @ + 1]
  /\ UNCHANGED <<intervalStart, written>>

(* Seeded fault: a fresh snapshot written without looking for one first. *)
OpenSnapshotUnchecked(sol, lucra) ==
  /\ prices' = [prices EXCEPT ![OldestSlot(prices)] =
                  [date |-> intervalStart, sol_price |-> sol, lucra_price |-> lucra]]
  /\ updateCounter' = 0 + 1
  /\ samples' = [samples EXCEPT ![intervalStart] = 1]
  /\ written' = written \cup {intervalStart}
  /\ UNCHANGED intervalStart

(* Window open but no snapshot for it: reset the counter, write one.       *)
OpenSnapshot(sol, lucra) ==
  /\ ~HasPriceFor(intervalStart)
  /\ prices' = [prices EXCEPT ![OldestSlot(prices)] =
                  [date |-> intervalStart, sol_price |-> sol, lucra_price |-> lucra]]
  /\ updateCounter' = 0 + 1
  /\ samples' = [samples EXCEPT ![intervalStart] = 1]
  /\ written' = written \cup {intervalStart}
  /\ UNCHANGED intervalStart

(* Seeded fault: the under-sampling threshold off by one.                *)
RollOverLenientZeroing(sol, lucra) ==
  LET zeroed == IF updateCounter < MinSamples - 1 /\ HasPriceFor(intervalStart)
                THEN [prices EXCEPT ![PriceSlotFor(intervalStart)].sol_price = 0,
                                    ![PriceSlotFor(intervalStart)].lucra_price = 0]
                ELSE prices
      start  == DayStart(now)
  IN
  /\ intervalStart' = start
  /\ prices' = [zeroed EXCEPT ![OldestSlot(zeroed)] =
                  [date |-> start, sol_price |-> sol, lucra_price |-> lucra]]
  /\ updateCounter' = 0 + 1
  /\ samples' = [samples EXCEPT ![start] = 1]
  /\ written' = written \cup {start}

(* Seeded fault: the new day written over the closed window's own slot.  *)
RollOverReusesSlot(sol, lucra) ==
  LET zeroed == IF updateCounter < MinSamples /\ HasPriceFor(intervalStart)
                THEN [prices EXCEPT ![PriceSlotFor(intervalStart)].sol_price = 0,
                                    ![PriceSlotFor(intervalStart)].lucra_price = 0]
                ELSE prices
      start  == DayStart(now)
      slot   == IF HasPriceFor(intervalStart) THEN PriceSlotFor(intervalStart)
                ELSE OldestSlot(zeroed)
  IN
  /\ intervalStart' = start
  /\ prices' = [zeroed EXCEPT ![slot] =
                  [date |-> start, sol_price |-> sol, lucra_price |-> lucra]]
  /\ updateCounter' = 0 + 1
  /\ samples' = [samples EXCEPT ![start] = 1]
  /\ written' = written \cup {start}

(* Seeded fault: the window advanced by one day, not to the day of now.   *)
RollOverOneDay(sol, lucra) ==
  LET zeroed == IF updateCounter < MinSamples /\ HasPriceFor(intervalStart)
                THEN [prices EXCEPT ![PriceSlotFor(intervalStart)].sol_price = 0,
                                    ![PriceSlotFor(intervalStart)].lucra_price = 0]
                ELSE prices
      start  == intervalStart + Day
  IN
  /\ intervalStart' = start
  /\ prices' = [zeroed EXCEPT ![OldestSlot(zeroed)] =
                  [date |-> start, sol_price |-> sol, lucra_price |-> lucra]]
  /\ updateCounter' = 0 + 1
  /\ samples' = [samples EXCEPT ![start] = 1]
  /\ written' = written \cup {start}

(* Past the window end: zero an under-sampled closed window, open the      *)
(* window of the current day and overwrite the oldest slot with it.        *)
RollOver(sol, lucra) ==
  LET zeroed == IF updateCounter < MinSamples /\ HasPriceFor(intervalStart)
                THEN [prices EXCEPT ![PriceSlotFor(intervalStart)].sol_price = 0,
                                    ![PriceSlotFor(intervalStart)].lucra_price = 0]
                ELSE prices
      start  == DayStart(now)
  IN
  /\ intervalStart' = start
  /\ prices' = [zeroed EXCEPT ![OldestSlot(zeroed)] =
                  [date |-> start, sol_price |-> sol, lucra_price |-> lucra]]
  /\ updateCounter' = 0 + 1
  /\ samples' = [samples EXCEPT ![start] = 1]
  /\ written' = written \cup {start}

(* process_update_price_history, with the oracle reads as inputs (a failed *)
(* oracle read aborts the transaction and is a stutter step).              *)
UpdatePriceHistory ==
  \E sol \in SolPrices, lucra \in LucraPrices :
    /\ phInitialized
    /\ lastUpdate + Hour <= now
    /\ \/ /\ now >= intervalStart /\ now <= IntervalEnd
          /\ FoldSample(sol, lucra) \/ OpenSnapshot(sol, lucra)
       \/ /\ now > IntervalEnd
          /\ RollOver(sol, lucra)
    /\ lastUpdate' = now
    /\ UNCHANGED <<now, phInitialized>>

(* The chain clock advances.                                               *)
Tick ==
  /\ now' = now + 1
  /\ UNCHANGED <<phInitialized, prices, intervalStart, updateCounter,
                 lastUpdate, samples, written>>

PHInit ==
  /\ now = StartTime
  /\ phInitialized = FALSE
  /\ prices = [i \in Slots |-> EmptyPrice]
  /\ intervalStart = 0
  /\ updateCounter = 0
  /\ lastUpdate = 0
  /\ samples = [d \in Times |-> 0]
  /\ written = {}

PHNext == CreatePriceHistory \/ UpdatePriceHistory \/ Tick

PHSpec == PHInit /\ [][PHNext]_phVars

(* update_price_history is open to anyone and pays the caller in reward   *)
(* tokens (mint_reward, line 195), so a caller is assumed to come whenever *)
(* the rate limit lets one in.  Creation is privileged and the clock is    *)
(* the chain's: neither gets fairness.                                     *)
PHLiveSpec == PHSpec /\ WF_phVars(UpdatePriceHistory)

(* State constraint bounding the clock.                                    *)
ClockBound == now <= MaxTime

-----------------------------------------------------------------------------
PHTypeOK ==
  /\ now \in Nat
  /\ phInitialized \in BOOLEAN
  /\ prices \in [Slots -> HistoricPrice]
  /\ intervalStart \in Times
  /\ updateCounter \in Nat
  /\ lastUpdate \in Times
  /\ samples \in [Times -> Nat]
  /\ written \subseteq Times

(* At most one snapshot per day (spec.md 3): no two slots of the ring hold *)
(* the same date.  find_price_by_timestamp only ever updates the first     *)
(* match, so a duplicate would split a day's samples across two entries    *)
(* that DeterminePenalty would each charge.                                *)
OneSnapshotPerDay ==
  \A i, j \in Slots :
    i # j /\ prices[i].date = prices[j].date => prices[i].date = 0

(* Under-sampled days are never kept (spec.md 4.2 case 2): a snapshot of a *)
(* window that has closed and still holds a price was built from at least  *)
(* MinSamples samples.  Depends on update_counter being reset and bumped   *)
(* in step with the windows across every branch of UpdatePriceHistory.     *)
ClosedDaysWellSampled ==
  \A i \in Slots :
    /\ prices[i].date # intervalStart
    /\ prices[i].sol_price # 0
    => samples[prices[i].date] >= MinSamples

(* The ring is overwritten oldest-first (spec.md 3): a day that was once   *)
(* written and is no longer in the ring is older than every day in it.     *)
EvictsOldestFirst ==
  \A d \in written :
    (\A i \in Slots : prices[i].date # d) => \A i \in Slots : prices[i].date > d

(* The ledger keeps up with the clock (spec.md 4.2): under the paid       *)
(* updater, the current window always comes to cover now again, whatever  *)
(* gap the calls left.  Depends on the hour rate limit always opening and  *)
(* on the rollover branch jumping the window to the day of now.           *)
LedgerKeepsUp == []<>(phInitialized => now <= IntervalEnd)

=============================================================================
