------------------------------- MODULE RiskGate -------------------------------
(***************************************************************************)
(* The way of an entry signal into the market: the batch of signals a      *)
(* strategy emits, RiskEngine.evaluate on each of them                     *)
(* (src/src/risk/risk_engine.py), the decision on the batch and the        *)
(* submission of its legs (src/src/app/runner.py, _process_tick).          *)
(*                                                                         *)
(* Strategies trade one underlying.  Between two legs the tick awaits      *)
(* quotes or the broker, and fills come in; commands, locks and exits have  *)
(* their own place in the tick, so they never come between the legs.       *)
(* Money is counted in units; a price is the premium of one contract.      *)
(***************************************************************************)
EXTENDS Integers, FiniteSets, FiniteSetsExt

CONSTANTS
    Strats, Legs,
    MaxOpenPositions, MaxOpenOrders, MaxPerStrategy, MaxPerUnderlying,
    DailyLossLimit, StrategyLossLimit,
    MaxContracts, MaxPremium,
    Requests,    \* quantities a strategy may ask for
    Prices,      \* premiums a leg may cost, 0 for a signal without a price
    Results,     \* what an exit may realise
    MaxBatches,  \* bound: batches polled
    MaxExits,    \* bound: exits of positions
    MaxDeaths    \* bound: restarts

ASSUME RiskAssumption ==
    /\ IsFiniteSet(Strats) /\ IsFiniteSet(Legs) /\ Legs # {}
    /\ {MaxOpenPositions, MaxOpenOrders, MaxPerStrategy, MaxPerUnderlying,
        DailyLossLimit, StrategyLossLimit, MaxContracts, MaxPremium} \subseteq Nat \ {0}
    /\ Requests \subseteq Nat \ {0} /\ Prices \subseteq Nat /\ Results \subseteq Int
    /\ {MaxBatches, MaxExits, MaxDeaths} \subseteq Nat

Slots == Strats \X Legs

VARIABLES
    leg,       \* per strategy and leg: "none", an order "working", a position "open" or "leaving"
    realized,  \* realized_pnl of the open position in the slot
    closed,    \* realized_pnl of the closed positions PositionManager remembers
    overrides, \* [locked, paused, reduce]: OverridesConfig
    late,      \* the cutoff has passed
    retry,     \* strategies in _entry_retry_after
    tick,      \* the batch of the tick: [pc, s, todo, approved]
    spent,     \* [batches, exits, deaths], for the bounds
    today      \* history: what each strategy has realised today

vars == <<leg, realized, closed, overrides, late, retry, tick, spent, today>>

Idle == [pc |-> "idle"]
Clear == [locked |-> FALSE, paused |-> {}, reduce |-> FALSE]

Init ==
    /\ leg = [x \in Slots |-> "none"] /\ realized = [x \in Slots |-> 0] /\ closed = 0
    /\ overrides = Clear /\ late = FALSE /\ retry = {}
    /\ tick = Idle
    /\ spent = [batches |-> 0, exits |-> 0, deaths |-> 0]
    /\ today = [s \in Strats |-> 0]

-----------------------------------------------------------------------------
(* RiskEngine *)

Active == {x \in Slots : leg[x] \in {"open", "leaving"}}
Orders == {x \in Slots : leg[x] \in {"working", "leaving"}}
Of(s) == {x \in Slots : x[1] = s}

\* The SystemState the runner builds: it gives no P&L per strategy, no time of
\* the last trade and no kill switch, so these stand at their defaults.
Snapshot(quote) ==
    [active |-> Active, orders |-> Cardinality(Orders), pnl |-> closed, quote |-> quote,
     strategyPnl |-> [s \in Strats |-> 0], cooling |-> {}, kill |-> FALSE]

\* validate_quote_freshness and validate_quote_prices, on the kinds of quotes.
QuoteKinds == {"good", "missing", "stale", "one_sided", "wide"}
Fresh(quote)  == quote \notin {"missing", "stale"}
Priced(quote) == quote \notin {"missing", "one_sided", "wide"}

\* Mutant: the reduce-only switch is not looked at.
SwitchesNotReduced(s, st) ==
    {r \in {"kill", "locked", "paused", "cutoff"} :
        CASE r = "kill"   -> st.kill
          [] r = "locked" -> overrides.locked
          [] r = "paused" -> s \in overrides.paused
          [] r = "cutoff" -> late}

\* The switches that refuse a signal.  "locked" stands for the trading mode too,
\* "paused" for a strategy unknown or disabled and for a disabled symbol.
Switches(s, st) ==
    {r \in {"kill", "locked", "paused", "reduce", "cutoff"} :
        CASE r = "kill"   -> st.kill
          [] r = "locked" -> overrides.locked
          [] r = "paused" -> s \in overrides.paused
          [] r = "reduce" -> overrides.reduce
          [] r = "cutoff" -> late}

\* Mutant: the limit on open orders is off by one.
LimitsOver(s, st) ==
    {r \in {"positions", "per_underlying", "orders"} :
        CASE r = "positions"      -> Cardinality(st.active) >= MaxOpenPositions
          [] r = "per_underlying" -> Cardinality(st.active) >= MaxPerUnderlying
          [] r = "orders"         -> st.orders > MaxOpenOrders}

\* The limits on losses, positions and orders.
Limits(s, st) ==
    {r \in {"daily_loss", "strategy_loss", "positions", "per_strategy", "per_underlying", "orders"} :
        CASE r = "daily_loss"     -> st.pnl <= -DailyLossLimit
          [] r = "strategy_loss"  -> st.strategyPnl[s] <= -StrategyLossLimit
          [] r = "positions"      -> Cardinality(st.active) >= MaxOpenPositions
          [] r = "per_strategy"   -> Cardinality(st.active \cap Of(s)) >= MaxPerStrategy
          [] r = "per_underlying" -> Cardinality(st.active) >= MaxPerUnderlying
          [] r = "orders"         -> st.orders >= MaxOpenOrders}

\* The quote, and the time since the last trade.
Conditions(s, st) ==
    {r \in {"stale", "price", "cooldown"} :
        CASE r = "stale"    -> ~Fresh(st.quote)
          [] r = "price"    -> st.quote # "missing" /\ ~Priced(st.quote)
          [] r = "cooldown" -> s \in st.cooling}

\* evaluate: every check is made, and one reason refuses.
Blocking(s, st) == Switches(s, st) \cup Limits(s, st) \cup Conditions(s, st)

Least(a, b) == IF a < b THEN a ELSE b

\* _compute_allowed_quantity: clamped to the contracts and to the premium of a
\* trade, and never below one.
Allowed(q, price) ==
    LET capped    == Least(q, MaxContracts)
        byPremium == IF price = 0 THEN capped ELSE Least(capped, MaxPremium \div price)
    IN  IF byPremium < 1 THEN 1 ELSE byPremium

-----------------------------------------------------------------------------
(* The batch of one strategy *)

Flat(s) == \A x \in Of(s) : leg[x] = "none"

\* A strategy that is not locked, paused, backing off or in the market emits its
\* legs.
Poll(s) ==
    /\ tick = Idle /\ spent.batches < MaxBatches
    /\ ~overrides.locked /\ s \notin overrides.paused /\ s \notin retry /\ Flat(s)
    /\ tick' = [pc |-> "evaluate", s |-> s, todo |-> Legs, approved |-> {}]
    /\ spent' = [spent EXCEPT !.batches = @ + 1]
    /\ UNCHANGED <<leg, realized, closed, overrides, late, retry, today>>

\* get_quotes, then evaluate, for one leg after the other.
Evaluate(l, quote) ==
    /\ tick.pc = "evaluate" /\ l \in tick.todo
    /\ LET passes == Blocking(tick.s, Snapshot(quote)) = {} IN
       tick' = [tick EXCEPT !.todo = @ \ {l},
                            !.approved = IF passes THEN @ \cup {l} ELSE @]
    /\ UNCHANGED <<leg, realized, closed, overrides, late, retry, spent, today>>

\* Every leg approved, or the strategy backs off.
Decide ==
    /\ tick.pc = "evaluate" /\ tick.todo = {}
    /\ IF tick.approved = Legs
       THEN tick' = [tick EXCEPT !.pc = "submit", !.todo = Legs] /\ UNCHANGED retry
       ELSE tick' = Idle /\ retry' = retry \cup {tick.s}
    /\ UNCHANGED <<leg, realized, closed, overrides, late, spent, today>>

\* submit_intent, leg by leg; one that fails is logged and the loop goes on.
Submit(l, placed) ==
    /\ tick.pc = "submit" /\ l \in tick.todo
    /\ leg' = [leg EXCEPT ![<<tick.s, l>>] = IF placed THEN "working" ELSE @]
    /\ tick' = [tick EXCEPT !.todo = @ \ {l}]
    /\ UNCHANGED <<realized, closed, overrides, late, retry, spent, today>>

NextStrategy ==
    /\ tick.pc = "submit" /\ tick.todo = {}
    /\ tick' = Idle
    /\ UNCHANGED <<leg, realized, closed, overrides, late, retry, spent, today>>

-----------------------------------------------------------------------------
(* What happens around it *)

\* An entry order fills, or ends without a fill.
EntryEnds(x) ==
    /\ leg[x] = "working" /\ \E st \in {"open", "none"} : leg' = [leg EXCEPT ![x] = st]
    /\ UNCHANGED <<realized, closed, overrides, late, retry, tick, spent, today>>

\* An exit order is sent, and reduces or closes the position.
ExitSent(x) ==
    /\ tick = Idle /\ leg[x] = "open" /\ spent.exits < MaxExits
    /\ leg' = [leg EXCEPT ![x] = "leaving"]
    /\ spent' = [spent EXCEPT !.exits = @ + 1]
    /\ UNCHANGED <<realized, closed, overrides, late, retry, tick, today>>

ExitFills(x, result, whole) ==
    /\ leg[x] = "leaving"
    /\ today' = [today EXCEPT ![x[1]] = @ + result]
    /\ leg' = [leg EXCEPT ![x] = IF whole THEN "none" ELSE "open"]
    /\ realized' = [realized EXCEPT ![x] = IF whole THEN 0 ELSE @ + result]
    /\ closed' = IF whole THEN closed + realized[x] + result ELSE closed
    /\ UNCHANGED <<overrides, late, retry, tick, spent>>

\* Commands, locks and reconciliation.
Override ==
    /\ tick = Idle
    /\ \/ \E b \in BOOLEAN : overrides' = [overrides EXCEPT !.locked = b]
       \/ \E b \in BOOLEAN : overrides' = [overrides EXCEPT !.reduce = b]
       \/ \E S \in SUBSET Strats : overrides' = [overrides EXCEPT !.paused = S]
    /\ UNCHANGED <<leg, realized, closed, late, retry, tick, spent, today>>

\* The cutoff passes between two ticks: `now` is taken once per tick.
Cutoff == tick = Idle /\ ~late /\ late' = TRUE
          /\ UNCHANGED <<leg, realized, closed, overrides, retry, tick, spent, today>>

RetryAgain(s) ==
    /\ s \in retry /\ retry' = retry \ {s}
    /\ UNCHANGED <<leg, realized, closed, overrides, late, tick, spent, today>>

\* A restart the same day: working orders withdrawn, open positions seeded, what
\* was realised forgotten.
Restart ==
    /\ spent.deaths < MaxDeaths
    /\ spent' = [spent EXCEPT !.deaths = @ + 1]
    /\ leg' = [x \in Slots |-> IF x \in Active THEN "open" ELSE "none"]
    /\ realized' = [x \in Slots |-> 0] /\ closed' = 0 /\ retry' = {} /\ tick' = Idle
    /\ UNCHANGED <<overrides, late, today>>

Batch ==
    \/ \E s \in Strats : Poll(s)
    \/ \E l \in Legs, quote \in QuoteKinds : Evaluate(l, quote)
    \/ Decide \/ NextStrategy
    \/ \E l \in Legs, placed \in BOOLEAN : Submit(l, placed)

Next ==
    \/ Batch
    \/ \E x \in Slots : EntryEnds(x) \/ ExitSent(x)
    \/ \E x \in Slots, result \in Results, whole \in BOOLEAN : ExitFills(x, result, whole)
    \/ Override \/ Cutoff \/ Restart
    \/ \E s \in Strats : RetryAgain(s)

Spec == Init /\ [][Next]_vars

-----------------------------------------------------------------------------
(* Properties *)

\* The types of the variables.
TypeOK ==
    /\ leg \in [Slots -> {"none", "working", "open", "leaving"}]
    /\ DOMAIN realized = Slots /\ DOMAIN today = Strats
    /\ overrides.paused \subseteq Strats /\ retry \subseteq Strats
    /\ tick.pc \in {"idle", "evaluate", "submit"}
    /\ tick # Idle => tick.s \in Strats /\ tick.todo \subseteq Legs /\ tick.approved \subseteq Legs
    /\ tick.pc = "submit" => \A l \in tick.todo : leg[<<tick.s, l>>] = "none"

\* The legs of a batch are judged by one snapshot and positions and orders are
\* counted apart, so the limits do not bound what may be held; this does: the
\* positions and the orders that may become positions, together.
ExposureBounded ==
    Cardinality(Active \cup Orders)
        <= Least(MaxOpenPositions, MaxPerUnderlying) + MaxOpenOrders + Cardinality(Legs) - 2

\* What is allowed is the most that fits the request, the contracts and the
\* premium of a trade, or one contract when none fits.
AllowedIsMost == tick.pc = "submit" =>
    \A q \in Requests, price \in Prices :
        LET fits == {n \in 1 .. q : n <= MaxContracts /\ n * price <= MaxPremium}
        IN  Allowed(q, price) = IF fits = {} THEN 1 ELSE CHOOSE n \in fits : \A m \in fits : m <= n

\* No order goes in for a strategy that is paused or while entries are locked,
\* reduced or past the cutoff, nor for a batch of which a leg was refused: what
\* was true when the legs were judged, one after the other, is true when they are
\* sent.
EntersOnlyWhenAllowed ==
    [][\A s \in Strats : (\E x \in Of(s) : leg[x] = "none" /\ leg'[x] = "working") =>
          /\ ~overrides.locked /\ ~overrides.reduce /\ ~late /\ s \notin overrides.paused
          /\ tick.approved = Legs]_vars

\* Not so (configs/risk.yaml:2): the limit on a strategy's loss refuses nothing,
\* for its P&L is not in the snapshot.
StrategyLossHolds ==
    [][\A s \in Strats : Decide /\ tick'.pc = "submit" /\ tick.s = s => today[s] > -StrategyLossLimit]_vars

\* Not so (docs/assumptions.md:110): a loss realised before a restart, or by a
\* part of a position that is still open, does not count.
DailyLossHolds ==
    [][Decide /\ tick'.pc = "submit" => MapThenSumSet(LAMBDA s : today[s], Strats) > -DailyLossLimit]_vars

\* Not so (risk_engine.py:448): a batch may exceed the limit on open positions.
PositionsWithinLimit == Cardinality(Active) <= MaxOpenPositions
=============================================================================
