-------------------------------- MODULE FiveEma --------------------------------
(***************************************************************************)
(* The 5 EMA strategies (src/src/strategies/xsp_5_ema.py): windows of      *)
(* one-minute bars, the average that restarts daily, the signal bar, the   *)
(* entry trigger shared by the variants, each variant's signals, the       *)
(* context that carries a signal's stop to the position, and the exits;    *)
(* with the places of the runner's tick that call them.                    *)
(*                                                                         *)
(* Time is counted in minutes since the first open; a day has DayLen       *)
(* minutes and a window Width.  The average is kept exactly, Scale times   *)
(* its value.  Premiums are in twentieths of the premium paid.             *)
(***************************************************************************)
EXTENDS Bars, FiniteSetsExt

CONSTANTS
    Strats,
    Trailing,      \* the strategies with a trailing floor; the others have a target
    PutsOnly,      \* PUTS_ONLY
    Width, DayLen,
    CutoffAt, TimeExitAt,   \* ENTRY_CUTOFF_NY, TIME_EXIT_NY, in minutes of the day
    MaxTrades,     \* max_trades_per_day
    MaxFetches,    \* MAX_BACKFILL_FETCHES_PER_UPDATE
    Target,        \* rr_target
    History,       \* closes the broker's history may return
    Premiums,      \* premiums of the option held, 0 for no quote
    MaxTicks,      \* bound: ticks
    MaxLag,        \* bound: windows behind when the clock moves on
    Days,          \* bound: days
    MaxFailures,   \* bound: entries refused or cancelled, exits that fail
    MaxRestarts    \* bound: restarts

ASSUME EmaAssumption ==
    /\ Trailing \subseteq Strats /\ PutsOnly \in BOOLEAN
    /\ {Width, DayLen, MaxTrades, MaxFetches, Target, Days} \subseteq Nat \ {0}
    /\ DayLen % Width = 0 /\ CutoffAt \in Nat /\ TimeExitAt \in Nat
    /\ History \subseteq Levels /\ Premiums \subseteq Nat
    /\ {MaxTicks, MaxLag, MaxFailures, MaxRestarts} \subseteq Nat

Paid == 20
Step == 4      \* trail_step_pct of the premium paid
Lock == 3      \* trail_lock_pct
Fallback == 16 \* 1 - FALLBACK_PREMIUM_STOP_PCT
Scale == 3 ^ (DayLen \div Width)
None == [none |-> TRUE]

VARIABLES
    market,  \* [day, ema, next, sig, trig, failed]: the state shared by the variants
    own,     \* per strategy [trades, consumed, pending, ctx]
    pos,     \* per strategy [st, id, trig, adopted]: its order or position
    feed,    \* history: the feed is up
    blind,   \* history: minutes in which it was not
    sent,    \* history: the triggers each strategy has sent signals on, in order
    count    \* [ticks, failures, restarts], for the bounds

vars == <<now, barVars, market, own, pos, feed, blind, sent, count>>

Unstarted == [day |-> -1, ema |-> 0, next |-> 0, sig |-> None, trig |-> None, failed |-> -1]
Unused == [trades |-> 0, consumed |-> 0, pending |-> None, ctx |-> None]
Flat == [st |-> "flat", id |-> 0, trig |-> 0, adopted |-> FALSE]

Init ==
    /\ now = 0 /\ BarsInit
    /\ market = Unstarted
    /\ own = [s \in Strats |-> Unused] /\ pos = [s \in Strats |-> Flat]
    /\ feed = TRUE /\ blind = {} /\ sent = [s \in Strats |-> <<>>]
    /\ count = [ticks |-> 0, failures |-> 0, restarts |-> 0]

-----------------------------------------------------------------------------
(* The market state *)

Today == now \div DayLen
TimeOfDay == now % DayLen

\* _reset_day
Reset(mk) == [Unstarted EXCEPT !.day = Today, !.next = Today * DayLen + Width, !.failed = mk.failed]

\* _build_5min_bar_live: the builder's first bar is no younger than the window.
LiveBar(end) ==
    LET in == {i \in DOMAIN Completed : Completed[i].m \in (end - Width)..(end - 1)} IN
    IF in = {} \/ Completed[1].m > end - Width THEN None
    ELSE [high |-> Max({Completed[i].high : i \in in}),
          low |-> Min({Completed[i].low : i \in in}),
          close |-> Completed[Max(in)].close]

Ema(mk, close) == IF mk.ema = 0 THEN close * Scale ELSE (close * Scale + 2 * mk.ema) \div 3

\* The close of the window goes through the level of the signal bar.
Breaks(sig, close) ==
    /\ sig # None
    /\ \/ sig.dir = "put" /\ close <= sig.low
       \/ sig.dir = "call" /\ close >= sig.high /\ ~PutsOnly

Trigger(sig, close, end) ==
    [dir |-> sig.dir, stop |-> IF sig.dir = "put" THEN sig.high ELSE sig.low,
     entry |-> close, at |-> end]

\* Arming takes a live bar off the average; a live bar that touches it disarms.
Armed(sig, bar, ema, end) ==
    CASE bar = None -> sig
      [] bar # None /\ bar.low * Scale > ema ->
            [dir |-> "put", high |-> bar.high, low |-> bar.low, at |-> end]
      [] bar # None /\ bar.high * Scale < ema /\ ~PutsOnly ->
            [dir |-> "call", high |-> bar.high, low |-> bar.low, at |-> end]
      [] OTHER -> None

Closed(mk, bar, close, end) ==
    LET ema == Ema(mk, close) IN
    IF Breaks(mk.sig, close)
      THEN [mk EXCEPT !.ema = ema, !.sig = None, !.trig = Trigger(mk.sig, close, end)]
      ELSE [mk EXCEPT !.ema = ema, !.sig = Armed(mk.sig, bar, ema, end), !.trig = None]

\* One round of the loop of _update_market_state; hist holds what the calls of get_historical_close
\* return, 0 for a failure.  A window without a close leaves the signal and the trigger as they are.
Round(run, end, hist) ==
    LET mk == run.mk
        bar == LiveBar(end)
        next == [mk EXCEPT !.next = end + Width]
    IN
    CASE bar # None -> [run EXCEPT !.mk = Closed(next, bar, bar.close, end)]
      [] bar = None /\ mk.failed = mk.day -> [run EXCEPT !.mk = next]
      [] bar = None /\ mk.failed # mk.day /\ run.fetches = MaxFetches -> [run EXCEPT !.over = TRUE]
      [] bar = None /\ mk.failed # mk.day /\ run.fetches < MaxFetches ->
            [run EXCEPT !.fetches = @ + 1,
                        !.mk = IF hist[run.fetches + 1] = 0 THEN [next EXCEPT !.failed = mk.day]
                               ELSE Closed(next, None, hist[run.fetches + 1], end)]

\* The loop goes on to the next window that has closed.
Went(run, hist) == IF run.over \/ now < run.mk.next THEN run ELSE Round(run, run.mk.next, hist)

\* The windows that have closed and are still to be processed.
Due(mk) == {w \in mk.next..now : (w - mk.next) % Width = 0}

Fresh(mk) == IF mk.day # Today THEN Reset(mk) ELSE mk

\* The market state after the loop, which has no more rounds than the day has windows.
UpdatedMarket(hist) ==
    LET run[n \in Nat] == IF n = 0 THEN [mk |-> Fresh(market), fetches |-> 0, over |-> FALSE]
                          ELSE Went(run[n - 1], hist)
    IN run[DayLen \div Width].mk

Histories == [1..MaxFetches -> History \cup {0}]

\* The counters that _reset_day clears; pending and bound contexts stay.
Counters(s) == IF market.day # Today THEN [own[s] EXCEPT !.trades = 0, !.consumed = 0] ELSE own[s]

-----------------------------------------------------------------------------
(* Position contexts *)

Open(s) == pos[s].st \in {"open", "exiting"}

\* _sync_position_contexts: a closed position's context goes; an open position without one takes the
\* pending context, or is adopted and has to do without the underlying.
Synced(s, mine) ==
    LET kept == mine.ctx # None /\ Open(s) /\ mine.ctx.id = pos[s].id
        bound(t) == [id |-> pos[s].id, trig |-> t, peak |-> Paid, floor |-> 0]
    IN
    CASE kept -> mine
      [] ~kept /\ ~Open(s) -> [mine EXCEPT !.ctx = None]
      [] ~kept /\ Open(s) /\ mine.pending # None ->
            [mine EXCEPT !.ctx = bound(mine.pending), !.pending = None]
      [] ~kept /\ Open(s) /\ mine.pending = None ->
            [mine EXCEPT !.ctx = bound(None)]

-----------------------------------------------------------------------------
(* poll *)

\* Mutant: the runner waits for positions only.
FlatButForOrders(s) == ~Open(s)

\* The runner's wait-until-flat: no open position and no active order.
IsFlat(s) == pos[s].st = "flat"

\* Mutant: a strategy does not remember the trigger it has entered on.
WantsAgain(mk, mine) ==
    /\ TimeOfDay < CutoffAt
    /\ mine.trades < MaxTrades
    /\ mk.trig # None

\* The gates of poll: before the cutoff, trades left, and a trigger not entered on yet.
Wants(mk, mine) ==
    /\ TimeOfDay < CutoffAt
    /\ mine.trades < MaxTrades
    /\ mk.trig # None /\ mine.consumed # mk.trig.at

\* A read of the builder, if a window is due; the market state; the contexts of s.
Refresh(s, hist) ==
    /\ IF Due(Fresh(market)) # {} THEN Read ELSE UNCHANGED barVars
    /\ market' = UpdatedMarket(hist)

\* The order of a signal is refused by the risk engine, or it is sent.
Poll(s, hist, approved) ==
    LET mine == Synced(s, Counters(s))
        mk == UpdatedMarket(hist)
    IN
    /\ IsFlat(s)
    /\ Refresh(s, hist)
    /\ IF Wants(mk, mine)
         THEN
           /\ own' = [x \in Strats |-> IF x = s
                        THEN [mine EXCEPT !.trades = @ + 1, !.consumed = mk.trig.at,
                                          !.pending = mk.trig]
                        ELSE Counters(x)]
           /\ sent' = [sent EXCEPT ![s] = Append(@, mk.trig.at)]
           /\ IF approved
                THEN /\ pos' = [pos EXCEPT ![s] = [st |-> "working", id |-> @.id + 1,
                                                    trig |-> mk.trig.at, adopted |-> FALSE]]
                     /\ UNCHANGED count
                ELSE /\ count.failures < MaxFailures
                     /\ count' = [count EXCEPT !.failures = @ + 1]
                     /\ UNCHANGED pos
         ELSE
           /\ approved
           /\ own' = [x \in Strats |-> IF x = s THEN mine ELSE Counters(x)]
           /\ UNCHANGED <<pos, sent, count>>
    /\ UNCHANGED <<now, feed, blind>>

-----------------------------------------------------------------------------
(* collect_exits *)

\* _underlying_price after the read: the last completed bar's close, else the quote; 0 for neither.
Underlying == IF Completed # <<>> THEN Last(Completed).close ELSE level

StopHit(trig, u) ==
    /\ u # 0 /\ trig # None
    /\ IF trig.dir = "call" THEN u <= trig.stop ELSE u >= trig.stop

TargetHit(trig, u) ==
    /\ u # 0 /\ trig # None /\ trig.entry # trig.stop
    /\ IF trig.dir = "call"
         THEN u >= trig.entry + Target * (trig.entry - trig.stop)
         ELSE u <= trig.entry - Target * (trig.stop - trig.entry)

\* The trailing floor follows from the peak before this tick.
Trailed(ctx, mid) ==
    LET steps == (ctx.peak - Paid) \div Step IN
    [ctx EXCEPT !.floor = IF steps > 0 THEN Paid + steps * Lock ELSE @,
                !.peak = IF mid > @ THEN mid ELSE @]

Looked(s, ctx, mid) == IF s \in Trailing /\ mid # 0 THEN Trailed(ctx, mid) ELSE ctx

Flagged(s, ctx, mid) ==
    \/ TimeOfDay >= TimeExitAt
    \/ StopHit(ctx.trig, Underlying)
    \/ s \notin Trailing /\ TargetHit(ctx.trig, Underlying)
    \/ s \in Trailing /\ mid # 0 /\ ctx.floor # 0 /\ mid <= ctx.floor
    \/ ctx.trig = None /\ mid # 0 /\ mid <= Fallback

\* The runner asks for exits while the position has no exit order, and sends one if s flags it.
CollectExits(s, hist, mid) ==
    LET mine == Synced(s, Counters(s))
        ctx == Looked(s, mine.ctx, mid)
    IN
    /\ pos[s].st = "open"
    /\ Read
    /\ market' = UpdatedMarket(hist)
    /\ own' = [x \in Strats |-> IF x = s THEN [mine EXCEPT !.ctx = ctx] ELSE Counters(x)]
    /\ pos' = IF Flagged(s, ctx, mid) THEN [pos EXCEPT ![s].st = "exiting"] ELSE pos
    /\ UNCHANGED <<now, feed, blind, sent, count>>

-----------------------------------------------------------------------------
(* The market, the broker and the process *)

Tick(p) ==
    /\ feed /\ count.ticks < MaxTicks
    /\ OnTick(p) /\ count' = [count EXCEPT !.ticks = @ + 1]
    /\ UNCHANGED <<now, market, own, pos, feed, blind, sent>>

\* At the end of the day the options expire and the orders with them.
Minute ==
    /\ now + 1 < Days * DayLen /\ Cardinality(Due(Fresh(market))) <= MaxLag
    /\ now' = now + 1
    /\ blind' = IF feed THEN blind ELSE blind \cup {now + 1}
    /\ pos' = IF (now + 1) % DayLen = 0
               THEN [s \in Strats |-> [Flat EXCEPT !.id = pos[s].id]] ELSE pos
    /\ UNCHANGED <<barVars, market, own, feed, sent, count>>

Becomes(s, st) == pos' = [pos EXCEPT ![s].st = st]

EntryFills(s) ==
    /\ pos[s].st = "working" /\ Becomes(s, "open")
    /\ UNCHANGED <<now, barVars, market, own, feed, blind, sent, count>>

\* The entry ends unfilled (timeout, rejection), or the exit does.
OrderEnds(s) ==
    /\ count.failures < MaxFailures
    /\ count' = [count EXCEPT !.failures = @ + 1]
    /\ \/ pos[s].st = "working" /\ Becomes(s, "flat")
       \/ pos[s].st = "exiting" /\ Becomes(s, "open")
    /\ UNCHANGED <<now, barVars, market, own, feed, blind, sent>>

ExitFills(s) ==
    /\ pos[s].st = "exiting" /\ Becomes(s, "flat")
    /\ UNCHANGED <<now, barVars, market, own, feed, blind, sent, count>>

\* Orders are withdrawn, unless they fill first; positions are taken over by the next process.
Restart ==
    /\ count.restarts < MaxRestarts
    /\ count' = [count EXCEPT !.restarts = @ + 1]
    /\ Forget /\ market' = Unstarted /\ own' = [s \in Strats |-> Unused]
    /\ \E left \in SUBSET {s \in Strats : pos[s].st # "flat"} :
        /\ \A s \in Strats : pos[s].st = "open" => s \in left
        /\ pos' = [s \in Strats |-> IF s \in left THEN [pos[s] EXCEPT !.st = "open", !.adopted = TRUE]
                                    ELSE [Flat EXCEPT !.id = pos[s].id]]
    /\ UNCHANGED <<now, feed, blind, sent>>

Next ==
    \/ \E p \in Levels : Tick(p)
    \/ Minute
    \/ \E s \in Strats, hist \in Histories :
        \/ \E approved \in BOOLEAN : Poll(s, hist, approved)
        \/ \E mid \in Premiums : CollectExits(s, hist, mid)
    \/ \E s \in Strats : EntryFills(s) \/ OrderEnds(s) \/ ExitFills(s)
    \/ Restart

Spec == Init /\ [][Next]_vars

-----------------------------------------------------------------------------
(* Properties *)

TypeOK ==
    /\ now \in 0..(Days * DayLen) /\ BarsTypeOK
    /\ market.ema \in 0..(Max(Levels) * Scale)
    /\ \A s \in Strats : own[s].trades \in 0..MaxTrades /\ own[s].consumed \in 0..now
    /\ \A s \in Strats : pos[s].st \in {"flat", "working", "open", "exiting"}

\* A position is guarded by the stop of the very trigger its entry was sent on; one taken over from
\* an earlier process has the premium stop instead (_pending_ctx and _pos_ctx, xsp_5_ema.py:313).
GuardedByOwnTrigger ==
    \A s \in Strats :
        LET ctx == own[s].ctx IN
        ctx # None /\ Open(s) /\ ctx.id = pos[s].id =>
            IF pos[s].adopted THEN ctx.trig = None
            ELSE ctx.trig # None /\ ctx.trig.at = pos[s].trig

\* A strategy enters once on a trigger, although a restart makes it forget that it did: history
\* alone arms no signal bar, so an old window never triggers again (poll, _consumed_bar_time).
OncePerTrigger == \A s \in Strats : IsInjective(sent[s])

(* What the code's comments say and the model refutes: README.md, section 4 *)

\* An entry is on the window that closed last: the trigger "is cleared on the next 5-min bar that
\* doesn't trigger" (xsp_5_ema.py:112).
EntersAtOnce ==
    [][\A s \in Strats : sent'[s] # sent[s] => now < Last(sent'[s]) + Width]_vars

\* An outage of the data alone.  To the builder it is a quiet spell, which Next has.
FeedDrops ==
    /\ feed /\ blind = {} /\ feed' = FALSE /\ blind' = {now}
    /\ UNCHANGED <<now, barVars, market, own, pos, sent, count>>

FeedReturns ==
    /\ ~feed /\ feed' = TRUE
    /\ UNCHANGED <<now, barVars, market, own, pos, blind, sent, count>>

OutageSpec == Init /\ [][Next \/ FeedDrops \/ FeedReturns]_vars

\* A signal bar comes of a window the builder was live for: "Returns None unless the builder was live
\* for the WHOLE window" (xsp_5_ema.py:150).
SignalBarIsWhole ==
    market.sig # None => \A m \in blind : m \notin (market.sig.at - Width)..(market.sig.at - 1)

\* "Max trades/day per variant" (xsp_5_ema.py:14).
TradesCapped == \A s \in Strats : \A d \in 0..(Days - 1) :
    Len(SelectSeq(sent[s], LAMBDA t : t \div DayLen = d)) <= MaxTrades
=============================================================================
