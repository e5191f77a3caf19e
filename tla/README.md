# A TLA+ model of the execution system

This directory specifies, model-checks and partly proves the control logic of
the options execution system in `src/` (Python, one asyncio loop, Interactive
Brokers behind it). Paths below are relative to `src/src/` unless they start
with `src/`.

## 1. Inventory

The process is `ExecutionRunner` (`app/runner.py`): one asyncio event loop in
which a main loop ticks about once a second, a repricer task runs per working
order, cancel tasks are spawned for partly filled entries, and the broker
client calls back with order statuses and executions. Nothing is pre-empted:
state changes hands only at an `await`. That is why every action of the models
is the code between two suspension points. SQLite and a YAML file are written
beside it, some of it from worker threads; a dashboard process talks to the
runner through a command table.

| Component | State | Operations | Interacts with | What is hard | What makes it correct |
|---|---|---|---|---|---|
| `execution/order_manager.py` | orders, their statuses, fills, `superseded_by`, `hard_cancel`; `broker_rejected_order_ids` | submit, cancel, sweep of stuck cancels, status and fill callbacks, repricer | broker client, runner tick | four kinds of task on one order; late, swallowed and lost reports; a cancel that races a fill | a chain of replacements is one order: one tail, one live order, never over-filled; terminal is final; a hard cancel ends it; nothing hangs |
| `broker/ibkr_broker.py` | connection, trades cache, bid/ask cache, seen statuses | place, cancel, modify, queries, callbacks, reconnect | TWS, OrderManager, PositionManager | de-duplication of statuses, answers from a cache, retries that end | what it reports is what happened |
| runner: protect mode; `control/overrides.py` | `system_locked` in memory and in YAML, `_locked_by_disconnect`, rejected ids | lock by operator, reject, disconnect, reconciliation; unlock by operator or auto-resume | reconciliation, commands, broker | four reasons in one flag, provenance, saving, restart | no entry while any reason known to the tick stands; unlock only into a clean book |
| runner: multi-leg coordination | entry batches, `_asymmetric_exits` | timeouts, chain coordination, wait-until-flat, batch submission | OrderManager, PositionManager, exits | two repricers, fills and a tick that reads statuses in the middle of a replacement | a healthy leg never counts as failed; a truly failed leg leaves no naked peer; one entry at a time |
| `portfolio/position_manager.py`, `exit_manager.py`, runner's `_check_exits` | positions, exit rules, exit attempts, latches | fills, forced close, exit signals, exit submission with throttle | OrderManager, attribution | fills without a position, over-fills, growing positions under an exit | a position is closed once, by as much as it holds |
| `portfolio/reconciliation.py` | none (two books in, a report out) | reconcile | lock | transient differences | severe differences lock |
| `control/command_queue.py`, `_process_commands` of the runner, supervisor scripts | rows with status, two override files, the shutdown flag, stop event | enqueue, fetch, carry out, mark; start, supervise, stop | dashboard, runner | crash between effect and mark; ticks without a broker; scripts against a supervisor that relaunches | the last command of a kind wins; nothing acts twice; a shutdown is final |
| `storage/position_store.py`, runner's seeding | attribution rows | upsert (threads), seed, mark closed | PositionManager, broker | write order, stale rows after a crash, queries that fail | a restart re-seeds the true strategy |
| `storage/event_log.py` | queue, writer task | log, batch insert, flush, stop | everything | failure and cancellation of the writer | nothing logged is lost or duplicated |
| `risk/risk_engine.py`, `marketdata/data_quality.py` | none | evaluate | runner | boundaries, snapshot shared by a batch | limits hold for the batch |
| `marketdata/bars.py` | working and completed bar per symbol | tick, read | strategies, exits | reads that complete a bar | one bar per minute |
| strategies | day state, pending contexts | update, poll, collect exits | runner | contexts bound to the wrong position | one trade per signal |
| dashboard, CLI, analytics, replay | none of their own | read the database, enqueue | command table | - | not control logic |

`PROJECT.json` lists the same components with their status, and the hazards of
the code line by line.

## 2. The modules

```
SingleOrder   what a submitter may assume of an order (abstract)
     ^ refined by
OrderChains   the replacement chain as that order; NoOverfill
     | EXTENDS
OrderManager  orders, repricers, tasks, callbacks, client cache, exchange
     ^ EXTENDS                        ^ abstracted by its tails
OrderManagerProofs                    MultiLeg   ticks over chains; MCMultiLeg
MCOrderManager (EXTENDS OrderChains)  PositionBook  fills, positions, exits over chains; MCPositionBook, PositionBookProofs

SystemLock    protect mode
ControlPlane  command table, tick, override files, supervisor and scripts; MCControlPlane, ControlPlaneProofs
Attribution   whose position after a restart; MCAttribution, AttributionProofs
RiskGate      the way of a batch through the risk engine into the market; MCRiskGate
EventLog      the audit log's queue and writer; EventLogProofs
Bars          one-minute bars
     ^ EXTENDS
FiveEma       the 5 EMA strategies over the bars; MCFiveEma, FiveEmaProofs

RunnerProofs  theorems about the three models of the runner's tick: SystemLock, MultiLeg, RiskGate
SumProofs     the laws of sums over finite sets, for OrderManagerProofs, PositionBookProofs, AttributionProofs
```

The names of SystemLock, MultiLeg and RiskGate do not clash, so that RunnerProofs can
extend all three (`LockInit`, `LockSpec`; `LegInit`, `LegSpec`; `Init`, `Spec`).

### OrderManager

`orders` is the dictionary of the same name: a record per order with the fields
of `OrderState` that control depends on. `ref` is the `order_ref` that a chain
shares (the identity of the order `submit_intent` created), `succ` is
`superseded_by`, `hard` is `metadata["hard_cancel"]`, `sent` says that
`broker_order_id` is set.

| Actor | Variables | Actions |
|---|---|---|
| the tick | `tick` (what it awaits, and for which order) | `TickSubmit`, `TickPlaced`, `TickPlaceFails`: `submit_intent` up to and after `place_order`; `TickCancel`, `TickCancelReturns`: `cancel_order`; `TickSweep`, `TickRecancelReturns`: `resolve_stuck_cancels` |
| repricers | `rep` (program counter, `current_order_id`, `attempts`, timeout) | `RepStop` .. `RepReplace`: the loop of `_run_repricer`, one action per way a turn of it can go |
| spawned tasks | `tasks` | `TaskStart`, `TaskReturns` |
| the client | `wire`, `cache`, `connected` | `Deliver` (the callback chain `_on_order_status` -> `_on_broker_order_update`), `LoseCallback`, `Disconnect`, `Reconnect` |
| the exchange (external) | `exch` | `ExchAck`, `ExchFill`, `ExchCancel`, `ExchLateCancel`, `ExchKill` |

The synchronous code is kept as functions of one order (`Updated`,
`CancelRequested`, `Replacement`, `Remaining`, `FailClosed` ...), which both the
actions and the proofs use. Prices, quotes, algo and clocks are choices: a quote
may or may not call for a new price, a timeout may pass at any point. What is
kept of the client is what decides control: it reports a status only if it
differs from the last, `cancel_order` answers at once with its own
`CANCEL_PENDING`, a disconnected client answers `None` and raises, and
`modify_order` refuses finished orders.

`SingleOrder` is the promise to the submitter. `OrderChains` maps a chain onto
it (live if one of its orders is live, executed what they executed together, and
`hidden` once the exchange has refused an order of it after two executions);
`ImplementsSingleOrder` says that every step is a step of the single order or a
stutter. The order may be executed beyond its quantity only when `hidden`, which is
departure 1: the promise cannot be had without this exception.

### MultiLeg

The runner's tick over the replacement chains. By `OneTailPerChain` (proved, see
section 5) a chain has exactly one order that is not superseded, and the
coordination looks at nothing else; so a chain is represented by that order,
and what OrderManager does to it shrinks to the moves `RepSoftCancel`,
`RepReplace`, `RepGiveUp`, `RepStop`, `ReportStatus`, `CancelRemainder`. `pc`
says where the tick is suspended: before a cancel (`lock`, `timeouts`,
`coord`), at the strategies' poll, between two submissions, in the exits. The
loop over the batches suspends only at a failed leg with working peers; what
it does up to there is one step (`Coordinate`). `Qty` is a quantity per leg,
since the straddle sizes call and put each by its own margin.

- `seen` is `open_positions` as read before the loop over the batches; a
  position that opens during the awaits is not in it.
- `todo` pairs a chain with the number its tail had when the tick collected it:
  `chain_terminals` holds order objects, so a replacement made meanwhile is not
  the order that is cancelled.
- `flagged` is `_asymmetric_exits`. A position id that closes meanwhile matches
  nothing any more, so only open positions are kept.
- Positions and order statuses arrive in two reports. `ExecsFirst` says whether
  the execution always precedes the status; the runs whose property is about
  coordination use both, see the table.
- The exit flow is abstract: an exit order for the whole position that fills or
  ends without a fill. Its repricing and partial fills belong to PositionBook. Entries are not tied to clock windows, and nobody unlocks.

### PositionBook

One strategy and one contract: the book holds at most one open position, `pos`
(a closed one has `qty` 0; `id` is the `position_id`). `ord` lists the orders,
entries and exits, in the order of submission; each stands for a whole
replacement chain, which by `ImplementsSingleOrder` is one order to its
submitter. `st` is what OrderManager holds, `live` and `done` what the exchange
does, `told` how much of it `handle_fill` has seen.

| Code | Actions |
|---|---|
| `handle_fill` and the fill handler | `ReportExec`, with `Filled` (open, add, reduce, close and cut off) and `HandleFill` (exit rules re-applied on each fill) |
| `_check_exits` | `CheckFlat` (release of flags and latch), `CheckBegin` (who is eligible), the await of quotes, `Trigger` (exit signal past the throttle) or `NoExit`, `CancelOpposite` (one `cancel_order` at a time), `OppositesCancelled`, `SubmitExit` |
| commands, clock | `FlattenAll`, `FlagExit` (`exit_position`, and multi-leg coordination), `TimeUp`, `Elapse` (the throttle's 10 s and 60 s) |
| orders | `SubmitEntry` (wait until flat), `Withdraw` (any `cancel_order`), `SoftCancel` and `Replace` (the repricer), `ReportStatus` |
| the exchange (external) | `Execute`, `Expire` |

`intent.id` is the position the tick was eligible for when it suspended;
`intent.qty` is fixed when the signal is made and used after the cancels, as in
the code. `tries` and `since` are the position's entry of `_exit_attempts`; five
and more are one value, since the code compares with five. Stops, targets and
prices are a free choice of `Trigger`. `mode` is a setting that never changes: whether
orders are repriced by cancel/replace, and whether executions are reported
before statuses. The connection lasts, positions are all opened in this session,
and `force_close_position` is left out (only `manual_control.py` calls it, which
the runner does not use).

### SystemLock

The three places the lock lives in, each with the code that writes it: `locked`
(`OverrideManager.state`), `saved` (`configs/overrides.yaml`), `byDisc`
(`_locked_by_disconnect`). `place` runs through the main loop; it suspends only
between its actions, since both queries of a reconciliation are answered from
the client's caches. The check for rejects (`Manage`) and the reading of
the entry gate (`ReadGate`, `ManageCancelled`) are two steps, for timed-out
entries and peers are cancelled between them. `held`, `atBroker` and `stray` are as much of the two books
as reconciliation's verdict distinguishes (clean, warning, severe). `reasons`
is a history variable: why the system must be locked; `known` is what it was at
the tick's check. The code is judged against them and never reads them. `open`
is the lock as the tick's entry gate read it.

### ControlPlane

`table` is the table of commands (a row is its type and status, its number the
order of creation), `disk` the two files a start reads back (`overrides.yaml`,
`strategy_overrides.yaml`), `mem` what the process holds of them besides its
exit requests, the flatten latch and a pending fire. `pc` runs through a tick:
`Fetch` (`fetch_pending`, the oldest, at most `Limit`; `batch` is the set of
them, gone through by `Oldest`), `Effect` (the branch of `_process_commands`
for the type, with the save that may fail), `Conclude` (the mark, which may fail too; the next command of the batch or the rest of the
tick), `Poll` (strategies and exits act on what the commands left), `ProcessEnds`
(the stop event, or the periodic reconciliation that raises without a broker). A
crash loses `mem` and the batch, never a row. `link` says that the broker is
connected, or within reach of the next start: a tick without it returns before the
commands are read, and a start without it fails. `LinkChanges` takes it away and may
give it back.
`Relaunch`, `StartSystem`, `StopSystem` and `StopEnds` are `run_supervised.sh`,
`start_system.sh` and `stop_system.sh`; `flag` is the file
`data/.shutdown_requested`. What a lock or an exit means is the subject of
SystemLock and PositionBook; the commands that only touch those behave like
`pause` or `exit` here.

### Attribution

`rows` is the table `position_attribution`, `book` the positions of
PositionManager, `net` and `orders` what the broker has. A fill changes the book
at once (`HandleFill`) and hands the write to a thread: `writers` has the
writes under way by number, each of which reads the position when it runs
(`ReadPosition`) and commits later (`WriteRow`), in any order, or fails
(`WriteFails`); a commission report causes one more (`Commission`). A process
ends by `Crash` at any point or by `Stop`, which waits for nothing it spawned
(`Stopped`). `Restart` reads the broker's positions, `SeedContract` is one turn of
the seeding loop (from the rows, from the only row, or by a guess when none is
found), `Sweep` closes rows the broker knows nothing of, and `Begin` loads in the
first tick who has traded today. Every one of these queries and writes may fail
(`GivesUp`), and the code goes on with what it has: no rows, nobody, nothing
written. `MayEnter` is the gate, with the two ways around the traded-today check,
an entry fired by hand and `allow_reentry`. The providers' own once-a-day memories
are left out, so that more is entered here than in the code. `sound`, `lost`,
`blind` and `kept` are history: whether anything was lost that no row can say,
whether this process could load who has traded, and what the book was when the
last process ended with everything in agreement.

### RiskGate

`leg` says of each strategy and leg whether it has an order, a position or a
position that is being left. The tick is `Poll`, `Evaluate` for one leg after
the other, `Decide`, `Submit` for one leg after the other, `NextStrategy`;
between any two of these fills come in, because quotes and the broker are
awaited there. `Switches`, `Limits` and `Conditions` are the checks of
`RiskEngine.evaluate`, each a reason to refuse; `Snapshot` is the `SystemState`
the runner builds for them, with the fields it leaves at their defaults.
Overrides, exits and the cutoff change between ticks only, as in `_process_tick`.

### EventLog

Events are numbers in the order they were logged. `queue` is `_queue` with the
sentinel of `stop()`, `writer` the await the task `_drain_queue` is in, `batch`
what it writes, `tx` and `db` the rows inserted and committed. `Take` is the
`get()` together with the `get_nowait()` loop, which nothing can interrupt;
`DrainFrom` is `_drain_remaining`, which goes on to the next item that is not
the sentinel. Statements and commits run in aiosqlite's
thread, so a cancelled task does not stop the one under way: `Cancel` carries it
out and leaves the rest of that batch out.

### Bars and FiveEma

`Bars` is the builder of one symbol: `work` and `done` are `_working` and
`_completed`, `OnTick` the ticker callback, `Read` any of the reads, both of
which complete a working bar whose minute is over. A tick carries the time of
its arrival, so the branch for late ticks is never taken and is left out.

`FiveEma` is `strategies/xsp_5_ema.py`: `market` is the state its variants share
(average, next window, signal bar, trigger), `UpdatedMarket` the loop of
`_update_market_state` over the windows that have ended (a recursive function:
`Went` makes one round of it), with the live bar of the builder or the broker's
history; `own` is what each variant keeps (trades, the trigger used
up, the pending context, the context of its position). `Poll` and `CollectExits`
are the two calls of the runner, `Minute` the clock, `EntryFills`, `OrderEnds`,
`ExitFills` what happens to the order, `Restart` a new process that adopts what
is open. `get_historical_close` is awaited inside the loop, but it is asked of
windows that are closed, and nothing that runs meanwhile writes `market`, so it
is one step with its answer. Prices are levels, premiums twentieths of the
premium paid.

## 3. The runs

| Run | Question | Bounds and why they are enough |
|---|---|---|
| `om_chains` | Is a chain one order to its submitter, in every interleaving of tick, repricer, spawned tasks and reports? Type invariant, one tail, one live order, dead when cancelled, no over-fill unless a refusal hid executions, terminal is final, a hard cancel ends the chain, a broker-ended order is queued for the lock, and the refinement of SingleOrder. | One intent and one replacement, quantity 3 (the least in which two partial fills precede the end of an order: the second is the one the client swallows), two broker-ended orders (the replaced one and the replacement). Chains share no state but the tick, so a second chain adds interleavings of unrelated orders; a second replacement was run by hand. |
| `om_overfill` | Expected to find a violation: are all fills received during a cancellation counted, as the comment at `execution/order_manager.py:664` says? | Quantity 3, one replacement, one order ended by the broker: the least with departure 1. |
| `om_live` | Does nothing hang: stuck cancels, repricers? | In-place modification, one lost callback and one lost connection, which hits every await; fair. |
| `sl_locks` | Do human and reconciliation locks hold, is the gate shut for every reason known at the tick's check, is every unlock into a clean book, does a mere disconnect lock end? | Two contracts (a difference in quantity and one in existence are both possible), two changes of the broker's book, two rejects (one during the cancelling, or one between check and gate), two drops, one crash, one save for another reason; fair. |
| `ml_legs` | When a leg has truly failed, is every peer withdrawn or flagged in the end, unless the empty replacement of a leg that holds something passes for the failed one? | A straddle of two calls and one put (the least with a partial fill, on one side), one replacement per leg, submissions the broker refuses, executions before or after statuses; fair. |
| `ml_modify` | Does the second entry wait for the first? | Two entries; in-place modification, executions first. |
| `pb_book` | Is the book the broker's up to executions in flight, can exits only reduce, is the other side withdrawn before an exit can fill, is a position that must be closed tried again and again? | Two entries of quantity 2 and two exits: a second exit while the first is ending, a remainder that fills after the exit, a second position with an older exit behind it. In-place modification, executions first (otherwise departures 8 and 11); fair. |
| `at_owners` | Does a restart give positions back to the strategies that opened them, and never let one trade twice? | Two strategies that trade put and call, one buying with `allow_reentry` and one selling that may be fired by hand, two restarts (a crash while seeding and one after), one strategy taken from the configuration, three orders, one failed query or write. Two contracts are what one strategy's lookup can mistake, two sides what the broker's net quantity can. |
| `cp_commands` | Does the last command win, does each act once, is a shutdown final, is a fresh start fresh, does every command end while the broker is connected? | Three commands of six types, batches of two (a command behind another and one in the next batch), a crash or a lost connection at any point, two failing reads or writes (effect and mark of one command), one run of a script; fair. |
| `el_stop` | Is what was logged in the database after `stop()`, without gaps, with a bounded loss when writes fail? Does `stop()` return? | Nine events and batches of three: a full batch, one ended by the sentinel, events after the sentinel; three failing writes; fair. |
| `rk_limits` | How much can be held at most, and does an approval still stand when its legs are sent? | Three strategies selling a straddle each, limits of two: two batches that pass the same limits, exits between, one restart. |
| `fe_day` | Is there one bar per minute, is a position guarded by its own trigger, is a trigger used once? | A day of six windows, two levels, five ticks, one window late, one refused or cancelled entry, one restart; the trailing variant (it has all the code of the other but the target). |

Deadlock is checked unless the configuration says otherwise (the modules whose
bounds end everything that can happen: ControlPlane, Attribution, EventLog,
RiskGate). The counters in the guards (`budget`, `count`, `used`, `spent`) are
bounds of the instance, not of the code; each is named at its CONSTANT.

**Configurations run by hand.** They are kept for the same modules. These hold:
`om_partial` (the remainder of a partly filled entry stops working) and
`pb_rough` (`KeepsTrying` with cancel/replace and statuses first). `fe_day` also
holds for both variants together (`Strats <- Both`, `Trailing <- OneTrailing`,
`Premiums = {16}`, four minutes), `om_chains` with a replacement of a replacement
(`MaxAttempts = 2`, `MaxKills = 1`), `ml_legs` with an order ended by the broker
(`MaxKills = 1`), `at_owners` with a configuration that does not change, with no
strategy that re-enters and with both sides for both strategies, and `cp_commands`
with a crash and a lost connection in one behaviour. Adding them to the configuration of the same
module checks the type invariants that are not listed there, `OnlyEmptyLegFlattens`
(`ml_modify`), `SevereLocks` (`sl_locks`), `OwnerNeverChanges` (`at_owners`) and
`AllowedIsMost` (`rk_limits`). The others each find a violation, described in
section 4: `om_unknown_order`, `om_two_exits`, `sl_provenance`,
`sl_unsaved`, `sl_claims`, `ml_window`, `ml_twice`, `ml_partial`, `pb_window`,
`pb_claims`, `at_claims`, `cp_claims`, `el_cancel`, `rk_claims`, `fe_claims`. Where one lists several properties, each
of them is violated, and TLC stops at the first.

**Fairness.** `OrderManager!Fairness`: the event loop resumes a task whose await
has completed; a tick starts every second; each tick runs the sweep over all
orders, so an order that is CANCEL_PENDING again and again is swept (strong
fairness: the tick is away from the sweep most of the time); the exchange
answers cancel requests; a report reaches the client; the connection comes
back; time passes. Nothing makes the exchange fill, the tick submit or cancel,
or a quote call for a price. `SystemLock!LockFairSpec`: the loop turns, the
supervisor script relaunches the process, time passes; a connection need *not*
come back, since `_auto_reconnect` gives up. `MultiLeg!LegFairSpec`: the loop
ticks, and for each chain what is under way goes on, in any order: its tasks run,
reports arrive, cancels are confirmed (OrderManager's sweep sees to
it, `StuckCancelsResolve`); nothing need fill, no exit need succeed.
`PositionBook!FairSpec`: the loop ticks and time passes; strong fairness for a
wanted exit says that a quote is there in the end at some tick that needs one.
Nothing need fill and every submission may fail. `ControlPlane!FairSpec`: a live
process goes on with its tick and a supervisor relaunches it while there is a broker to
connect to; a lost connection need not come back (`CommandsEnd` says nothing of the time
without one), and nobody need enqueue, crash or run a script. `EventLog!FairSpec`: a task that can go on is
run, and `stop()` goes on when the writer has ended; a write may fail and
nothing need be logged.

## 4. Where the code departs from what it says

Each is a counterexample of a configuration named here, the first of a run of section 3
and the others run by hand, or was found by reading where that is said. The runs of
section 3 state what holds beside them.

1. `om_overfill` (`FillsDuringCancelCounted`): a reject that answers our own cancel is adopted without its
   filled quantity (`execution/order_manager.py:408-421`). Together with the
   client's swallowing of a second PARTIALLY_FILLED it makes the replacement too
   large, against the comment at line 664.
2. `om_unknown_order`: the sweep takes the `None` of a disconnected client for
   an order the broker does not know (line 345) and marks a live order
   CANCELLED.
3. `sl_provenance`: each tick without a connection stamps any lock with
   disconnect provenance, and auto-resume then lifts an operator's lock, against
   `app/runner.py:176-178`.
4. `sl_claims` (`LockedLoopRuns`): a reconciliation that falls due without a connection raises
   outside the tick's `try` and ends the main loop, against
   `src/docs/architecture.md:75-76`.
5. `ml_window`: in the up to 0.1 s between the confirmation of the repricer's
   cancel and `superseded_by`, a tick takes the leg for failed, against
   `src/docs/architecture.md:55-56`.
6. `ml_twice`: in the same window the strategy counts as flat and enters again
   (`app/runner.py:1119`, against "always wait until flat" at line 1109).
7. `ml_partial` (`EveryFailedBatchEndsFlat`): a partly filled chain whose replacement
   ends in ERROR counts as the failed leg; its own position is excluded and the peer
   that never filled is not looked at (`app/runner.py:979-986` and 1021, against
   `src/docs/architecture.md:56-57`).
8. `om_two_exits`: in the same window the duplicate check accepts a second exit
   and the replacement joins it (`execution/order_manager.py:134`, against
   `src/docs/assumptions.md:145`).
9. `sl_unsaved`: an operator's lock on a system that is already locked in
   memory only is not saved (`control/overrides.py:128`, against its docstring).
10. `sl_claims` (`WarningsDoNotLock`): the runner locks for what the engine calls a warning
    (`app/runner.py:468`, against `portfolio/reconciliation.py:240`).
11. `pb_window` with `Modes <- StatusFirst`: an exit order whose terminal status arrives before its last
   execution no longer counts as pending while the position is still open in the
   book; a second exit for the same quantity goes out and both together turn the
   position around (`app/runner.py:1415`, against "reduce-only exits",
   `src/docs/assumptions.md:152`). With its
   own modes `pb_window` shows the same as the consequence of departure 8.
12. `pb_claims` (`LatchedUntilFlat`): flatten_all given while an entry is working and nothing is open
   yet is released at the next check, and the entry fills (`app/runner.py:1436`,
   against `src/docs/RUNBOOK.md:44`, "latches until flat").
13. `pb_claims` (`TimeExitStands`): every fill re-applies the exit rules with its own time, a
   partial exit included, so a relative time exit that was due is moved
   `max_hold_seconds` into the future (`app/runner.py:1704`, against
   `src/strategies/shakeout_cycle.py:11`, "hold time per cycle").
14. `at_claims` (`NothingShadows`): seeding returns before the sweep of stale rows
    when the broker is flat (`app/runner.py:1773`), so rows left open by a crash
    shadow the next lookup of their contract, against the comment at line 1822.
15. `at_claims` (`RowsCatchUp`): two writes of one position finish in the order of
    their threads, not of its fills; the row of a closed position may stay open,
    without any failure (`app/runner.py:1708`), until the next start sweeps it.
16. `cp_claims` (`LatchHolds`): flatten_all is a latch in memory only; a restart releases it with
    the position still open (`app/runner.py:508-510`, against "latches until
    flat", `src/docs/RUNBOOK.md:44`).
17. `cp_claims` (`FiresNextTick`): a request to fire a paused strategy is kept and acted on when it is
    resumed, however much later (`app/runner.py:531`).
18. `cp_claims` (`RefusedChangesNothing`): an update of which one parameter is refused is marked failed with
    the others already applied in memory and not on disk (`app/runner.py:610`).
19. `cp_claims` (`StopStops`): `stop_system.sh` run while the supervisor waits to
    relaunch finds no runner and leaves the supervisor running
    (`src/scripts/stop_system.sh:2`). By reading only: `start_system.sh` run in
    the same five seconds starts a second supervisor, against "idempotent"
    (`src/scripts/start_system.sh:4`).
20. `cp_claims` (`StopTakesItsCommandBack`): when the runner crashes before it reads
    the shutdown command, the row stays pending and stops a later runner
    (`src/scripts/stop_system.sh:27`).
21. `el_cancel`: a cancelled writer drains the queue but loses the batch it was
    writing (`storage/event_log.py:209`).
22. `rk_claims` (`StrategyLossHolds`): the loss limit of a strategy refuses nothing,
    for the snapshot carries no P&L per strategy (`app/runner.py:1194`, against
    `src/configs/risk.yaml:2`).
23. `rk_claims` (`DailyLossHolds`): a loss realised before a restart, or by a part of
    a position still open, does not count towards the daily limit (against
    `src/docs/assumptions.md:110`).
24. `rk_claims` (`PositionsWithinLimit`): every leg of a batch is judged by the same
    snapshot, so a batch exceeds the limit on open positions by its legs
    (`risk/risk_engine.py:448`); `ExposureBounded` is the bound that does hold.
25. `fe_claims` (`EntersAtOnce`): a window without bar or history leaves the trigger
    of an earlier one in place, and a strategy that becomes free enters on it late
    (against `strategies/xsp_5_ema.py:112`).
26. `fe_claims` (`SignalBarIsWhole`): the builder counts as live for a window in
    which the feed was away for a time (against `strategies/xsp_5_ema.py:150`).
27. `fe_claims` (`TradesCapped`): a restart forgets the trades of the day (against
    `strategies/xsp_5_ema.py:14`).
28. `sl_claims` (`GateShutAtOnce`): a reject reported after the tick's check
    (`app/runner.py:885`) while timed-out entries or peers are being cancelled
    (lines 948 and 1001) does not shut the gate read at line 1072: strategies are
    polled and may enter once more (against "Hard Rule 7 fail-closed", line 884).
29. `at_claims` (`RestartProof`): when the strategies that have traded today cannot be
    loaded, the empty set stands for the rest of the day
    (`storage/position_store.py:271-273`, `app/runner.py:694-699`, against "One trade
    per day, restart-proof", line 1095).
30. `at_claims` (`RowsAreAuthoritative`): when the open rows of a contract cannot be
    looked up, seeding gives the whole position to a guessed owner
    (`storage/position_store.py:240-242`, against "AUTHORITATIVE attribution",
    `app/runner.py:1841`).
31. `cp_claims` (`TicksDrain`): a tick without a broker connection ends before it reads
    the commands, a shutdown or restart among them, and the reconnection gives up
    (`app/runner.py:1053-1060`, against "Runner drains this table every tick",
    `src/docs/DASHBOARD_API.md:380`).

## 5. Proofs

The theorems hold for every value of the constants: any number of orders and
legs, any quantity, any number of attempts, restarts and days, and of lost callbacks
and broker-ended orders where no hypothesis says otherwise. They assume the named
assumptions of the modules they are about; a theorem that holds under certain
circumstances only states them as its hypothesis, and the text below says why it cannot
do without. Every safety property a passing run checks is proved, and the refinement.

**OrderManagerProofs.** `TypeCorrect`, `OneTail` and `HardCancelWins` follow from
the inductive invariant `ChainInv`. `OneTailPerChain` is not inductive:
`RepReplace` appends to `current_order_id`, and if that order already had a
successor the chain would fork. `RepsAtTail` says that the repricer's current
order is the tail of the chain it was started for and that no two running
repricers share a chain; `RefsKnown` that the chain's name is an order of the
dictionary, so that a new order starts a new chain; `TickOrder` that an order
the tick is about to place is known and has no repricer yet; `AbsentUntouched`
and `UnplacedSilent` that nothing is on its way for an order that is not at the
exchange; `AttemptLeft` that a repricer waiting for its cancel has an attempt to
spend. The proof has one lemma per group of actions; all actions but three
change only statuses and are handled by `QuietStep`.

Under `MaxDrops = 0` (the connection lasts) `CancelInv` is
inductive beside `ChainInv`: a terminal status on the wire or in the client's
cache is the exchange's word (`TerminalReported`), so what OrderManager holds
for CANCELLED is dead there, and a superseded order is a confirmed one
(`SupersededCancelled`). It gives `CancelledIsDead`, `OneLive` and
`TerminalFinal`. The hypothesis is necessary: `om_unknown_order` shows the first
of them false with one drop.

`DeathsReported` needs no such hypothesis. Every cancellation of ours takes a
placed order to CANCEL_PENDING first, a failing broker call to ERROR, and the
sweep starts from CANCEL_PENDING; so only a report takes a working order to
CANCELLED or REJECTED, and the delivery that does queues it.

`NoChainOverfills` is about quantities, and these depend on what the reports say.
`CountInvariant` (`CountInv`) says that an order which OrderManager holds for
CANCELLED has exactly the `filled_quantity` the exchange executed, unless a refusal hid
executions of it (`CancelledCounted`, `HidesFills`),
because the report of an order's end carries all of it (`EndsInFull`) and because a
report that comes in its place, a refusal, brings no news (`WireFacts`, `UpToDate`).
`ChainsInvariant` gives each order of a chain a weight, what was executed if it has
been replaced and its whole quantity if it is the tail: together they weigh the
quantity of the submission, whoever replaces what (`ChainsWhole`), and executed is
at most that weight. `OneOrderPerIntent`, the refinement of SingleOrder, follows from
the same invariants: the tail is the only order that can be in the market, and what it
has left is what the chain has left (`TailLeft`), so the placing of the first order and
of a replacement is `Work`, an execution `Execute`, the exchange's end of an order
`Pull`, a refusal after two executions `Refuse`, and every other step changes nothing that can be seen from outside (`Unseen`).
All four are stated under `Faultless`: no callback is lost and the connection lasts,
without which a stale count is left behind. They hold for any quantity and any number of
orders the broker ends. Of a chain with an order that was refused after two executions
(`HidesFills`, departure 1) they promise no quantity, and once hidden always hidden: the
weights are followed for the other chains only.

**RunnerProofs**, *SystemLock.* `HumanLocks`, `GateShut` and `UnlocksClean` follow from
`LockInv`. An operator's lock would be lifted by auto-resume if it had
disconnect provenance, which no local fact excludes: `NoProvenance` says that
there is none before a connection or a process was lost (departure 3 shows what
happens then), `LockedForReason` that the lock stands for every reason but a
reject the tick has yet to see, `LockedWhileCancelling` that a tick which has seen
one is locked while it cancels, `NoneAtTheCheck` that a tick which is not locked knew of
no reason when it checked and that nothing but rejects has come since (departure 28),
`DownForgets` what a new process begins with.

*MultiLeg.* With orders that are modified in place (`MaxReprices = 0`) and executions
that precede statuses `LegInv` gives `OneEntryAtATime`. `ChainOk` says that a chain that
is over stays over and that nothing is left to be reported of it, `YoungestOnly` that
whatever is active or open belongs to the youngest batch: the gate alone says that of
the moment it is passed, and executions arrive later. Both hypotheses are necessary
(departure 6; with statuses first a strategy looks flat while an execution is on its
way).

*RiskGate.* `GateInv` gives `BoundedExposure` and `OnlyWhenAllowed`: what a leg
was approved on has to be carried through the fills and exits between its
evaluation and its submission, and what is held and still to be sent together
stay within the bound. The cardinalities are those of arbitrary finite sets of
strategies and legs.

**PositionBookProofs.** `TheBookIsTheBrokers`, `ExitsNeverTurnIt` and
`NothingWorksAgainstAnExit` follow from `IInv`, for any number of orders of any size.
`OneSide` says for orders modified in place that all working orders are on one side,
that of an exit under way and of the one about to be submitted; it is established by
the cancels before a submission and holds through them only because entries wait until
flat. Of a smooth market (in place, executions first: the condition both other
properties carry) `SmoothInv` says that the book is the sum of the executions handed
over (`Book = Told`). That is no fact about one handler: `handle_fill` cuts off what
closes more than is open, so at most one exit is unfinished and for no more than the
position has left (`ExitsClose`), entries that are active are on the position's side
(`EntriesOpen`), a position an exit is prepared for stays open and gets no other exit
(`Deciding`), and what is over has been handed over (`OverIsTold`).

**ControlPlaneProofs.** `ShutdownStands` follows from `FlagIsUp`: `_process_commands`
raises the flag before the mark, and only a script takes it down again. `StartIsFresh`
is a part of `StartedClean`, which adds what the step that fetches needs: no command
older than the start is pending or in the batch. `ActedOnce` follows from
`StopsOnce` and `FiresOnce`: a command that has acted is neither pending nor in the
batch nor waiting to be fired. `LastWordStands` is the hard one. Between effect,
save and mark a crash leaves a command that is pending and on disk, and a batch may
end in the middle. `WordInv` says, while no write has failed, that marks are made in
the order of the commands (`InOrder`) and that the files say what the marked
commands say, or these and the oldest one that is not marked (`DiskFollows`).

**AttributionProofs.** `AttTypes` and `OrdersInv` say what an order, a position, a row
and a write under way are and that an order belongs to at most one entry or exit of
this process. `OwnersStand` follows from `RowsInv`: the book, what a worker has read
and the row of one position name one strategy and one contract. `OnceADay` follows from `OnceInv`: as
long as nothing was lost, a strategy that has opened a position is named by an
execution on the wire, a write under way or a row, and what survives a process is
the row. An entry that has to be the first of its day is then not at the exchange,
whoever else was fired by hand or may re-enter; a process that could not load the rows
is the exception the property names (`blind`, departure 29). `ReasonsKept` follows from `ReasonInv`, and this from `SidesInv`: what closes
a position is its own exit, so the write with the reason is under way or done.
`SeededAsHeld` follows from `TodoInv`: while seeding, the book is empty of the contracts
still to come, so what one turn of the loop puts into it is all there is of the contract.
`OwnersRestored` follows from `KeptInv`, which spans two processes: a book left behind
that agreed with broker and rows (`Agrees`) goes on agreeing with them until somebody
trades or a query or write of the seeding fails (departure 30), and after each turn of the seeding loop the book is that book, restricted to the
contracts done (`Restored`), also when the seeding dies and is begun again. One turn
makes of the rows the positions they were written for (`SeedsAgain`): the broker's sum
has the side of its parts (`NetSide`), so each part gets the right one, and a single row
gets the broker's quantity, which is its own (`OnlyRow`).

**EventLogProofs.** `Flushed` and `WithoutGaps` follow from `FlowInv`: while no write
fails, what is committed, inserted, in the writer's hands and queued are four
adjacent intervals that make up all that was logged. `BoundedLoss` follows from
`LossInv`, which counts the events that are in none of these places against the
failures and the cancellation; `EndInv` says what is settled when the writer has
ended.

**FiveEmaProofs.** `OneBarPerMinute` follows from `BarInv` (completed bars are of
minutes that are over, the working bar is the youngest, the bars hold exactly the
minutes with a tick). `OwnTriggerGuards` follows from `CtxInv`: between entry and
the first look at the open position the trigger is only the pending one, so
`Matches` follows it from the order over the position without context to the
context. `EntersOnce` follows from `TrigInv`, with both of these beside it. What a
strategy remembers (`_consumed_bar_time`) is gone after a restart and at a new day, so
`TrigInv` says of each trigger sent on that it is `Recent`, of this day and not
younger than the one remembered, or `Old`: not younger than any tick the builder has
seen since, or than the day, and older than the signal bar and the trigger in the
market state. An old one cannot come back, because a signal bar needs a live bar
and the builder is live only for a window that begins after its first tick. The loop
is a recursive function of rounds; that it exists and that every round keeps
`GoodMarket` is shown by the least round that would not (`RunExists`, `LoopGood`).

Each invariant was checked by TLC on the instance of the run whose property it gives,
before it was proved.

**SumProofs and induction.** The library's induction theorems take the induction
hypothesis as an operator, which the installed provers cannot instantiate. Where numbers
are concerned the proofs use the least counterexample instead (`Least`, from `WFMin` and
the well-foundedness of the naturals), with the set of counterexamples as an ordinary
set; where finite sets are, a smallest subset (`Smallest`). In this way SumProofs shows
that the functions `MapThenSumSet` and `FoldSet` are defined by exist and give a sum
whatever order the elements are taken in, and its laws: taking one element out, changing one, adding two sums, comparing
them, leaving out what adds nothing.

**Only model-checked.** Liveness (under fairness the prover has no rule for it):
`StuckCancelsResolve`, `RepricersEnd`, `DisconnectLockClears`, `FailedBatchEndsFlat`,
`KeepsTrying`, `CommandsEnd`, `StopReturns`. Nothing is assumed of these.

## 6. Not modelled, and what could come next

- Runtime state snapshot (`storage`): one row overwritten per tick for the
  dashboard. Dashboard, CLI, analytics, replay, backfill: they read.
- Contract selection: a pure choice from a quoted chain.
- Mock broker: a test double; its behaviours are among those of the exchange.
- Validation of YAML, installation and logging.
- The strategies `xsp_breakout`, `xsp_breakout_late`, `xsp_short_straddle` and
  `shakeout_cycle`: they decide on prices and clock times, and what reaches the
  rest of the system is a signal like FiveEma's; `composite` only dispatches.
- `manual_control.py` and `force_close_position`: no command of the runner reaches
  them.
- Persisting bars and `chain_log.py`: appends to files whose failure is ignored.
- Fallbacks of the entry loop for missing quotes; the retry counter of the
  reconnection (abstracted to a connection that may stay away).
- P&L, prices and the Adaptive algo are data no property distinguishes, except
  where RiskGate sums results and FiveEma compares levels.

Next: the verdict of the reconciliation engine over two books as a function,
checked against a definition per contract; the refinement of SingleOrder by the
chains as MultiLeg and PositionBook use them, so that the abstraction of a chain by its
tail is a theorem and not an argument.
