---------------------------- MODULE OrderManager ----------------------------
(***************************************************************************)
(* The order life cycle of src/src/execution/order_manager.py, together    *)
(* with the parts of the broker client it depends on                       *)
(* (src/src/broker/ibkr_broker.py) and the exchange behind it.             *)
(*                                                                         *)
(* Everything runs in one asyncio loop, so a step of this module is the    *)
(* code between two suspension points.  Four kinds of task interleave:     *)
(*   - the tick of the runner's main loop (one at a time), which submits,  *)
(*     cancels and sweeps orders;                                          *)
(*   - one repricer task per submitted order (_run_repricer);              *)
(*   - the cancel tasks spawned for partially filled entries;              *)
(*   - the callbacks by which the broker client reports an order's status. *)
(*                                                                         *)
(* Prices, quotes and clocks are abstracted: whether a quote calls for a   *)
(* new price, and whether a timeout has passed, is a choice of the         *)
(* environment.  Quantities are kept.                                      *)
(***************************************************************************)
EXTENDS Naturals, Sequences

CONSTANTS
    Oid,          \* identities of OrderState objects (uuid4 in the code)
    None,         \* "no order": the value of an unset superseded_by
    Legs,         \* option contracts, each with at most one position
    Qty,          \* quantity of every intent
    MaxAttempts,  \* RepriceConfig.max_attempts
    InPlace,      \* RepriceConfig.use_in_place_modify
    MaxIntents,   \* bound: calls of submit_intent
    MaxKills,     \* bound: orders the exchange ends of its own accord
    MaxLost,      \* bound: status callbacks that never reach OrderManager
    MaxDrops      \* bound: losses of the broker connection

ASSUME OidAssumption == None \notin Oid
ASSUME QtyAssumption == Qty \in Nat \ {0}
ASSUME BoundAssumption ==
    /\ MaxAttempts \in Nat
    /\ InPlace \in BOOLEAN
    /\ MaxIntents \in Nat
    /\ MaxKills \in Nat
    /\ MaxLost \in Nat
    /\ MaxDrops \in Nat

VARIABLES
    orders,     \* OrderManager.orders (an "ABSENT" record is not in the dict)
    rejected,   \* OrderManager.broker_rejected_order_ids
    tick,       \* where the runner's tick is suspended, and on which order
    rep,        \* the repricer task of each submitted order
    tasks,      \* spawned cancel_order tasks
    exch,       \* the order at the exchange
    wire,       \* status reports on their way to the broker client
    cache,      \* the broker client's view of the order (ib.trades())
    connected,  \* broker.is_connected()
    budget      \* how much of each bound has been used

vars == <<orders, rejected, tick, rep, tasks, exch, wire, cache, connected, budget>>

-----------------------------------------------------------------------------
(* OrderStatus *)

Terminal == {"FILLED", "CANCELLED", "REJECTED", "ERROR"}
Cancellable == {"NEW", "RISK_CHECKED", "SUBMITTED", "PARTIALLY_FILLED"}
Active == Cancellable \cup {"CANCEL_PENDING"}
OrderStatus == Active \cup Terminal

Order == [status : OrderStatus \cup {"ABSENT"},
          qty    : 0 .. Qty,
          filled : 0 .. Qty,          \* filled_quantity
          sent   : BOOLEAN,           \* broker_order_id is set
          entry  : BOOLEAN,           \* is_entry
          leg    : Legs \cup {None},  \* contract; an exit's position_id
          hard   : BOOLEAN,           \* metadata["hard_cancel"]
          succ   : Oid \cup {None},   \* superseded_by
          ref    : Oid \cup {None}]   \* order_ref, carried along the chain

NoOrder == [status |-> "ABSENT", qty |-> 0, filled |-> 0, sent |-> FALSE,
            entry |-> FALSE, leg |-> None, hard |-> FALSE, succ |-> None, ref |-> None]

Report == [status : OrderStatus, filled : 0 .. Qty]

\* The exchange's side of an order: "new" until acknowledged.
Venue == [st     : {"none", "new", "working", "FILLED", "CANCELLED", "REJECTED"},
          filled : 0 .. Qty,
          req    : BOOLEAN]           \* a cancel request has reached it

Repricer == [pc   : {"off", "sleep", "quote", "cancel", "wait", "last", "done"},
             cur  : Oid \cup {None},  \* current_order_id
             att  : 0 .. MaxAttempts, \* attempts
             late : BOOLEAN]          \* elapsed >= timeout_seconds

Tick == [pc : {"idle", "run", "place", "cancel", "recancel"}, o : Oid \cup {None}]

Idle == [pc |-> "idle", o |-> None]
Run == [pc |-> "run", o |-> None]

Known(o) == orders[o].status # "ABSENT"
Live(o) == exch[o].st \in {"new", "working"}
Fresh == {o \in Oid : ~Known(o)}
NewId == CHOOSE o \in Fresh : TRUE

Init ==
    /\ orders = [o \in Oid |-> NoOrder]
    /\ rejected = {}
    /\ tick = Idle
    /\ rep = [o \in Oid |-> [pc |-> "off", cur |-> None, att |-> 0, late |-> FALSE]]
    /\ tasks = {}
    /\ exch = [o \in Oid |-> [st |-> "none", filled |-> 0, req |-> FALSE]]
    /\ wire = [o \in Oid |-> <<>>]
    /\ cache = [o \in Oid |-> [status |-> "NEW", filled |-> 0]]
    /\ connected = TRUE
    /\ budget = [intents |-> 0, kills |-> 0, lost |-> 0, drops |-> 0]

-----------------------------------------------------------------------------
(* OrderManager's synchronous code, as functions of one OrderState *)

\* Mutant: late reports overwrite a terminal status.
UpdatedAfterTerminal(ord, m) == [ord EXCEPT !.status = m.status, !.filled = m.filled]

\* _on_broker_order_update.  The reports a terminal order receives are
\* ignored; a reject that answers our own cancellation is a cancellation,
\* and leaves filled_quantity alone; a working status does not undo
\* CANCEL_PENDING.
Updated(ord, m) ==
    CASE ord.status \in Terminal -> ord
      [] ord.status = "CANCEL_PENDING" /\ m.status \in {"REJECTED", "ERROR"} ->
            [ord EXCEPT !.status = "CANCELLED"]
      [] ord.status = "CANCEL_PENDING" /\ m.status \in {"SUBMITTED", "PARTIALLY_FILLED", "NEW"} ->
            [ord EXCEPT !.filled = m.filled]
      [] OTHER -> [ord EXCEPT !.status = m.status, !.filled = m.filled]

\* Mutant: only rejections count.
FailClosedOnReject(ord, m) ==
    ord.status \notin Terminal \cup {"CANCEL_PENDING"} /\ m.status \in {"REJECTED", "ERROR"}

\* The broker ended an order nobody here had asked it to end.
FailClosed(ord, m) ==
    /\ ord.status \notin Terminal \cup {"CANCEL_PENDING"}
    /\ m.status \in {"CANCELLED", "REJECTED", "ERROR"}

\* The remainder of a partly filled entry is to be cancelled.
CancelsRemainder(ord, m) ==
    /\ ord.entry
    /\ ord.status \notin Terminal
    /\ Updated(ord, m).status = "PARTIALLY_FILLED"

\* Mutant: the order counts as cancelled before the broker has confirmed.
CancelRequestedOptimistically(ord, hard) ==
    IF ord.status \in Terminal THEN [ord EXCEPT !.hard = @ \/ hard]
    ELSE [ord EXCEPT !.hard = @ \/ hard, !.status = "CANCELLED"]

\* cancel_order up to its await: an order without a broker id is cancelled
\* on the spot.
CancelRequested(ord, hard) ==
    LET flagged == [ord EXCEPT !.hard = @ \/ hard] IN
    IF ord.status \in Terminal THEN flagged
    ELSE [flagged EXCEPT !.status = IF ord.sent THEN "CANCEL_PENDING" ELSE "CANCELLED"]

\* Mutants: the acknowledgement is not awaited; a hard cancel is overlooked.
ReplaceableUnconfirmed(ord) == ord.status \in {"CANCELLED", "CANCEL_PENDING"} /\ ~ord.hard
ReplaceableDespiteHard(ord) == ord.status = "CANCELLED"

\* The repricer may replace an order whose cancellation is confirmed and which
\* nobody has hard-cancelled.
Replaceable(ord) == ord.status = "CANCELLED" /\ ~ord.hard

AwaitsBroker(ord) == ord.status \notin Terminal /\ ord.sent

\* Mutant: what was filled during the cancellation is forgotten.
RemainingIgnoresFills(ord) == ord.qty

Remaining(ord) == ord.qty - ord.filled

\* Mutant: the wrong sign.
ReplacementAddsFills(ord) == [ord EXCEPT !.status = "NEW", !.qty = ord.qty + ord.filled,
                                         !.filled = 0, !.sent = FALSE, !.succ = None]

\* The replacement _run_repricer builds; it is NEW until the broker has it.
Replacement(ord) == [ord EXCEPT !.status = "NEW", !.qty = Remaining(ord), !.filled = 0,
                                !.sent = FALSE, !.hard = FALSE, !.succ = None]

-----------------------------------------------------------------------------
(* The broker client: place_order, cancel_order *)

\* place_order reaches the exchange and returns a NEW order, whose broker id
\* and status the caller stores; or it raises and the caller marks the order
\* ERROR.
Placed(ord) == [ord EXCEPT !.sent = TRUE, !.status = "NEW"]
AtExchange(o) == [exch EXCEPT ![o].st = "new"]
NotPlaced(ord) == [ord EXCEPT !.status = "ERROR"]

\* broker.cancel_order hands the request over: the client shows the order as
\* PendingCancel at once and reports that to OrderManager (if it is news).
BrokerCancelSent(o) ==
    LET m == [status |-> "CANCEL_PENDING", filled |-> cache[o].filled] IN
    /\ connected
    /\ exch' = [exch EXCEPT ![o].req = @ \/ Live(o)]
    /\ IF cache[o].status \in Terminal \cup {"CANCEL_PENDING"}
       THEN UNCHANGED <<cache, orders>>
       ELSE /\ cache' = [cache EXCEPT ![o] = m]
            /\ orders' = [orders EXCEPT ![o] = Updated(@, m)]

\* broker.cancel_order returns False: the order is not in the trades cache,
\* which can only be when the exchange is done with it.
BrokerCancelUnknown(o) ==
    /\ connected
    /\ ~Live(o)
    /\ UNCHANGED <<orders, exch, cache>>

\* broker.cancel_order raises; cancel_order turns that into ERROR.
BrokerCancelRaises(o) ==
    /\ ~connected
    /\ orders' = [orders EXCEPT ![o].status = "ERROR"]
    /\ UNCHANGED <<exch, cache>>

-----------------------------------------------------------------------------
(* The tick of the runner's main loop *)

\* _process_tick goes on only if the broker is connected when it starts.
TickBegin ==
    /\ tick = Idle
    /\ connected
    /\ tick' = Run
    /\ UNCHANGED <<orders, rejected, rep, tasks, exch, wire, cache, connected, budget>>

TickEnd ==
    /\ tick = Run
    /\ tick' = Idle
    /\ UNCHANGED <<orders, rejected, rep, tasks, exch, wire, cache, connected, budget>>

\* submit_intent raises on a second active order for the same position; an
\* entry has no position_id.
DuplicateExit(l) ==
    \E o \in Oid : ~orders[o].entry /\ orders[o].leg = l /\ orders[o].status \in Active

NewOrder(o, l, entry) ==
    [status |-> "RISK_CHECKED", qty |-> Qty, filled |-> 0, sent |-> FALSE, entry |-> entry,
     leg |-> l, hard |-> FALSE, succ |-> None, ref |-> o]

\* submit_intent up to the await of place_order (NEW, then RISK_CHECKED).
TickSubmit(l, entry) ==
    /\ tick = Run
    /\ budget.intents < MaxIntents
    /\ entry \/ ~DuplicateExit(l)
    /\ Fresh # {}
    /\ orders' = [orders EXCEPT ![NewId] = NewOrder(NewId, l, entry)]
    /\ tick' = [pc |-> "place", o |-> NewId]
    /\ budget' = [budget EXCEPT !.intents = @ + 1]
    /\ UNCHANGED <<rejected, rep, tasks, exch, wire, cache, connected>>

\* ... and after it: a repricer is spawned unless repricing is off for this
\* intent (reprice_config.enabled, emergency_flatten).
TickPlaced ==
    /\ tick.pc = "place"
    /\ connected
    /\ orders' = [orders EXCEPT ![tick.o] = Placed(@)]
    /\ exch' = AtExchange(tick.o)
    /\ \/ rep' = [rep EXCEPT ![tick.o] = [@ EXCEPT !.pc = "sleep", !.cur = tick.o]]
       \/ UNCHANGED rep
    /\ tick' = Run
    /\ UNCHANGED <<rejected, tasks, wire, cache, connected, budget>>

TickPlaceFails ==
    /\ tick.pc = "place"
    /\ orders' = [orders EXCEPT ![tick.o] = NotPlaced(@)]
    /\ tick' = Run
    /\ UNCHANGED <<rejected, rep, tasks, exch, wire, cache, connected, budget>>

\* cancel_order called by the tick: entry timeout, failed peer leg, system
\* lock, opposite order before an exit, or an operator's command on any order.
TickCancel(o) ==
    /\ tick = Run
    /\ Known(o)
    /\ orders' = [orders EXCEPT ![o] = CancelRequested(@, TRUE)]
    /\ tick' = IF AwaitsBroker(orders[o]) THEN [pc |-> "cancel", o |-> o] ELSE Run
    /\ UNCHANGED <<rejected, rep, tasks, exch, wire, cache, connected, budget>>

TickCancelReturns ==
    /\ tick.pc = "cancel"
    /\ \/ BrokerCancelSent(tick.o)
       \/ BrokerCancelUnknown(tick.o)
       \/ BrokerCancelRaises(tick.o)
    /\ tick' = Run
    /\ UNCHANGED <<rejected, rep, tasks, wire, connected, budget>>

\* resolve_stuck_cancels, for one order that has been CANCEL_PENDING for long
\* enough: get_order_status answers None when the client is disconnected, and
\* else what the trades cache holds, a complete fill before anything else.
\* Only the status is adopted.
CachedStatus(o) == IF cache[o].filled = orders[o].qty THEN "FILLED" ELSE cache[o].status

SweepUnknown(o) ==
    /\ ~connected
    /\ orders' = [orders EXCEPT ![o].status = "CANCELLED"]
    /\ UNCHANGED tick

\* Mutant: a confirmation the client has is not adopted.
SweepAdoptsNothing(o) == FALSE

SweepAdopts(o) ==
    /\ connected
    /\ CachedStatus(o) \in Terminal
    /\ orders' = [orders EXCEPT ![o].status = CachedStatus(o)]
    /\ UNCHANGED tick

SweepReissues(o) ==
    /\ connected
    /\ CachedStatus(o) \notin Terminal
    /\ tick' = [pc |-> "recancel", o |-> o]
    /\ UNCHANGED orders

TickSweep(o) ==
    /\ tick = Run
    /\ orders[o].status = "CANCEL_PENDING"
    /\ SweepUnknown(o) \/ SweepAdopts(o) \/ SweepReissues(o)
    /\ UNCHANGED <<rejected, rep, tasks, exch, wire, cache, connected, budget>>

\* The re-issued cancel goes straight to the broker: an exception is logged.
TickRecancelReturns ==
    /\ tick.pc = "recancel"
    /\ \/ BrokerCancelSent(tick.o)
       \/ BrokerCancelUnknown(tick.o)
       \/ ~connected /\ UNCHANGED <<orders, exch, cache>>
    /\ tick' = Run
    /\ UNCHANGED <<rejected, rep, tasks, wire, connected, budget>>

-----------------------------------------------------------------------------
(* _run_repricer: the task of the chain that the submitted order r started *)

RepCont(r, pc) == rep' = [rep EXCEPT ![r].pc = pc]

\* A modification or a replacement has been made, and the loop goes on with o.
RepAttempted(r, o, pc) ==
    rep' = [rep EXCEPT ![r] = [pc |-> pc, cur |-> o, att |-> rep[r].att + 1, late |-> rep[r].late]]

Cur(r) == orders[rep[r].cur]

\* Wall-clock time reaches start_time + timeout_seconds.
RepExpire(r) ==
    /\ rep[r].pc \notin {"off", "done"}
    /\ ~rep[r].late
    /\ rep' = [rep EXCEPT ![r].late = TRUE]
    /\ UNCHANGED <<orders, rejected, tick, tasks, exch, wire, cache, connected, budget>>

\* Mutant: no overall timeout.
RepSpentByAttempts(r) == rep[r].att >= MaxAttempts

RepSpent(r) == rep[r].late \/ rep[r].att >= MaxAttempts

\* After the sleep: the chain is over, ...
RepStop(r) ==
    /\ rep[r].pc = "sleep"
    /\ Cur(r).hard \/ Cur(r).status \in Terminal
    /\ RepCont(r, "done")
    /\ UNCHANGED <<orders, rejected, tick, tasks, exch, wire, cache, connected, budget>>

\* ... out of time or attempts, so the order is cancelled for good, ...
RepGiveUp(r) ==
    /\ rep[r].pc = "sleep"
    /\ ~Cur(r).hard /\ Cur(r).status \notin Terminal
    /\ RepSpent(r)
    /\ orders' = [orders EXCEPT ![rep[r].cur] = CancelRequested(@, TRUE)]
    /\ RepCont(r, IF AwaitsBroker(Cur(r)) THEN "last" ELSE "done")
    /\ UNCHANGED <<rejected, tick, tasks, exch, wire, cache, connected, budget>>

\* ... or it awaits a quote.
RepAwaitQuote(r) ==
    /\ rep[r].pc = "sleep"
    /\ ~Cur(r).hard /\ Cur(r).status \notin Terminal
    /\ ~RepSpent(r)
    /\ RepCont(r, "quote")
    /\ UNCHANGED <<orders, rejected, tick, tasks, exch, wire, cache, connected, budget>>

\* No quote, or no price worth a change.
RepNoChange(r) ==
    /\ rep[r].pc = "quote"
    /\ RepCont(r, "sleep")
    /\ UNCHANGED <<orders, rejected, tick, tasks, exch, wire, cache, connected, budget>>

RepNothingLeft(r) ==
    /\ rep[r].pc = "quote"
    /\ Remaining(Cur(r)) = 0
    /\ RepCont(r, "done")
    /\ UNCHANGED <<orders, rejected, tick, tasks, exch, wire, cache, connected, budget>>

\* modify_order refuses an order that is done or being cancelled.
CanModify(r) ==
    /\ InPlace
    /\ connected
    /\ cache[rep[r].cur].status \notin Terminal \cup {"CANCEL_PENDING"}

RepModify(r) ==
    /\ rep[r].pc = "quote"
    /\ Remaining(Cur(r)) > 0
    /\ CanModify(r)
    /\ RepAttempted(r, rep[r].cur, "sleep")
    /\ UNCHANGED <<orders, rejected, tick, tasks, exch, wire, cache, connected, budget>>

\* The fallback: a soft cancel.  On a terminal order cancel_order returns
\* False and the loop goes round.
RepCancel(r) ==
    /\ rep[r].pc = "quote"
    /\ Remaining(Cur(r)) > 0
    /\ ~CanModify(r)
    /\ IF Cur(r).hard
       THEN UNCHANGED orders /\ RepCont(r, "done")
       ELSE /\ orders' = [orders EXCEPT ![rep[r].cur] = CancelRequested(@, FALSE)]
            /\ RepCont(r, IF AwaitsBroker(Cur(r)) THEN "cancel" ELSE "sleep")
    /\ UNCHANGED <<rejected, tick, tasks, exch, wire, cache, connected, budget>>

RepCancelReturns(r) ==
    /\ rep[r].pc = "cancel"
    /\ \/ BrokerCancelSent(rep[r].cur) /\ RepCont(r, "wait")
       \/ BrokerCancelUnknown(rep[r].cur) /\ RepCont(r, "sleep")
       \/ BrokerCancelRaises(rep[r].cur) /\ RepCont(r, "sleep")
    /\ UNCHANGED <<rejected, tick, tasks, wire, connected, budget>>

RepLastReturns(r) ==
    /\ rep[r].pc = "last"
    /\ \/ BrokerCancelSent(rep[r].cur)
       \/ BrokerCancelUnknown(rep[r].cur)
       \/ BrokerCancelRaises(rep[r].cur)
    /\ RepCont(r, "done")
    /\ UNCHANGED <<rejected, tick, tasks, wire, connected, budget>>

\* The 0.1 s poll finds the cancellation unconfirmed at the timeout, or the
\* order ended otherwise, hard-cancelled, or filled in the meantime.
RepAbandon(r) ==
    /\ rep[r].pc = "wait"
    /\ IF Cur(r).status = "CANCEL_PENDING" THEN rep[r].late
       ELSE ~Replaceable(Cur(r)) \/ Remaining(Cur(r)) = 0
    /\ RepCont(r, "done")
    /\ UNCHANGED <<orders, rejected, tick, tasks, exch, wire, cache, connected, budget>>

\* Mutant: the chain link is not set.
SupersededUnlinked(o, new) == [orders EXCEPT ![NewId] = new]

\* superseded_by: the old order points to its replacement.
Superseded(o, new) == [orders EXCEPT ![NewId] = new, ![o].succ = NewId]

\* ... or confirmed: a replacement for what is left is linked to the chain and
\* placed.  place_order does not suspend here, since it qualified the contract
\* when it placed the chain's first order.
RepReplace(r) ==
    /\ rep[r].pc = "wait"
    /\ Replaceable(Cur(r))
    /\ Remaining(Cur(r)) > 0
    /\ Fresh # {}
    /\ \/ /\ connected
          /\ orders' = Superseded(rep[r].cur, Placed(Replacement(Cur(r))))
          /\ exch' = AtExchange(NewId)
          /\ RepAttempted(r, NewId, "sleep")
       \/ /\ orders' = Superseded(rep[r].cur, NotPlaced(Replacement(Cur(r))))
          /\ RepAttempted(r, rep[r].cur, "done")
          /\ UNCHANGED exch
    /\ UNCHANGED <<rejected, tick, tasks, wire, cache, connected, budget>>

-----------------------------------------------------------------------------
(* The cancel tasks spawned for partly filled entries *)

TaskStart(o) ==
    /\ <<o, "start">> \in tasks
    /\ orders' = [orders EXCEPT ![o] = CancelRequested(@, TRUE)]
    /\ tasks' = (tasks \ {<<o, "start">>})
                  \cup (IF AwaitsBroker(orders[o]) THEN {<<o, "broker">>} ELSE {})
    /\ UNCHANGED <<rejected, tick, rep, exch, wire, cache, connected, budget>>

TaskReturns(o) ==
    /\ <<o, "broker">> \in tasks
    /\ \/ BrokerCancelSent(o)
       \/ BrokerCancelUnknown(o)
       \/ BrokerCancelRaises(o)
    /\ tasks' = tasks \ {<<o, "broker">>}
    /\ UNCHANGED <<rejected, tick, rep, wire, connected, budget>>

-----------------------------------------------------------------------------
(* The broker client's callback, and the exchange *)

\* _on_order_status hands a report on only if the status differs from the
\* last one.
Deliver(o) ==
    /\ connected
    /\ wire[o] # <<>>
    /\ LET m == Head(wire[o])
           news == m.status # cache[o].status
       IN  /\ cache' = [cache EXCEPT ![o] = m]
           /\ orders' = IF news THEN [orders EXCEPT ![o] = Updated(@, m)] ELSE orders
           /\ rejected' = IF news /\ FailClosed(orders[o], m) THEN rejected \cup {o} ELSE rejected
           /\ tasks' = IF news /\ CancelsRemainder(orders[o], m)
                       THEN tasks \cup {<<o, "start">>} ELSE tasks
    /\ wire' = [wire EXCEPT ![o] = Tail(@)]
    /\ UNCHANGED <<tick, rep, exch, connected, budget>>

\* The confirmation that never arrives: the client knows, OrderManager does
\* not (the 2026-06-11 incident resolve_stuck_cancels was written for).
LoseCallback(o) ==
    /\ connected
    /\ wire[o] # <<>>
    /\ budget.lost < MaxLost
    /\ cache' = [cache EXCEPT ![o] = Head(wire[o])]
    /\ wire' = [wire EXCEPT ![o] = Tail(@)]
    /\ budget' = [budget EXCEPT !.lost = @ + 1]
    /\ UNCHANGED <<orders, rejected, tick, rep, tasks, exch, connected>>

Says(o, status, filled) ==
    wire' = [wire EXCEPT ![o] = Append(@, [status |-> status, filled |-> filled])]

ExchAck(o) ==
    /\ exch[o].st = "new"
    /\ exch' = [exch EXCEPT ![o].st = "working"]
    /\ Says(o, IF exch[o].filled = 0 THEN "SUBMITTED" ELSE "PARTIALLY_FILLED", exch[o].filled)
    /\ UNCHANGED <<orders, rejected, tick, rep, tasks, cache, connected, budget>>

ExchFill(o) ==
    /\ Live(o)
    /\ LET f == exch[o].filled + 1 IN
       /\ f <= orders[o].qty
       /\ exch' = [exch EXCEPT ![o].filled = f,
                               ![o].st = IF f = orders[o].qty THEN "FILLED" ELSE "working"]
       /\ Says(o, IF f = orders[o].qty THEN "FILLED" ELSE "PARTIALLY_FILLED", f)
    /\ UNCHANGED <<orders, rejected, tick, rep, tasks, cache, connected, budget>>

ExchCancel(o) ==
    /\ Live(o) /\ exch[o].req
    /\ exch' = [exch EXCEPT ![o].st = "CANCELLED"]
    /\ Says(o, "CANCELLED", exch[o].filled)
    /\ UNCHANGED <<orders, rejected, tick, rep, tasks, cache, connected, budget>>

\* "A late Cancelled callback racing with a fill confirmation": the cancel
\* request came after the last fill.
ExchLateCancel(o) ==
    /\ exch[o].st = "FILLED" /\ exch[o].req
    /\ exch' = [exch EXCEPT ![o].req = FALSE]
    /\ Says(o, "CANCELLED", exch[o].filled)
    /\ UNCHANGED <<orders, rejected, tick, rep, tasks, cache, connected, budget>>

\* A rejection, a cancellation nobody asked for, a modify that came too late.
ExchKill(o) ==
    /\ Live(o)
    /\ budget.kills < MaxKills
    /\ \E st \in {"CANCELLED", "REJECTED"} :
          /\ exch' = [exch EXCEPT ![o].st = st]
          /\ Says(o, st, exch[o].filled)
    /\ budget' = [budget EXCEPT !.kills = @ + 1]
    /\ UNCHANGED <<orders, rejected, tick, rep, tasks, cache, connected>>

Disconnect ==
    /\ connected
    /\ budget.drops < MaxDrops
    /\ connected' = FALSE
    /\ budget' = [budget EXCEPT !.drops = @ + 1]
    /\ UNCHANGED <<orders, rejected, tick, rep, tasks, exch, wire, cache>>

Reconnect ==
    /\ ~connected
    /\ connected' = TRUE
    /\ UNCHANGED <<orders, rejected, tick, rep, tasks, exch, wire, cache, budget>>

-----------------------------------------------------------------------------

TickStep ==
    \/ TickBegin \/ TickEnd
    \/ \E l \in Legs, entry \in BOOLEAN : TickSubmit(l, entry)
    \/ TickPlaced \/ TickPlaceFails
    \/ \E o \in Oid : TickCancel(o)
    \/ TickCancelReturns
    \/ \E o \in Oid : TickSweep(o)
    \/ TickRecancelReturns

RepStep(r) ==
    \/ RepExpire(r)
    \/ RepStop(r) \/ RepGiveUp(r) \/ RepAwaitQuote(r)
    \/ RepNoChange(r) \/ RepNothingLeft(r) \/ RepModify(r) \/ RepCancel(r)
    \/ RepCancelReturns(r) \/ RepLastReturns(r)
    \/ RepAbandon(r) \/ RepReplace(r)

TaskStep(o) == TaskStart(o) \/ TaskReturns(o)

ExchStep(o) == ExchAck(o) \/ ExchFill(o) \/ ExchCancel(o) \/ ExchLateCancel(o) \/ ExchKill(o)

Next ==
    \/ TickStep
    \/ \E r \in Oid : RepStep(r)
    \/ \E o \in Oid : TaskStep(o) \/ Deliver(o) \/ LoseCallback(o) \/ ExchStep(o)
    \/ Disconnect \/ Reconnect

Spec == Init /\ [][Next]_vars

(***************************************************************************)
(* Fairness.  The event loop resumes every task whose await has completed; *)
(* the tick runs every second and each tick runs the sweep, so an order    *)
(* that keeps being CANCEL_PENDING is swept again and again; the exchange  *)
(* answers, the connection comes back, and time passes.  Nothing makes the *)
(* tick submit or cancel an order, a quote call for a new price, or the    *)
(* exchange fill or end an order.                                          *)
(***************************************************************************)
TickReturns == TickPlaced \/ TickPlaceFails \/ TickCancelReturns \/ TickRecancelReturns
RepTurn(r) ==
    \/ RepStop(r) \/ RepGiveUp(r) \/ RepAwaitQuote(r)
    \/ RepNoChange(r) \/ RepNothingLeft(r) \/ RepModify(r) \/ RepCancel(r)
    \/ RepCancelReturns(r) \/ RepLastReturns(r)
    \/ RepAbandon(r) \/ RepReplace(r)

Fairness ==
    /\ WF_vars(TickBegin) /\ WF_vars(TickReturns) /\ WF_vars(Reconnect)
    /\ \A o \in Oid :
          /\ SF_vars(TickSweep(o))
          /\ WF_vars(RepExpire(o)) /\ WF_vars(RepTurn(o)) /\ WF_vars(TaskStep(o))
          /\ WF_vars(Deliver(o) \/ LoseCallback(o)) /\ WF_vars(ExchCancel(o))

FairSpec == Spec /\ Fairness

-----------------------------------------------------------------------------
(* Properties *)

TypeOK ==
    /\ orders \in [Oid -> Order]
    /\ rejected \subseteq Oid
    /\ tick \in Tick
    /\ rep \in [Oid -> Repricer]
    /\ tasks \subseteq Oid \X {"start", "broker"}
    /\ exch \in [Oid -> Venue]
    /\ wire \in [Oid -> Seq(Report)]
    /\ cache \in [Oid -> Report]
    /\ connected \in BOOLEAN
    /\ budget \in [intents : 0 .. MaxIntents, kills : 0 .. MaxKills,
                   lost : 0 .. MaxLost, drops : 0 .. MaxDrops]

\* An order is superseded at most once and a chain never forks: of the orders
\* carrying one order_ref only one has no successor, the one that multi-leg
\* coordination and the repricer take for the leg.
OneTailPerChain ==
    \A a, b \in Oid :
        /\ Known(a) /\ Known(b) /\ orders[a].ref = orders[b].ref
        /\ orders[a].succ = None /\ orders[b].succ = None
        => a = b

\* Cancel/replace never leaves two orders of one chain working at the
\* exchange, however late acknowledgements, fills and sweeps come.
OneLivePerChain ==
    \A a, b \in Oid :
        Live(a) /\ Live(b) /\ orders[a].ref = orders[b].ref => a = b

\* An order the manager holds for CANCELLED after sending it out cannot be
\* filled any more (the sweep: "nothing can fill us").
CancelledCannotFill ==
    \A o \in Oid : orders[o].sent /\ orders[o].status = "CANCELLED" => ~Live(o)

\* A terminal status is final: late reports, sweeps and returning broker calls
\* neither revive nor relabel an order.
TerminalIsFinal ==
    [][\A o \in Oid :
          orders[o].status \in Terminal => orders'[o].status = orders[o].status]_vars

\* A hard cancel wins over the repricer wherever it lands, also between the
\* confirmation of a soft cancel and the replacement.
HardCancelEndsChain ==
    [][\A o \in Oid : orders[o].hard => orders'[o].succ = orders[o].succ]_vars

\* Hard Rule 7: an order that goes from working to dead without a
\* cancellation of ours in between is queued for the fail-closed lock.
BrokerDeathReported ==
    [][\A o \in Oid :
          /\ orders[o].sent /\ orders[o].status \in Cancellable
          /\ orders'[o].status \in {"CANCELLED", "REJECTED"}
          => o \in rejected']_vars

\* P5-A4: "Multiple active orders for the same position_id are disallowed".
OneActiveExitPerPosition ==
    \A a, b \in Oid :
        /\ orders[a].status \in Active /\ orders[b].status \in Active
        /\ ~orders[a].entry /\ ~orders[b].entry
        /\ orders[a].leg = orders[b].leg
        => a = b

\* The 2026-06-11 incident: while the broker is connected, or once it is again, no order is stuck in
\* CANCEL_PENDING, even if the confirmation was lost.
StuckCancelsResolve ==
    \A o \in Oid :
        orders[o].status = "CANCEL_PENDING" ~> orders[o].status # "CANCEL_PENDING" \/ ~connected

\* Every repricer task ends, whatever the exchange and the tick do.
RepricersEnd == \A r \in Oid : rep[r].pc = "sleep" ~> rep[r].pc = "done"

\* The remainder of a partly filled entry does not stay in the market.
PartialEntryStopsWorking ==
    \A o \in Oid : orders[o].entry /\ orders[o].status = "PARTIALLY_FILLED" ~> ~Live(o)
=============================================================================
