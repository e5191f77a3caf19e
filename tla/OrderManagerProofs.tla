------------------------- MODULE OrderManagerProofs -------------------------
(***************************************************************************)
(* What holds of OrderManager for every number of orders, legs, attempts   *)
(* and faults.                                                             *)
(***************************************************************************)
EXTENDS OrderChains, SumProofs

Started(r) == rep[r].pc \notin {"off", "done"}

\* An order that is not in the dict has left no trace anywhere.
AbsentUntouched ==
    \A o \in Oid : ~Known(o) =>
        orders[o] = NoOrder /\ exch[o].st = "none" /\ rep[o].pc = "off"

\* An order that never reached the exchange has no reports and no tasks.
UnplacedSilent ==
    \A o \in Oid : exch[o].st = "none" =>
        wire[o] = <<>> /\ <<o, "start">> \notin tasks /\ <<o, "broker">> \notin tasks

\* The order a suspended tick is waiting for is in the dict; one that is being
\* placed has been seen by nobody else.
TickOrder ==
    /\ tick.pc \in {"place", "cancel", "recancel"} => tick.o \in Oid /\ Known(tick.o)
    /\ tick.pc = "place" =>
          /\ orders[tick.o].status = "RISK_CHECKED"
          /\ orders[tick.o].ref = tick.o
          /\ orders[tick.o].succ = None
          /\ ~orders[tick.o].sent
          /\ exch[tick.o].st = "none"
          /\ rep[tick.o].pc = "off"

\* order_ref names the first order of the chain.
RefsKnown == \A o \in Oid : Known(o) => orders[o].ref \in Oid /\ Known(orders[o].ref)

\* A repricer works on the tail of its own chain, which the broker has.
RepsAtTail ==
    \A r \in Oid : Started(r) =>
        /\ rep[r].cur \in Oid
        /\ Known(rep[r].cur)
        /\ orders[rep[r].cur].ref = r
        /\ orders[rep[r].cur].succ = None
        /\ orders[rep[r].cur].sent

\* An attempt is spent only after one was found to be left.
AttemptLeft ==
    \A r \in Oid : rep[r].pc \in {"quote", "cancel", "wait"} => rep[r].att < MaxAttempts

ChainInv ==
    /\ TypeOK
    /\ AbsentUntouched
    /\ UnplacedSilent
    /\ TickOrder
    /\ RefsKnown
    /\ RepsAtTail
    /\ AttemptLeft
    /\ OneTailPerChain

USE DEF Idle, Run

\* It holds of an empty dict.
LEMMA ChainInit == Init => ChainInv
<1> SUFFICES ASSUME Init PROVE ChainInv
  OBVIOUS
<1>1. TypeOK
  BY OidAssumption, QtyAssumption, BoundAssumption
  DEF Init, TypeOK, Order, NoOrder, OrderStatus, Active, Cancellable, Terminal, Tick, Repricer, Venue, Report
<1> QED
  BY <1>1 DEF Init, ChainInv, AbsentUntouched, UnplacedSilent, TickOrder, RefsKnown, RepsAtTail,
  AttemptLeft, OneTailPerChain, Known, NoOrder, Started

-----------------------------------------------------------------------------
(* The operators on one order.  Chain(ord) is what they leave alone. *)

SameChain(a, b) == a.ref = b.ref /\ a.succ = b.succ /\ a.sent = b.sent

\* What a report makes of an order (handle_order_update).
LEMMA UpdatedOrder ==
    ASSUME NEW ord \in Order, NEW m \in Report, ord.status # "ABSENT"
    PROVE  /\ Updated(ord, m) \in Order
           /\ Updated(ord, m).status # "ABSENT"
           /\ SameChain(Updated(ord, m), ord)
           /\ Updated(ord, m).hard = ord.hard
           /\ ord.status \in Terminal => Updated(ord, m) = ord
<1>1. /\ m.status \in OrderStatus /\ m.filled \in 0 .. Qty /\ "CANCELLED" \in OrderStatus
      /\ "ABSENT" \notin OrderStatus
  BY DEF Report, OrderStatus, Active, Cancellable, Terminal
<1>2. \/ Updated(ord, m) = ord
      \/ /\ ord.status \notin Terminal
         /\ \E st \in OrderStatus, n \in 0 .. Qty :
               Updated(ord, m) = [ord EXCEPT !.status = st, !.filled = n]
  <2>1. CASE ord.status \in Terminal
    <3>1. ord.status # "CANCEL_PENDING"
      BY <2>1 DEF Terminal
    <3>2. Updated(ord, m) = ord
      BY <2>1, <3>1 DEF Updated
    <3> QED
      BY <3>2
  <2>2. CASE ord.status \notin Terminal
    <3>1. ord.filled \in 0 .. Qty /\ ord.status \in OrderStatus
      BY DEF Order
    <3>2. \/ Updated(ord, m) = [ord EXCEPT !.status = "CANCELLED"]
          \/ Updated(ord, m) = [ord EXCEPT !.filled = m.filled]
          \/ Updated(ord, m) = [ord EXCEPT !.status = m.status, !.filled = m.filled]
      BY <2>2 DEF Updated
    <3>3. /\ [ord EXCEPT !.status = "CANCELLED"] = [ord EXCEPT !.status = "CANCELLED", !.filled = ord.filled]
          /\ [ord EXCEPT !.filled = m.filled] = [ord EXCEPT !.status = ord.status, !.filled = m.filled]
      BY DEF Order
    <3> QED
      BY <1>1, <2>2, <3>1, <3>2, <3>3
  <2> QED
    BY <2>1, <2>2
<1>3. ASSUME NEW st \in OrderStatus, NEW n \in 0 .. Qty
      PROVE  LET new == [ord EXCEPT !.status = st, !.filled = n] IN
             new \in Order /\ new.status = st /\ SameChain(new, ord) /\ new.hard = ord.hard
  BY DEF Order, SameChain
<1>4. CASE Updated(ord, m) = ord
  BY <1>4, Zenon DEF SameChain
<1>5. CASE /\ ord.status \notin Terminal
           /\ \E st \in OrderStatus, n \in 0 .. Qty :
                 Updated(ord, m) = [ord EXCEPT !.status = st, !.filled = n]
  <2>1. PICK st \in OrderStatus, n \in 0 .. Qty :
           Updated(ord, m) = [ord EXCEPT !.status = st, !.filled = n]
    BY <1>5
  <2>2. st # "ABSENT"
    BY <1>1
  <2> DEFINE new == [ord EXCEPT !.status = st, !.filled = n]
  <2>3. new \in Order /\ new.status = st /\ SameChain(new, ord) /\ new.hard = ord.hard
    BY <1>3
  <2> HIDE DEF new
  <2>4. Updated(ord, m) = new
    BY <2>1 DEF new
  <2> QED
    BY <1>5, <2>2, <2>3, <2>4
<1> QED
  BY <1>2, <1>4, <1>5

\* What a request to cancel makes of an order.
LEMMA CancelRequestedOrder ==
    ASSUME NEW ord \in Order, NEW hard \in BOOLEAN, ord.status # "ABSENT"
    PROVE  /\ CancelRequested(ord, hard) \in Order
           /\ CancelRequested(ord, hard).status # "ABSENT"
           /\ SameChain(CancelRequested(ord, hard), ord)
           /\ ord.hard => CancelRequested(ord, hard).hard
           /\ ord.status \in Terminal => CancelRequested(ord, hard).status = ord.status
           /\ CancelRequested(ord, hard).status = "CANCELLED" =>
                 ord.status = "CANCELLED" \/ ~ord.sent
<1> DEFINE flagged == [ord EXCEPT !.hard = ord.hard \/ hard]
<1>1. /\ flagged \in Order /\ flagged.status = ord.status /\ SameChain(flagged, ord)
      /\ (ord.hard => flagged.hard) /\ flagged.sent = ord.sent
  BY DEF Order, SameChain
<1>2. {"CANCEL_PENDING", "CANCELLED"} \subseteq OrderStatus /\ "ABSENT" \notin OrderStatus
  BY DEF OrderStatus, Active, Cancellable, Terminal
<1> HIDE DEF flagged
<1>3. ASSUME NEW st \in OrderStatus
      PROVE  LET new == [flagged EXCEPT !.status = st] IN
             new \in Order /\ new.status = st /\ SameChain(new, flagged) /\ new.hard = flagged.hard
  BY <1>1 DEF Order, SameChain
<1>4. CASE ord.status \in Terminal
  BY <1>1, <1>4 DEF CancelRequested, flagged
<1>5. CASE ord.status \notin Terminal
  <2>1. CancelRequested(ord, hard) = [flagged EXCEPT !.status = IF ord.sent THEN "CANCEL_PENDING" ELSE "CANCELLED"]
    BY <1>5 DEF CancelRequested, flagged
  <2>2. (IF ord.sent THEN "CANCEL_PENDING" ELSE "CANCELLED") \in OrderStatus
    BY <1>2
  <2> QED
    BY <1>1, <1>2, <1>3, <1>5, <2>1, <2>2 DEF SameChain
<1> QED
  BY <1>4, <1>5

\* What the answer to place_order makes of an order.
LEMMA PlacedOrder ==
    ASSUME NEW ord \in Order
    PROVE  /\ Placed(ord) \in Order /\ Placed(ord).status = "NEW" /\ Placed(ord).sent
           /\ Placed(ord).ref = ord.ref /\ Placed(ord).succ = ord.succ /\ Placed(ord).hard = ord.hard
           /\ NotPlaced(ord) \in Order /\ NotPlaced(ord).status = "ERROR"
           /\ SameChain(NotPlaced(ord), ord) /\ NotPlaced(ord).hard = ord.hard
BY DEF Placed, NotPlaced, Order, OrderStatus, Active, Cancellable, Terminal, SameChain

\* A replacement belongs to the chain and is its tail.
LEMMA ReplacementOrder ==
    ASSUME NEW ord \in Order, Remaining(ord) > 0
    PROVE  /\ Replacement(ord) \in Order
           /\ Replacement(ord).ref = ord.ref
           /\ Replacement(ord).succ = None
           /\ Replacement(ord).hard = FALSE
           /\ ~Replacement(ord).sent
<1>1. Remaining(ord) \in 0 .. Qty /\ 0 \in 0 .. Qty
  BY QtyAssumption DEF Remaining, Order
<1> QED
  BY <1>1 DEF Replacement, Order, OrderStatus, Active, Cancellable, Terminal

\* A new order has an identifier that no order has.
LEMMA FreshId ==
    ASSUME Fresh # {}
    PROVE  NewId \in Oid /\ ~Known(NewId)
BY DEF Fresh, NewId

\* Whichever way broker.cancel_order returns, it changes no chain.
BrokerCancels(o) == BrokerCancelSent(o) \/ BrokerCancelUnknown(o) \/ BrokerCancelRaises(o)

\* What the broker's side of a cancellation changes.
LEMMA BrokerCancelsOrder ==
    ASSUME TypeOK, NEW o \in Oid, Known(o), BrokerCancels(o)
    PROVE  /\ orders' \in [Oid -> Order] /\ exch' \in [Oid -> Venue] /\ cache' \in [Oid -> Report]
           /\ \A p \in Oid : /\ orders'[p].status = "ABSENT" <=> orders[p].status = "ABSENT"
                             /\ SameChain(orders'[p], orders[p])
                             /\ orders'[p].hard = orders[p].hard
                             /\ exch'[p].st = exch[p].st
                             /\ p # o => orders'[p] = orders[p]
<1> DEFINE m == [status |-> "CANCEL_PENDING", filled |-> cache[o].filled]
<1>1. m \in Report
  BY DEF TypeOK, Report, OrderStatus, Active
<1>2. CASE BrokerCancelSent(o)
  <2>1. exch' \in [Oid -> Venue] /\ \A p \in Oid : exch'[p].st = exch[p].st
    <3>1. PICK b \in BOOLEAN : exch' = [exch EXCEPT ![o].req = b]
      BY <1>2, Zenon DEF BrokerCancelSent
    <3> QED
      BY <3>1 DEF TypeOK, Venue
  <2>2. CASE UNCHANGED <<cache, orders>>
    BY <2>1, <2>2 DEF TypeOK, SameChain
  <2>3. CASE cache' = [cache EXCEPT ![o] = m] /\ orders' = [orders EXCEPT ![o] = Updated(@, m)]
    <3>1. orders \in [Oid -> Order] /\ cache \in [Oid -> Report] /\ orders[o] \in Order
      BY DEF TypeOK
    <3>2. /\ Updated(orders[o], m) \in Order /\ Updated(orders[o], m).status # "ABSENT"
          /\ SameChain(Updated(orders[o], m), orders[o]) /\ Updated(orders[o], m).hard = orders[o].hard
      BY <1>1, <3>1, UpdatedOrder DEF Known
    <3>3. \A p \in Oid : orders'[p] = IF p = o THEN Updated(orders[o], m) ELSE orders[p]
      BY <2>3, <3>1
    <3>4. orders' \in [Oid -> Order] /\ cache' \in [Oid -> Report]
      BY <1>1, <2>3, <3>1, <3>2
    <3> QED
      BY <2>1, <3>2, <3>3, <3>4 DEF SameChain, Known
  <2> QED
    BY <1>2, <2>2, <2>3 DEF BrokerCancelSent
<1>3. CASE BrokerCancelUnknown(o)
  BY <1>3 DEF BrokerCancelUnknown, TypeOK, SameChain
<1>4. CASE BrokerCancelRaises(o)
  <2> DEFINE failed == [orders[o] EXCEPT !.status = "ERROR"]
  <2>1. orders \in [Oid -> Order] /\ orders[o] \in Order /\ exch' = exch /\ cache' = cache
        /\ orders' = [orders EXCEPT ![o] = failed]
    BY <1>4 DEF BrokerCancelRaises, TypeOK
  <2>2. failed \in Order /\ failed.status = "ERROR" /\ SameChain(failed, orders[o])
        /\ failed.hard = orders[o].hard
    BY <2>1 DEF Order, OrderStatus, Terminal, SameChain
  <2> HIDE DEF failed
  <2>3. \A p \in Oid : orders'[p] = IF p = o THEN failed ELSE orders[p]
    BY <2>1
  <2>4. orders' \in [Oid -> Order] /\ exch' \in [Oid -> Venue] /\ cache' \in [Oid -> Report]
    BY <2>1, <2>2 DEF TypeOK
  <2> QED
    BY <2>1, <2>2, <2>3, <2>4 DEF SameChain, Known
<1> QED
  BY <1>2, <1>3, <1>4 DEF BrokerCancels

-----------------------------------------------------------------------------
(* Most steps are quiet: they add no order, extend no chain, and start no     *)
(* repricer.                                                                  *)

QuietOrders ==
    \A p \in Oid :
        /\ orders'[p].status = "ABSENT" <=> ~Known(p)
        /\ ~Known(p) => orders'[p] = orders[p]
        /\ SameChain(orders'[p], orders[p])

QuietVenue ==
    \A p \in Oid :
        /\ exch'[p].st = "none" <=> exch[p].st = "none"
        /\ exch[p].st = "none" => /\ wire'[p] = wire[p]
                                 /\ \A k : <<p, k>> \in tasks' => <<p, k>> \in tasks

QuietReps ==
    \A r \in Oid :
        /\ rep'[r].pc = "off" <=> rep[r].pc = "off"
        /\ rep'[r].pc \in {"off", "done"} \/ (Started(r) /\ rep'[r].cur = rep[r].cur)
        /\ rep'[r].pc \in {"quote", "cancel", "wait"} => rep'[r].att < MaxAttempts

QuietTick ==
    \/ tick' = tick /\ (tick.pc = "place" => orders'[tick.o] = orders[tick.o])
    \/ /\ tick'.pc # "place"
       /\ tick'.pc \in {"cancel", "recancel"} => tick'.o \in Oid /\ Known(tick'.o)

\* What a hard cancel promises of one step.
HardKept == \A o \in Oid : orders[o].hard => orders'[o].succ = orders[o].succ

\* A step that adds no order and moves no repricer keeps the invariant.
LEMMA QuietStep ==
    ASSUME ChainInv, TypeOK', QuietOrders, QuietVenue, QuietReps, QuietTick
    PROVE  ChainInv' /\ HardKept
<1>1. AbsentUntouched'
  BY DEF ChainInv, AbsentUntouched, QuietOrders, QuietVenue, QuietReps, Known
<1>2. UnplacedSilent'
  BY DEF ChainInv, UnplacedSilent, QuietVenue
<1>3. TickOrder'
  <2>1. CASE tick' = tick /\ (tick.pc = "place" => orders'[tick.o] = orders[tick.o])
    BY <2>1 DEF ChainInv, TickOrder, QuietOrders, QuietVenue, QuietReps, Known
  <2>2. CASE /\ tick'.pc # "place"
             /\ tick'.pc \in {"cancel", "recancel"} => tick'.o \in Oid /\ Known(tick'.o)
    BY <2>2 DEF TickOrder, QuietOrders, Known
  <2> QED
    BY <2>1, <2>2 DEF QuietTick
<1>4. RefsKnown'
  BY DEF ChainInv, RefsKnown, QuietOrders, SameChain, Known
<1>5. RepsAtTail'
  BY DEF ChainInv, RepsAtTail, QuietOrders, QuietReps, SameChain, Known, Started
<1>6. AttemptLeft'
  BY DEF AttemptLeft, QuietReps
<1>7. OneTailPerChain'
  BY DEF ChainInv, OneTailPerChain, QuietOrders, SameChain, Known
<1>8. HardKept
  BY DEF HardKept, QuietOrders, SameChain
<1> QED
  BY <1>1, <1>2, <1>3, <1>4, <1>5, <1>6, <1>7, <1>8 DEF ChainInv

\* A step that leaves the exchange's side alone, and one that leaves repricers alone.
LEMMA VenueUnchanged ==
    ASSUME UNCHANGED <<tasks, exch, wire>>
    PROVE  QuietVenue
BY DEF QuietVenue

\* A step without repricers is quiet for them.
LEMMA RepsUnchanged ==
    ASSUME ChainInv, UNCHANGED rep
    PROVE  QuietReps
BY DEF QuietReps, ChainInv, AttemptLeft, Started

\* The broker's side of a cancellation is quiet.
LEMMA BrokerCancelsQuiet ==
    ASSUME ChainInv, NEW o \in Oid, Known(o), BrokerCancels(o)
    PROVE  /\ orders' \in [Oid -> Order] /\ exch' \in [Oid -> Venue] /\ cache' \in [Oid -> Report]
           /\ QuietOrders
           /\ \A p \in Oid : exch'[p].st = exch[p].st
BY BrokerCancelsOrder DEF ChainInv, QuietOrders, Known

\* A step that gives one order of the dict another status is quiet.
LEMMA OneOrderQuiet ==
    ASSUME ChainInv, NEW o \in Oid, Known(o), NEW ord \in Order, ord.status # "ABSENT",
           SameChain(ord, orders[o]), orders' = [orders EXCEPT ![o] = ord]
    PROVE  orders' \in [Oid -> Order] /\ QuietOrders
BY DEF ChainInv, TypeOK, QuietOrders, SameChain, Known

\* A step that leaves the dict alone is quiet for it.
LEMMA OrdersUnchanged ==
    ASSUME UNCHANGED orders
    PROVE  QuietOrders
BY DEF QuietOrders, SameChain, Known

-----------------------------------------------------------------------------
(* The tick *)

\* A tick that records an order.
LEMMA ChainTickSubmit ==
    ASSUME ChainInv, NEW l \in Legs, NEW entry \in BOOLEAN, TickSubmit(l, entry)
    PROVE  ChainInv' /\ HardKept
<1> DEFINE n == NewId
           ord == NewOrder(n, l, entry)
<1>1. n \in Oid /\ ~Known(n)
  BY FreshId DEF TickSubmit
<1>2. /\ orders' = [orders EXCEPT ![n] = ord] /\ tick' = [pc |-> "place", o |-> n]
      /\ UNCHANGED <<rejected, rep, tasks, exch, wire, cache, connected>>
      /\ budget' = [budget EXCEPT !.intents = @ + 1] /\ budget.intents < MaxIntents
  BY DEF TickSubmit
<1>3. ord \in Order /\ ord.status = "RISK_CHECKED" /\ ord.ref = n /\ ord.succ = None /\ ~ord.sent
  <2>1. Qty \in 0 .. Qty /\ 0 \in 0 .. Qty
    BY QtyAssumption
  <2> QED
    BY <1>1, <2>1 DEF NewOrder, Order, OrderStatus, Active, Cancellable
<1> HIDE DEF n, ord
<1>4. TypeOK'
  <2>1. orders' \in [Oid -> Order] /\ tick' \in Tick
    BY <1>1, <1>2, <1>3 DEF ChainInv, TypeOK, Tick
  <2>2. budget' \in [intents : 0 .. MaxIntents, kills : 0 .. MaxKills,
                     lost : 0 .. MaxLost, drops : 0 .. MaxDrops]
    <3>1. budget.intents + 1 \in 0 .. MaxIntents
      BY <1>2, BoundAssumption DEF ChainInv, TypeOK
    <3> QED
      BY <1>2, <3>1 DEF ChainInv, TypeOK
  <2> QED
    BY <1>2, <2>1, <2>2 DEF ChainInv, TypeOK
<1>5. \A p \in Oid : p # n => orders'[p] = orders[p]
  BY <1>2 DEF ChainInv, TypeOK
<1>6. orders'[n] = ord /\ orders[n].status = "ABSENT"
  BY <1>1, <1>2 DEF ChainInv, TypeOK, Known
<1>7. AbsentUntouched' /\ UnplacedSilent'
  BY <1>1, <1>2, <1>3, <1>5, <1>6 DEF ChainInv, AbsentUntouched, UnplacedSilent, Known
<1>8. TickOrder'
  BY <1>1, <1>2, <1>3, <1>6 DEF ChainInv, AbsentUntouched, TickOrder, Known
<1>9. RefsKnown'
  BY <1>1, <1>3, <1>5, <1>6 DEF ChainInv, RefsKnown, Known
<1>10. RepsAtTail' /\ AttemptLeft'
  BY <1>1, <1>2, <1>3, <1>5, <1>6 DEF ChainInv, RepsAtTail, AttemptLeft, Started, Known
<1>11. OneTailPerChain'
  BY <1>1, <1>3, <1>5, <1>6 DEF ChainInv, RefsKnown, OneTailPerChain, Known
<1>12. HardKept
  BY <1>1, <1>5 DEF HardKept, ChainInv, AbsentUntouched, NoOrder
<1> QED
  BY <1>4, <1>7, <1>8, <1>9, <1>10, <1>11, <1>12 DEF ChainInv

\* A tick whose place_order returns.
LEMMA ChainTickPlaced ==
    ASSUME ChainInv, TickPlaced
    PROVE  ChainInv' /\ HardKept
<1> DEFINE o == tick.o
           started == [rep EXCEPT ![o] = [@ EXCEPT !.pc = "sleep", !.cur = o]]
<1>1. /\ o \in Oid /\ Known(o) /\ orders[o].ref = o /\ orders[o].succ = None
      /\ exch[o].st = "none" /\ rep[o].pc = "off" /\ orders[o].status = "RISK_CHECKED"
  BY DEF TickPlaced, ChainInv, TickOrder
<1>2. /\ orders' = [orders EXCEPT ![o] = Placed(@)] /\ exch' = [exch EXCEPT ![o].st = "new"]
      /\ rep' \in {rep, started} /\ tick' = Run
      /\ UNCHANGED <<rejected, tasks, wire, cache, connected, budget>>
  BY DEF TickPlaced, AtExchange
<1>3. /\ orders'[o] = Placed(orders[o]) /\ \A p \in Oid : p # o => orders'[p] = orders[p]
      /\ orders[o] \in Order
  BY <1>1, <1>2 DEF ChainInv, TypeOK
<1>4. /\ exch'[o].st = "new" /\ \A p \in Oid : p # o => exch'[p] = exch[p]
      /\ exch' \in [Oid -> Venue]
  <2>1. exch \in [Oid -> Venue] /\ exch[o] \in Venue
    BY <1>1 DEF ChainInv, TypeOK
  <2>2. [exch[o] EXCEPT !.st = "new"] \in Venue /\ [exch[o] EXCEPT !.st = "new"].st = "new"
    BY <2>1 DEF Venue
  <2> QED
    BY <1>1, <1>2, <2>1, <2>2
<1>5. /\ rep' \in [Oid -> Repricer] /\ \A p \in Oid : p # o => rep'[p] = rep[p]
      /\ rep'[o].pc \in {"off", "sleep"} /\ (rep'[o].pc = "sleep" => rep'[o].cur = o)
  <2>1. rep \in [Oid -> Repricer] /\ rep[o] \in Repricer
    BY <1>1 DEF ChainInv, TypeOK
  <2>2. CASE rep' = rep
    BY <1>1, <2>1, <2>2
  <2>3. CASE rep' = started
    <3> DEFINE asleep == [rep[o] EXCEPT !.pc = "sleep", !.cur = o]
    <3>1. asleep \in Repricer /\ asleep.pc = "sleep" /\ asleep.cur = o
      BY <1>1, <2>1 DEF Repricer
    <3>2. rep' = [rep EXCEPT ![o] = asleep]
      BY <2>3
    <3> HIDE DEF asleep, o
    <3> QED
      BY <1>1, <2>1, <3>1, <3>2
  <2> QED
    BY <1>2, <2>2, <2>3
<1> HIDE DEF o
<1>6. TypeOK'
  BY <1>1, <1>2, <1>3, <1>4, <1>5, PlacedOrder DEF ChainInv, TypeOK, Tick
<1>7. AbsentUntouched' /\ UnplacedSilent'
  BY <1>1, <1>2, <1>3, <1>4, <1>5, PlacedOrder DEF ChainInv, AbsentUntouched, UnplacedSilent, Known
<1>8. TickOrder'
  BY <1>2 DEF TickOrder
<1>9. RefsKnown' /\ OneTailPerChain'
  BY <1>1, <1>3, PlacedOrder DEF ChainInv, RefsKnown, OneTailPerChain, Known
<1>10. RepsAtTail' /\ AttemptLeft'
  BY <1>1, <1>3, <1>5, PlacedOrder DEF ChainInv, RepsAtTail, AttemptLeft, Started, Known
<1>11. HardKept
  BY <1>3, PlacedOrder DEF HardKept
<1> QED
  BY <1>6, <1>7, <1>8, <1>9, <1>10, <1>11 DEF ChainInv

\* The other steps of a tick.
LEMMA ChainTickOther ==
    ASSUME ChainInv,
           \/ TickBegin \/ TickEnd \/ TickPlaceFails \/ TickCancelReturns \/ TickRecancelReturns
           \/ \E o \in Oid : TickCancel(o) \/ TickSweep(o)
    PROVE  ChainInv' /\ HardKept
<1> USE DEF ChainInv
<1>1. CASE TickBegin \/ TickEnd
  <2>1. tick' \in {Idle, Run} /\ UNCHANGED <<orders, rejected, rep, tasks, exch, wire, cache, connected, budget>>
    BY <1>1 DEF TickBegin, TickEnd
  <2>2. TypeOK'
    BY <2>1 DEF TypeOK, Tick
  <2> QED
    BY <2>1, <2>2, QuietStep, VenueUnchanged, RepsUnchanged, OrdersUnchanged DEF QuietTick
<1>2. CASE TickPlaceFails
  <2>1. /\ tick.o \in Oid /\ Known(tick.o) /\ orders[tick.o] \in Order /\ tick' = Run
        /\ orders' = [orders EXCEPT ![tick.o] = NotPlaced(@)]
        /\ UNCHANGED <<rejected, rep, tasks, exch, wire, cache, connected, budget>>
    BY <1>2 DEF TickPlaceFails, TickOrder, TypeOK
  <2>2. orders' \in [Oid -> Order] /\ QuietOrders
    BY <2>1, PlacedOrder, OneOrderQuiet
  <2>3. TypeOK'
    BY <2>1, <2>2 DEF TypeOK, Tick
  <2> QED
    BY <2>1, <2>2, <2>3, QuietStep, VenueUnchanged, RepsUnchanged DEF QuietTick
<1>3. ASSUME NEW o \in Oid, TickCancel(o)
      PROVE  ChainInv' /\ HardKept
  <2>1. /\ Known(o) /\ orders[o] \in Order
        /\ tick' = [pc |-> "cancel", o |-> o] \/ tick' = Run
        /\ orders' = [orders EXCEPT ![o] = CancelRequested(@, TRUE)]
        /\ UNCHANGED <<rejected, rep, tasks, exch, wire, cache, connected, budget>>
    BY <1>3 DEF TickCancel, TypeOK
  <2>2. orders' \in [Oid -> Order] /\ QuietOrders
    BY <2>1, CancelRequestedOrder, OneOrderQuiet DEF Known
  <2>3. tick' \in Tick /\ QuietTick
    <3>1. CASE tick' = [pc |-> "cancel", o |-> o]
      BY <2>1, <3>1 DEF Tick, QuietTick
    <3>2. CASE tick' = Run
      BY <3>2 DEF Tick, QuietTick
    <3> QED
      BY <2>1, <3>1, <3>2
  <2>4. TypeOK'
    BY <2>1, <2>2, <2>3 DEF TypeOK
  <2> QED
    BY <2>1, <2>2, <2>3, <2>4, QuietStep, VenueUnchanged, RepsUnchanged
<1>4. CASE TickCancelReturns \/ TickRecancelReturns
  <2>1. /\ tick.o \in Oid /\ Known(tick.o) /\ tick' = Run
        /\ BrokerCancels(tick.o) \/ UNCHANGED <<orders, exch, cache>>
        /\ UNCHANGED <<rejected, rep, tasks, wire, connected, budget>>
    BY <1>4 DEF TickCancelReturns, TickRecancelReturns, BrokerCancels, TickOrder
  <2>2. /\ orders' \in [Oid -> Order] /\ exch' \in [Oid -> Venue] /\ cache' \in [Oid -> Report]
        /\ QuietOrders /\ QuietVenue
    BY <2>1, BrokerCancelsQuiet, OrdersUnchanged DEF TypeOK, QuietVenue
  <2>3. TypeOK'
    BY <2>1, <2>2 DEF TypeOK, Tick
  <2> QED
    BY <2>1, <2>2, <2>3, QuietStep, RepsUnchanged DEF QuietTick
<1>5. ASSUME NEW o \in Oid, TickSweep(o)
      PROVE  ChainInv' /\ HardKept
  <2>1. /\ Known(o) /\ orders[o] \in Order /\ CachedStatus(o) \in OrderStatus
        /\ UNCHANGED <<rejected, rep, tasks, exch, wire, cache, connected, budget>>
    BY <1>5 DEF TickSweep, TypeOK, Known, CachedStatus, Report, OrderStatus, Terminal
  <2>2. \/ /\ UNCHANGED tick
           /\ \E st \in {"CANCELLED", CachedStatus(o)} : orders' = [orders EXCEPT ![o].status = st]
        \/ tick' = [pc |-> "recancel", o |-> o] /\ UNCHANGED orders
    BY <1>5 DEF TickSweep, SweepUnknown, SweepAdopts, SweepReissues
  <2>3. CASE tick' = [pc |-> "recancel", o |-> o] /\ UNCHANGED orders
    <3>1. TypeOK'
      BY <2>1, <2>3 DEF TypeOK, Tick
    <3> QED
      BY <2>1, <2>3, <3>1, QuietStep, VenueUnchanged, RepsUnchanged, OrdersUnchanged DEF QuietTick
  <2>4. ASSUME UNCHANGED tick, NEW st \in {"CANCELLED", CachedStatus(o)},
               orders' = [orders EXCEPT ![o].status = st]
        PROVE  ChainInv' /\ HardKept
    <3>1. st \in OrderStatus
      BY <2>1, <2>4 DEF OrderStatus, Terminal
    <3> DEFINE ord == [orders[o] EXCEPT !.status = st]
    <3>2. ord \in Order /\ ord.status # "ABSENT" /\ SameChain(ord, orders[o])
      BY <2>1, <3>1 DEF Order, SameChain, OrderStatus, Active, Cancellable, Terminal
    <3>3. orders' = [orders EXCEPT ![o] = ord]
      BY <2>4
    <3>4. orders' \in [Oid -> Order] /\ QuietOrders
      BY <2>1, <3>2, <3>3, OneOrderQuiet
    <3>5. TypeOK'
      BY <2>1, <2>4, <3>4 DEF TypeOK
    <3>6. tick.pc # "place"
      BY <1>5 DEF TickSweep
    <3> QED
      BY <2>1, <2>4, <3>4, <3>5, <3>6, QuietStep, VenueUnchanged, RepsUnchanged DEF QuietTick
  <2> QED
    BY <2>2, <2>3, <2>4
<1> QED
  BY <1>1, <1>2, <1>3, <1>4, <1>5

\* Every step of a tick.
LEMMA ChainTick ==
    ASSUME ChainInv, TickStep
    PROVE  ChainInv' /\ HardKept
BY ChainTickSubmit, ChainTickPlaced, ChainTickOther DEF TickStep

-----------------------------------------------------------------------------
(* The repricers *)

\* A repricer that stays with its order moves quietly.
LEMMA RepMoves ==
    ASSUME ChainInv, NEW r \in Oid, Started(r), NEW v \in Repricer,
           rep' = [rep EXCEPT ![r] = v], v.cur = rep[r].cur, v.pc # "off",
           v.pc \in {"quote", "cancel", "wait"} => v.att < MaxAttempts
    PROVE  rep' \in [Oid -> Repricer] /\ QuietReps
BY DEF ChainInv, TypeOK, AttemptLeft, QuietReps, Started

\* The order of a running repricer is not the one the tick is placing.
LEMMA RepOrder ==
    ASSUME ChainInv, NEW r \in Oid, Started(r)
    PROVE  /\ rep[r] \in Repricer
           /\ rep[r].cur \in Oid /\ Known(rep[r].cur) /\ Cur(r) \in Order
           /\ tick.pc = "place" => tick.o # rep[r].cur
<1>1. rep[r] \in Repricer /\ rep[r].cur \in Oid /\ Known(rep[r].cur) /\ Cur(r) \in Order
  BY DEF ChainInv, TypeOK, RepsAtTail, Cur
<1>2. tick.pc = "place" => tick.o # rep[r].cur
  BY DEF ChainInv, RepsAtTail, TickOrder, Started
<1> QED
  BY <1>1, <1>2

\* Steps of a repricer that touch nothing but its own state.
RepAlone(r) ==
    \/ RepExpire(r) \/ RepStop(r) \/ RepAwaitQuote(r) \/ RepNoChange(r)
    \/ RepNothingLeft(r) \/ RepModify(r) \/ RepAbandon(r)

\* The steps of a repricer that touch no order.
LEMMA ChainRepAlone ==
    ASSUME ChainInv, NEW r \in Oid, RepAlone(r)
    PROVE  ChainInv' /\ HardKept
<1>1. Started(r) /\ UNCHANGED <<orders, rejected, tick, tasks, exch, wire, cache, connected, budget>>
  BY DEF RepAlone, RepExpire, RepStop, RepAwaitQuote, RepNoChange, RepNothingLeft, RepModify, RepAbandon, Started
<1>2. PICK v \in Repricer :
        /\ rep' = [rep EXCEPT ![r] = v] /\ v.cur = rep[r].cur /\ v.pc # "off"
        /\ v.pc \in {"quote", "cancel", "wait"} => v.att < MaxAttempts
  <2>1. rep[r] \in Repricer /\ (rep[r].pc \in {"quote", "cancel", "wait"} => rep[r].att < MaxAttempts)
    BY <1>1, RepOrder DEF ChainInv, AttemptLeft
  <2>2. CASE RepExpire(r)
    <3>1. [rep[r] EXCEPT !.late = TRUE] \in Repricer
      BY <2>1 DEF Repricer
    <3> QED
      BY <2>1, <2>2, <3>1 DEF RepExpire, Repricer
  <2>3. CASE RepStop(r) \/ RepNoChange(r) \/ RepNothingLeft(r) \/ RepAbandon(r)
    <3>1. PICK pc \in {"sleep", "done"} : rep' = [rep EXCEPT ![r].pc = pc]
      BY <2>3 DEF RepStop, RepNoChange, RepNothingLeft, RepAbandon, RepCont
    <3>2. [rep[r] EXCEPT !.pc = pc] \in Repricer
      BY <2>1 DEF Repricer
    <3> QED
      BY <2>1, <3>1, <3>2 DEF Repricer
  <2>4. CASE RepAwaitQuote(r)
    <3>1. rep' = [rep EXCEPT ![r].pc = "quote"] /\ rep[r].att < MaxAttempts
      BY <2>1, <2>4, BoundAssumption DEF RepAwaitQuote, RepCont, RepSpent, Repricer
    <3>2. [rep[r] EXCEPT !.pc = "quote"] \in Repricer
      BY <2>1 DEF Repricer
    <3> QED
      BY <2>1, <3>1, <3>2 DEF Repricer
  <2>5. CASE RepModify(r)
    <3> DEFINE v == [pc |-> "sleep", cur |-> rep[r].cur, att |-> rep[r].att + 1, late |-> rep[r].late]
    <3>1. rep[r].att + 1 \in 0 .. MaxAttempts
      BY <2>1, <2>5, BoundAssumption DEF RepModify, Repricer
    <3>2. v \in Repricer
      BY <2>1, <3>1 DEF Repricer
    <3>3. rep' = [rep EXCEPT ![r] = v]
      BY <2>5 DEF RepModify, RepAttempted
    <3> QED
      BY <3>2, <3>3
  <2> QED
    BY <2>2, <2>3, <2>4, <2>5 DEF RepAlone
<1>3. rep' \in [Oid -> Repricer] /\ QuietReps
  BY <1>1, <1>2, RepMoves
<1>4. TypeOK'
  BY <1>1, <1>3 DEF ChainInv, TypeOK
<1> QED
  BY <1>1, <1>3, <1>4, QuietStep, VenueUnchanged, OrdersUnchanged DEF QuietTick

\* Steps of a repricer that start or finish a call of cancel_order.
RepCancels(r) == RepGiveUp(r) \/ RepCancel(r) \/ RepCancelReturns(r) \/ RepLastReturns(r)

\* The steps of a repricer that cancel or replace.
LEMMA ChainRepCancels ==
    ASSUME ChainInv, NEW r \in Oid, RepCancels(r)
    PROVE  ChainInv' /\ HardKept
<1> DEFINE o == rep[r].cur
<1>1. Started(r) /\ UNCHANGED <<rejected, tick, tasks, wire, connected, budget>>
  BY DEF RepCancels, RepGiveUp, RepCancel, RepCancelReturns, RepLastReturns, Started
<1>2. /\ o \in Oid /\ Known(o) /\ orders[o] \in Order /\ (tick.pc = "place" => tick.o # o)
      /\ rep[r] \in Repricer
  BY <1>1, RepOrder DEF Cur
<1>3. PICK pc \in {"sleep", "cancel", "wait", "last", "done"} :
        /\ rep' = [rep EXCEPT ![r].pc = pc]
        /\ pc \in {"cancel", "wait"} => rep[r].pc \in {"quote", "cancel"}
  BY DEF RepCancels, RepGiveUp, RepCancel, RepCancelReturns, RepLastReturns, RepCont
<1>4. rep' \in [Oid -> Repricer] /\ QuietReps
  <2> DEFINE v == [rep[r] EXCEPT !.pc = pc]
  <2>1. v \in Repricer /\ v.cur = rep[r].cur /\ v.pc = pc /\ v.att = rep[r].att
    BY <1>2 DEF Repricer
  <2>2. v.pc \in {"quote", "cancel", "wait"} => v.att < MaxAttempts
    BY <1>3, <2>1 DEF ChainInv, AttemptLeft
  <2>3. rep' = [rep EXCEPT ![r] = v] /\ v.pc # "off"
    BY <1>3, <2>1
  <2> HIDE DEF v
  <2> QED
    BY <1>1, <2>1, <2>2, <2>3, RepMoves
<1>5. \/ BrokerCancels(o)
      \/ UNCHANGED <<exch, cache>> /\ UNCHANGED orders
      \/ UNCHANGED <<exch, cache>> /\ \E hard \in BOOLEAN : orders' = [orders EXCEPT ![o] = CancelRequested(@, hard)]
  BY DEF RepCancels, RepGiveUp, RepCancel, RepCancelReturns, RepLastReturns, BrokerCancels
<1> HIDE DEF o
<1>6. /\ orders' \in [Oid -> Order] /\ exch' \in [Oid -> Venue] /\ cache' \in [Oid -> Report]
      /\ QuietOrders /\ QuietVenue /\ \A p \in Oid : p # o => orders'[p] = orders[p]
  <2>1. CASE BrokerCancels(o)
    BY <1>1, <1>2, <2>1, BrokerCancelsQuiet, BrokerCancelsOrder DEF ChainInv, QuietVenue
  <2>2. CASE UNCHANGED <<exch, cache>> /\ UNCHANGED orders
    BY <1>1, <2>2, OrdersUnchanged, VenueUnchanged DEF ChainInv, TypeOK
  <2>3. ASSUME UNCHANGED <<exch, cache>>, NEW hard \in BOOLEAN,
               orders' = [orders EXCEPT ![o] = CancelRequested(@, hard)]
        PROVE  <1>6!:
    <3>1. orders' \in [Oid -> Order] /\ QuietOrders
      BY <1>2, <2>3, CancelRequestedOrder, OneOrderQuiet DEF Known
    <3> QED
      BY <1>1, <1>2, <2>3, <3>1, VenueUnchanged DEF ChainInv, TypeOK
  <2> QED
    BY <1>5, <2>1, <2>2, <2>3
<1>7. TypeOK'
  BY <1>1, <1>4, <1>6 DEF ChainInv, TypeOK
<1>8. QuietTick
  BY <1>1, <1>2, <1>6 DEF ChainInv, TickOrder, QuietTick
<1> QED
  BY <1>4, <1>6, <1>7, <1>8, QuietStep

\* The replacement becomes the one tail of its chain, and the repricer moves on
\* to it.
LEMMA ChainRepReplace ==
    ASSUME ChainInv, NEW r \in Oid, RepReplace(r)
    PROVE  ChainInv' /\ HardKept
<1> DEFINE o == rep[r].cur
           n == NewId
           linked == [orders[o] EXCEPT !.succ = n]
<1>1. /\ Started(r) /\ Remaining(orders[o]) > 0 /\ rep[r].pc = "wait"
      /\ UNCHANGED <<rejected, tick, tasks, wire, cache, connected, budget>>
  BY DEF RepReplace, Started, Cur
<1>2. /\ o \in Oid /\ Known(o) /\ orders[o] \in Order /\ orders[o].ref = r /\ orders[o].succ = None
      /\ orders[o].sent
  BY <1>1 DEF ChainInv, TypeOK, RepsAtTail
<1>3. n \in Oid /\ ~Known(n) /\ n # o /\ n # r
  BY <1>1, <1>2, FreshId DEF RepReplace, ChainInv, RefsKnown
<1>4. PICK new \in Order :
        /\ orders' = [orders EXCEPT ![n] = new, ![o].succ = n]
        /\ new.status # "ABSENT" /\ new.ref = r /\ new.succ = None
        /\ \/ /\ exch' = [exch EXCEPT ![n].st = "new"] /\ new.sent
              /\ RepAttempted(r, n, "sleep")
           \/ exch' = exch /\ RepAttempted(r, o, "done")
  <2> DEFINE replacement == Replacement(orders[o])
  <2>1. replacement \in Order /\ replacement.ref = r /\ replacement.succ = None
    BY <1>1, <1>2, ReplacementOrder
  <2> HIDE DEF replacement
  <2>2. /\ Placed(replacement) \in Order /\ Placed(replacement).status # "ABSENT" /\ Placed(replacement).sent
        /\ Placed(replacement).ref = r /\ Placed(replacement).succ = None
        /\ NotPlaced(replacement) \in Order /\ NotPlaced(replacement).status # "ABSENT"
        /\ NotPlaced(replacement).ref = r /\ NotPlaced(replacement).succ = None
    BY <2>1, PlacedOrder DEF SameChain
  <2> QED
    BY <2>2 DEF RepReplace, Superseded, AtExchange, Cur, replacement
<1> HIDE DEF n, o
<1>5. linked \in Order /\ linked.status = orders[o].status /\ linked.ref = r /\ linked.succ = n
  BY <1>2, <1>3 DEF Order
<1>6. /\ orders' \in [Oid -> Order] /\ orders'[n] = new /\ orders'[o] = linked
      /\ \A p \in Oid : p # n /\ p # o => orders'[p] = orders[p]
  BY <1>2, <1>3, <1>4, <1>5 DEF ChainInv, TypeOK
<1>7. exch' \in [Oid -> Venue] /\ \A p \in Oid : p # n => exch'[p] = exch[p]
  <2>1. CASE exch' = exch
    BY <2>1 DEF ChainInv, TypeOK
  <2>2. CASE exch' = [exch EXCEPT ![n].st = "new"]
    BY <1>3, <2>2 DEF ChainInv, TypeOK, Venue
  <2> QED
    BY <1>4, <2>1, <2>2
<1>8. /\ rep' \in [Oid -> Repricer] /\ \A p \in Oid : p # r => rep'[p] = rep[p]
      /\ \/ rep'[r].pc = "sleep" /\ rep'[r].cur = n /\ new.sent
         \/ rep'[r].pc = "done"
  <2>1. rep[r] \in Repricer /\ rep[r].att + 1 \in 0 .. MaxAttempts
    BY <1>1, BoundAssumption DEF ChainInv, TypeOK, AttemptLeft, Repricer
  <2> DEFINE v(c, pc) == [pc |-> pc, cur |-> c, att |-> rep[r].att + 1, late |-> rep[r].late]
  <2>2. v(n, "sleep") \in Repricer /\ v(o, "done") \in Repricer
    BY <1>2, <1>3, <2>1 DEF Repricer
  <2>3. \/ rep' = [rep EXCEPT ![r] = v(n, "sleep")] /\ new.sent
        \/ rep' = [rep EXCEPT ![r] = v(o, "done")]
    BY <1>4 DEF RepAttempted
  <2>4. CASE rep' = [rep EXCEPT ![r] = v(n, "sleep")] /\ new.sent
    BY <2>2, <2>4 DEF ChainInv, TypeOK
  <2>5. CASE rep' = [rep EXCEPT ![r] = v(o, "done")]
    BY <2>2, <2>5 DEF ChainInv, TypeOK
  <2> QED
    BY <2>3, <2>4, <2>5
<1> HIDE DEF linked
<1>9. TypeOK'
  BY <1>1, <1>6, <1>7, <1>8 DEF ChainInv, TypeOK
<1>10. AbsentUntouched' /\ UnplacedSilent'
  BY <1>1, <1>2, <1>3, <1>4, <1>5, <1>6, <1>7, <1>8
  DEF ChainInv, AbsentUntouched, UnplacedSilent, Known, Started
<1>11. TickOrder'
  <2>1. tick.pc \in {"place", "cancel", "recancel"} => tick.o \in Oid /\ Known(tick.o) /\ tick.o # n
    BY <1>3 DEF ChainInv, TickOrder
  <2>2. tick.pc = "place" => tick.o # o /\ tick.o # r
    BY <1>1, <1>2 DEF ChainInv, TickOrder, Started
  <2> QED
    BY <1>1, <1>2, <1>5, <1>6, <1>7, <1>8, <2>1, <2>2 DEF ChainInv, TickOrder, Known
<1>12. RefsKnown'
  BY <1>2, <1>3, <1>4, <1>5, <1>6 DEF ChainInv, RefsKnown, Known
<1>13. RepsAtTail'
  <2>1. \A q \in Oid : q # r /\ Started(q) => rep[q].cur # o /\ rep[q].cur # n
    BY <1>1, <1>2, <1>3 DEF ChainInv, RepsAtTail
  <2> QED
    BY <1>3, <1>4, <1>6, <1>8, <2>1 DEF ChainInv, RepsAtTail, Started, Known
<1>14. AttemptLeft'
  BY <1>8 DEF ChainInv, AttemptLeft
<1>15. OneTailPerChain'
  BY <1>2, <1>3, <1>4, <1>5, <1>6, OidAssumption DEF ChainInv, OneTailPerChain, RefsKnown, Known
<1>16. HardKept
  <2>1. ~orders[n].hard
    BY <1>3 DEF ChainInv, AbsentUntouched, NoOrder
  <2>2. ~orders[o].hard
    BY DEF RepReplace, Replaceable, Cur, o
  <2> QED
    BY <1>6, <2>1, <2>2 DEF HardKept
<1> QED
  BY <1>9, <1>10, <1>11, <1>12, <1>13, <1>14, <1>15, <1>16 DEF ChainInv

\* Every step of a repricer.
LEMMA ChainRep ==
    ASSUME ChainInv, NEW r \in Oid, RepStep(r)
    PROVE  ChainInv' /\ HardKept
BY ChainRepAlone, ChainRepCancels, ChainRepReplace DEF RepStep, RepAlone, RepCancels

-----------------------------------------------------------------------------
(* Cancel tasks, deliveries, and the exchange *)

\* Every step of a spawned task.
LEMMA ChainTask ==
    ASSUME ChainInv, NEW o \in Oid, TaskStep(o)
    PROVE  ChainInv' /\ HardKept
<1>1. /\ exch[o].st # "none" /\ Known(o) /\ orders[o] \in Order /\ (tick.pc = "place" => tick.o # o)
      /\ UNCHANGED <<rejected, tick, rep, wire, connected, budget>>
  BY DEF TaskStep, TaskStart, TaskReturns, ChainInv, TypeOK, UnplacedSilent, AbsentUntouched, TickOrder
<1>2. tasks' \subseteq tasks \cup {<<o, "broker">>}
  BY DEF TaskStep, TaskStart, TaskReturns
<1>3. /\ orders' \in [Oid -> Order] /\ exch' \in [Oid -> Venue] /\ cache' \in [Oid -> Report]
      /\ QuietOrders /\ (\A p \in Oid : exch'[p].st = exch[p].st)
      /\ \A p \in Oid : p # o => orders'[p] = orders[p]
  <2>1. CASE TaskStart(o)
    <3>1. orders' = [orders EXCEPT ![o] = CancelRequested(@, TRUE)] /\ UNCHANGED <<exch, cache>>
      BY <2>1 DEF TaskStart
    <3>2. orders' \in [Oid -> Order] /\ QuietOrders
      BY <1>1, <3>1, CancelRequestedOrder, OneOrderQuiet DEF Known
    <3> QED
      BY <3>1, <3>2 DEF ChainInv, TypeOK
  <2>2. CASE TaskReturns(o)
    <3>1. BrokerCancels(o)
      BY <2>2 DEF TaskReturns, BrokerCancels
    <3> QED
      BY <1>1, <3>1, BrokerCancelsQuiet, BrokerCancelsOrder DEF ChainInv
  <2> QED
    BY <2>1, <2>2 DEF TaskStep
<1>4. QuietVenue
  BY <1>1, <1>2, <1>3 DEF QuietVenue
<1>5. TypeOK'
  BY <1>1, <1>2, <1>3 DEF ChainInv, TypeOK
<1>6. QuietTick
  BY <1>1, <1>3 DEF ChainInv, TickOrder, QuietTick
<1> QED
  BY <1>1, <1>3, <1>4, <1>5, <1>6, QuietStep, RepsUnchanged

\* Every report that is delivered or lost.
LEMMA ChainDelivery ==
    ASSUME ChainInv, NEW o \in Oid, Deliver(o) \/ LoseCallback(o)
    PROVE  ChainInv' /\ HardKept
<1> DEFINE m == Head(wire[o])
<1>1. /\ wire[o] # <<>> /\ exch[o].st # "none" /\ Known(o) /\ orders[o] \in Order
      /\ (tick.pc = "place" => tick.o # o)
      /\ UNCHANGED <<tick, rep, exch, connected>>
  BY DEF Deliver, LoseCallback, ChainInv, TypeOK, UnplacedSilent, AbsentUntouched, TickOrder
<1>2. m \in Report /\ Tail(wire[o]) \in Seq(Report) /\ wire' = [wire EXCEPT ![o] = Tail(@)]
      /\ cache' = [cache EXCEPT ![o] = m]
  <2>1. wire[o] \in Seq(Report) /\ wire[o] # <<>>
    BY <1>1 DEF ChainInv, TypeOK
  <2> QED
    BY <2>1 DEF Deliver, LoseCallback
<1>3. /\ orders' = orders \/ orders' = [orders EXCEPT ![o] = Updated(@, m)]
      /\ rejected' \subseteq rejected \cup {o}
      /\ tasks' \subseteq tasks \cup {<<o, "start">>}
  BY DEF Deliver, LoseCallback
<1>4. budget' \in [intents : 0 .. MaxIntents, kills : 0 .. MaxKills,
                   lost : 0 .. MaxLost, drops : 0 .. MaxDrops]
  <2>1. CASE Deliver(o)
    BY <2>1 DEF Deliver, ChainInv, TypeOK
  <2>2. CASE LoseCallback(o)
    <3>1. budget.lost + 1 \in 0 .. MaxLost /\ budget' = [budget EXCEPT !.lost = budget.lost + 1]
      BY <2>2, BoundAssumption DEF LoseCallback, ChainInv, TypeOK
    <3> QED
      BY <3>1 DEF ChainInv, TypeOK
  <2> QED
    BY <2>1, <2>2
<1> HIDE DEF m
<1>5. orders' \in [Oid -> Order] /\ QuietOrders
  <2>1. CASE orders' = orders
    BY <2>1, OrdersUnchanged DEF ChainInv, TypeOK
  <2>2. CASE orders' = [orders EXCEPT ![o] = Updated(@, m)]
    BY <1>1, <1>2, <2>2, UpdatedOrder, OneOrderQuiet DEF Known
  <2> QED
    BY <1>3, <2>1, <2>2
<1>6. QuietVenue
  BY <1>1, <1>2, <1>3 DEF QuietVenue, ChainInv, TypeOK
<1>7. QuietTick
  BY <1>1, <1>3 DEF ChainInv, TypeOK, TickOrder, QuietTick
<1>8. TypeOK'
  <2>1. wire' \in [Oid -> Seq(Report)] /\ cache' \in [Oid -> Report]
    BY <1>2 DEF ChainInv, TypeOK
  <2>2. rejected' \subseteq Oid /\ tasks' \subseteq Oid \X {"start", "broker"}
    BY <1>3 DEF ChainInv, TypeOK
  <2> QED
    BY <1>1, <1>4, <1>5, <2>1, <2>2 DEF ChainInv, TypeOK
<1> QED
  BY <1>1, <1>5, <1>6, <1>7, <1>8, QuietStep, RepsUnchanged

\* Every step of the exchange.
LEMMA ChainExch ==
    ASSUME ChainInv, NEW o \in Oid, ExchStep(o)
    PROVE  ChainInv' /\ HardKept
<1>1. /\ exch[o].st # "none"
      /\ UNCHANGED <<orders, rejected, tick, rep, tasks, cache, connected>>
  BY DEF ExchStep, ExchAck, ExchFill, ExchCancel, ExchLateCancel, ExchKill, Live
<1>2. /\ orders[o] \in Order /\ exch[o] \in Venue
  BY DEF ChainInv, TypeOK
<1>3. PICK v \in Venue, m \in Report :
        /\ exch' = [exch EXCEPT ![o] = v] /\ v.st # "none"
        /\ wire' = [wire EXCEPT ![o] = Append(@, m)]
  <2> DEFINE report(st, f) == [status |-> st, filled |-> f]
  <2>1. \A st \in OrderStatus, f \in 0 .. Qty : report(st, f) \in Report
    BY DEF Report
  <2>2. \A st \in {"working", "FILLED", "CANCELLED", "REJECTED"} : [exch[o] EXCEPT !.st = st] \in Venue
    BY <1>2 DEF Venue
  <2>3. CASE ExchAck(o) \/ ExchCancel(o) \/ ExchKill(o)
    <3>1. PICK st \in {"working", "CANCELLED", "REJECTED"}, status \in OrderStatus :
            exch' = [exch EXCEPT ![o].st = st] /\ Says(o, status, exch[o].filled)
      BY <2>3 DEF ExchAck, ExchCancel, ExchKill, OrderStatus, Active, Cancellable, Terminal
    <3> QED
      BY <1>2, <2>1, <2>2, <3>1 DEF Says, Venue
  <2>4. CASE ExchFill(o)
    <3> DEFINE f == exch[o].filled + 1
               st == IF f = orders[o].qty THEN "FILLED" ELSE "working"
               status == IF f = orders[o].qty THEN "FILLED" ELSE "PARTIALLY_FILLED"
               v == [exch[o] EXCEPT !.filled = f, !.st = st]
    <3>1. f \in 0 .. Qty /\ status \in OrderStatus /\ st \in {"working", "FILLED"}
      BY <1>2, <2>4, QtyAssumption DEF ExchFill, Order, Venue, OrderStatus, Active, Cancellable, Terminal
    <3>2. exch' = [exch EXCEPT ![o].filled = f, ![o].st = st] /\ Says(o, status, f)
      BY <2>4 DEF ExchFill
    <3> HIDE DEF f, st, status
    <3>3. v \in Venue /\ v.st # "none"
      BY <1>2, <3>1 DEF Venue
    <3>4. exch' = [exch EXCEPT ![o] = v]
      BY <3>2 DEF ChainInv, TypeOK
    <3> HIDE DEF v
    <3> QED
      BY <2>1, <3>1, <3>2, <3>3, <3>4 DEF Says
  <2>5. CASE ExchLateCancel(o)
    <3>1. [exch[o] EXCEPT !.req = FALSE] \in Venue /\ "CANCELLED" \in OrderStatus
      BY <1>2 DEF Venue, OrderStatus, Terminal
    <3> QED
      BY <1>1, <1>2, <2>1, <2>5, <3>1 DEF ExchLateCancel, Says, Venue
  <2> QED
    BY <2>3, <2>4, <2>5 DEF ExchStep
<1>4. budget' \in [intents : 0 .. MaxIntents, kills : 0 .. MaxKills,
                   lost : 0 .. MaxLost, drops : 0 .. MaxDrops]
  <2>1. CASE UNCHANGED budget
    BY <2>1 DEF ChainInv, TypeOK
  <2>2. CASE ExchKill(o)
    <3>1. budget.kills + 1 \in 0 .. MaxKills /\ budget' = [budget EXCEPT !.kills = budget.kills + 1]
      BY <2>2, BoundAssumption DEF ExchKill, ChainInv, TypeOK
    <3> QED
      BY <3>1 DEF ChainInv, TypeOK
  <2> QED
    BY <2>1, <2>2 DEF ExchStep, ExchAck, ExchFill, ExchCancel, ExchLateCancel
<1>5. TypeOK'
  <2>1. Append(wire[o], m) \in Seq(Report)
    BY <1>3 DEF ChainInv, TypeOK
  <2> QED
    BY <1>1, <1>3, <1>4, <2>1 DEF ChainInv, TypeOK
<1>6. QuietVenue
  BY <1>1, <1>3 DEF QuietVenue, ChainInv, TypeOK
<1> QED
  BY <1>1, <1>5, <1>6, QuietStep, RepsUnchanged, OrdersUnchanged DEF QuietTick

\* A lost or new connection.
LEMMA ChainRest ==
    ASSUME ChainInv, Disconnect \/ Reconnect \/ UNCHANGED vars
    PROVE  ChainInv' /\ HardKept
<1>1. UNCHANGED <<orders, rejected, tick, rep, tasks, exch, wire, cache>>
  BY DEF Disconnect, Reconnect, vars
<1>2. budget' \in [intents : 0 .. MaxIntents, kills : 0 .. MaxKills,
                   lost : 0 .. MaxLost, drops : 0 .. MaxDrops]
  <2>1. CASE UNCHANGED budget
    BY <2>1 DEF ChainInv, TypeOK
  <2>2. CASE Disconnect
    <3>1. budget.drops + 1 \in 0 .. MaxDrops /\ budget' = [budget EXCEPT !.drops = budget.drops + 1]
      BY <2>2, BoundAssumption DEF Disconnect, ChainInv, TypeOK
    <3> QED
      BY <3>1 DEF ChainInv, TypeOK
  <2> QED
    BY <2>1, <2>2 DEF Reconnect, vars
<1>3. connected' \in BOOLEAN
  BY DEF Disconnect, Reconnect, vars, ChainInv, TypeOK
<1>4. TypeOK'
  BY <1>1, <1>2, <1>3 DEF ChainInv, TypeOK
<1> QED
  BY <1>1, <1>4, QuietStep, VenueUnchanged, RepsUnchanged, OrdersUnchanged DEF QuietTick

\* Every step keeps the invariant, and a hard cancellation.
LEMMA ChainNext == ChainInv /\ [Next]_vars => ChainInv' /\ HardKept
BY ChainTick, ChainRep, ChainTask, ChainDelivery, ChainExch, ChainRest DEF Next

\* The invariant on which everything below rests.
THEOREM ChainInvariant == Spec => []ChainInv
BY ChainInit, ChainNext, PTL DEF Spec

\* Every variable keeps to its type; in particular no replacement is ever sent
\* for more than Qty, and no repricer exceeds its attempts.
THEOREM TypeCorrect == Spec => []TypeOK
BY ChainInvariant, PTL DEF ChainInv

\* The replacement chains of _run_repricer never fork: the orders that carry one
\* order_ref have exactly one tail, whatever the exchange, the network, the
\* sweep and the tick do.
THEOREM OneTail == Spec => []OneTailPerChain
BY ChainInvariant, PTL DEF ChainInv

\* A hard cancel ends its chain: once the tick, an operator or a repricer that
\* gives up has set hard_cancel, no repricer links a replacement to the order.
THEOREM HardCancelWins == Spec => HardCancelEndsChain
<1>1. ChainInv /\ [Next]_vars => [\A o \in Oid : orders[o].hard => orders'[o].succ = orders[o].succ]_vars
  BY ChainNext DEF HardKept
<1> QED
  BY <1>1, ChainInvariant, PTL DEF Spec, HardCancelEndsChain

-----------------------------------------------------------------------------
(* What cancel/replace guarantees as long as the broker connection lasts: a   *)
(* confirmed cancellation is final at the exchange, so that no two orders of  *)
(* a chain ever work there at the same time.  (When connections are lost it   *)
(* is not: the sweep then takes a disconnected client for a broker that does  *)
(* not know the order.)                                                       *)

\* The exchange is done with the order.
Gone(o) == exch[o].st \in {"FILLED", "CANCELLED", "REJECTED"}

Reports(o) == {wire[o][i] : i \in 1 .. Len(wire[o])}

\* Nobody is told of an end that has not happened.
TerminalReported ==
    \A o \in Oid :
        /\ cache[o].status \in Terminal => Gone(o)
        /\ \A m \in Reports(o) : m.status \in Terminal => Gone(o)

\* Only a confirmed cancellation makes room for a replacement.
SupersededCancelled ==
    \A o \in Oid : orders[o].succ # None => orders[o].sent /\ orders[o].status = "CANCELLED"

CancelInv == connected /\ TerminalReported /\ CancelledCannotFill /\ SupersededCancelled

\* It holds of an exchange without orders.
LEMMA CancelInit == Init => CancelInv
BY DEF Init, CancelInv, TerminalReported, CancelledCannotFill, SupersededCancelled, NoOrder, Reports, Terminal

-----------------------------------------------------------------------------
(* Most steps are safe: orders stay in their chains, end for a reason, and    *)
(* the exchange's word is passed on as it is.                                 *)

SafeOrders ==
    \A p \in Oid :
        /\ SameChain(orders'[p], orders[p])
        /\ orders[p].status \in Terminal => orders'[p].status = orders[p].status
        /\ orders'[p].status = "CANCELLED" =>
              orders[p].status = "CANCELLED" \/ ~orders[p].sent \/ Gone(p)

SafeVenue ==
    \A p \in Oid :
        /\ Gone(p) => Gone(p)'
        /\ Live(p)' => Live(p)
        /\ cache'[p].status \in Terminal => Gone(p)'
        /\ \A m \in Reports(p)' : m \in Reports(p) \/ (m.status \in Terminal => Gone(p)')

TerminalKept == \A o \in Oid : orders[o].status \in Terminal => orders'[o].status = orders[o].status

\* A step that is safe keeps the invariant, and terminal statuses.
LEMMA SafeStep ==
    ASSUME CancelInv, SafeOrders, SafeVenue, connected'
    PROVE  CancelInv' /\ TerminalKept
<1>1. TerminalReported'
  BY DEF CancelInv, TerminalReported, SafeVenue
<1>2. CancelledCannotFill'
  BY DEF CancelInv, CancelledCannotFill, SafeOrders, SafeVenue, SameChain, Gone, Live
<1>3. SupersededCancelled'
  BY DEF CancelInv, SupersededCancelled, SafeOrders, SameChain, Terminal
<1> QED
  BY <1>1, <1>2, <1>3 DEF CancelInv, SafeOrders, TerminalKept

\* What the exchange is not part of is safe for it.
LEMMA SafeVenueUnchanged ==
    ASSUME CancelInv, UNCHANGED <<exch, wire, cache>>
    PROVE  SafeVenue
BY DEF CancelInv, TerminalReported, SafeVenue, Gone, Live, Reports

\* What leaves the dict alone is safe for it.
LEMMA SafeOrdersUnchanged ==
    ASSUME UNCHANGED orders
    PROVE  SafeOrders
BY DEF SafeOrders, SameChain

\* A step that changes one order is safe if that order's end has a reason.
LEMMA SafeOneOrder ==
    ASSUME TypeOK, NEW o \in Oid, NEW ord, orders' = [orders EXCEPT ![o] = ord],
           SameChain(ord, orders[o]),
           orders[o].status \in Terminal => ord.status = orders[o].status,
           ord.status = "CANCELLED" => orders[o].status = "CANCELLED" \/ ~orders[o].sent \/ Gone(o)
    PROVE  SafeOrders
BY DEF SafeOrders, SameChain, TypeOK

\* cancel_order up to its await, by whomever it is called.
LEMMA SafeCancelRequest ==
    ASSUME ChainInv, CancelInv, NEW o \in Oid, Known(o), NEW hard \in BOOLEAN,
           orders' = [orders EXCEPT ![o] = CancelRequested(@, hard)]
    PROVE  SafeOrders
<1>1. orders[o] \in Order
  BY DEF ChainInv, TypeOK
<1> QED
  BY <1>1, CancelRequestedOrder, SafeOneOrder DEF ChainInv, Known

\* ... and the return of the broker's part of it.
LEMMA SafeBrokerCancels ==
    ASSUME ChainInv, CancelInv, NEW o \in Oid, Known(o), BrokerCancels(o), UNCHANGED wire
    PROVE  SafeOrders /\ SafeVenue
<1> DEFINE m == [status |-> "CANCEL_PENDING", filled |-> cache[o].filled]
<1>1. \A p \in Oid : exch'[p].st = exch[p].st
  BY BrokerCancelsOrder DEF ChainInv
<1>2. \/ UNCHANGED <<cache, orders>>
      \/ cache' = [cache EXCEPT ![o] = m] /\ orders' = [orders EXCEPT ![o] = Updated(@, m)]
  BY DEF BrokerCancels, BrokerCancelSent, BrokerCancelUnknown, BrokerCancelRaises, CancelInv
<1>3. m \in Report /\ m.status = "CANCEL_PENDING" /\ orders[o] \in Order
  BY DEF ChainInv, TypeOK, Report, OrderStatus, Active
<1> HIDE DEF m
<1>4. SafeVenue
  BY <1>1, <1>2, <1>3 DEF ChainInv, TypeOK, CancelInv, TerminalReported, SafeVenue, Gone, Live, Reports, Terminal
<1>5. SafeOrders
  <2>1. Updated(orders[o], m).status = "CANCELLED" => orders[o].status = "CANCELLED"
    BY <1>3 DEF Updated, Terminal, Order
  <2>2. CASE orders' = [orders EXCEPT ![o] = Updated(@, m)]
    BY <1>3, <2>1, <2>2, UpdatedOrder, SafeOneOrder DEF ChainInv, Known
  <2> QED
    BY <1>2, <2>2, SafeOrdersUnchanged
<1> QED
  BY <1>4, <1>5
-----------------------------------------------------------------------------
(* The steps that put an order into a chain or on the market                 *)

\* A tick that records an order.
LEMMA CancelTickSubmit ==
    ASSUME ChainInv, CancelInv, NEW l \in Legs, NEW entry \in BOOLEAN, TickSubmit(l, entry)
    PROVE  CancelInv' /\ TerminalKept
<1> DEFINE n == NewId
           ord == NewOrder(n, l, entry)
<1>1. /\ n \in Oid /\ orders[n] = NoOrder
      /\ orders' = [orders EXCEPT ![n] = ord] /\ UNCHANGED <<exch, wire, cache, connected>>
  BY FreshId DEF TickSubmit, ChainInv, AbsentUntouched
<1>2. ord.status = "RISK_CHECKED" /\ ord.succ = None
  BY DEF NewOrder
<1> HIDE DEF n, ord
<1>3. \A p \in Oid : orders'[p] = IF p = n THEN ord ELSE orders[p]
  BY <1>1 DEF ChainInv, TypeOK
<1>4. TerminalReported'
  BY <1>1 DEF CancelInv, TerminalReported, Gone, Reports
<1>5. CancelledCannotFill' /\ SupersededCancelled'
  BY <1>1, <1>2, <1>3 DEF CancelInv, CancelledCannotFill, SupersededCancelled, Live
<1>6. TerminalKept
  BY <1>1, <1>3 DEF TerminalKept, NoOrder, Terminal
<1> QED
  BY <1>1, <1>4, <1>5, <1>6 DEF CancelInv

\* A tick whose place_order returns.
LEMMA CancelTickPlaced ==
    ASSUME ChainInv, CancelInv, TickPlaced
    PROVE  CancelInv' /\ TerminalKept
<1> DEFINE o == tick.o
<1>1. /\ o \in Oid /\ orders[o].succ = None /\ orders[o].status = "RISK_CHECKED"
      /\ exch[o].st = "none" /\ orders[o] \in Order
      /\ orders' = [orders EXCEPT ![o] = Placed(@)] /\ exch' = [exch EXCEPT ![o].st = "new"]
      /\ UNCHANGED <<wire, cache, connected>>
  BY DEF TickPlaced, AtExchange, ChainInv, TickOrder, TypeOK
<1>2. Placed(orders[o]).status = "NEW" /\ Placed(orders[o]).succ = None
  BY <1>1, PlacedOrder
<1> HIDE DEF o
<1>3. \A p \in Oid : /\ orders'[p] = IF p = o THEN Placed(orders[o]) ELSE orders[p]
                     /\ p # o => exch'[p] = exch[p]
  BY <1>1 DEF ChainInv, TypeOK
<1>4. TerminalReported'
  BY <1>1, <1>3 DEF CancelInv, TerminalReported, Gone, Reports
<1>5. CancelledCannotFill' /\ SupersededCancelled'
  BY <1>1, <1>2, <1>3 DEF CancelInv, CancelledCannotFill, SupersededCancelled, Live
<1>6. TerminalKept
  BY <1>1, <1>3 DEF TerminalKept, Terminal
<1> QED
  BY <1>1, <1>4, <1>5, <1>6 DEF CancelInv

\* A repricer that links a replacement behind a cancelled order.
LEMMA CancelRepReplace ==
    ASSUME ChainInv, CancelInv, NEW r \in Oid, RepReplace(r)
    PROVE  CancelInv' /\ TerminalKept
<1> DEFINE o == rep[r].cur
           n == NewId
<1>1. /\ o \in Oid /\ orders[o] \in Order /\ orders[o].sent /\ orders[o].status = "CANCELLED"
      /\ Remaining(orders[o]) > 0
      /\ UNCHANGED <<wire, cache, connected>>
  BY DEF RepReplace, Cur, Replaceable, Started, ChainInv, TypeOK, RepsAtTail
<1>2. n \in Oid /\ orders[n] = NoOrder /\ exch[n].st = "none" /\ n # o
  <2>1. n \in Oid /\ ~Known(n) /\ Known(o)
    BY <1>1, FreshId DEF RepReplace, Known
  <2> QED
    BY <2>1 DEF ChainInv, AbsentUntouched
<1>3. PICK new \in Order :
        /\ orders' = [orders EXCEPT ![n] = new, ![o].succ = n]
        /\ new.status \in {"NEW", "ERROR"} /\ new.succ = None
        /\ exch' = [exch EXCEPT ![n].st = "new"] \/ exch' = exch
  <2> DEFINE replacement == Replacement(orders[o])
  <2>1. replacement \in Order /\ replacement.succ = None
    BY <1>1, ReplacementOrder
  <2> HIDE DEF replacement
  <2>2. /\ Placed(replacement) \in Order /\ Placed(replacement).status = "NEW"
        /\ Placed(replacement).succ = None
        /\ NotPlaced(replacement) \in Order /\ NotPlaced(replacement).status = "ERROR"
        /\ NotPlaced(replacement).succ = None
    BY <2>1, PlacedOrder DEF SameChain
  <2> QED
    BY <2>2 DEF RepReplace, Superseded, AtExchange, Cur, replacement
<1> HIDE DEF o, n
<1>4. /\ orders'[n] = new
      /\ orders'[o].status = orders[o].status /\ orders'[o].sent = orders[o].sent
      /\ \A p \in Oid : p # n /\ p # o => orders'[p] = orders[p]
      /\ \A p \in Oid : p # n => exch'[p] = exch[p]
  BY <1>1, <1>2, <1>3 DEF ChainInv, TypeOK, Order
<1>5. TerminalReported'
  BY <1>1, <1>2, <1>4 DEF CancelInv, TerminalReported, Gone, Reports
<1>6. CancelledCannotFill' /\ SupersededCancelled'
  <2>1. CancelledCannotFill'
    BY <1>1, <1>2, <1>3, <1>4 DEF CancelInv, CancelledCannotFill, Live
  <2>2. SupersededCancelled'
    BY <1>1, <1>2, <1>3, <1>4 DEF CancelInv, SupersededCancelled
  <2> QED
    BY <2>1, <2>2
<1>7. TerminalKept
  BY <1>1, <1>2, <1>4 DEF TerminalKept, NoOrder, Terminal
<1> QED
  BY <1>1, <1>5, <1>6, <1>7 DEF CancelInv

-----------------------------------------------------------------------------
(* The other steps are safe.                                                 *)

\* The other steps of a tick.
LEMMA CancelTickOther ==
    ASSUME ChainInv, CancelInv,
           \/ TickBegin \/ TickEnd \/ TickPlaceFails \/ TickCancelReturns \/ TickRecancelReturns
           \/ \E o \in Oid : TickCancel(o) \/ TickSweep(o)
    PROVE  CancelInv' /\ TerminalKept
<1>1. connected' /\ UNCHANGED wire
  BY DEF CancelInv, TickBegin, TickEnd, TickPlaceFails, TickCancelReturns, TickRecancelReturns,
     TickCancel, TickSweep
<1>2. CASE TickBegin \/ TickEnd
  BY <1>1, <1>2, SafeStep, SafeOrdersUnchanged, SafeVenueUnchanged DEF TickBegin, TickEnd
<1>3. CASE TickPlaceFails
  <2>1. /\ tick.o \in Oid /\ orders[tick.o] \in Order /\ orders[tick.o].status = "RISK_CHECKED"
        /\ orders' = [orders EXCEPT ![tick.o] = NotPlaced(@)] /\ UNCHANGED <<exch, wire, cache>>
    BY <1>3 DEF TickPlaceFails, ChainInv, TickOrder, TypeOK
  <2>2. SafeOrders
    BY <2>1, PlacedOrder, SafeOneOrder DEF ChainInv, Terminal
  <2> QED
    BY <1>1, <2>1, <2>2, SafeStep, SafeVenueUnchanged
<1>4. ASSUME NEW o \in Oid, TickCancel(o) PROVE CancelInv' /\ TerminalKept
  BY <1>1, <1>4, SafeStep, SafeCancelRequest, SafeVenueUnchanged DEF TickCancel
<1>5. CASE TickCancelReturns \/ TickRecancelReturns
  <2>1. tick.o \in Oid /\ Known(tick.o) /\ BrokerCancels(tick.o)
    BY <1>5 DEF TickCancelReturns, TickRecancelReturns, BrokerCancels, ChainInv, TickOrder, CancelInv
  <2> QED
    BY <1>1, <2>1, SafeStep, SafeBrokerCancels
<1>6. ASSUME NEW o \in Oid, TickSweep(o) PROVE CancelInv' /\ TerminalKept
  <2>1. /\ orders[o] \in Order /\ orders[o].status = "CANCEL_PENDING" /\ UNCHANGED <<exch, wire, cache>>
        /\ \/ UNCHANGED orders
           \/ /\ orders' = [orders EXCEPT ![o].status = CachedStatus(o)]
              /\ CachedStatus(o) = "CANCELLED" => Gone(o)
    BY <1>6 DEF TickSweep, SweepUnknown, SweepAdopts, SweepReissues, CachedStatus, CancelInv,
       TerminalReported, ChainInv, TypeOK, Terminal
  <2>2. SafeOrders
    <3> DEFINE ord == [orders[o] EXCEPT !.status = CachedStatus(o)]
    <3>1. ord.status = CachedStatus(o) /\ SameChain(ord, orders[o])
      BY <2>1 DEF Order, SameChain
    <3>2. CASE orders' = [orders EXCEPT ![o] = ord] /\ (ord.status = "CANCELLED" => Gone(o))
      BY <2>1, <3>1, <3>2, SafeOneOrder DEF ChainInv, Terminal
    <3>3. CASE UNCHANGED orders
      BY <3>3, SafeOrdersUnchanged
    <3> QED
      BY <2>1, <3>1, <3>2, <3>3
  <2> QED
    BY <1>1, <2>1, <2>2, SafeStep, SafeVenueUnchanged
<1> QED
  BY <1>2, <1>3, <1>4, <1>5, <1>6

\* Every step of a repricer.
LEMMA CancelRep ==
    ASSUME ChainInv, CancelInv, NEW r \in Oid, RepStep(r)
    PROVE  CancelInv' /\ TerminalKept
<1>1. CASE RepAlone(r)
  <2>1. UNCHANGED <<orders, exch, wire, cache, connected>>
    BY <1>1 DEF RepAlone, RepExpire, RepStop, RepAwaitQuote, RepNoChange, RepNothingLeft, RepModify, RepAbandon
  <2> QED
    BY <2>1, SafeStep, SafeOrdersUnchanged, SafeVenueUnchanged DEF CancelInv
<1>2. CASE RepCancels(r)
  <2> DEFINE o == rep[r].cur
  <2>1. o \in Oid /\ Known(o) /\ connected' /\ UNCHANGED wire
    BY <1>2, RepOrder DEF RepCancels, RepGiveUp, RepCancel, RepCancelReturns, RepLastReturns, Started, CancelInv
  <2>2. \/ BrokerCancels(o)
        \/ UNCHANGED <<exch, cache>> /\ UNCHANGED orders
        \/ UNCHANGED <<exch, cache>> /\ \E hard \in BOOLEAN : orders' = [orders EXCEPT ![o] = CancelRequested(@, hard)]
    BY <1>2 DEF RepCancels, RepGiveUp, RepCancel, RepCancelReturns, RepLastReturns, BrokerCancels
  <2> HIDE DEF o
  <2>3. SafeOrders /\ SafeVenue
    BY <2>1, <2>2, SafeBrokerCancels, SafeCancelRequest, SafeOrdersUnchanged, SafeVenueUnchanged
  <2> QED
    BY <2>1, <2>3, SafeStep
<1>3. CASE RepReplace(r)
  BY <1>3, CancelRepReplace
<1> QED
  BY <1>1, <1>2, <1>3 DEF RepStep, RepAlone, RepCancels

\* Every step of a spawned task.
LEMMA CancelTask ==
    ASSUME ChainInv, CancelInv, NEW o \in Oid, TaskStep(o)
    PROVE  CancelInv' /\ TerminalKept
<1>1. Known(o) /\ connected' /\ UNCHANGED wire
  BY DEF TaskStep, TaskStart, TaskReturns, ChainInv, UnplacedSilent, AbsentUntouched, CancelInv
<1>2. CASE TaskStart(o)
  BY <1>1, <1>2, SafeStep, SafeCancelRequest, SafeVenueUnchanged DEF TaskStart
<1>3. CASE TaskReturns(o)
  BY <1>1, <1>3, SafeStep, SafeBrokerCancels DEF TaskReturns, BrokerCancels
<1> QED
  BY <1>2, <1>3 DEF TaskStep

\* Every report that is delivered or lost.
LEMMA CancelDelivery ==
    ASSUME ChainInv, CancelInv, NEW o \in Oid, Deliver(o) \/ LoseCallback(o)
    PROVE  CancelInv' /\ TerminalKept
<1> DEFINE m == Head(wire[o])
<1>1. /\ Known(o) /\ orders[o] \in Order /\ connected'
      /\ wire' = [wire EXCEPT ![o] = Tail(@)] /\ cache' = [cache EXCEPT ![o] = m]
      /\ UNCHANGED exch
      /\ UNCHANGED orders \/ orders' = [orders EXCEPT ![o] = Updated(@, m)]
  BY DEF Deliver, LoseCallback, ChainInv, TypeOK, UnplacedSilent, AbsentUntouched, CancelInv
<1>2. m \in Report /\ (m.status \in Terminal => Gone(o))
  <2>1. wire[o] \in Seq(Report) /\ wire[o] # <<>>
    BY DEF Deliver, LoseCallback, ChainInv, TypeOK
  <2>2. m \in Report /\ m \in Reports(o)
    BY <2>1 DEF Reports
  <2> QED
    BY <2>2 DEF CancelInv, TerminalReported
<1>3. \A p \in Oid : Reports(p)' \subseteq Reports(p)
  <2>1. wire \in [Oid -> Seq(Report)] /\ wire[o] \in Seq(Report) /\ wire[o] # <<>>
    BY DEF Deliver, LoseCallback, ChainInv, TypeOK
  <2>2. \A i \in 1 .. Len(Tail(wire[o])) : Tail(wire[o])[i] = wire[o][i + 1] /\ i + 1 \in 1 .. Len(wire[o])
    BY <2>1
  <2>3. \A p \in Oid : wire'[p] = IF p = o THEN Tail(wire[o]) ELSE wire[p]
    BY <1>1, <2>1
  <2>4. Reports(o)' \subseteq Reports(o)
    <3>1. wire'[o] = Tail(wire[o])
      BY <2>3
    <3> QED
      BY <2>2, <3>1 DEF Reports
  <2>5. \A p \in Oid : p # o => Reports(p)' = Reports(p)
    BY <2>3 DEF Reports
  <2> QED
    BY <2>4, <2>5
<1> HIDE DEF m
<1>4. SafeVenue
  BY <1>1, <1>2, <1>3 DEF SafeVenue, ChainInv, TypeOK, CancelInv, TerminalReported, Gone, Live
<1>5. SafeOrders
  <2>1. Updated(orders[o], m).status = "CANCELLED" => orders[o].status = "CANCELLED" \/ Gone(o)
    <3>1. \/ Updated(orders[o], m).status \in {orders[o].status, m.status}
          \/ m.status \in {"REJECTED", "ERROR"}
      BY <1>1 DEF Updated, Order
    <3> QED
      BY <1>2, <3>1 DEF Terminal
  <2>2. CASE orders' = [orders EXCEPT ![o] = Updated(@, m)]
    BY <1>1, <1>2, <2>1, <2>2, UpdatedOrder, SafeOneOrder DEF ChainInv, Known
  <2> QED
    BY <1>1, <2>2, SafeOrdersUnchanged
<1> QED
  BY <1>1, <1>4, <1>5, SafeStep

\* Every step of the exchange.
LEMMA CancelExch ==
    ASSUME ChainInv, CancelInv, NEW o \in Oid, ExchStep(o)
    PROVE  CancelInv' /\ TerminalKept
<1>1. UNCHANGED <<orders, cache, connected>> /\ exch \in [Oid -> Venue] /\ wire \in [Oid -> Seq(Report)]
  BY DEF ExchStep, ExchAck, ExchFill, ExchCancel, ExchLateCancel, ExchKill, ChainInv, TypeOK
<1>2. PICK v, m :
        /\ exch' = [exch EXCEPT ![o] = v] /\ wire' = [wire EXCEPT ![o] = Append(@, m)]
        /\ exch[o].st \in {"new", "working"} \/ v.st = exch[o].st
        /\ exch[o].st # "none"
        /\ m.status \in Terminal => v.st \in {"FILLED", "CANCELLED", "REJECTED"}
  <2> DEFINE report(st, f) == [status |-> st, filled |-> f]
  <2>1. CASE ExchAck(o)
    <3> DEFINE v == [exch[o] EXCEPT !.st = "working"]
               m == report(IF exch[o].filled = 0 THEN "SUBMITTED" ELSE "PARTIALLY_FILLED", exch[o].filled)
    <3>1. m.status \notin Terminal /\ exch[o].st = "new"
      BY <2>1 DEF ExchAck, Terminal
    <3>2. exch' = [exch EXCEPT ![o] = v] /\ wire' = [wire EXCEPT ![o] = Append(@, m)]
      BY <2>1 DEF ExchAck, Says
    <3> HIDE DEF v, m
    <3> QED
      BY <3>1, <3>2
  <2>2. CASE ExchFill(o)
    <3> DEFINE f == exch[o].filled + 1
               done == f = orders[o].qty
               v == [exch[o] EXCEPT !.filled = f, !.st = IF done THEN "FILLED" ELSE "working"]
               m == report(IF done THEN "FILLED" ELSE "PARTIALLY_FILLED", f)
    <3>1. exch[o] \in Venue /\ exch[o].st \in {"new", "working"}
      BY <1>1, <2>2 DEF ExchFill, Live
    <3>2. exch' = [exch EXCEPT ![o] = v] /\ wire' = [wire EXCEPT ![o] = Append(@, m)]
      BY <1>1, <2>2 DEF ExchFill, Says
    <3>3. m.status \in Terminal => v.st = "FILLED"
      BY <3>1 DEF Terminal, Venue
    <3> HIDE DEF v, m
    <3> QED
      BY <3>1, <3>2, <3>3
  <2>3. CASE ExchCancel(o) \/ ExchKill(o)
    <3>1. PICK st \in {"CANCELLED", "REJECTED"} :
            /\ exch' = [exch EXCEPT ![o].st = st] /\ Says(o, st, exch[o].filled)
            /\ exch[o].st \in {"new", "working"}
      BY <2>3 DEF ExchCancel, ExchKill, Live
    <3> DEFINE v == [exch[o] EXCEPT !.st = st]
               m == report(st, exch[o].filled)
    <3>2. exch' = [exch EXCEPT ![o] = v] /\ wire' = [wire EXCEPT ![o] = Append(@, m)]
      BY <3>1 DEF Says
    <3>3. v.st = st
      BY <1>1 DEF Venue
    <3> HIDE DEF v, m
    <3> QED
      BY <3>1, <3>2, <3>3
  <2>4. CASE ExchLateCancel(o)
    <3> DEFINE v == [exch[o] EXCEPT !.req = FALSE]
               m == report("CANCELLED", exch[o].filled)
    <3>1. exch' = [exch EXCEPT ![o] = v] /\ wire' = [wire EXCEPT ![o] = Append(@, m)]
      BY <2>4 DEF ExchLateCancel, Says
    <3>2. exch[o].st = "FILLED" /\ v.st = exch[o].st
      BY <1>1, <2>4 DEF ExchLateCancel, Venue
    <3> HIDE DEF v, m
    <3> QED
      BY <3>1, <3>2
  <2> QED
    BY <2>1, <2>2, <2>3, <2>4 DEF ExchStep
<1>3. \A p \in Oid : exch'[p] = IF p = o THEN v ELSE exch[p]
  BY <1>1, <1>2
<1>4. Reports(o)' \subseteq Reports(o) \cup {m} /\ \A p \in Oid : p # o => Reports(p)' = Reports(p)
  BY <1>1, <1>2 DEF Reports
<1>5. SafeVenue
  BY <1>1, <1>2, <1>3, <1>4 DEF SafeVenue, CancelInv, TerminalReported, Gone, Live
<1> QED
  BY <1>1, <1>5, SafeStep, SafeOrdersUnchanged DEF CancelInv

\* Every step, as long as the connection lasts.
LEMMA CancelNext ==
    ASSUME MaxDrops = 0, ChainInv, CancelInv, [Next]_vars
    PROVE  CancelInv' /\ TerminalKept
<1>1. ~Disconnect /\ ~Reconnect
  BY DEF Disconnect, Reconnect, ChainInv, TypeOK, CancelInv
<1>2. CASE UNCHANGED vars
  BY <1>2, SafeStep, SafeOrdersUnchanged, SafeVenueUnchanged DEF vars, CancelInv
<1>3. CASE TickStep
  BY <1>3, CancelTickSubmit, CancelTickPlaced, CancelTickOther DEF TickStep
<1> QED
  BY <1>1, <1>2, <1>3, CancelRep, CancelTask, CancelDelivery, CancelExch DEF Next

\* The invariant on which the rest of this module rests.
THEOREM CancelInvariant ==
    ASSUME MaxDrops = 0
    PROVE  Spec => []CancelInv
<1>1. ChainInv /\ CancelInv /\ [Next]_vars => CancelInv'
  BY CancelNext
<1> QED
  BY <1>1, CancelInit, ChainInvariant, PTL DEF Spec

\* Over a lasting connection the manager knows what it has cancelled: an order it
\* holds for CANCELLED is dead at the exchange, lost confirmations and the sweep
\* included, so coordination, exits and the repricer may build on it.
THEOREM CancelledIsDead ==
    ASSUME MaxDrops = 0
    PROVE  Spec => []CancelledCannotFill
BY CancelInvariant, PTL DEF CancelInv

\* Over a lasting connection cancel/replace never has two orders of one chain
\* working at the exchange.
THEOREM OneLive ==
    ASSUME MaxDrops = 0
    PROVE  Spec => []OneLivePerChain
<1>1. ChainInv /\ CancelInv => OneLivePerChain
  <2> SUFFICES ASSUME ChainInv, CancelInv PROVE OneLivePerChain
    OBVIOUS
  <2>1. \A o \in Oid : Live(o) => Known(o) /\ orders[o].succ = None
    BY DEF Live, ChainInv, AbsentUntouched, CancelInv, SupersededCancelled, CancelledCannotFill
  <2> QED
    BY <2>1 DEF ChainInv, OneTailPerChain, OneLivePerChain
<1> QED
  BY <1>1, ChainInvariant, CancelInvariant, PTL

\* Over a lasting connection a terminal status is never taken back or relabelled:
\* neither late reports nor the sweep nor a broker call that returns late touch it.
THEOREM TerminalFinal ==
    ASSUME MaxDrops = 0
    PROVE  Spec => TerminalIsFinal
<1>1. ChainInv /\ CancelInv /\ [Next]_vars =>
        [\A o \in Oid : orders[o].status \in Terminal => orders'[o].status = orders[o].status]_vars
  BY CancelNext DEF TerminalKept
<1> QED
  BY <1>1, ChainInvariant, CancelInvariant, PTL DEF Spec, TerminalIsFinal

-----------------------------------------------------------------------------
(* Hard Rule 7, with or without a connection that lasts: our own             *)
(* cancellation passes a placed order through CANCEL_PENDING, so a placed    *)
(* order that dies in one step was ended by a report, and the report queues  *)
(* it.                                                                       *)

\* Placed, and not asked to stop.
Working(ord) == ord.sent /\ ord.status \in Cancellable

\* What the rule asks of one step.
DeathsQueued ==
    \A o \in Oid :
        Working(orders[o]) /\ orders'[o].status \in {"CANCELLED", "REJECTED"} => o \in rejected'

\* A step that gives one order another status, and not of a dead one.
LEMMA DeathsOneOrder ==
    ASSUME ChainInv, NEW o \in Oid, NEW ord, orders' = [orders EXCEPT ![o] = ord],
           Working(orders[o]) => ord.status \notin {"CANCELLED", "REJECTED"}
    PROVE  DeathsQueued
<1>1. \A p \in Oid : orders'[p] = IF p = o THEN ord ELSE orders[p]
  BY DEF ChainInv, TypeOK
<1>2. {"CANCELLED", "REJECTED"} \cap Cancellable = {}
  BY DEF Cancellable
<1> QED
  BY <1>1, <1>2 DEF DeathsQueued, Working

\* A step that leaves the dict alone.
LEMMA DeathsUnchanged ==
    ASSUME UNCHANGED orders
    PROVE  DeathsQueued
BY DEF DeathsQueued, Working, Cancellable

\* A request of ours to cancel.
LEMMA DeathsCancelRequest ==
    ASSUME ChainInv, NEW o \in Oid, Known(o), NEW hard \in BOOLEAN,
           orders' = [orders EXCEPT ![o] = CancelRequested(@, hard)]
    PROVE  DeathsQueued
<1>1. orders[o] \in Order
  BY DEF ChainInv, TypeOK
<1>2. Working(orders[o]) => CancelRequested(orders[o], hard).status = "CANCEL_PENDING"
  <2> SUFFICES ASSUME Working(orders[o])
               PROVE  CancelRequested(orders[o], hard).status = "CANCEL_PENDING"
    OBVIOUS
  <2> DEFINE flagged == [orders[o] EXCEPT !.hard = orders[o].hard \/ hard]
  <2>1. orders[o].status \notin Terminal /\ orders[o].sent
    BY DEF Working, Cancellable, Terminal
  <2>2. flagged \in Order
    BY <1>1 DEF Order
  <2>3. CancelRequested(orders[o], hard) = [flagged EXCEPT !.status = "CANCEL_PENDING"]
    BY <2>1, Zenon DEF CancelRequested
  <2> HIDE DEF flagged
  <2> QED
    BY <2>2, <2>3 DEF Order
<1> QED
  BY <1>2, DeathsOneOrder

\* However the broker answers it.
LEMMA DeathsBrokerCancels ==
    ASSUME ChainInv, NEW o \in Oid, Known(o), BrokerCancels(o)
    PROVE  DeathsQueued
<1> DEFINE m == [status |-> "CANCEL_PENDING", filled |-> cache[o].filled]
<1>1. orders[o] \in Order
  BY DEF ChainInv, TypeOK
<1>2. CASE orders' = [orders EXCEPT ![o] = Updated(@, m)]
  <2>1. Updated(orders[o], m).status \in {orders[o].status, "CANCEL_PENDING"}
    <3>1. m.status = "CANCEL_PENDING"
      OBVIOUS
    <3> HIDE DEF m
    <3> QED
      BY <1>1, <3>1 DEF Updated, Order
  <2> QED
    BY <1>2, <2>1, DeathsOneOrder DEF Working, Cancellable
<1>3. CASE orders' = [orders EXCEPT ![o].status = "ERROR"]
  <2> DEFINE failed == [orders[o] EXCEPT !.status = "ERROR"]
  <2>1. failed.status = "ERROR" /\ orders' = [orders EXCEPT ![o] = failed]
    BY <1>1, <1>3 DEF Order
  <2> HIDE DEF failed
  <2> QED
    BY <2>1, DeathsOneOrder
<1>4. CASE UNCHANGED orders
  BY <1>4, DeathsUnchanged
<1> QED
  BY <1>2, <1>3, <1>4 DEF BrokerCancels, BrokerCancelSent, BrokerCancelUnknown, BrokerCancelRaises

\* Every step of a tick.
LEMMA DeathsTick ==
    ASSUME ChainInv, TickStep
    PROVE  DeathsQueued
<1>1. CASE TickBegin \/ TickEnd
  BY <1>1, DeathsUnchanged DEF TickBegin, TickEnd
<1>2. ASSUME NEW l \in Legs, NEW entry \in BOOLEAN, TickSubmit(l, entry) PROVE DeathsQueued
  <2>1. NewId \in Oid /\ ~Known(NewId)
    BY <1>2, FreshId DEF TickSubmit
  <2>2. ~Working(orders[NewId])
    BY <2>1 DEF Known, Working, Cancellable
  <2> QED
    BY <1>2, <2>1, <2>2, DeathsOneOrder DEF TickSubmit
<1>3. CASE TickPlaced \/ TickPlaceFails
  <2>1. /\ tick.o \in Oid /\ orders[tick.o] \in Order
        /\ \/ orders' = [orders EXCEPT ![tick.o] = Placed(@)]
           \/ orders' = [orders EXCEPT ![tick.o] = NotPlaced(@)]
    BY <1>3 DEF TickPlaced, TickPlaceFails, ChainInv, TickOrder, TypeOK
  <2> QED
    BY <2>1, PlacedOrder, DeathsOneOrder
<1>4. ASSUME NEW o \in Oid, TickCancel(o) PROVE DeathsQueued
  BY <1>4, DeathsCancelRequest DEF TickCancel
<1>5. CASE TickCancelReturns \/ TickRecancelReturns
  <2>1. tick.o \in Oid /\ Known(tick.o) /\ (BrokerCancels(tick.o) \/ UNCHANGED orders)
    BY <1>5 DEF TickCancelReturns, TickRecancelReturns, BrokerCancels, ChainInv, TickOrder
  <2> QED
    BY <2>1, DeathsBrokerCancels, DeathsUnchanged
<1>6. ASSUME NEW o \in Oid, TickSweep(o) PROVE DeathsQueued
  <2>1. ~Working(orders[o])
    BY <1>6 DEF TickSweep, Working, Cancellable
  <2>2. UNCHANGED orders \/ \E ord : orders' = [orders EXCEPT ![o] = ord]
    BY <1>6 DEF TickSweep, SweepUnknown, SweepAdopts, SweepReissues
  <2> QED
    BY <2>1, <2>2, DeathsOneOrder, DeathsUnchanged
<1> QED
  BY <1>1, <1>2, <1>3, <1>4, <1>5, <1>6 DEF TickStep

\* Every step of a repricer.
LEMMA DeathsRep ==
    ASSUME ChainInv, NEW r \in Oid, RepStep(r)
    PROVE  DeathsQueued
<1>1. CASE RepAlone(r)
  BY <1>1, DeathsUnchanged
  DEF RepAlone, RepExpire, RepStop, RepAwaitQuote, RepNoChange, RepNothingLeft, RepModify, RepAbandon
<1>2. CASE RepCancels(r)
  <2> DEFINE o == rep[r].cur
  <2>1. o \in Oid /\ Known(o)
    BY <1>2, RepOrder DEF RepCancels, RepGiveUp, RepCancel, RepCancelReturns, RepLastReturns, Started
  <2>2. \/ BrokerCancels(o)
        \/ UNCHANGED orders
        \/ \E hard \in BOOLEAN : orders' = [orders EXCEPT ![o] = CancelRequested(@, hard)]
    BY <1>2 DEF RepCancels, RepGiveUp, RepCancel, RepCancelReturns, RepLastReturns, BrokerCancels
  <2> HIDE DEF o
  <2> QED
    BY <2>1, <2>2, DeathsBrokerCancels, DeathsCancelRequest, DeathsUnchanged
<1>3. CASE RepReplace(r)
  <2> DEFINE o == rep[r].cur
             n == NewId
  <2>1. ~Working(orders[n]) /\ ~Working(orders[o])
    BY <1>3, FreshId DEF RepReplace, Known, Cur, Replaceable, Working, Cancellable
  <2>2. \E new : orders' = [orders EXCEPT ![n] = new, ![o].succ = n]
    BY <1>3 DEF RepReplace, Superseded
  <2> HIDE DEF o, n
  <2>3. \A p \in Oid : p # n /\ p # o => orders'[p] = orders[p]
    BY <2>2 DEF ChainInv, TypeOK
  <2> QED
    BY <2>1, <2>3 DEF DeathsQueued, Working, Cancellable
<1> QED
  BY <1>1, <1>2, <1>3 DEF RepStep, RepAlone, RepCancels

\* A report: what it ends of its own accord it also queues.
LEMMA DeathsDelivery ==
    ASSUME ChainInv, NEW o \in Oid, Deliver(o)
    PROVE  DeathsQueued
<1> DEFINE m == Head(wire[o])
<1>1. orders \in [Oid -> Order] /\ orders[o] \in Order
  BY DEF ChainInv, TypeOK
<1>2. CASE m.status = cache[o].status
  BY <1>2, DeathsUnchanged DEF Deliver
<1>3. CASE m.status # cache[o].status
  <2>1. /\ orders' = [orders EXCEPT ![o] = Updated(@, m)]
        /\ FailClosed(orders[o], m) => o \in rejected'
    BY <1>3 DEF Deliver
  <2> HIDE DEF m
  <2>2. Working(orders[o]) => orders[o].status \notin Terminal \cup {"CANCEL_PENDING"}
    BY DEF Working, Cancellable, Terminal
  <2>3. Working(orders[o]) => Updated(orders[o], m).status = m.status
    BY <1>1, <2>2 DEF Updated, Order
  <2>4. Working(orders[o]) /\ m.status \in {"CANCELLED", "REJECTED"} => FailClosed(orders[o], m)
    BY <2>2 DEF FailClosed
  <2>5. \A p \in Oid : orders'[p] = IF p = o THEN Updated(orders[o], m) ELSE orders[p]
    BY <1>1, <2>1
  <2> QED
    BY <2>1, <2>3, <2>4, <2>5 DEF DeathsQueued, Working, Cancellable
<1> QED
  BY <1>2, <1>3

\* Every step of a spawned task.
LEMMA DeathsTask ==
    ASSUME ChainInv, NEW o \in Oid, TaskStep(o)
    PROVE  DeathsQueued
<1>1. Known(o)
  BY DEF TaskStep, TaskStart, TaskReturns, ChainInv, UnplacedSilent, AbsentUntouched
<1> QED
  BY <1>1, DeathsCancelRequest, DeathsBrokerCancels DEF TaskStep, TaskStart, TaskReturns, BrokerCancels

\* A placed order that goes from working to dead without a cancellation of ours in
\* between is queued for the fail-closed lock in the same step, whatever is lost,
\* reordered or disconnected (Hard Rule 7).
THEOREM DeathsReported == Spec => BrokerDeathReported
<1>1. ASSUME ChainInv, [Next]_vars PROVE DeathsQueued
  <2>1. CASE \/ UNCHANGED vars \/ Disconnect \/ Reconnect
             \/ \E o \in Oid : LoseCallback(o) \/ ExchStep(o)
    <3>1. UNCHANGED orders
      BY <2>1 DEF vars, Disconnect, Reconnect, LoseCallback, ExchStep, ExchAck, ExchFill, ExchCancel,
         ExchLateCancel, ExchKill
    <3> QED
      BY <3>1, DeathsUnchanged
  <2> QED
    BY <1>1, <2>1, DeathsTick, DeathsRep, DeathsDelivery, DeathsTask DEF Next
<1>2. ChainInv /\ [Next]_vars =>
        [\A o \in Oid :
            /\ orders[o].sent /\ orders[o].status \in Cancellable
            /\ orders'[o].status \in {"CANCELLED", "REJECTED"}
            => o \in rejected']_vars
  BY <1>1 DEF DeathsQueued, Working
<1> QED
  BY <1>2, ChainInvariant, PTL DEF Spec, BrokerDeathReported

-----------------------------------------------------------------------------
(* What is executed is counted: without losses of reports or of the           *)
(* connection, the filled_quantity of a cancelled order is what the exchange  *)
(* has executed, so that a replacement asks for what is left - unless the     *)
(* exchange refused the order after a second execution.                       *)

Refusals == {"REJECTED", "ERROR"}

\* The exchange executes no more of an order than it is for; it has the orders the
\* manager has sent.
VenueFacts ==
    \A o \in Oid :
        /\ exch[o].st = "none" => exch[o].filled = 0 /\ cache[o].filled = 0
        /\ exch[o].st # "none" => orders[o].sent
        /\ Known(o) => orders[o].qty > 0
        /\ exch[o].filled <= orders[o].qty
        /\ Live(o) => exch[o].filled < orders[o].qty

\* The report of an order's end tells all that was executed of it, ...
EndsInFull ==
    \A o \in Oid :
        /\ cache[o].status \in Terminal => cache[o].filled = exch[o].filled
        /\ \A m \in Reports(o) : m.status \in Terminal => m.filled = exch[o].filled

\* ... and what the broker client knows of it the manager knows, too.
EndsTold == \A o \in Oid : cache[o].status \in Terminal => orders[o].status \in Terminal

\* What replacements rely on.
CancelledCounted ==
    \A o \in Oid :
        orders[o].sent /\ orders[o].status = "CANCELLED" =>
            orders[o].filled = exch[o].filled \/ HidesFills(o)

\* The last report tells what has been executed and none tells more; a refusal is true
\* and brings no news of executions; only partial fills report executions of an order
\* that goes on.
LastReport(o) == IF wire[o] = <<>> THEN cache[o] ELSE wire[o][Len(wire[o])]
WireFacts ==
    \A o \in Oid :
        /\ LastReport(o).filled = exch[o].filled
        /\ \A k \in 1 .. Len(wire[o]) : wire[o][k].status \in Refusals =>
              wire[o][k].filled = IF k = 1 THEN cache[o].filled ELSE wire[o][k - 1].filled
        /\ \A m \in Reports(o) \cup {cache[o]} :
              /\ m.status = "SUBMITTED" => m.filled = 0
              /\ m.status = "PARTIALLY_FILLED" => m.filled > 0
              /\ m.status \in Refusals => exch[o].st = "REJECTED"
              /\ m.filled <= exch[o].filled
        /\ \A m \in Reports(o) : m.status \in {"SUBMITTED", "PARTIALLY_FILLED"} \cup Terminal
        /\ ~orders[o].sent => orders[o].filled = 0

\* The first execution of an order changes its status and is counted; only the next
\* ones are no news.
UpToDate ==
    \A o \in Oid :
        orders[o].sent /\ orders[o].status \notin Terminal /\ exch[o].filled <= 1
            => orders[o].filled = cache[o].filled

CountInv ==
    /\ VenueFacts /\ EndsInFull /\ EndsTold /\ CancelledCounted
    /\ WireFacts /\ UpToDate

\* The circumstances under which all of it holds: callbacks arrive and the connection
\* lasts.
Faultless == MaxLost = 0 /\ MaxDrops = 0

\* It holds of an exchange without orders.
LEMMA CountInit == Init => CountInv
BY QtyAssumption
DEF Init, CountInv, VenueFacts, EndsInFull, EndsTold, CancelledCounted, WireFacts, UpToDate, HidesFills,
    LastReport, Reports, NoOrder, Known, Live, Terminal, Refusals

\* Most steps leave the exchange alone and the order's count, or take over what the
\* client has counted.
QuietCount ==
    \A p \in Oid :
        /\ orders'[p].qty = orders[p].qty /\ SameChain(orders'[p], orders[p]) /\ (Known(p)' <=> Known(p))
        /\ \/ orders'[p].filled = orders[p].filled
           \/ orders[p].status \notin Terminal /\ orders'[p].filled = cache[p].filled
        /\ orders[p].status \in Terminal => orders'[p].status = orders[p].status
        /\ orders'[p].status = "CANCELLED" /\ orders[p].sent => orders[p].status = "CANCELLED"
        /\ exch'[p].st = exch[p].st /\ exch'[p].filled = exch[p].filled
        /\ wire'[p] = wire[p] /\ cache'[p].filled = cache[p].filled
        /\ cache'[p].status = cache[p].status \/ cache'[p].status = "CANCEL_PENDING"

\* Such a step keeps the count.
LEMMA CountQuiet ==
    ASSUME CountInv, QuietCount
    PROVE  CountInv'
<1>1. \A p \in Oid : /\ Reports(p)' = Reports(p) /\ LastReport(p)'.filled = LastReport(p).filled
                     /\ (Live(p)' <=> Live(p)) /\ orders'[p].sent = orders[p].sent
                     /\ (HidesFills(p)' <=> HidesFills(p))
    BY DEF QuietCount, Reports, LastReport, Live, SameChain, HidesFills
<1>2. VenueFacts'
    BY <1>1 DEF CountInv, VenueFacts, QuietCount
<1>3. EndsInFull' /\ EndsTold'
    BY <1>1 DEF CountInv, EndsInFull, EndsTold, QuietCount, Terminal
<1>4. CancelledCounted'
    BY <1>1 DEF CountInv, CancelledCounted, QuietCount, Terminal
<1>6. WireFacts'
    <2> SUFFICES ASSUME NEW o \in Oid
                 PROVE  /\ LastReport(o)'.filled = exch'[o].filled
                        /\ \A k \in 1 .. Len(wire'[o]) : wire'[o][k].status \in Refusals =>
                              wire'[o][k].filled = IF k = 1 THEN cache'[o].filled ELSE wire'[o][k - 1].filled
                        /\ \A m \in Reports(o)' \cup {cache'[o]} :
                              /\ m.status = "SUBMITTED" => m.filled = 0
                              /\ m.status = "PARTIALLY_FILLED" => m.filled > 0
                              /\ m.status \in Refusals => exch'[o].st = "REJECTED"
                              /\ m.filled <= exch'[o].filled
                        /\ \A m \in Reports(o)' : m.status \in {"SUBMITTED", "PARTIALLY_FILLED"} \cup Terminal
                        /\ ~orders'[o].sent => orders'[o].filled = 0
        BY DEF WireFacts
    <2>1. LastReport(o)'.filled = exch'[o].filled
        BY <1>1 DEF CountInv, WireFacts, QuietCount
    <2>2. \A k \in 1 .. Len(wire'[o]) : wire'[o][k].status \in Refusals =>
              wire'[o][k].filled = IF k = 1 THEN cache'[o].filled ELSE wire'[o][k - 1].filled
        <3>1. wire'[o] = wire[o] /\ cache'[o].filled = cache[o].filled
            BY DEF QuietCount
        <3> QED
            BY <3>1 DEF CountInv, WireFacts
    <2>3. \A m \in Reports(o)' \cup {cache'[o]} :
              /\ m.status = "SUBMITTED" => m.filled = 0
              /\ m.status = "PARTIALLY_FILLED" => m.filled > 0
              /\ m.status \in Refusals => exch'[o].st = "REJECTED"
              /\ m.filled <= exch'[o].filled
        BY <1>1 DEF CountInv, WireFacts, QuietCount, Refusals
    <2>4. \A m \in Reports(o)' : m.status \in {"SUBMITTED", "PARTIALLY_FILLED"} \cup Terminal
        BY <1>1 DEF CountInv, WireFacts
    <2>5. ~orders'[o].sent => orders'[o].filled = 0
        BY <1>1 DEF CountInv, WireFacts, VenueFacts, QuietCount
    <2> QED
        BY <2>1, <2>2, <2>3, <2>4, <2>5
<1>7. UpToDate'
    BY <1>1 DEF CountInv, UpToDate, QuietCount
<1> QED
    BY <1>2, <1>3, <1>4, <1>6, <1>7 DEF CountInv

-----------------------------------------------------------------------------
(* The quiet steps.                                                           *)

\* What requests, answers and reports make of an order's quantities.
LEMMA Quantities ==
    ASSUME NEW ord \in Order, NEW hard \in BOOLEAN
    PROVE  /\ CancelRequested(ord, hard).qty = ord.qty /\ CancelRequested(ord, hard).filled = ord.filled
           /\ Placed(ord).qty = ord.qty /\ Placed(ord).filled = ord.filled
           /\ NotPlaced(ord).qty = ord.qty /\ NotPlaced(ord).filled = ord.filled
           /\ Replacement(ord).qty = Remaining(ord) /\ Replacement(ord).filled = 0
<1> DEFINE flagged == [ord EXCEPT !.hard = ord.hard \/ hard]
<1>1. flagged \in Order /\ flagged.qty = ord.qty /\ flagged.filled = ord.filled
    BY DEF Order
<1>2. CancelRequested(ord, hard) = flagged \/ \E st : CancelRequested(ord, hard) = [flagged EXCEPT !.status = st]
    BY Zenon DEF CancelRequested
<1> HIDE DEF flagged
<1>3. CancelRequested(ord, hard).qty = ord.qty /\ CancelRequested(ord, hard).filled = ord.filled
    BY <1>1, <1>2 DEF Order
<1>4. Placed(ord).qty = ord.qty /\ Placed(ord).filled = ord.filled
    BY DEF Placed, Order
<1>5. NotPlaced(ord).qty = ord.qty /\ NotPlaced(ord).filled = ord.filled
    BY DEF NotPlaced, Order
<1>6. Replacement(ord).qty = Remaining(ord) /\ Replacement(ord).filled = 0
    BY DEF Replacement, Order
<1> QED
    BY <1>3, <1>4, <1>5, <1>6

\* What leaves dict, exchange, reports and cache alone is quiet.
LEMMA CountUnchanged ==
    ASSUME UNCHANGED <<orders, exch, wire, cache>>
    PROVE  QuietCount
BY DEF QuietCount, SameChain, Known

\* So is a step that gives one order another status that is no end of it.
LEMMA CountOneOrder ==
    ASSUME TypeOK, NEW o \in Oid, NEW ord, orders' = [orders EXCEPT ![o] = ord],
           SameChain(ord, orders[o]), ord.qty = orders[o].qty, ord.filled = orders[o].filled,
           ord.status # "ABSENT" <=> Known(o),
           orders[o].status \in Terminal => ord.status = orders[o].status,
           ord.status = "CANCELLED" /\ orders[o].sent => orders[o].status = "CANCELLED",
           UNCHANGED <<exch, wire, cache>>
    PROVE  QuietCount
<1>1. \A p \in Oid : orders'[p] = IF p = o THEN ord ELSE orders[p]
    BY DEF TypeOK
<1> QED
    BY <1>1 DEF QuietCount, SameChain, Known

\* cancel_order up to its await.
LEMMA CountCancelRequest ==
    ASSUME TypeOK, NEW o \in Oid, Known(o), NEW hard \in BOOLEAN,
           orders' = [orders EXCEPT ![o] = CancelRequested(@, hard)],
           UNCHANGED <<exch, wire, cache>>
    PROVE  QuietCount
<1> DEFINE ord == CancelRequested(orders[o], hard)
<1>1. orders[o] \in Order /\ orders[o].status # "ABSENT" /\ orders' = [orders EXCEPT ![o] = ord]
    BY DEF TypeOK, Known
<1>2. /\ SameChain(ord, orders[o]) /\ ord.qty = orders[o].qty /\ ord.filled = orders[o].filled
      /\ ord.status # "ABSENT" /\ (orders[o].status \in Terminal => ord.status = orders[o].status)
      /\ ord.status = "CANCELLED" => orders[o].status = "CANCELLED" \/ ~orders[o].sent
    BY <1>1, CancelRequestedOrder, Quantities
<1> HIDE DEF ord
<1> QED
    BY <1>1, <1>2, CountOneOrder DEF Known

\* ... and the return of the broker's part of it.
LEMMA CountBrokerCancels ==
    ASSUME TypeOK, connected, NEW o \in Oid, Known(o), BrokerCancels(o), UNCHANGED wire
    PROVE  QuietCount
<1> DEFINE m == [status |-> "CANCEL_PENDING", filled |-> cache[o].filled]
<1>1. /\ orders \in [Oid -> Order] /\ cache \in [Oid -> Report] /\ exch \in [Oid -> Venue]
      /\ orders[o] \in Order /\ orders[o].status # "ABSENT"
    BY DEF TypeOK, Known
<1>2. /\ \/ UNCHANGED <<cache, orders>>
         \/ cache' = [cache EXCEPT ![o] = m] /\ orders' = [orders EXCEPT ![o] = Updated(@, m)]
      /\ UNCHANGED exch \/ \E b \in BOOLEAN : exch' = [exch EXCEPT ![o].req = b]
    BY Zenon DEF BrokerCancels, BrokerCancelSent, BrokerCancelUnknown, BrokerCancelRaises
<1>3. \A p \in Oid : exch'[p].st = exch[p].st /\ exch'[p].filled = exch[p].filled
    BY <1>1, <1>2 DEF Venue
<1>4. CASE UNCHANGED <<cache, orders>>
    BY <1>3, <1>4 DEF QuietCount, SameChain, Known
<1>5. CASE cache' = [cache EXCEPT ![o] = m] /\ orders' = [orders EXCEPT ![o] = Updated(@, m)]
    <2>1. m \in Report /\ m.status = "CANCEL_PENDING" /\ m.filled = cache[o].filled
        BY <1>1 DEF Report, OrderStatus, Active
    <2> HIDE DEF m
    <2>2. PICK new : new = Updated(orders[o], m)
        OBVIOUS
    <2>3. /\ SameChain(new, orders[o]) /\ new.status # "ABSENT"
          /\ orders[o].status \in Terminal => new = orders[o]
        BY <1>1, <2>1, <2>2, UpdatedOrder
    <2>4. orders[o].status \notin Terminal =>
              new.status = "CANCEL_PENDING" /\ new.filled = cache[o].filled /\ new.qty = orders[o].qty
        BY <1>1, <2>1, <2>2 DEF Updated, Order
    <2>5. \A p \in Oid : orders'[p] = IF p = o THEN new ELSE orders[p]
        BY <1>1, <1>5, <2>2
    <2>6. \A p \in Oid : cache'[p] = IF p = o THEN m ELSE cache[p]
        BY <1>1, <1>5
    <2> QED
        BY <1>1, <1>3, <2>1, <2>3, <2>4, <2>5, <2>6 DEF QuietCount, SameChain, Known
<1> QED
    BY <1>2, <1>4, <1>5

\* The steps of a tick that place nothing.  The sweep finds no end that the manager has not
\* been told of, at most that everything was executed.
LEMMA CountTickOther ==
    ASSUME ChainInv, CancelInv, CountInv,
           \/ TickBegin \/ TickEnd \/ TickPlaceFails \/ TickCancelReturns \/ TickRecancelReturns
           \/ \E o \in Oid : TickCancel(o) \/ TickSweep(o)
    PROVE  QuietCount
<1>1. TypeOK /\ connected
    BY DEF ChainInv, CancelInv
<1>2. CASE TickBegin \/ TickEnd
    BY <1>2, CountUnchanged DEF TickBegin, TickEnd
<1>3. CASE TickPlaceFails
    <2>1. PICK ord : ord = NotPlaced(orders[tick.o])
        OBVIOUS
    <2>2. /\ tick.o \in Oid /\ orders[tick.o] \in Order /\ orders[tick.o].status = "RISK_CHECKED"
          /\ orders' = [orders EXCEPT ![tick.o] = ord] /\ UNCHANGED <<exch, wire, cache>>
        BY <1>3, <2>1 DEF TickPlaceFails, ChainInv, TickOrder, TypeOK
    <2>3. /\ SameChain(ord, orders[tick.o]) /\ ord.qty = orders[tick.o].qty
          /\ ord.filled = orders[tick.o].filled /\ ord.status = "ERROR"
        BY <2>1, <2>2, PlacedOrder, Quantities
    <2> QED
        BY <1>1, <2>2, <2>3, CountOneOrder DEF Known, Terminal
<1>4. ASSUME NEW o \in Oid, TickCancel(o) PROVE QuietCount
    BY <1>1, <1>4, CountCancelRequest DEF TickCancel
<1>5. CASE TickCancelReturns \/ TickRecancelReturns
    <2>1. tick.o \in Oid /\ Known(tick.o) /\ BrokerCancels(tick.o) /\ UNCHANGED wire
        BY <1>1, <1>5 DEF TickCancelReturns, TickRecancelReturns, BrokerCancels, ChainInv, TickOrder
    <2> QED
        BY <1>1, <2>1, CountBrokerCancels
<1>6. ASSUME NEW o \in Oid, TickSweep(o) PROVE QuietCount
    <2>1. /\ orders[o] \in Order /\ orders[o].status = "CANCEL_PENDING" /\ UNCHANGED <<exch, wire, cache>>
          /\ cache[o].status \notin Terminal
        BY <1>6 DEF TickSweep, TypeOK, ChainInv, CountInv, EndsTold, Terminal
    <2>2. \/ UNCHANGED orders
          \/ CachedStatus(o) = "FILLED" /\ orders' = [orders EXCEPT ![o].status = "FILLED"]
        BY <1>1, <1>6, <2>1 DEF TickSweep, SweepUnknown, SweepAdopts, SweepReissues, CachedStatus
    <2>3. CASE orders' = [orders EXCEPT ![o].status = "FILLED"]
        <3> DEFINE ord == [orders[o] EXCEPT !.status = "FILLED"]
        <3>1. /\ SameChain(ord, orders[o]) /\ ord.qty = orders[o].qty /\ ord.filled = orders[o].filled
              /\ ord.status = "FILLED"
            BY <2>1 DEF Order, SameChain
        <3>2. orders' = [orders EXCEPT ![o] = ord]
            BY <2>3
        <3> HIDE DEF ord
        <3> QED
            BY <1>1, <2>1, <3>1, <3>2, CountOneOrder DEF Known, Terminal
    <2> QED
        BY <2>1, <2>2, <2>3, CountUnchanged
<1> QED
    BY <1>2, <1>3, <1>4, <1>5, <1>6

\* The steps of a repricer that place nothing.
LEMMA CountRepOther ==
    ASSUME ChainInv, CancelInv, CountInv, NEW r \in Oid, RepAlone(r) \/ RepCancels(r)
    PROVE  QuietCount
<1>1. TypeOK /\ connected
    BY DEF ChainInv, CancelInv
<1>2. CASE RepAlone(r)
    <2>1. UNCHANGED <<orders, exch, wire, cache>>
        BY <1>2 DEF RepAlone, RepExpire, RepStop, RepAwaitQuote, RepNoChange, RepNothingLeft, RepModify, RepAbandon
    <2> QED
        BY <2>1, CountUnchanged
<1>3. CASE RepCancels(r)
    <2> DEFINE o == rep[r].cur
    <2>1. o \in Oid /\ Known(o) /\ UNCHANGED wire
        BY <1>3, RepOrder DEF RepCancels, RepGiveUp, RepCancel, RepCancelReturns, RepLastReturns, Started
    <2>2. \/ BrokerCancels(o)
          \/ UNCHANGED <<exch, cache>> /\ UNCHANGED orders
          \/ UNCHANGED <<exch, cache>>
             /\ \E hard \in BOOLEAN : orders' = [orders EXCEPT ![o] = CancelRequested(@, hard)]
        BY <1>3 DEF RepCancels, RepGiveUp, RepCancel, RepCancelReturns, RepLastReturns, BrokerCancels
    <2> HIDE DEF o
    <2> QED
        BY <1>1, <2>1, <2>2, CountBrokerCancels, CountCancelRequest, CountUnchanged
<1> QED
    BY <1>2, <1>3

\* Every step of a spawned task.
LEMMA CountTask ==
    ASSUME ChainInv, CancelInv, CountInv, NEW o \in Oid, TaskStep(o)
    PROVE  QuietCount
<1>1. TypeOK /\ connected /\ Known(o)
    BY DEF TaskStep, TaskStart, TaskReturns, ChainInv, UnplacedSilent, AbsentUntouched, CancelInv
<1> QED
    BY <1>1, CountCancelRequest, CountBrokerCancels DEF TaskStep, TaskStart, TaskReturns, BrokerCancels

-----------------------------------------------------------------------------
(* The steps that put an order into a chain or on the market: it begins with  *)
(* nothing executed and nothing reported.                                     *)

\* One order begins; of the others nothing that counts changes.
Begins(n, new) ==
    /\ exch[n].st = "none" /\ wire[n] = <<>> /\ cache[n].status \notin Terminal
    /\ orders'[n] = new /\ new.qty \in Nat \ {0} /\ new.filled = 0
    /\ exch'[n].st \in {"none", "new"} /\ exch'[n].filled = 0 /\ (exch'[n].st = "new" => new.sent)
    /\ \A p \in Oid \ {n} :
          /\ orders'[p].qty = orders[p].qty /\ orders'[p].filled = orders[p].filled
          /\ orders'[p].sent = orders[p].sent /\ orders'[p].status = orders[p].status
          /\ exch'[p] = exch[p]
    /\ UNCHANGED <<wire, cache>>

\* Such a step keeps the count.
LEMMA CountBegins ==
    ASSUME CountInv, NEW n \in Oid, NEW new, Begins(n, new)
    PROVE  CountInv'
<1>1. \A p \in Oid : /\ Reports(p)' = Reports(p) /\ LastReport(p)' = LastReport(p)
                     /\ exch'[p].filled = exch[p].filled /\ wire'[p] = wire[p] /\ cache'[p] = cache[p]
    BY DEF CountInv, VenueFacts, Begins, Reports, LastReport
<1>2. Reports(n) = {} /\ cache[n].filled = 0 /\ exch[n].filled = 0
    BY DEF CountInv, VenueFacts, Begins, Reports
<1>3. VenueFacts'
    <2> DEFINE Fact(p) ==
                  /\ exch[p].st = "none" => exch[p].filled = 0 /\ cache[p].filled = 0
                  /\ exch[p].st # "none" => orders[p].sent
                  /\ Known(p) => orders[p].qty > 0
                  /\ exch[p].filled <= orders[p].qty
                  /\ Live(p) => exch[p].filled < orders[p].qty
    <2>1. Fact(n)'
        BY <1>1, <1>2 DEF Begins, Known, Live
    <2>2. ASSUME NEW p \in Oid \ {n} PROVE Fact(p)'
        <3>1. Fact(p)
            BY DEF CountInv, VenueFacts
        <3> QED
            BY <1>1, <3>1 DEF Begins, Known, Live
    <2> QED
        BY <2>1, <2>2 DEF VenueFacts
<1>4. EndsInFull'
    BY <1>1 DEF CountInv, EndsInFull
<1>5. EndsTold'
    BY <1>1 DEF CountInv, EndsTold, Begins
<1>6. CancelledCounted'
    BY <1>1, <1>2 DEF CountInv, CancelledCounted, Begins, HidesFills
<1>8. WireFacts'
    <2>1. \A o \in Oid : ~orders'[o].sent => orders'[o].filled = 0
        BY DEF CountInv, WireFacts, Begins
    <2>2. \A p \in Oid : \A x \in Reports(p)' \cup {cache'[p]} :
              x.status \in Refusals => exch'[p].st = "REJECTED"
        <3>1. ASSUME NEW p \in Oid, p # n, NEW x \in Reports(p)' \cup {cache'[p]}, x.status \in Refusals
              PROVE  exch'[p].st = "REJECTED"
            BY <1>1, <3>1 DEF CountInv, WireFacts, Begins
        <3>2. Reports(n)' = {} /\ cache'[n].status \notin Refusals
            BY <1>1, <1>2 DEF Begins, Terminal, Refusals
        <3> QED
            BY <3>1, <3>2
    <2>3. \A p \in Oid : \A x \in Reports(p)' \cup {cache'[p]} :
              /\ x.status = "SUBMITTED" => x.filled = 0
              /\ x.status = "PARTIALLY_FILLED" => x.filled > 0
              /\ x.filled <= exch'[p].filled
        BY <1>1 DEF CountInv, WireFacts
    <2>4. \A p \in Oid : /\ LastReport(p)'.filled = exch'[p].filled
                         /\ \A m \in Reports(p)' : m.status \in {"SUBMITTED", "PARTIALLY_FILLED"} \cup Terminal
        BY <1>1 DEF CountInv, WireFacts
    <2>5. \A p \in Oid : \A k \in 1 .. Len(wire'[p]) : wire'[p][k].status \in Refusals =>
              wire'[p][k].filled = IF k = 1 THEN cache'[p].filled ELSE wire'[p][k - 1].filled
        <3> SUFFICES ASSUME NEW p \in Oid, NEW k \in 1 .. Len(wire'[p]), wire'[p][k].status \in Refusals
                     PROVE  wire'[p][k].filled = IF k = 1 THEN cache'[p].filled ELSE wire'[p][k - 1].filled
            OBVIOUS
        <3>1. wire'[p] = wire[p] /\ cache'[p] = cache[p]
            BY <1>1
        <3> QED
            BY <3>1 DEF CountInv, WireFacts
    <2> QED
        BY <2>1, <2>2, <2>3, <2>4, <2>5 DEF WireFacts
<1>9. UpToDate'
    BY <1>1, <1>2 DEF CountInv, UpToDate, Begins
<1> QED
    BY <1>3, <1>4, <1>5, <1>6, <1>8, <1>9 DEF CountInv

\* An order the exchange does not have is unreported.
LEMMA Unreported ==
    ASSUME ChainInv, CancelInv, NEW n \in Oid, exch[n].st = "none"
    PROVE  wire[n] = <<>> /\ cache[n].status \notin Terminal
BY DEF ChainInv, UnplacedSilent, CancelInv, TerminalReported, Gone

\* A tick that records an order.
LEMMA CountTickSubmit ==
    ASSUME ChainInv, CancelInv, CountInv, NEW l \in Legs, NEW entry \in BOOLEAN, TickSubmit(l, entry)
    PROVE  CountInv'
<1>1. PICK n : n = NewId
    OBVIOUS
<1>2. PICK new : new = NewOrder(n, l, entry)
    OBVIOUS
<1>3. n \in Oid /\ ~Known(n) /\ exch[n].st = "none"
    BY <1>1, FreshId DEF TickSubmit, ChainInv, AbsentUntouched
<1>4. orders' = [orders EXCEPT ![n] = new] /\ UNCHANGED <<exch, wire, cache>>
    BY <1>1, <1>2 DEF TickSubmit
<1>5. new.qty \in Nat \ {0} /\ new.filled = 0
    BY <1>2, QtyAssumption DEF NewOrder
<1>6. wire[n] = <<>> /\ cache[n].status \notin Terminal /\ exch[n].filled = 0
    BY <1>3, Unreported DEF CountInv, VenueFacts
<1>7. \A p \in Oid : orders'[p] = IF p = n THEN new ELSE orders[p]
    BY <1>4 DEF ChainInv, TypeOK
<1>8. Begins(n, new)
    BY <1>3, <1>4, <1>5, <1>6, <1>7 DEF Begins
<1> QED
    BY <1>3, <1>8, CountBegins

\* A tick whose place_order returns.
LEMMA CountTickPlaced ==
    ASSUME ChainInv, CancelInv, CountInv, TickPlaced
    PROVE  CountInv'
<1>1. PICK n : n = tick.o
    OBVIOUS
<1>2. PICK new : new = Placed(orders[n])
    OBVIOUS
<1>3. n \in Oid /\ Known(n) /\ exch[n].st = "none" /\ ~orders[n].sent /\ orders[n] \in Order
    BY <1>1 DEF TickPlaced, ChainInv, TickOrder, TypeOK
<1>4. /\ orders' = [orders EXCEPT ![n] = new] /\ exch' = [exch EXCEPT ![n].st = "new"]
      /\ UNCHANGED <<wire, cache>>
    BY <1>1, <1>2 DEF TickPlaced, AtExchange
<1>5. new.qty \in Nat \ {0} /\ new.filled = 0 /\ new.sent
    <2>1. new.qty = orders[n].qty /\ new.filled = orders[n].filled /\ new.sent
        BY <1>2, <1>3, PlacedOrder, Quantities
    <2>2. orders[n].qty \in Nat \ {0} /\ orders[n].filled = 0
        BY <1>3, QtyAssumption DEF CountInv, VenueFacts, WireFacts, Order
    <2> QED
        BY <2>1, <2>2
<1>6. wire[n] = <<>> /\ cache[n].status \notin Terminal /\ exch[n].filled = 0
    BY <1>3, Unreported DEF CountInv, VenueFacts
<1>7. \A p \in Oid : orders'[p] = IF p = n THEN new ELSE orders[p]
    BY <1>4 DEF ChainInv, TypeOK
<1>8. /\ exch'[n].st = "new" /\ exch'[n].filled = 0
      /\ \A p \in Oid \ {n} : exch'[p] = exch[p]
    BY <1>3, <1>4, <1>6 DEF ChainInv, TypeOK, Venue
<1>9. Begins(n, new)
    BY <1>3, <1>4, <1>5, <1>6, <1>7, <1>8 DEF Begins
<1> QED
    BY <1>3, <1>9, CountBegins

\* What a repricer's replacement is: the order n takes the place of o for what is left of o.
Replaces(r, o, n, new) ==
    /\ o \in Oid /\ n \in Oid /\ o # n
    /\ Known(o) /\ orders[o].sent /\ orders[o].status = "CANCELLED" /\ orders[o].succ = None
    /\ orders[o].ref = r /\ orders[o].qty - orders[o].filled > 0
    /\ orders[n] = NoOrder /\ exch[n].st = "none"
    /\ new \in Order /\ new.qty = orders[o].qty - orders[o].filled /\ new.filled = 0
    /\ new.ref = r /\ new.succ = None /\ new.status # "ABSENT"
    /\ orders'[n] = new
    /\ orders'[o].qty = orders[o].qty /\ orders'[o].filled = orders[o].filled
    /\ orders'[o].sent = orders[o].sent /\ orders'[o].status = orders[o].status
    /\ orders'[o].ref = orders[o].ref /\ orders'[o].succ = n
    /\ \A p \in Oid \ {n, o} : orders'[p] = orders[p]
    /\ \/ new.sent /\ exch' = [exch EXCEPT ![n].st = "new"]
       \/ ~new.sent /\ exch' = exch
    /\ UNCHANGED <<wire, cache>>

\* The repricer's step is such a replacement.
LEMMA IsReplacement ==
    ASSUME ChainInv, CancelInv, NEW r \in Oid, RepReplace(r)
    PROVE  \E o, n, new : Replaces(r, o, n, new)
<1>1. PICK o : o = rep[r].cur
    OBVIOUS
<1>2. PICK n : n = NewId
    OBVIOUS
<1>3. /\ o \in Oid /\ orders[o] \in Order /\ Known(o) /\ orders[o].sent /\ orders[o].status = "CANCELLED"
      /\ orders[o].succ = None /\ orders[o].ref = r /\ Remaining(orders[o]) > 0
      /\ UNCHANGED <<wire, cache>>
    BY <1>1 DEF RepReplace, Cur, Replaceable, Started, ChainInv, TypeOK, RepsAtTail
<1>4. n \in Oid /\ orders[n] = NoOrder /\ exch[n].st = "none" /\ n # o
    <2>1. n \in Oid /\ ~Known(n)
        BY <1>2, FreshId DEF RepReplace
    <2> QED
        BY <1>3, <2>1 DEF ChainInv, AbsentUntouched
<1>5. PICK rpl : rpl = Replacement(orders[o])
    OBVIOUS
<1>6. /\ rpl \in Order /\ rpl.ref = r /\ rpl.succ = None /\ ~rpl.sent
      /\ rpl.qty = orders[o].qty - orders[o].filled /\ rpl.filled = 0
    BY <1>3, <1>5, ReplacementOrder, Quantities DEF Remaining
<1>7. \/ /\ orders' = [orders EXCEPT ![n] = Placed(rpl), ![o].succ = n]
         /\ exch' = [exch EXCEPT ![n].st = "new"]
      \/ /\ orders' = [orders EXCEPT ![n] = NotPlaced(rpl), ![o].succ = n]
         /\ exch' = exch
    BY <1>1, <1>2, <1>5 DEF RepReplace, Superseded, AtExchange, Cur
<1>8. PICK new \in Order :
        /\ orders' = [orders EXCEPT ![n] = new, ![o].succ = n]
        /\ \/ new.sent /\ exch' = [exch EXCEPT ![n].st = "new"]
           \/ ~new.sent /\ exch' = exch
        /\ new.ref = r /\ new.succ = None /\ new.qty = rpl.qty /\ new.filled = rpl.filled
        /\ new.status # "ABSENT"
    <2>1. /\ Placed(rpl) \in Order /\ Placed(rpl).sent /\ Placed(rpl).ref = r /\ Placed(rpl).succ = None
          /\ Placed(rpl).qty = rpl.qty /\ Placed(rpl).filled = rpl.filled /\ Placed(rpl).status = "NEW"
        BY <1>6, PlacedOrder, Quantities
    <2>2. /\ NotPlaced(rpl) \in Order /\ ~NotPlaced(rpl).sent /\ NotPlaced(rpl).ref = r
          /\ NotPlaced(rpl).succ = None /\ NotPlaced(rpl).status = "ERROR"
          /\ NotPlaced(rpl).qty = rpl.qty /\ NotPlaced(rpl).filled = rpl.filled
        BY <1>6, PlacedOrder, Quantities DEF SameChain
    <2> QED
        BY <1>7, <2>1, <2>2
<1>9. /\ orders'[n] = new /\ orders'[o] = [orders[o] EXCEPT !.succ = n]
      /\ \A p \in Oid \ {n, o} : orders'[p] = orders[p]
    BY <1>3, <1>4, <1>8 DEF ChainInv, TypeOK
<1>10. /\ orders'[o].qty = orders[o].qty /\ orders'[o].filled = orders[o].filled
       /\ orders'[o].sent = orders[o].sent /\ orders'[o].status = orders[o].status
       /\ orders'[o].ref = orders[o].ref /\ orders'[o].succ = n
    BY <1>3, <1>9 DEF Order
<1>11. orders[o].qty - orders[o].filled > 0
    BY <1>3 DEF Remaining
<1>12. Replaces(r, o, n, new)
    BY <1>3, <1>4, <1>6, <1>8, <1>9, <1>10, <1>11 DEF Replaces
<1> QED
    BY <1>12

\* It keeps the count.
LEMMA CountRepReplace ==
    ASSUME ChainInv, CancelInv, CountInv, NEW r \in Oid, RepReplace(r)
    PROVE  CountInv'
<1>1. PICK o, n, new : Replaces(r, o, n, new)
    BY IsReplacement
<1>2. n \in Oid /\ exch[n].st = "none" /\ wire[n] = <<>> /\ cache[n].status \notin Terminal /\ exch[n].filled = 0
    BY <1>1, Unreported DEF Replaces, CountInv, VenueFacts
<1>3. /\ exch'[n].st \in {"none", "new"} /\ exch'[n].filled = 0 /\ (exch'[n].st = "new" => new.sent)
      /\ \A p \in Oid \ {n} : exch'[p] = exch[p]
    <2>1. CASE new.sent /\ exch' = [exch EXCEPT ![n].st = "new"]
        BY <1>2, <2>1 DEF ChainInv, TypeOK, Venue
    <2>2. CASE exch' = exch
        BY <1>2, <2>2
    <2> QED
        BY <1>1, <2>1, <2>2 DEF Replaces
<1>4. new.qty \in Nat \ {0}
    BY <1>1, QtyAssumption DEF Replaces, Order
<1>5. Begins(n, new)
    BY <1>1, <1>2, <1>3, <1>4 DEF Replaces, Begins
<1> QED
    BY <1>2, <1>5, CountBegins

-----------------------------------------------------------------------------
(* Reports on their way and delivered.                                        *)

\* What a report makes of an order's count: it takes over the report's, unless the report
\* refuses an order that is being cancelled.
LEMMA UpdatedCount ==
    ASSUME NEW ord \in Order, NEW m \in Report, ord.status # "ABSENT",
           m.status \in {"SUBMITTED", "PARTIALLY_FILLED"} \cup Terminal,
           NEW new, new = Updated(ord, m)
    PROVE  /\ new.qty = ord.qty
           /\ ord.status \in Terminal => new = ord
           /\ ord.status \notin Terminal =>
                 /\ m.status \in Terminal <=> new.status \in Terminal
                 /\ \/ new.filled = m.filled
                    \/ m.status \in Refusals /\ new.filled = ord.filled
<1>1. CASE ord.status \in Terminal
    BY <1>1, UpdatedOrder
<1>2. CASE ord.status \notin Terminal /\ ord.status = "CANCEL_PENDING" /\ m.status \in Refusals
    <2>1. new = [ord EXCEPT !.status = "CANCELLED"]
        BY <1>2 DEF Updated, Refusals
    <2> QED
        BY <1>2, <2>1 DEF Order, Terminal, Refusals
<1>3. CASE ord.status = "CANCEL_PENDING" /\ m.status \in {"SUBMITTED", "PARTIALLY_FILLED"}
    <2>1. new = [ord EXCEPT !.filled = m.filled]
        BY <1>3 DEF Updated, Terminal
    <2> QED
        BY <1>3, <2>1 DEF Order, Terminal
<1>4. CASE /\ ord.status \notin Terminal
           /\ ord.status = "CANCEL_PENDING" => m.status \in Terminal \ Refusals
    <2>1. new = [ord EXCEPT !.status = m.status, !.filled = m.filled]
        BY <1>4 DEF Updated, Terminal, Refusals
    <2>2. PICK st, f : st = m.status /\ f = m.filled
        OBVIOUS
    <2>3. new = [ord EXCEPT !.status = st, !.filled = f]
        BY <2>1, <2>2
    <2>4. new.status = st /\ new.filled = f /\ new.qty = ord.qty
        BY <2>3 DEF Order
    <2> QED
        BY <1>4, <2>2, <2>4
<1> QED
    BY <1>1, <1>2, <1>3, <1>4

\* What the rest of the wire says once its first report is taken off.
LEMMA TakenOff ==
    ASSUME NEW w \in Seq(Report), w # <<>>
    PROVE  /\ w[1] = Head(w) /\ Len(w) \in Nat \ {0} /\ Tail(w) \in Seq(Report)
           /\ Len(Tail(w)) = Len(w) - 1
           /\ \A k \in 1 .. Len(Tail(w)) : Tail(w)[k] = w[k + 1]
OBVIOUS

\* What was last said, and that a refusal repeats it, does not change by delivery.
LEMMA DeliveredFacts ==
    ASSUME TypeOK, CountInv, NEW o \in Oid, wire[o] # <<>>,
           wire' = [wire EXCEPT ![o] = Tail(@)], cache' = [cache EXCEPT ![o] = Head(wire[o])]
    PROVE  /\ \A p \in Oid : /\ LastReport(p)' = LastReport(p) /\ Reports(p)' \subseteq Reports(p)
                             /\ p # o => wire'[p] = wire[p] /\ cache'[p] = cache[p]
           /\ cache'[o] = Head(wire[o]) /\ Head(wire[o]) \in Reports(o) /\ Head(wire[o]) \in Report
           /\ \A k \in 1 .. Len(wire'[o]) : wire'[o][k].status \in Refusals =>
                 wire'[o][k].filled = IF k = 1 THEN cache'[o].filled ELSE wire'[o][k - 1].filled
<1>1. PICK w \in Seq(Report) : w = wire[o]
    BY DEF TypeOK
<1>2. /\ w[1] = Head(w) /\ Len(w) \in Nat \ {0} /\ Tail(w) \in Seq(Report)
      /\ Len(Tail(w)) = Len(w) - 1
      /\ \A k \in 1 .. Len(Tail(w)) : Tail(w)[k] = w[k + 1]
    BY <1>1, TakenOff
<1>3. PICK t \in Seq(Report) : t = Tail(w)
    BY <1>2
<1>4. PICK n \in Nat : n = Len(t) /\ Len(w) = n + 1
    <2>1. Len(t) \in Nat
        BY <1>3
    <2>2. Len(t) = Len(w) - 1 /\ Len(w) \in Nat
        BY <1>2, <1>3
    <2> QED
        BY <2>1, <2>2
<1>5. \A k \in 1 .. n : t[k] = w[k + 1]
    BY <1>2, <1>3, <1>4
<1>6. wire'[o] = t /\ cache'[o] = w[1]
    BY <1>1, <1>2, <1>3 DEF TypeOK
<1>7. \A p \in Oid : p # o => wire'[p] = wire[p] /\ cache'[p] = cache[p]
    BY DEF TypeOK
<1>8. w[1] \in Reports(o) /\ w[1] \in Report
    BY <1>1, <1>4 DEF Reports
<1>9. Reports(o)' \subseteq Reports(o)
    BY <1>1, <1>4, <1>5, <1>6 DEF Reports
<1>10. LastReport(o)' = LastReport(o)
    <2>1. LastReport(o) = w[n + 1]
        BY <1>1, <1>4 DEF LastReport
    <2>2. LastReport(o)' = IF t = <<>> THEN w[1] ELSE t[n]
        <3>1. LastReport(o)' = IF wire'[o] = <<>> THEN cache'[o] ELSE wire'[o][Len(wire'[o])]
            BY DEF LastReport
        <3>2. n = Len(t)
            BY <1>4
        <3> QED
            BY <1>6, <3>1, <3>2, Zenon
    <2>3. CASE t = <<>>
        <3>1. n = 0
            BY <1>4, <2>3
        <3> QED
            BY <2>1, <2>2, <2>3, <3>1
    <2>4. CASE t # <<>>
        <3>1. n \in 1 .. n
            BY <1>3, <1>4, <2>4
        <3> QED
            BY <1>5, <2>1, <2>2, <2>4, <3>1
    <2> QED
        BY <2>3, <2>4
<1>11. ASSUME NEW k \in 1 .. n, t[k].status \in Refusals
       PROVE  t[k].filled = IF k = 1 THEN w[1].filled ELSE t[k - 1].filled
    <2>1. k + 1 \in 1 .. Len(w) /\ k + 1 # 1 /\ (k + 1) - 1 = k /\ t[k] = w[k + 1]
        BY <1>4, <1>5
    <2>2. w[k + 1].filled = w[k].filled
        <3>1. \A j \in 1 .. Len(w) : w[j].status \in Refusals =>
                  w[j].filled = IF j = 1 THEN cache[o].filled ELSE w[j - 1].filled
            BY <1>1 DEF CountInv, WireFacts
        <3> QED
            BY <1>11, <2>1, <3>1
    <2>3. k # 1 => k - 1 \in 1 .. n /\ (k - 1) + 1 = k
        BY <1>4
    <2>4. k # 1 => t[k - 1] = w[k]
        BY <1>5, <2>3
    <2> QED
        BY <2>1, <2>2, <2>4
<1>12. \A p \in Oid : p # o => LastReport(p)' = LastReport(p) /\ Reports(p)' = Reports(p)
    BY <1>7 DEF LastReport, Reports
<1>13. \A p \in Oid : LastReport(p)' = LastReport(p) /\ Reports(p)' \subseteq Reports(p)
    BY <1>9, <1>10, <1>12
<1>14. cache'[o] = Head(wire[o]) /\ Head(wire[o]) \in Reports(o) /\ Head(wire[o]) \in Report
    BY <1>1, <1>2, <1>6, <1>8
<1>15. \A k \in 1 .. Len(wire'[o]) : wire'[o][k].status \in Refusals =>
          wire'[o][k].filled = IF k = 1 THEN cache'[o].filled ELSE wire'[o][k - 1].filled
    <2>1. n = Len(t)
        BY <1>4
    <2>2. \A k \in 1 .. Len(t) : t[k].status \in Refusals =>
              t[k].filled = IF k = 1 THEN w[1].filled ELSE t[k - 1].filled
        BY <1>11, <2>1, Zenon
    <2> SUFFICES ASSUME NEW k \in 1 .. Len(wire'[o]), wire'[o][k].status \in Refusals
                 PROVE  wire'[o][k].filled = IF k = 1 THEN cache'[o].filled ELSE wire'[o][k - 1].filled
        OBVIOUS
    <2>3. k \in 1 .. Len(t) /\ t[k].status \in Refusals
        BY <1>6, Zenon
    <2>4. t[k].filled = IF k = 1 THEN w[1].filled ELSE t[k - 1].filled
        BY <2>2, <2>3, Zenon
    <2>5. wire'[o][k] = t[k] /\ wire'[o][k - 1] = t[k - 1] /\ cache'[o] = w[1]
        BY <1>6, Zenon
    <2> QED
        BY <2>4, <2>5
<1> QED
    BY <1>7, <1>13, <1>14, <1>15

\* A report that reaches the manager.  Where a refusal ends an order without its count, or a
\* report is no news, the count was right before, or the refusal hides executions.
LEMMA CountDeliver ==
    ASSUME Faultless, ChainInv, CancelInv, CountInv, NEW o \in Oid, Deliver(o)
    PROVE  CountInv'
<1>1. PICK m : m = Head(wire[o])
    OBVIOUS
<1>2. PICK ord \in Order : ord = orders[o] /\ ord.status # "ABSENT" /\ ord.sent
    BY DEF Deliver, ChainInv, TypeOK, UnplacedSilent, AbsentUntouched, Known, CountInv, VenueFacts
<1>3. /\ TypeOK /\ wire[o] # <<>> /\ wire' = [wire EXCEPT ![o] = Tail(@)]
      /\ cache' = [cache EXCEPT ![o] = Head(wire[o])] /\ exch' = exch
    BY DEF Deliver, ChainInv
<1>4. /\ \A p \in Oid : /\ LastReport(p)' = LastReport(p) /\ Reports(p)' \subseteq Reports(p)
                        /\ p # o => wire'[p] = wire[p] /\ cache'[p] = cache[p]
      /\ cache'[o] = m /\ m \in Reports(o) /\ m \in Report
      /\ \A k \in 1 .. Len(wire'[o]) : wire'[o][k].status \in Refusals =>
            wire'[o][k].filled = IF k = 1 THEN cache'[o].filled ELSE wire'[o][k - 1].filled
    <2>1. /\ \A p \in Oid : /\ LastReport(p)' = LastReport(p) /\ Reports(p)' \subseteq Reports(p)
                            /\ p # o => wire'[p] = wire[p] /\ cache'[p] = cache[p]
          /\ cache'[o] = Head(wire[o]) /\ Head(wire[o]) \in Reports(o) /\ Head(wire[o]) \in Report
          /\ \A k \in 1 .. Len(wire'[o]) : wire'[o][k].status \in Refusals =>
                wire'[o][k].filled = IF k = 1 THEN cache'[o].filled ELSE wire'[o][k - 1].filled
        BY <1>3, DeliveredFacts
    <2> QED
        BY <1>1, <2>1, Zenon
<1>5. m.status \in {"SUBMITTED", "PARTIALLY_FILLED"} \cup Terminal
    BY <1>4 DEF CountInv, WireFacts
<1>6. PICK new : /\ new = ord \/ new = Updated(ord, m)
                 /\ \A p \in Oid : orders'[p] = IF p = o THEN new ELSE orders[p]
                 /\ m.status # cache[o].status => new = Updated(ord, m)
                 /\ m.status = cache[o].status => new = ord
    <2>1. \/ m.status # cache[o].status /\ orders' = [orders EXCEPT ![o] = Updated(ord, m)]
          \/ m.status = cache[o].status /\ orders' = orders
        BY <1>1, <1>2 DEF Deliver
    <2> QED
        BY <1>2, <2>1 DEF ChainInv, TypeOK
<1>7. m.status \in Terminal => m.filled = exch[o].filled
    BY <1>4 DEF CountInv, EndsInFull
<1>8. /\ new.qty = ord.qty /\ new.sent = ord.sent /\ new.status # "ABSENT"
      /\ ord.status \in Terminal => new = ord
    <2>1. CASE new = ord
        BY <1>2, <2>1
    <2>2. CASE new = Updated(ord, m)
        <3>1. new.qty = ord.qty /\ (ord.status \in Terminal => new = ord)
            BY <1>2, <1>4, <1>5, <2>2, UpdatedCount
        <3>2. new.status # "ABSENT" /\ SameChain(new, ord)
            BY <1>2, <1>4, <2>2, UpdatedOrder
        <3> QED
            BY <3>1, <3>2 DEF SameChain
    <2> QED
        BY <1>6, <2>1, <2>2
\* The order is over if the report says so.
<1>9. m.status \in Terminal => new.status \in Terminal
    <2>1. CASE new = Updated(ord, m)
        BY <1>2, <1>4, <1>5, <2>1, UpdatedCount
    <2>2. CASE m.status = cache[o].status
        BY <1>2, <1>6, <2>2 DEF CountInv, EndsTold
    <2> QED
        BY <1>6, <2>1, <2>2
\* Its count is the report's.
<1>10. ord.status \notin Terminal /\ (new.status \in Terminal \/ exch[o].filled <= 1)
          => new.filled = m.filled \/ HidesFills(o)
    <2> SUFFICES ASSUME ord.status \notin Terminal, new.status \in Terminal \/ exch[o].filled <= 1,
                        ~HidesFills(o)
                 PROVE  new.filled = m.filled
        OBVIOUS
    <2>1. exch[o].filled <= 1 => ord.filled = cache[o].filled
        BY <1>2 DEF CountInv, UpToDate
    <2>2. CASE m.status \in Refusals
        <3>1. exch[o].filled <= 1
            <4>1. exch[o].st = "REJECTED" /\ exch[o].filled \in Nat
                BY <1>3, <1>4, <2>2, QtyAssumption DEF CountInv, WireFacts, TypeOK, Venue
            <4> QED
                BY <4>1 DEF HidesFills
        <3>2. m.filled = cache[o].filled
            <4>1. PICK w \in Seq(Report) : w = wire[o] /\ w # <<>>
                BY <1>3 DEF TypeOK
            <4>2. w[1] = m /\ 1 \in 1 .. Len(w)
                BY <1>1, <4>1
            <4>3. \A k \in 1 .. Len(w) : w[k].status \in Refusals =>
                      w[k].filled = IF k = 1 THEN cache[o].filled ELSE w[k - 1].filled
                BY <4>1 DEF CountInv, WireFacts
            <4> QED
                BY <2>2, <4>2, <4>3
        <3>3. new = ord \/ new.filled = m.filled \/ new.filled = ord.filled
            BY <1>2, <1>4, <1>5, <1>6, UpdatedCount
        <3> QED
            BY <2>1, <3>1, <3>2, <3>3
    <2>3. CASE m.status \notin Refusals /\ m.status # cache[o].status
        BY <1>2, <1>4, <1>5, <1>6, <2>3, UpdatedCount
    <2>4. CASE m.status = cache[o].status
        <3>1. new = ord /\ exch[o].filled <= 1 /\ m.status \notin Terminal
            BY <1>2, <1>6, <2>4 DEF CountInv, EndsTold
        <3>2. /\ m.filled \in Nat /\ cache[o].filled \in Nat /\ exch[o].filled \in Nat
              /\ \A x \in {m, cache[o]} : /\ x.status = "SUBMITTED" => x.filled = 0
                                          /\ x.status = "PARTIALLY_FILLED" => x.filled > 0
                                          /\ x.filled <= exch[o].filled
            BY <1>3, <1>4, QtyAssumption DEF CountInv, WireFacts, TypeOK, Report, Venue
        <3>3. m.filled = cache[o].filled
            BY <1>5, <2>4, <3>1, <3>2
        <3> QED
            BY <2>1, <3>1, <3>3
    <2> QED
        BY <2>2, <2>3, <2>4
<1>11. VenueFacts'
    <2>1. \A p \in Oid : /\ orders'[p].qty = orders[p].qty /\ orders'[p].sent = orders[p].sent
                         /\ Known(p)' <=> Known(p)
        BY <1>2, <1>6, <1>8 DEF Known
    <2>2. exch[o].st # "none"
        BY <1>3 DEF ChainInv, UnplacedSilent
    <2> QED
        BY <1>3, <1>4, <2>1, <2>2 DEF CountInv, VenueFacts, Live
<1>12. EndsInFull'
    BY <1>3, <1>4, <1>7 DEF CountInv, EndsInFull
<1>13. EndsTold'
    BY <1>4, <1>6, <1>9 DEF CountInv, EndsTold
<1>14. CancelledCounted'
    <2>1. new.status = "CANCELLED" => new.filled = exch[o].filled \/ HidesFills(o)
        <3>1. CASE ord.status \in Terminal
            BY <1>2, <1>8, <3>1 DEF CountInv, CancelledCounted
        <3>2. CASE ord.status \notin Terminal /\ new.status = "CANCELLED"
            <4>1. m.status \in Terminal
                BY <1>2, <1>4, <1>5, <1>6, <3>2, UpdatedCount DEF Terminal
            <4> QED
                BY <1>7, <1>10, <3>2, <4>1 DEF Terminal
        <3> QED
            BY <3>1, <3>2
    <2> QED
        BY <1>3, <1>6, <2>1 DEF CountInv, CancelledCounted, HidesFills
<1>16. WireFacts'
    <2>1. \A p \in Oid : LastReport(p)'.filled = exch'[p].filled
        BY <1>3, <1>4 DEF CountInv, WireFacts
    <2>2. \A p \in Oid : \A k \in 1 .. Len(wire'[p]) : wire'[p][k].status \in Refusals =>
              wire'[p][k].filled = IF k = 1 THEN cache'[p].filled ELSE wire'[p][k - 1].filled
        <3>1. ASSUME NEW p \in Oid, p # o, NEW k \in 1 .. Len(wire'[p]), wire'[p][k].status \in Refusals
              PROVE  wire'[p][k].filled = IF k = 1 THEN cache'[p].filled ELSE wire'[p][k - 1].filled
            <4>1. wire'[p] = wire[p] /\ cache'[p] = cache[p]
                BY <1>4, <3>1
            <4> QED
                BY <3>1, <4>1 DEF CountInv, WireFacts
        <3> QED
            BY <1>4, <3>1
    <2>3. \A p \in Oid : \A x \in Reports(p)' \cup {cache'[p]} :
              /\ x.status = "SUBMITTED" => x.filled = 0
              /\ x.status = "PARTIALLY_FILLED" => x.filled > 0
              /\ x.status \in Refusals => exch'[p].st = "REJECTED"
              /\ x.filled <= exch'[p].filled
        BY <1>3, <1>4 DEF CountInv, WireFacts
    <2>4. \A p \in Oid : \A x \in Reports(p)' : x.status \in {"SUBMITTED", "PARTIALLY_FILLED"} \cup Terminal
        BY <1>4 DEF CountInv, WireFacts
    <2>5. \A p \in Oid : ~orders'[p].sent => orders'[p].filled = 0
        BY <1>2, <1>6, <1>8 DEF CountInv, WireFacts
    <2> QED
        BY <2>1, <2>2, <2>3, <2>4, <2>5 DEF WireFacts
<1>17. UpToDate'
    <2>1. exch[o].filled <= 1 /\ new.status \notin Terminal => new.filled = cache'[o].filled
        <3>1. exch[o].filled \in Nat
            BY <1>3, QtyAssumption DEF TypeOK, Venue
        <3> QED
            BY <1>4, <1>8, <1>10, <3>1 DEF HidesFills
    <2> QED
        BY <1>3, <1>4, <1>6, <2>1 DEF CountInv, UpToDate
<1> QED
    BY <1>11, <1>12, <1>13, <1>14, <1>16, <1>17 DEF CountInv

\* What the exchange may do to an order and say about it.
Tells(o, v, m) ==
    /\ exch' = [exch EXCEPT ![o] = v] /\ wire' = [wire EXCEPT ![o] = Append(@, m)]
    /\ UNCHANGED <<orders, cache>>
    /\ m.filled = v.filled /\ exch[o].st # "none" /\ v.st # "none"
    /\ v.filled <= orders[o].qty
    /\ v.st \in {"new", "working"} => v.filled < orders[o].qty
    /\ v.filled = exch[o].filled \/ (Live(o) /\ v.filled = exch[o].filled + 1)
    /\ exch[o].st # "REJECTED"
    /\ m.status \in {"SUBMITTED", "PARTIALLY_FILLED"} \cup Terminal
    /\ m.status = "SUBMITTED" => m.filled = 0
    /\ m.status = "PARTIALLY_FILLED" => m.filled > 0
    /\ m.status \in Refusals => v.filled = exch[o].filled /\ v.st = "REJECTED"

\* What was said before stays said.
LEMMA SaidFacts ==
    ASSUME TypeOK, CountInv, NEW o \in Oid, NEW v, NEW m, Tells(o, v, m)
    PROVE  /\ \A p \in Oid : /\ exch'[p] = IF p = o THEN v ELSE exch[p]
                             /\ p # o => wire'[p] = wire[p] /\ Reports(p)' = Reports(p)
                                         /\ LastReport(p)' = LastReport(p)
           /\ Reports(o)' \subseteq Reports(o) \cup {m} /\ LastReport(o)' = m
           /\ \A k \in 1 .. Len(wire'[o]) : wire'[o][k].status \in Refusals =>
                 wire'[o][k].filled = IF k = 1 THEN cache'[o].filled ELSE wire'[o][k - 1].filled
<1>1. PICK w \in Seq(Report) : w = wire[o]
    BY DEF TypeOK
<1>2. PICK t : t = Append(w, m)
    OBVIOUS
<1>3. PICK n \in Nat : n = Len(w) /\ Len(t) = n + 1 /\ t # <<>>
    BY <1>1, <1>2
<1>4. t[n + 1] = m /\ \A k \in 1 .. n : t[k] = w[k]
    BY <1>1, <1>2, <1>3
<1>5. wire'[o] = t /\ cache'[o] = cache[o] /\ \A p \in Oid : p # o => wire'[p] = wire[p] /\ cache'[p] = cache[p]
    BY <1>1, <1>2 DEF TypeOK, Tells
<1>6. \A p \in Oid : /\ exch'[p] = IF p = o THEN v ELSE exch[p]
                     /\ p # o => wire'[p] = wire[p] /\ Reports(p)' = Reports(p)
                                 /\ LastReport(p)' = LastReport(p)
    BY <1>5 DEF TypeOK, Tells, Reports, LastReport
<1>7. LastReport(o)' = m
    <2>1. LastReport(o)' = IF wire'[o] = <<>> THEN cache'[o] ELSE wire'[o][Len(wire'[o])]
        BY DEF LastReport
    <2>2. wire'[o][Len(wire'[o])] = t[n + 1]
        BY <1>3, <1>5, Zenon
    <2> QED
        BY <1>3, <1>4, <1>5, <2>1, <2>2
<1>8. Reports(o)' \subseteq Reports(o) \cup {m}
    BY <1>1, <1>3, <1>4, <1>5 DEF Reports
<1>9. ASSUME NEW k \in 1 .. n + 1, t[k].status \in Refusals
      PROVE  t[k].filled = IF k = 1 THEN cache[o].filled ELSE t[k - 1].filled
    <2>1. CASE k \in 1 .. n
        <3>1. w[k].filled = IF k = 1 THEN cache[o].filled ELSE w[k - 1].filled
            BY <1>1, <1>3, <1>4, <1>9, <2>1 DEF CountInv, WireFacts
        <3>2. k # 1 => k - 1 \in 1 .. n
            BY <2>1
        <3> QED
            BY <1>4, <2>1, <3>1, <3>2
    <2>2. CASE k = n + 1
        <3>1. t[k] = m /\ m.filled = exch[o].filled
            BY <1>4, <1>9, <2>2 DEF Tells
        <3>2. LastReport(o).filled = exch[o].filled
            BY DEF CountInv, WireFacts
        <3>3. CASE w = <<>>
            <4>1. n = 0
                BY <1>3, <3>3
            <4>2. LastReport(o) = cache[o]
                BY <1>1, <3>3 DEF LastReport
            <4> QED
                BY <2>2, <3>1, <3>2, <4>1, <4>2
        <3>4. CASE w # <<>>
            <4>1. n # 0
                BY <1>1, <1>3, <3>4, TakenOff
            <4>2. LastReport(o) = w[n]
                BY <1>1, <1>3, <3>4 DEF LastReport
            <4>3. k - 1 = n /\ k # 1 /\ t[n] = w[n]
                BY <1>3, <1>4, <2>2, <4>1
            <4> QED
                BY <3>1, <3>2, <4>2, <4>3
        <3> QED
            BY <3>3, <3>4
    <2> QED
        BY <2>1, <2>2
<1>10. ASSUME NEW k \in 1 .. Len(wire'[o]), wire'[o][k].status \in Refusals
       PROVE  wire'[o][k].filled = IF k = 1 THEN cache'[o].filled ELSE wire'[o][k - 1].filled
    <2>1. k \in 1 .. Len(t) /\ t[k].status \in Refusals
        BY <1>5, <1>10, Zenon
    <2>2. t[k].filled = IF k = 1 THEN cache[o].filled ELSE t[k - 1].filled
        BY <1>3, <1>9, <2>1
    <2>3. wire'[o][k] = t[k] /\ wire'[o][k - 1] = t[k - 1] /\ cache'[o] = cache[o]
        BY <1>5, Zenon
    <2> QED
        BY <2>2, <2>3
<1> QED
    BY <1>6, <1>7, <1>8, <1>10

\* Whatever it may say keeps the count.
LEMMA CountTells ==
    ASSUME ChainInv, CancelInv, CountInv, NEW o \in Oid, NEW v, NEW m, Tells(o, v, m)
    PROVE  CountInv'
<1>1. TypeOK
    BY DEF ChainInv
<1>2. /\ \A p \in Oid : /\ exch'[p] = IF p = o THEN v ELSE exch[p]
                        /\ p # o => wire'[p] = wire[p] /\ Reports(p)' = Reports(p)
                                    /\ LastReport(p)' = LastReport(p)
      /\ Reports(o)' \subseteq Reports(o) \cup {m} /\ LastReport(o)' = m
      /\ \A k \in 1 .. Len(wire'[o]) : wire'[o][k].status \in Refusals =>
            wire'[o][k].filled = IF k = 1 THEN cache'[o].filled ELSE wire'[o][k - 1].filled
    BY <1>1, SaidFacts, Zenon
<1>3. orders' = orders /\ cache' = cache
    BY DEF Tells
\* An end that was told of had no executions after it.
<1>4. v.filled = exch[o].filled \/ /\ cache[o].status \notin Terminal
                                   /\ \A x \in Reports(o) : x.status \notin Terminal
                                   /\ ~(orders[o].sent /\ orders[o].status = "CANCELLED")
    BY DEF Tells, CancelInv, TerminalReported, CancelledCannotFill, Gone, Live
<1>5. VenueFacts'
    <2> DEFINE Fact(p) ==
                  /\ exch[p].st = "none" => exch[p].filled = 0 /\ cache[p].filled = 0
                  /\ exch[p].st # "none" => orders[p].sent
                  /\ Known(p) => orders[p].qty > 0
                  /\ exch[p].filled <= orders[p].qty
                  /\ Live(p) => exch[p].filled < orders[p].qty
    <2>1. ASSUME NEW p \in Oid, p # o PROVE Fact(p)'
        <3>1. Fact(p) /\ exch'[p] = exch[p]
            BY <1>2, <2>1 DEF CountInv, VenueFacts
        <3> QED
            BY <1>3, <3>1 DEF Known, Live
    <2>2. Fact(o)'
        <3>1. orders[o].sent /\ (Known(o) => orders[o].qty > 0) /\ exch'[o] = v
            BY <1>2 DEF CountInv, VenueFacts, Tells
        <3> QED
            BY <1>3, <3>1 DEF Tells, Known, Live
    <2> QED
        BY <2>1, <2>2 DEF VenueFacts
<1>6. EndsInFull'
    <2>1. ASSUME NEW x \in Reports(o)', x.status \in Terminal PROVE x.filled = v.filled
        BY <1>2, <1>4, <2>1 DEF CountInv, EndsInFull, Tells
    <2> QED
        BY <1>2, <1>3, <1>4, <2>1 DEF CountInv, EndsInFull
<1>7. EndsTold'
    BY <1>3 DEF CountInv, EndsTold
<1>8. CancelledCounted'
    <2>1. \A p \in Oid : p # o => (HidesFills(p)' <=> HidesFills(p))
        BY <1>2 DEF HidesFills
    <2>2. ~HidesFills(o)
        BY DEF HidesFills, Tells
    <2> QED
        BY <1>2, <1>3, <1>4, <2>1, <2>2 DEF CountInv, CancelledCounted
<1>10. WireFacts'
    <2>1. \A p \in Oid : LastReport(p)'.filled = exch'[p].filled
        BY <1>2 DEF CountInv, WireFacts, Tells
    <2>2. \A p \in Oid : \A k \in 1 .. Len(wire'[p]) : wire'[p][k].status \in Refusals =>
              wire'[p][k].filled = IF k = 1 THEN cache'[p].filled ELSE wire'[p][k - 1].filled
        <3>1. ASSUME NEW p \in Oid, p # o, NEW k \in 1 .. Len(wire'[p]), wire'[p][k].status \in Refusals
              PROVE  wire'[p][k].filled = IF k = 1 THEN cache'[p].filled ELSE wire'[p][k - 1].filled
            <4>1. wire'[p] = wire[p] /\ cache'[p] = cache[p]
                BY <1>2, <1>3, <3>1
            <4> QED
                BY <3>1, <4>1 DEF CountInv, WireFacts
        <3> QED
            BY <1>2, <3>1
    <2>3. \A p \in Oid : \A x \in Reports(p)' \cup {cache'[p]} :
              /\ x.status = "SUBMITTED" => x.filled = 0
              /\ x.status = "PARTIALLY_FILLED" => x.filled > 0
              /\ x.status \in Refusals => exch'[p].st = "REJECTED"
              /\ x.filled <= exch'[p].filled
        <3>1. ASSUME NEW p \in Oid, p # o, NEW x \in Reports(p)' \cup {cache'[p]}
              PROVE  /\ x.status = "SUBMITTED" => x.filled = 0
                     /\ x.status = "PARTIALLY_FILLED" => x.filled > 0
                     /\ x.status \in Refusals => exch'[p].st = "REJECTED"
                     /\ x.filled <= exch'[p].filled
            BY <1>2, <1>3, <3>1 DEF CountInv, WireFacts
        <3>2. ASSUME NEW x \in Reports(o) \cup {cache[o]}
              PROVE  /\ x.status = "SUBMITTED" => x.filled = 0
                     /\ x.status = "PARTIALLY_FILLED" => x.filled > 0
                     /\ x.status \notin Refusals
                     /\ x.filled <= exch[o].filled
            BY <3>2 DEF CountInv, WireFacts, Tells
        <3>3. exch'[o] = v /\ exch[o].filled <= v.filled
              /\ \A x \in Reports(o) \cup {cache[o]} : x.filled \in Nat
            <4>1. exch[o].filled \in Nat
                BY <1>1, QtyAssumption DEF TypeOK, Venue
            <4>2. \A x \in Reports(o) \cup {cache[o]} : x.filled \in Nat
                <5>1. wire[o] \in Seq(Report) /\ cache[o] \in Report
                    BY <1>1 DEF TypeOK
                <5>2. Reports(o) \subseteq Report
                    BY <5>1 DEF Reports
                <5> QED
                    BY <5>1, <5>2, QtyAssumption DEF Report
            <4> QED
                BY <1>2, <4>1, <4>2 DEF Tells
        <3>4. ASSUME NEW x \in Reports(o)' \cup {cache'[o]}
              PROVE  /\ x.status = "SUBMITTED" => x.filled = 0
                     /\ x.status = "PARTIALLY_FILLED" => x.filled > 0
                     /\ x.status \in Refusals => exch'[o].st = "REJECTED"
                     /\ x.filled <= exch'[o].filled
            <4>1. CASE x = m
                <5>1. m.filled = v.filled /\ v.filled \in Nat
                    BY <1>1, QtyAssumption DEF Tells, TypeOK, Venue
                <5> QED
                    BY <3>3, <4>1, <5>1 DEF Tells
            <4>2. CASE x \in Reports(o) \cup {cache[o]}
                <5>1. exch[o].filled \in Nat /\ v.filled \in Nat
                    BY <1>1, QtyAssumption DEF Tells, TypeOK, Venue
                <5> QED
                    BY <3>2, <3>3, <4>2, <5>1
            <4> QED
                BY <1>2, <1>3, <3>4, <4>1, <4>2
        <3> QED
            BY <3>1, <3>4
    <2>4. \A p \in Oid : \A x \in Reports(p)' : x.status \in {"SUBMITTED", "PARTIALLY_FILLED"} \cup Terminal
        BY <1>2 DEF CountInv, WireFacts, Tells
    <2>5. \A p \in Oid : ~orders'[p].sent => orders'[p].filled = 0
        BY <1>3 DEF CountInv, WireFacts
    <2> QED
        BY <2>1, <2>2, <2>3, <2>4, <2>5 DEF WireFacts
<1>11. UpToDate'
    <2>1. exch'[o].filled <= 1 => exch[o].filled <= 1
        <3>1. exch[o].filled \in Nat
            BY <1>1, QtyAssumption DEF TypeOK, Venue
        <3> QED
            BY <1>2, <3>1 DEF Tells
    <2> QED
        BY <1>2, <1>3, <2>1 DEF CountInv, UpToDate
<1> QED
    BY <1>5, <1>6, <1>7, <1>8, <1>10, <1>11 DEF CountInv

\* Every step of the exchange is one of these.
LEMMA CountExch ==
    ASSUME ChainInv, CancelInv, CountInv, NEW o \in Oid, ExchStep(o)
    PROVE  CountInv'
<1> DEFINE report(st, f) == [status |-> st, filled |-> f]
<1>1. /\ exch \in [Oid -> Venue] /\ exch[o] \in Venue /\ orders[o].qty \in 0 .. Qty /\ UNCHANGED <<orders, cache>>
      /\ exch[o].filled \in Nat /\ Qty \in Nat
      /\ exch[o].filled <= orders[o].qty /\ (Live(o) => exch[o].filled < orders[o].qty)
    BY QtyAssumption DEF ExchStep, ExchAck, ExchFill, ExchCancel, ExchLateCancel, ExchKill, ChainInv, TypeOK,
       Order, Venue, CountInv, VenueFacts
<1>2. CASE ExchAck(o)
    <2> DEFINE v == [exch[o] EXCEPT !.st = "working"]
               m == report(IF exch[o].filled = 0 THEN "SUBMITTED" ELSE "PARTIALLY_FILLED", exch[o].filled)
    <2>1. exch[o].st = "new" /\ Live(o)
        BY <1>2 DEF ExchAck, Live
    <2>2. exch' = [exch EXCEPT ![o] = v] /\ wire' = [wire EXCEPT ![o] = Append(@, m)]
        BY <1>2 DEF ExchAck, Says
    <2>3. v.st = "working" /\ v.filled = exch[o].filled /\ m.filled = exch[o].filled
        BY <1>1 DEF Venue
    <2>4. IF exch[o].filled = 0 THEN m.status = "SUBMITTED" ELSE m.status = "PARTIALLY_FILLED"
        OBVIOUS
    <2> HIDE DEF v, m
    <2>5. Tells(o, v, m)
        BY <1>1, <2>1, <2>2, <2>3, <2>4 DEF Tells, Terminal, Refusals
    <2> QED
        BY <2>5, CountTells
<1>3. CASE ExchFill(o)
    <2>1. PICK f : f = exch[o].filled + 1
        OBVIOUS
    <2> DEFINE done == f = orders[o].qty
               v == [exch[o] EXCEPT !.filled = f, !.st = IF done THEN "FILLED" ELSE "working"]
               m == report(IF done THEN "FILLED" ELSE "PARTIALLY_FILLED", f)
    <2>2. exch[o].st \in {"new", "working"} /\ Live(o) /\ f <= orders[o].qty
        BY <1>3, <2>1 DEF ExchFill, Live
    <2>3. exch' = [exch EXCEPT ![o] = v] /\ wire' = [wire EXCEPT ![o] = Append(@, m)]
        BY <1>1, <1>3, <2>1 DEF ExchFill, Says
    <2>4. PICK st : st = IF done THEN "FILLED" ELSE "working"
        OBVIOUS
    <2>5. v.st = st /\ v.filled = f
        <3>1. v = [exch[o] EXCEPT !.filled = f, !.st = st]
            BY <2>4
        <3> HIDE DEF v
        <3> QED
            BY <1>1, <3>1 DEF Venue
    <2>6. m.filled = f /\ IF done THEN m.status = "FILLED" ELSE m.status = "PARTIALLY_FILLED"
        OBVIOUS
    <2> HIDE DEF v, m
    <2>7. Tells(o, v, m)
        BY <1>1, <2>1, <2>2, <2>3, <2>4, <2>5, <2>6 DEF Tells, Terminal, Refusals
    <2> QED
        BY <2>7, CountTells
<1>4. CASE ExchCancel(o) \/ ExchKill(o)
    <2>1. PICK st \in {"CANCELLED", "REJECTED"} :
             /\ exch' = [exch EXCEPT ![o].st = st] /\ Says(o, st, exch[o].filled)
             /\ Live(o)
        BY <1>4 DEF ExchCancel, ExchKill
    <2> DEFINE v == [exch[o] EXCEPT !.st = st]
               m == report(st, exch[o].filled)
    <2>2. exch' = [exch EXCEPT ![o] = v] /\ wire' = [wire EXCEPT ![o] = Append(@, m)]
        BY <2>1 DEF Says
    <2>3. v.st = st /\ v.filled = exch[o].filled /\ m.filled = exch[o].filled /\ m.status = st
        BY <1>1 DEF Venue
    <2> HIDE DEF v, m
    <2>4. Tells(o, v, m)
        BY <1>1, <2>1, <2>2, <2>3 DEF Tells, Terminal, Refusals, Live
    <2> QED
        BY <2>4, CountTells
<1>5. CASE ExchLateCancel(o)
    <2> DEFINE v == [exch[o] EXCEPT !.req = FALSE]
               m == report("CANCELLED", exch[o].filled)
    <2>1. exch' = [exch EXCEPT ![o] = v] /\ wire' = [wire EXCEPT ![o] = Append(@, m)] /\ exch[o].st = "FILLED"
        BY <1>5 DEF ExchLateCancel, Says
    <2>2. v.st = exch[o].st /\ v.filled = exch[o].filled /\ m.filled = exch[o].filled /\ m.status = "CANCELLED"
        BY <1>1 DEF Venue
    <2> HIDE DEF v, m
    <2>3. Tells(o, v, m)
        BY <1>1, <2>1, <2>2 DEF Tells, Terminal, Refusals
    <2> QED
        BY <2>3, CountTells
<1> QED
    BY <1>2, <1>3, <1>4, <1>5 DEF ExchStep

\* Every step.
LEMMA CountNext ==
    ASSUME Faultless, ChainInv, CancelInv, CountInv, [Next]_vars
    PROVE  CountInv'
<1>1. ~Disconnect /\ ~Reconnect /\ \A o \in Oid : ~LoseCallback(o)
    <2>1. connected /\ budget.lost = 0 /\ budget.drops = 0
        BY DEF ChainInv, TypeOK, CancelInv, Faultless
    <2> QED
        BY <2>1 DEF Disconnect, Reconnect, LoseCallback, Faultless
<1>2. CASE UNCHANGED vars
    BY <1>2, CountQuiet, CountUnchanged DEF vars
<1>3. CASE TickStep
    BY <1>3, CountTickSubmit, CountTickPlaced, CountTickOther, CountQuiet DEF TickStep
<1>4. ASSUME NEW r \in Oid, RepStep(r) PROVE CountInv'
    BY <1>4, CountRepOther, CountRepReplace, CountQuiet DEF RepStep, RepAlone, RepCancels
<1> QED
    BY <1>1, <1>2, <1>3, <1>4, CountTask, CountQuiet, CountDeliver, CountExch DEF Next

\* Under these circumstances a replacement asks for what the exchange has left to execute.
THEOREM CountInvariant ==
    ASSUME Faultless
    PROVE  Spec => []CountInv
<1>1. ChainInv /\ CancelInv /\ CountInv /\ [Next]_vars => CountInv'
    BY CountNext
<1>2. MaxDrops = 0
    BY DEF Faultless
<1>3. Spec => []CancelInv
    BY <1>2, CancelInvariant
<1> QED
    BY <1>1, <1>3, CountInit, ChainInvariant, PTL DEF Spec

-----------------------------------------------------------------------------
(* The chain as one order.  An order that has been replaced weighs what was   *)
(* executed of it, the tail what it is for: together they weigh Qty, whoever  *)
(* replaces what.                                                             *)

Weights == [o \in Oid |-> IF orders[o].succ = None THEN orders[o].qty ELSE orders[o].filled]

ChainsWhole ==
    \A r \in Oid :
        /\ IsFiniteSet(Chain(r))
        /\ Chain(r) # {} => SumOf(Weights, Chain(r)) = Qty

\* Most steps move no weight: what has been replaced is over.
Kept ==
    \A p \in Oid :
        /\ orders'[p].ref = orders[p].ref /\ orders'[p].succ = orders[p].succ
        /\ orders'[p].qty = orders[p].qty
        /\ orders[p].status \in Terminal => orders'[p].filled = orders[p].filled

\* And change nothing for who looks from outside.
Unseen ==
    \A p \in Oid :
        (Live(p)' <=> Live(p)) /\ (HidesFills(p)' <=> HidesFills(p)) /\ exch'[p].filled = exch[p].filled

\* Orders of a chain are known, so an identifier in use is in a chain.
LEMMA ChainKnown ==
    ASSUME ChainInv, NEW r \in Oid, NEW p \in Chain(r)
    PROVE  p \in Oid /\ Known(p) /\ orders[p].ref = r /\ Known(r)
<1>1. p \in Oid /\ orders[p].ref = r
    BY DEF Chain
<1>2. Known(p)
    BY <1>1, OidAssumption DEF ChainInv, AbsentUntouched, NoOrder
<1> QED
    BY <1>1, <1>2 DEF ChainInv, RefsKnown

\* Weights are numbers.
LEMMA WeightsInt ==
    ASSUME TypeOK
    PROVE  \A p \in Oid : Weights[p] \in Int
BY QtyAssumption DEF Weights, TypeOK, Order

\* A step that moves no weight keeps chains whole.
LEMMA WholeKept ==
    ASSUME CancelInv, ChainsWhole, Kept
    PROVE  ChainsWhole'
<1>1. \A r \in Oid : Chain(r)' = Chain(r)
    BY DEF Chain, Kept
<1>2. Weights' = Weights
    <2>1. \A p \in Oid : orders'[p].succ = orders[p].succ /\ orders'[p].qty = orders[p].qty
                         /\ (orders[p].succ # None => orders'[p].filled = orders[p].filled)
        BY DEF Kept, CancelInv, SupersededCancelled, Terminal
    <2> QED
        BY <2>1 DEF Weights
<1> QED
    BY <1>1, <1>2 DEF ChainsWhole

\* Quiet steps do neither.
LEMMA QuietKept ==
    ASSUME QuietCount
    PROVE  Kept /\ Unseen
BY DEF QuietCount, Kept, Unseen, SameChain, Live, HidesFills, Terminal

\* Nor does the delivery of a report.
LEMMA DeliverKept ==
    ASSUME ChainInv, CountInv, NEW o \in Oid, Deliver(o)
    PROVE  Kept /\ Unseen
<1>1. PICK m : m = Head(wire[o])
    OBVIOUS
<1>2. PICK w \in Seq(Report) : w = wire[o] /\ w # <<>>
    BY DEF Deliver, ChainInv, TypeOK
<1>3. m \in Report /\ m \in Reports(o)
    <2>1. m = w[1] /\ Len(w) \in Nat \ {0}
        BY <1>1, <1>2, TakenOff
    <2> QED
        BY <1>2, <2>1 DEF Reports
<1>4. m.status \in {"SUBMITTED", "PARTIALLY_FILLED"} \cup Terminal
    BY <1>3 DEF CountInv, WireFacts
<1>5. PICK ord \in Order : ord = orders[o] /\ ord.status # "ABSENT"
    BY DEF Deliver, ChainInv, TypeOK, UnplacedSilent, AbsentUntouched, Known
<1>6. PICK new : new = Updated(ord, m)
    OBVIOUS
<1>7. /\ new.qty = ord.qty /\ new.ref = ord.ref /\ new.succ = ord.succ
      /\ ord.status \in Terminal => new.filled = ord.filled
    BY <1>3, <1>4, <1>5, <1>6, UpdatedCount, UpdatedOrder DEF SameChain
<1>8. orders' = orders \/ orders' = [orders EXCEPT ![o] = new]
    BY <1>1, <1>5, <1>6 DEF Deliver
<1>9. \A p \in Oid : orders'[p] = orders[p] \/ (p = o /\ orders'[p] = new)
    BY <1>8 DEF ChainInv, TypeOK
<1>10. exch' = exch
    BY DEF Deliver
<1> QED
    BY <1>5, <1>7, <1>9, <1>10 DEF Kept, Unseen, Live, HidesFills

\* Nor does the answer to place_order, for the manager's side of it.
LEMMA PlacedKept ==
    ASSUME ChainInv, TickPlaced
    PROVE  Kept
<1>1. PICK o : o = tick.o
    OBVIOUS
<1>2. o \in Oid /\ orders[o] \in Order /\ orders[o].status = "RISK_CHECKED"
    BY <1>1 DEF TickPlaced, ChainInv, TickOrder, TypeOK
<1>3. PICK new : new = Placed(orders[o]) /\ orders' = [orders EXCEPT ![o] = new]
    BY <1>1 DEF TickPlaced
<1>4. new.qty = orders[o].qty /\ new.ref = orders[o].ref /\ new.succ = orders[o].succ
    BY <1>2, <1>3, PlacedOrder, Quantities
<1>5. \A p \in Oid : orders'[p] = IF p = o THEN new ELSE orders[p]
    BY <1>3 DEF ChainInv, TypeOK
<1> QED
    BY <1>2, <1>4, <1>5 DEF Kept, Terminal

\* A submitted order is a chain of its own, and weighs Qty.
LEMMA WholeSubmit ==
    ASSUME ChainInv, ChainsWhole, NEW l \in Legs, NEW entry \in BOOLEAN, TickSubmit(l, entry)
    PROVE  ChainsWhole' /\ \E n \in Oid : /\ Chain(n) = {} /\ Chain(n)' = {n}
                                          /\ exch[n].st = "none"
                                          /\ \A r \in Oid : r # n => Chain(r)' = Chain(r)
<1>1. PICK n : n = NewId
    OBVIOUS
<1>2. n \in Oid /\ ~Known(n) /\ orders[n].ref = None
    BY <1>1, FreshId DEF TickSubmit, ChainInv, AbsentUntouched, NoOrder
<1>3. PICK new : new = NewOrder(n, l, entry) /\ orders' = [orders EXCEPT ![n] = new]
    BY <1>1 DEF TickSubmit
<1>4. new.qty = Qty /\ new.succ = None /\ new.ref = n
    BY <1>3 DEF NewOrder
<1>5. \A p \in Oid : orders'[p] = IF p = n THEN new ELSE orders[p]
    BY <1>3 DEF ChainInv, TypeOK
<1>6. Chain(n) = {}
    BY <1>2, ChainKnown
<1>7. Chain(n)' = {n}
    <2>1. \A p \in Oid : orders[p].ref # n
        BY <1>6 DEF Chain
    <2> QED
        BY <1>2, <1>4, <1>5, <2>1 DEF Chain
<1>8. \A r \in Oid : r # n => Chain(r)' = Chain(r) /\ n \notin Chain(r)
    BY <1>2, <1>4, <1>5, OidAssumption DEF Chain
<1>9. \A p \in Oid : Weights'[p] = IF p = n THEN Qty ELSE Weights[p]
    BY <1>4, <1>5 DEF Weights
<1>10. PICK f, g : f = Weights /\ g = Weights'
    OBVIOUS
<1>11. \A p \in Oid : f[p] \in Int
    BY <1>10, WeightsInt DEF ChainInv
<1>12. ASSUME NEW r \in Oid, r # n PROVE SumOf(g, Chain(r)) = SumOf(f, Chain(r))
    <2>1. PICK S : S = Chain(r)
        OBVIOUS
    <2>2. IsFiniteSet(S) /\ (\A x \in S : f[x] \in Int) /\ \A x \in S : g[x] = f[x]
        BY <1>8, <1>9, <1>10, <1>11, <1>12, <2>1 DEF Chain, ChainsWhole
    <2> QED
        BY <2>1, <2>2, SumSame
<1>13. IsFiniteSet({n}) /\ SumOf(g, {n}) = Qty
    <2>1. IsFiniteSet({}) /\ SumOf(g, {}) = 0 /\ g[n] = Qty /\ Qty \in Int
        BY <1>2, <1>9, <1>10, FS_EmptySet, SumEmpty, QtyAssumption
    <2>2. SumOf(g, {} \cup {n}) = g[n] + SumOf(g, {})
        BY <2>1, SumWith
    <2>3. {} \cup {n} = {n}
        OBVIOUS
    <2>4. SumOf(g, {n}) = g[n] + SumOf(g, {})
        BY <2>2, <2>3, Zenon
    <2>5. SumOf(g, {n}) = Qty
        BY <2>1, <2>4
    <2>6. IsFiniteSet({n})
        BY FS_Singleton
    <2> QED
        BY <2>5, <2>6
<1>14. ChainsWhole'
    BY <1>7, <1>8, <1>10, <1>12, <1>13 DEF ChainsWhole
<1> QED
    BY <1>2, <1>6, <1>7, <1>8, <1>14 DEF ChainInv, AbsentUntouched

\* A replacement takes over what the order it replaces weighs less from now on.
LEMMA WholeReplace ==
    ASSUME ChainInv, ChainsWhole, NEW r \in Oid, NEW o, NEW n, NEW new, Replaces(r, o, n, new)
    PROVE  /\ ChainsWhole' /\ Chain(r)' = Chain(r) \cup {n} /\ n \notin Chain(r)
           /\ \A q \in Oid : q # r => Chain(q)' = Chain(q) /\ n \notin Chain(q)
<1>1. /\ o \in Oid /\ n \in Oid /\ o # n /\ orders[o].ref = r /\ orders[n].ref = None
      /\ orders'[n].ref = r /\ orders'[o].ref = r
    BY DEF Replaces, NoOrder
<1>2. \A p \in Oid \ {n, o} : orders'[p] = orders[p]
    BY DEF Replaces
<1>3. Chain(r)' = Chain(r) \cup {n} /\ n \notin Chain(r) /\ o \in Chain(r)
    BY <1>1, <1>2, OidAssumption DEF Chain
<1>4. \A q \in Oid : q # r => Chain(q)' = Chain(q) /\ n \notin Chain(q) /\ o \notin Chain(q)
    BY <1>1, <1>2, OidAssumption DEF Chain
<1>5. PICK f, g : f = Weights /\ g = Weights'
    OBVIOUS
<1>6. \A p \in Oid : f[p] \in Int
    BY <1>5, WeightsInt DEF ChainInv
<1>7. /\ f[o] = orders[o].qty /\ g[o] = orders[o].filled /\ g[n] = orders[o].qty - orders[o].filled
      /\ \A p \in Oid \ {n, o} : g[p] = f[p]
    BY <1>1, <1>2, <1>5, OidAssumption DEF Replaces, Weights
<1>8. orders[o].qty \in Int /\ orders[o].filled \in Int
    BY <1>1, QtyAssumption DEF ChainInv, TypeOK, Order
<1>9. PICK S : S = Chain(r)
    OBVIOUS
<1>10. IsFiniteSet(S) /\ SumOf(f, S) = Qty /\ S \subseteq Oid /\ o \in S /\ n \notin S
    BY <1>3, <1>5, <1>9 DEF ChainsWhole, Chain
<1>11. SumOf(g, S) = Qty + g[o] - f[o]
    <2>1. (\A x \in S : f[x] \in Int) /\ g[o] \in Int /\ \A y \in S \ {o} : g[y] = f[y]
        BY <1>6, <1>7, <1>8, <1>10
    <2> QED
        BY <1>10, <2>1, SumChange
<1>12. SumOf(g, S \cup {n}) = g[n] + SumOf(g, S)
    <2>1. (\A y \in S : g[y] \in Int) /\ g[n] \in Int
        BY <1>6, <1>7, <1>8, <1>10
    <2> QED
        BY <1>10, <2>1, SumWith
<1>13. SumOf(g, S \cup {n}) = Qty
    BY <1>7, <1>8, <1>11, <1>12, QtyAssumption
<1>14. IsFiniteSet(S \cup {n})
    BY <1>10, FS_AddElement
<1>15. ASSUME NEW q \in Oid, q # r
       PROVE  IsFiniteSet(Chain(q)) /\ (Chain(q) # {} => SumOf(g, Chain(q)) = Qty)
    <2>1. PICK T : T = Chain(q)
        OBVIOUS
    <2>2. /\ IsFiniteSet(T) /\ (\A x \in T : f[x] \in Int) /\ (\A x \in T : g[x] = f[x])
          /\ T # {} => SumOf(f, T) = Qty
        BY <1>4, <1>5, <1>6, <1>7, <1>15, <2>1 DEF Chain, ChainsWhole
    <2>3. SumOf(g, T) = SumOf(f, T)
        BY <2>2, SumSame
    <2> QED
        BY <2>1, <2>2, <2>3
<1>16. ASSUME NEW q \in Oid PROVE IsFiniteSet(Chain(q)') /\ (Chain(q)' # {} => SumOf(g, Chain(q)') = Qty)
    BY <1>3, <1>4, <1>9, <1>13, <1>14, <1>15
<1>17. ChainsWhole'
    BY <1>5, <1>16 DEF ChainsWhole
<1> QED
    BY <1>3, <1>4, <1>17

\* A step either moves nothing or is one of these.
LEMMA StepKinds ==
    ASSUME Faultless, ChainInv, CancelInv, CountInv, [Next]_vars
    PROVE  \/ Kept /\ Unseen
           \/ \E l \in Legs, entry \in BOOLEAN : TickSubmit(l, entry)
           \/ TickPlaced
           \/ \E r \in Oid : RepReplace(r)
           \/ \E o \in Oid : ExchStep(o)
<1>1. ~Disconnect /\ ~Reconnect /\ \A o \in Oid : ~LoseCallback(o)
    <2>1. connected /\ budget.lost = 0 /\ budget.drops = 0
        BY DEF ChainInv, TypeOK, CancelInv, Faultless
    <2> QED
        BY <2>1 DEF Disconnect, Reconnect, LoseCallback, Faultless
<1>2. CASE UNCHANGED vars
    BY <1>2, CountUnchanged, QuietKept DEF vars
<1>3. CASE TickStep
    BY <1>3, CountTickOther, QuietKept DEF TickStep
<1>4. ASSUME NEW r \in Oid, RepStep(r), ~RepReplace(r) PROVE Kept /\ Unseen
    BY <1>4, CountRepOther, QuietKept DEF RepStep, RepAlone, RepCancels
<1> QED
    BY <1>1, <1>2, <1>3, <1>4, CountTask, QuietKept, DeliverKept DEF Next

\* The exchange leaves the manager's orders alone.
LEMMA ExchKept ==
    ASSUME NEW o \in Oid, ExchStep(o)
    PROVE  Kept
BY DEF ExchStep, ExchAck, ExchFill, ExchCancel, ExchLateCancel, ExchKill, Kept

LEMMA WholeNext ==
    ASSUME Faultless, ChainInv, CancelInv, CountInv, ChainsWhole, [Next]_vars
    PROVE  ChainsWhole'
<1>1. ASSUME NEW r \in Oid, RepReplace(r) PROVE ChainsWhole'
    <2>1. PICK o, n, new : Replaces(r, o, n, new)
        BY <1>1, IsReplacement
    <2> QED
        BY <2>1, WholeReplace
<1> QED
    BY <1>1, StepKinds, WholeKept, WholeSubmit, PlacedKept, ExchKept

\* Whatever is cancelled, replaced, filled and reported in which order, the orders of a
\* chain are for Qty together.
THEOREM ChainsInvariant ==
    ASSUME Faultless
    PROVE  Spec => []ChainsWhole
<1>1. Init => ChainsWhole
    <2>1. ASSUME Init, NEW r \in Oid PROVE Chain(r) = {}
        BY <2>1, OidAssumption DEF Init, Chain, NoOrder
    <2> QED
        BY <2>1, FS_EmptySet DEF ChainsWhole
<1>2. ChainInv /\ CancelInv /\ CountInv /\ ChainsWhole /\ [Next]_vars => ChainsWhole'
    BY WholeNext
<1>3. MaxDrops = 0
    BY DEF Faultless
<1>4. Spec => []CancelInv
    BY <1>3, CancelInvariant
<1>5. Spec => []CountInv
    BY CountInvariant
<1> QED
    BY <1>1, <1>2, <1>4, <1>5, ChainInvariant, PTL DEF Spec

-----------------------------------------------------------------------------
(* What a chain has executed *)

\* MapThenSumSet over a field sums the function that holds the field.
LEMMA SumOfFilled ==
    ASSUME NEW S, IsFiniteSet(S), NEW e, NEW f, \A o \in S : f[o] = e[o].filled /\ f[o] \in Int
    PROVE  MapThenSumSet(LAMBDA o : e[o].filled, S) = SumOf(f, S)
<1> DEFINE chosen == CHOOSE jt : jt = [s \in SUBSET S |->
              IF s = {} THEN 0 ELSE e[Pick(s)].filled + jt[s \ {Pick(s)}]]
<1>1. MapThenSumSet(LAMBDA o : e[o].filled, S) = chosen[S]
    BY Zenon DEF MapThenSumSet, MapThenFoldSet, Pick
<1>2. PICK it : Folds(it, f, S)
    BY FoldExists
<1>3. [s \in SUBSET S |-> IF s = {} THEN 0 ELSE f[Pick(s)] + it[s \ {Pick(s)}]]
        = [s \in SUBSET S |-> IF s = {} THEN 0 ELSE e[Pick(s)].filled + it[s \ {Pick(s)}]]
    BY PickIn
<1>4. \E jt : jt = [s \in SUBSET S |->
              IF s = {} THEN 0 ELSE e[Pick(s)].filled + jt[s \ {Pick(s)}]]
    BY <1>2, <1>3 DEF Folds
<1>5. chosen = [s \in SUBSET S |->
              IF s = {} THEN 0 ELSE e[Pick(s)].filled + chosen[s \ {Pick(s)}]]
    BY <1>4, Zenon
<1> HIDE DEF chosen
<1>6. [s \in SUBSET S |-> IF s = {} THEN 0 ELSE f[Pick(s)] + chosen[s \ {Pick(s)}]]
        = [s \in SUBSET S |-> IF s = {} THEN 0 ELSE e[Pick(s)].filled + chosen[s \ {Pick(s)}]]
    BY PickIn
<1>7. Folds(chosen, f, S)
    BY <1>5, <1>6 DEF Folds
<1>8. SumOf(f, S) = chosen[S]
    BY <1>7, SumFolds
<1> QED
    BY <1>1, <1>8

Executed == [o \in Oid |-> exch[o].filled]

LEMMA ExecutedInt ==
    ASSUME TypeOK
    PROVE  \A o \in Oid : Executed[o] \in Int /\ Executed[o] >= 0 /\ Executed[o] = exch[o].filled
BY QtyAssumption DEF Executed, TypeOK, Venue

LEMMA ChainExecutedIs ==
    ASSUME TypeOK, ChainsWhole, NEW r \in Oid
    PROVE  ChainExecuted[r] = SumOf(Executed, Chain(r))
<1>1. PICK S, e, f : S = Chain(r) /\ e = exch /\ f = Executed
    OBVIOUS
<1>2. IsFiniteSet(S) /\ \A o \in S : f[o] = e[o].filled /\ f[o] \in Int
    BY <1>1, ExecutedInt DEF Chain, ChainsWhole
<1>3. MapThenSumSet(LAMBDA o : e[o].filled, S) = SumOf(f, S)
    BY <1>2, SumOfFilled
<1>4. ChainExecuted[r] = MapThenSumSet(LAMBDA o : exch[o].filled, Chain(r))
    BY DEF ChainExecuted
<1> QED
    BY <1>1, <1>3, <1>4

\* An order without hidden executions has executed at most its weight, and one that has been
\* replaced exactly that.
LEMMA Settled ==
    ASSUME ChainInv, CancelInv, CountInv, NEW o \in Oid
    PROVE  /\ ~HidesFills(o) => Executed[o] <= Weights[o]
           /\ orders[o].succ # None => ~Live(o) /\ (~HidesFills(o) => Executed[o] = Weights[o])
<1>1. Executed[o] = exch[o].filled
    BY DEF Executed
<1>2. exch[o].filled <= orders[o].qty
    BY DEF CountInv, VenueFacts
<1>3. CASE orders[o].succ # None
    <2>1. (orders[o].filled = exch[o].filled \/ HidesFills(o)) /\ ~Live(o)
        BY <1>3 DEF CancelInv, SupersededCancelled, CancelledCannotFill, CountInv, CancelledCounted
    <2>2. exch[o].filled \in Nat
        BY QtyAssumption DEF ChainInv, TypeOK, Venue
    <2> QED
        BY <1>1, <1>3, <2>1, <2>2 DEF Weights
<1>4. CASE orders[o].succ = None
    BY <1>1, <1>2, <1>4 DEF Weights
<1> QED
    BY <1>3, <1>4

\* A chain never executes more than it was submitted for, unless the exchange refused an order
\* of it after a second execution ("recalculate remaining quantity to prevent race conditions
\* from fills received during cancellation").  It takes a connection that lasts and callbacks
\* that arrive.
THEOREM NoChainOverfills ==
    ASSUME Faultless
    PROVE  Spec => []NoOverfill
<1>1. ASSUME ChainInv, CancelInv, CountInv, ChainsWhole PROVE NoOverfill
    <2> SUFFICES ASSUME NEW r \in Oid, ~ChainHidden[r] PROVE ChainExecuted[r] <= Qty
        BY DEF NoOverfill
    <2>0. \A o \in Chain(r) : ~HidesFills(o)
        BY DEF ChainHidden
    <2>1. PICK S, f, g : S = Chain(r) /\ f = Executed /\ g = Weights
        OBVIOUS
    <2>2. TypeOK
        BY <1>1 DEF ChainInv
    <2>3. ChainExecuted[r] = SumOf(f, S)
        BY <1>1, <2>1, <2>2, ChainExecutedIs
    <2>4. CASE S = {}
        BY <2>3, <2>4, SumEmpty, QtyAssumption
    <2>5. CASE S # {}
        <3>1. IsFiniteSet(S) /\ SumOf(g, S) = Qty
            BY <1>1, <2>1, <2>5 DEF ChainsWhole
        <3>2. \A o \in S : f[o] \in Int /\ g[o] \in Int /\ f[o] <= g[o]
            BY <1>1, <2>0, <2>1, <2>2, ExecutedInt, WeightsInt, Settled DEF Chain
        <3>3. SumOf(f, S) <= SumOf(g, S)
            BY <3>1, <3>2, SumMonotone
        <3> QED
            BY <2>3, <3>1, <3>3
    <2> QED
        BY <2>4, <2>5
<1>2. MaxDrops = 0
    BY DEF Faultless
<1>3. Spec => []CancelInv
    BY <1>2, CancelInvariant
<1>4. Spec => []CountInv
    BY CountInvariant
<1>5. Spec => []ChainsWhole
    BY ChainsInvariant
<1> QED
    BY <1>1, <1>3, <1>4, <1>5, ChainInvariant, PTL

-----------------------------------------------------------------------------
(* The chain implements the single order (module SingleOrder) *)

ChainsInv == ChainInv /\ CancelInv /\ CountInv /\ ChainsWhole

\* The order at the end of a chain is the only one that can be in the market, and what it has
\* left to execute is what the chain has left, if nothing is hidden.
LEMMA TailLeft ==
    ASSUME ChainsInv, NEW t \in Oid, Known(t), orders[t].succ = None,
           NEW r \in Oid, orders[t].ref = r
    PROVE  /\ ~ChainHidden[r] => ChainExecuted[r] = Qty - (orders[t].qty - exch[t].filled)
           /\ ChainExecuted[r] \in Int
           /\ exch[t].filled <= ChainExecuted[r]
           /\ ChainLive[r] <=> Live(t)
<1>1. PICK S, f, g : S = Chain(r) /\ f = Weights /\ g = Executed
    OBVIOUS
<1>2. TypeOK
    BY DEF ChainsInv, ChainInv
<1>3. t \in S
    BY <1>1 DEF Chain
<1>4. \A y \in S \ {t} : y \in Oid /\ orders[y].succ # None
    BY <1>1, ChainKnown DEF ChainsInv, ChainInv, OneTailPerChain, Chain
<1>5. IsFiniteSet(S) /\ SumOf(f, S) = Qty
    BY <1>1, <1>3 DEF ChainsInv, ChainsWhole
<1>6. \A y \in S : f[y] \in Int /\ g[y] \in Int /\ g[y] >= 0
    BY <1>1, <1>2, WeightsInt, ExecutedInt DEF Chain
<1>7. \A y \in S \ {t} : ~Live(y) /\ (~ChainHidden[r] => g[y] = f[y])
    BY <1>1, <1>4, Settled DEF ChainsInv, ChainHidden
<1>8. f[t] = orders[t].qty /\ g[t] = exch[t].filled
    BY <1>1 DEF Weights, Executed
<1>9. ChainExecuted[r] = SumOf(g, S)
    BY <1>1, <1>2, ChainExecutedIs DEF ChainsInv
<1>10. f[t] \in Int /\ g[t] \in Int /\ Qty \in Int
    BY <1>3, <1>6, QtyAssumption
<1>11. ASSUME ~ChainHidden[r] PROVE ChainExecuted[r] = Qty - (orders[t].qty - exch[t].filled)
    <2>1. \A y \in S \ {t} : g[y] = f[y]
        BY <1>7, <1>11
    <2>2. SumOf(g, S) = SumOf(f, S) + g[t] - f[t]
        BY <1>3, <1>5, <1>6, <2>1, SumChange
    <2> QED
        BY <1>5, <1>8, <1>9, <1>10, <2>2
<1>12. ChainLive[r] <=> Live(t)
    <2>1. ChainLive[r] <=> \E y \in Chain(r) : Live(y)
        BY Zenon DEF ChainLive
    <2> QED
        BY <1>1, <1>3, <1>7, <2>1
<1>13. ChainExecuted[r] \in Int /\ exch[t].filled <= ChainExecuted[r]
    <2>1. PICK T : T = S \ {t}
        OBVIOUS
    <2>2. IsFiniteSet(T) /\ t \notin T /\ S = T \cup {t} /\ \A y \in T : g[y] \in Int /\ g[y] >= 0
        BY <1>3, <1>5, <1>6, <2>1, FS_RemoveElement
    <2>3. SumOf(g, T \cup {t}) = g[t] + SumOf(g, T)
        BY <1>10, <2>2, SumWith
    <2>4. SumOf(g, T) \in Int /\ SumOf(g, T) >= 0
        BY <2>2, SumInt, SumNonneg
    <2>5. SumOf(g, S) = g[t] + SumOf(g, T)
        BY <2>2, <2>3
    <2> QED
        BY <1>8, <1>9, <1>10, <2>4, <2>5
<1> QED
    BY <1>11, <1>12, <1>13

\* An order in the market is at the end of its chain.
LEMMA LiveIsTail ==
    ASSUME ChainsInv, NEW o \in Oid, Live(o)
    PROVE  Known(o) /\ orders[o].succ = None /\ orders[o].ref \in Oid
<1>1. Known(o)
    BY DEF Live, ChainsInv, ChainInv, AbsentUntouched
<1> QED
    BY <1>1 DEF ChainsInv, ChainInv, RefsKnown, CancelInv, SupersededCancelled, CancelledCannotFill

\* What a chain has executed after a step.
LEMMA ExecutedNext ==
    ASSUME TypeOK', ChainsWhole', NEW r \in Oid
    PROVE  /\ ChainExecuted'[r] = SumOf(Executed', Chain(r)')
           /\ IsFiniteSet(Chain(r)') /\ \A p \in Oid : Executed'[p] = exch'[p].filled /\ Executed'[p] \in Int
<1>1. PICK S, e, f : S = Chain(r)' /\ e = exch' /\ f = Executed'
    OBVIOUS
<1>2. \A p \in Oid : f[p] = e[p].filled /\ f[p] \in Int
    BY <1>1, QtyAssumption DEF Executed, TypeOK, Venue
<1>3. IsFiniteSet(S) /\ S \subseteq Oid
    BY <1>1 DEF Chain, ChainsWhole
<1>4. MapThenSumSet(LAMBDA o : e[o].filled, S) = SumOf(f, S)
    BY <1>2, <1>3, SumOfFilled
<1>5. ChainExecuted'[r] = MapThenSumSet(LAMBDA o : exch'[o].filled, Chain(r)')
    BY Zenon DEF ChainExecuted, MapThenSumSet, MapThenFoldSet
<1> QED
    BY <1>1, <1>2, <1>3, <1>4, <1>5

\* A chain that executes nothing in a step, and at most takes in an order that has executed
\* nothing, has executed what it had.
LEMMA NothingExecuted ==
    ASSUME ChainsInv, TypeOK', ChainsWhole', NEW r \in Oid,
           \A p \in Chain(r) : exch'[p].filled = exch[p].filled,
           \/ Chain(r)' = Chain(r)
           \/ \E n \in Oid : Chain(r)' = Chain(r) \cup {n} /\ n \notin Chain(r) /\ exch'[n].filled = 0
    PROVE  ChainExecuted'[r] = ChainExecuted[r]
<1>1. PICK S, f, g : S = Chain(r) /\ f = Executed /\ g = Executed'
    OBVIOUS
<1>2. TypeOK /\ ChainsWhole
    BY DEF ChainsInv, ChainInv
<1>3. IsFiniteSet(S) /\ S \subseteq Oid
    BY <1>1, <1>2 DEF Chain, ChainsWhole
<1>4. \A p \in Oid : f[p] \in Int /\ f[p] = exch[p].filled /\ g[p] \in Int /\ g[p] = exch'[p].filled
    BY <1>1, <1>2, ExecutedInt, ExecutedNext
<1>5. (\A p \in S : f[p] \in Int) /\ \A p \in S : g[p] = f[p]
    BY <1>1, <1>3, <1>4
<1>6. SumOf(g, S) = SumOf(f, S) /\ SumOf(f, S) \in Int
    BY <1>3, <1>5, SumSame, SumInt
<1>7. ChainExecuted[r] = SumOf(f, S)
    BY <1>1, <1>2, ChainExecutedIs
<1>8. PICK T : T = Chain(r)'
    OBVIOUS
<1>9. ChainExecuted'[r] = SumOf(g, T)
    BY <1>1, <1>8, ExecutedNext
<1>10. CASE T = S
    BY <1>6, <1>7, <1>9, <1>10
<1>11. ASSUME NEW n \in Oid, T = S \cup {n}, n \notin S, exch'[n].filled = 0
       PROVE  ChainExecuted'[r] = ChainExecuted[r]
    <2>1. (\A p \in S : g[p] \in Int) /\ g[n] \in Int /\ g[n] = 0
        BY <1>3, <1>4, <1>11
    <2>2. SumOf(g, S \cup {n}) = g[n] + SumOf(g, S)
        BY <1>3, <1>11, <2>1, SumWith
    <2>3. SumOf(g, S \cup {n}) = SumOf(g, T)
        BY <1>11
    <2> QED
        BY <1>6, <1>7, <1>9, <2>1, <2>2, <2>3
<1> QED
    BY <1>1, <1>8, <1>10, <1>11

\* Liveness of a chain after a step.
LEMMA LiveNext ==
    ASSUME NEW r \in Oid
    PROVE  /\ ChainLive[r] <=> \E p \in Chain(r) : Live(p)
           /\ ChainLive'[r] <=> \E p \in Chain(r)' : Live(p)'
           /\ ChainLive[r] \in BOOLEAN /\ ChainLive'[r] \in BOOLEAN
<1>1. /\ ChainLive[r] = \E p \in Chain(r) : Live(p)
      /\ ChainLive'[r] = \E p \in Chain(r)' : Live(p)'
    BY Zenon DEF ChainLive
<1> QED
    BY <1>1, Zenon

\* Whether a chain hides executions, before and after a step.
LEMMA HiddenNext ==
    ASSUME NEW r \in Oid
    PROVE  /\ ChainHidden[r] <=> \E p \in Chain(r) : HidesFills(p)
           /\ ChainHidden'[r] <=> \E p \in Chain(r)' : HidesFills(p)'
           /\ ChainHidden[r] \in BOOLEAN /\ ChainHidden'[r] \in BOOLEAN
<1>1. /\ ChainHidden[r] = \E p \in Chain(r) : HidesFills(p)
      /\ ChainHidden'[r] = \E p \in Chain(r)' : HidesFills(p)'
    BY Zenon DEF ChainHidden
<1> QED
    BY <1>1, Zenon

\* A function changed at one argument.
LEMMA ChangedAt ==
    ASSUME NEW S, NEW F, NEW G, F = [x \in S |-> F[x]], G = [x \in S |-> G[x]],
           NEW c \in S, NEW v, G[c] = v, \A q \in S : q # c => G[q] = F[q]
    PROVE  G = [F EXCEPT ![c] = v]
OBVIOUS

LEMMA Seen ==
    /\ ChainLive = [r \in Oid |-> ChainLive[r]] /\ ChainLive' = [r \in Oid |-> ChainLive'[r]]
    /\ ChainExecuted = [r \in Oid |-> ChainExecuted[r]]
    /\ ChainExecuted' = [r \in Oid |-> ChainExecuted'[r]]
    /\ ChainHidden = [r \in Oid |-> ChainHidden[r]] /\ ChainHidden' = [r \in Oid |-> ChainHidden'[r]]
<1>1. ChainLive = [r \in Oid |-> ChainLive[r]] /\ ChainLive' = [r \in Oid |-> ChainLive'[r]]
    BY Zenon DEF ChainLive
<1>2. ChainExecuted = [r \in Oid |-> ChainExecuted[r]] /\ ChainExecuted' = [r \in Oid |-> ChainExecuted'[r]]
    BY Zenon DEF ChainExecuted
<1>3. ChainHidden = [r \in Oid |-> ChainHidden[r]] /\ ChainHidden' = [r \in Oid |-> ChainHidden'[r]]
    BY Zenon DEF ChainHidden
<1> QED
    BY <1>1, <1>2, <1>3

ClientVars == <<ChainLive, ChainExecuted, ChainHidden>>

\* What the client sees of a chain is as before.
Alike(q) ==
    /\ ChainLive'[q] = ChainLive[q] /\ ChainExecuted'[q] = ChainExecuted[q]
    /\ ChainHidden'[q] = ChainHidden[q]

LEMMA UnseenStutters ==
    ASSUME \A r \in Oid : Alike(r)
    PROVE  UNCHANGED ClientVars
<1>1. ChainLive' = ChainLive
    BY Seen, Zenon DEF Alike
<1>2. ChainExecuted' = ChainExecuted
    BY Seen, Zenon DEF Alike
<1>3. ChainHidden' = ChainHidden
    BY Seen, Zenon DEF Alike
<1> QED
    BY <1>1, <1>2, <1>3 DEF ClientVars

ClientStep == Client!Next \/ UNCHANGED ClientVars

\* The steps of the client's order, chain by chain.
Others(r) == \A q \in Oid : q # r => Alike(q)

LEMMA SameHidden ==
    ASSUME NEW r \in Oid, Others(r), ChainHidden'[r] = ChainHidden[r]
    PROVE  ChainHidden' = ChainHidden
BY Seen, Zenon DEF Others, Alike

LEMMA IsWork ==
    ASSUME NEW r \in Oid, Others(r), ~ChainLive[r], ChainExecuted[r] < Qty \/ ChainHidden[r],
           ChainLive'[r], ChainExecuted'[r] = ChainExecuted[r], ChainHidden'[r] = ChainHidden[r]
    PROVE  Client!Next
<1>1. ChainLive'[r] = TRUE
    BY Zenon DEF ChainLive
<1>2. ChainLive' = [ChainLive EXCEPT ![r] = TRUE]
    BY <1>1, Seen, ChangedAt, Zenon DEF Others, Alike
<1>3. ChainExecuted' = ChainExecuted
    BY Seen, Zenon DEF Others, Alike
<1>4. ChainHidden' = ChainHidden
    BY SameHidden
<1>5. Client!Work(r)
    BY <1>2, <1>3, <1>4 DEF Client!Work
<1> QED
    BY <1>5 DEF Client!Next

LEMMA IsPull ==
    ASSUME NEW r \in Oid, Others(r), ChainLive[r], ~ChainLive'[r],
           ChainExecuted'[r] = ChainExecuted[r], ChainHidden'[r] = ChainHidden[r]
    PROVE  Client!Next
<1>1. ChainLive'[r] = FALSE
    BY Zenon DEF ChainLive
<1>2. ChainLive' = [ChainLive EXCEPT ![r] = FALSE]
    BY <1>1, Seen, ChangedAt, Zenon DEF Others, Alike
<1>3. ChainExecuted' = ChainExecuted
    BY Seen, Zenon DEF Others, Alike
<1>4. ChainHidden' = ChainHidden
    BY SameHidden
<1>5. Client!Pull(r)
    BY <1>2, <1>3, <1>4 DEF Client!Pull
<1> QED
    BY <1>5 DEF Client!Next

LEMMA IsRefuse ==
    ASSUME NEW r \in Oid, Others(r), ChainLive[r], ~ChainLive'[r], ChainExecuted[r] >= 2,
           ChainExecuted'[r] = ChainExecuted[r], ChainHidden'[r]
    PROVE  Client!Next
<1>1. ChainLive'[r] = FALSE /\ ChainHidden'[r] = TRUE
    BY Zenon DEF ChainLive, ChainHidden
<1>2. ChainLive' = [ChainLive EXCEPT ![r] = FALSE]
    BY <1>1, Seen, ChangedAt, Zenon DEF Others, Alike
<1>3. ChainExecuted' = ChainExecuted
    BY Seen, Zenon DEF Others, Alike
<1>4. ChainHidden' = [ChainHidden EXCEPT ![r] = TRUE]
    BY <1>1, Seen, ChangedAt, Zenon DEF Others, Alike
<1>5. Client!Refuse(r)
    BY <1>2, <1>3, <1>4 DEF Client!Refuse
<1> QED
    BY <1>5 DEF Client!Next

LEMMA IsExecute ==
    ASSUME NEW r \in Oid, Others(r), ChainLive[r], ChainExecuted'[r] = ChainExecuted[r] + 1,
           ChainExecuted[r] \in Int, ChainHidden'[r] = ChainHidden[r],
           (ChainLive'[r] <=> ChainExecuted[r] + 1 < Qty) \/ ChainHidden[r]
    PROVE  Client!Next
<1>1. PICK b \in BOOLEAN : b = ChainLive'[r]
    BY LiveNext
<1>2. ChainLive' = [ChainLive EXCEPT ![r] = b]
    BY <1>1, Seen, ChangedAt, Zenon DEF Others, Alike
<1>3. PICK x : x = ChainExecuted[r] + 1
    OBVIOUS
<1>4. ChainExecuted'[r] = x
    BY <1>3
<1>5. ChainExecuted' = [ChainExecuted EXCEPT ![r] = x]
    BY <1>4, Seen, ChangedAt, Zenon DEF Others, Alike
<1>6. ChainExecuted' = [ChainExecuted EXCEPT ![r] = @ + 1]
    BY <1>3, <1>5, Zenon
<1>7. \/ ChainLive' = [ChainLive EXCEPT ![r] = ChainExecuted[r] + 1 < Qty]
      \/ ChainHidden[r] /\ \E more \in BOOLEAN : ChainLive' = [ChainLive EXCEPT ![r] = more]
    <2>1. CASE ChainHidden[r]
        BY <1>2, <2>1, Zenon
    <2>2. CASE ~ChainHidden[r]
        <3>1. b <=> ChainExecuted[r] + 1 < Qty
            BY <1>1, <2>2
        <3>2. b = (ChainExecuted[r] + 1 < Qty)
            BY <3>1, QtyAssumption
        <3> QED
            BY <1>2, <3>2, Zenon
    <2> QED
        BY <2>1, <2>2
<1>8. ChainHidden' = ChainHidden
    BY SameHidden
<1>9. Client!Execute(r)
    BY <1>6, <1>7, <1>8, Zenon DEF Client!Execute
<1> QED
    BY <1>9 DEF Client!Next

\* What nobody sees from outside.
LEMMA KeptUnseen ==
    ASSUME ChainsInv, TypeOK', ChainsWhole', Kept, Unseen
    PROVE  UNCHANGED ClientVars
<1> SUFFICES ASSUME NEW r \in Oid PROVE Alike(r)
    BY UnseenStutters
<1>1. Chain(r)' = Chain(r)
    BY DEF Chain, Kept
<1>2. \A p \in Chain(r) : /\ Live(p)' <=> Live(p)
                          /\ HidesFills(p)' <=> HidesFills(p)
                          /\ exch'[p].filled = exch[p].filled
    BY DEF Chain, Unseen
<1>3. ChainLive'[r] = ChainLive[r]
    BY <1>1, <1>2, LiveNext, Zenon
<1>4. ChainHidden'[r] = ChainHidden[r]
    BY <1>1, <1>2, HiddenNext, Zenon
<1> QED
    BY <1>1, <1>2, <1>3, <1>4, NothingExecuted, Zenon DEF Alike

\* A chain that a step leaves alone.
LEMMA LeftAlone ==
    ASSUME ChainsInv, TypeOK', ChainsWhole', NEW q \in Oid, Chain(q)' = Chain(q),
           \A p \in Chain(q) : exch'[p] = exch[p]
    PROVE  Alike(q)
<1>1. \A p \in Chain(q) : /\ Live(p)' <=> Live(p)
                          /\ HidesFills(p)' <=> HidesFills(p)
                          /\ exch'[p].filled = exch[p].filled
    BY DEF Live, HidesFills
<1>2. ChainLive'[q] = ChainLive[q]
    BY <1>1, LiveNext, Zenon
<1>3. ChainHidden'[q] = ChainHidden[q]
    BY <1>1, HiddenNext, Zenon
<1> QED
    BY <1>1, <1>2, <1>3, NothingExecuted, Zenon DEF Alike

\* submit_intent: the client's order does not exist yet for the exchange.
LEMMA ClientSubmit ==
    ASSUME ChainsInv, TypeOK', NEW l \in Legs, NEW entry \in BOOLEAN, TickSubmit(l, entry)
    PROVE  UNCHANGED ClientVars
<1>1. exch' = exch
    BY DEF TickSubmit
<1>2. ChainsWhole'
    BY WholeSubmit DEF ChainsInv
<1>3. PICK n \in Oid : /\ Chain(n) = {} /\ Chain(n)' = {n} /\ exch[n].st = "none"
                       /\ \A r \in Oid : r # n => Chain(r)' = Chain(r)
    BY WholeSubmit DEF ChainsInv
<1>4. \A q \in Oid : q # n => Alike(q)
    BY <1>1, <1>2, <1>3, LeftAlone
<1>5. exch'[n].filled = 0 /\ ~Live(n)' /\ ~HidesFills(n)' /\ Chain(n)' = Chain(n) \cup {n}
    BY <1>1, <1>3 DEF ChainsInv, CountInv, VenueFacts, Live, HidesFills
<1>6. ChainLive'[n] = ChainLive[n]
    BY <1>3, <1>5, LiveNext, Zenon
<1>7. ChainHidden'[n] = ChainHidden[n]
    BY <1>3, <1>5, HiddenNext, Zenon
<1>8. ChainExecuted'[n] = ChainExecuted[n]
    <2>1. \A p \in Chain(n) : exch'[p].filled = exch[p].filled
        BY <1>1
    <2> QED
        BY <1>2, <1>3, <1>5, <2>1, NothingExecuted
<1> QED
    BY <1>4, <1>6, <1>7, <1>8, UnseenStutters, Zenon DEF Alike

\* The answer of place_order: the client's order enters the market.
LEMMA ClientPlaced ==
    ASSUME ChainsInv, TypeOK', TickPlaced
    PROVE  Client!Next
<1>1. PICK o : o = tick.o
    OBVIOUS
<1>2. /\ o \in Oid /\ Known(o) /\ orders[o].ref = o /\ orders[o].succ = None
      /\ exch[o].st = "none"
    BY <1>1 DEF TickPlaced, ChainsInv, ChainInv, TickOrder
<1>3. exch' = [exch EXCEPT ![o].st = "new"]
    BY <1>1 DEF TickPlaced, AtExchange
<1>4. /\ exch'[o].st = "new" /\ exch'[o].filled = exch[o].filled
      /\ \A p \in Oid : p # o => exch'[p] = exch[p]
    BY <1>2, <1>3 DEF ChainsInv, ChainInv, TypeOK, Venue
<1>5. Kept /\ ChainsWhole'
    BY PlacedKept, WholeKept DEF ChainsInv
<1>6. \A r \in Oid : Chain(r)' = Chain(r)
    BY <1>5 DEF Chain, Kept
<1>7. Others(o)
    <2> SUFFICES ASSUME NEW q \in Oid, q # o
                 PROVE  Alike(q)
        BY DEF Others
    <2>1. \A p \in Chain(q) : exch'[p] = exch[p]
        BY <1>2, <1>4 DEF Chain
    <2> QED
        BY <1>5, <1>6, <2>1, LeftAlone
<1>8. ChainExecuted'[o] = ChainExecuted[o]
    <2>1. \A p \in Chain(o) : exch'[p].filled = exch[p].filled
        BY <1>4 DEF Chain
    <2> QED
        BY <1>2, <1>5, <1>6, <2>1, NothingExecuted
<1>9. ~Live(o) /\ Live(o)'
    BY <1>2, <1>4 DEF Live
<1>10. o \in Chain(o)'
    BY <1>2, <1>6 DEF Chain
<1>11. ~ChainLive[o] /\ ChainLive'[o]
    BY <1>2, <1>9, <1>10, TailLeft, LiveNext, Zenon
<1>12. ChainExecuted[o] < Qty \/ ChainHidden[o]
    <2>1. orders[o].qty > 0 /\ exch[o].filled = 0 /\ orders[o].qty \in Nat
        BY <1>2, QtyAssumption DEF ChainsInv, ChainInv, TypeOK, Order, CountInv, VenueFacts
    <2>2. ~ChainHidden[o] => ChainExecuted[o] = Qty - (orders[o].qty - exch[o].filled)
        BY <1>2, TailLeft
    <2> QED
        BY <2>1, <2>2, QtyAssumption
<1>13. ChainHidden'[o] = ChainHidden[o]
    <2>1. \A p \in Chain(o) : HidesFills(p)' <=> HidesFills(p)
        BY <1>2, <1>4 DEF Chain, HidesFills
    <2> QED
        BY <1>2, <1>6, <2>1, HiddenNext, Zenon
<1> QED
    BY <1>2, <1>7, <1>8, <1>11, <1>12, <1>13, IsWork

\* The repricer's replacement: the client's order is back in the market at a new price, or has
\* left it for good.
LEMMA ClientReplaced ==
    ASSUME ChainsInv, TypeOK', NEW r \in Oid, RepReplace(r)
    PROVE  ClientStep
<1>1. PICK o, n, new : Replaces(r, o, n, new)
    BY IsReplacement DEF ChainsInv
<1>2. /\ o \in Oid /\ n \in Oid /\ Known(o) /\ orders[o].ref = r /\ orders[o].succ = None
      /\ orders[o].sent /\ orders[o].status = "CANCELLED" /\ orders[o].qty - orders[o].filled > 0
      /\ exch[n].st = "none"
    BY <1>1 DEF Replaces
<1>3. /\ ChainsWhole' /\ Chain(r)' = Chain(r) \cup {n} /\ n \notin Chain(r)
      /\ \A q \in Oid : q # r => Chain(q)' = Chain(q) /\ n \notin Chain(q)
    BY <1>1, WholeReplace DEF ChainsInv
<1>4. /\ \A p \in Oid : p # n => exch'[p] = exch[p]
      /\ exch'[n].filled = exch[n].filled
      /\ exch'[n].st = "new" \/ exch' = exch
    BY <1>1, <1>2 DEF Replaces, ChainsInv, ChainInv, TypeOK, Venue
<1>5. Others(r)
    <2> SUFFICES ASSUME NEW q \in Oid, q # r
                 PROVE  Alike(q)
        BY DEF Others
    <2>1. Chain(q)' = Chain(q) /\ \A p \in Chain(q) : exch'[p] = exch[p]
        BY <1>3, <1>4 DEF Chain
    <2> QED
        BY <1>3, <2>1, LeftAlone
<1>6. ChainExecuted'[r] = ChainExecuted[r]
    <2>1. exch'[n].filled = 0
        BY <1>2, <1>4 DEF ChainsInv, CountInv, VenueFacts
    <2>2. \A p \in Chain(r) : exch'[p].filled = exch[p].filled
        BY <1>3, <1>4 DEF Chain
    <2> QED
        BY <1>2, <1>3, <2>1, <2>2, NothingExecuted
<1>7. ~Live(o)
    BY <1>2 DEF ChainsInv, CancelInv, CancelledCannotFill
<1>8. ~ChainLive[r] /\ (~ChainHidden[r] => ChainExecuted[r] = Qty - (orders[o].qty - exch[o].filled))
    BY <1>2, <1>7, TailLeft
<1>9. ChainExecuted[r] < Qty \/ ChainHidden[r]
    <2>1. ~ChainHidden[r] => orders[o].filled = exch[o].filled
        BY <1>2 DEF ChainsInv, CountInv, CancelledCounted, ChainHidden, Chain
    <2>2. orders[o].qty \in Nat /\ orders[o].filled \in Nat
        BY <1>2, QtyAssumption DEF ChainsInv, ChainInv, TypeOK, Order
    <2> QED
        BY <1>2, <1>8, <2>1, <2>2, QtyAssumption
<1>12. ChainHidden'[r] = ChainHidden[r]
    <2>1. ~HidesFills(n)' /\ \A p \in Chain(r) : HidesFills(p)' <=> HidesFills(p)
        BY <1>2, <1>3, <1>4 DEF Chain, HidesFills
    <2>2. (\E p \in Chain(r)' : HidesFills(p)') <=> \E p \in Chain(r) : HidesFills(p)
        BY <1>3, <2>1
    <2> QED
        BY <1>2, <2>2, HiddenNext, Zenon
<1>10. CASE exch'[n].st = "new"
    <2>1. Live(n)'
        BY <1>10 DEF Live
    <2>2. n \in Chain(r)'
        BY <1>3
    <2>3. ChainLive'[r]
        BY <2>1, <2>2, LiveNext
    <2> QED
        BY <1>5, <1>6, <1>8, <1>9, <1>12, <2>3, IsWork DEF ClientStep
<1>11. CASE exch' = exch
    <2>1. \A p \in Chain(r)' : Live(p)' => p \in Chain(r) /\ Live(p)
        BY <1>2, <1>3, <1>11 DEF Live
    <2>2. ~ChainLive'[r]
        BY <1>8, <2>1, LiveNext
    <2>3. ChainLive'[r] = ChainLive[r]
        BY <1>8, <2>2, LiveNext, Zenon
    <2> QED
        BY <1>5, <1>6, <1>12, <2>3, UnseenStutters, Zenon DEF Others, Alike, ClientStep
<1> QED
    BY <1>4, <1>10, <1>11

\* The exchange executes one of a chain's orders, ...
LEMMA ClientFilled ==
    ASSUME ChainsInv, TypeOK', NEW o \in Oid, ExchFill(o)
    PROVE  Client!Next
<1>1. PICK f : f = exch[o].filled + 1
    OBVIOUS
<1>2. Live(o) /\ f <= orders[o].qty /\ orders' = orders
    BY <1>1 DEF ExchFill
<1>3. PICK v : v = IF f = orders[o].qty THEN "FILLED" ELSE "working"
    OBVIOUS
<1>4. exch' = [exch EXCEPT ![o].filled = f, ![o].st = v]
    BY <1>1, <1>3 DEF ExchFill
<1>5. /\ exch'[o].filled = f /\ exch'[o].st = v
      /\ \A p \in Oid : p # o => exch'[p] = exch[p]
    BY <1>4 DEF ChainsInv, ChainInv, TypeOK, Venue
<1>6. PICK r \in Oid : r = orders[o].ref
    BY <1>2, LiveIsTail
<1>7. Known(o) /\ orders[o].succ = None
    BY <1>2, LiveIsTail
<1>8. Kept /\ \A q \in Oid : Chain(q)' = Chain(q)
    BY <1>2 DEF Kept, Chain
<1>9. ChainsWhole'
    BY <1>8, WholeKept DEF ChainsInv
<1>10. Others(r)
    <2> SUFFICES ASSUME NEW q \in Oid, q # r
                 PROVE  Alike(q)
        BY DEF Others
    <2>1. Chain(q)' = Chain(q) /\ \A p \in Chain(q) : exch'[p] = exch[p]
        BY <1>5, <1>6, <1>8 DEF Chain
    <2> QED
        BY <1>9, <2>1, LeftAlone
<1>11. /\ ~ChainHidden[r] => ChainExecuted[r] = Qty - (orders[o].qty - exch[o].filled)
       /\ ChainExecuted[r] \in Int /\ ChainLive[r]
    BY <1>2, <1>6, <1>7, TailLeft
<1>12. ChainExecuted'[r] = ChainExecuted[r] + 1
    <2>1. PICK S, a, b : S = Chain(r) /\ a = Executed /\ b = Executed'
        OBVIOUS
    <2>2. TypeOK /\ ChainsWhole
        BY DEF ChainsInv, ChainInv
    <2>3. IsFiniteSet(S) /\ o \in S /\ S \subseteq Oid
        BY <1>6, <2>1, <2>2 DEF Chain, ChainsWhole
    <2>4. \A p \in Oid : /\ a[p] \in Int /\ a[p] = exch[p].filled
                         /\ b[p] \in Int /\ b[p] = exch'[p].filled
        BY <1>9, <2>1, <2>2, ExecutedInt, ExecutedNext
    <2>5. (\A p \in S : a[p] \in Int) /\ b[o] \in Int /\ (\A p \in S \ {o} : b[p] = a[p])
          /\ a[o] \in Int /\ b[o] = a[o] + 1
        BY <1>1, <1>5, <2>3, <2>4
    <2>6. SumOf(b, S) = SumOf(a, S) + b[o] - a[o] /\ SumOf(a, S) \in Int
        BY <2>3, <2>5, SumChange, SumInt
    <2>7. ChainExecuted[r] = SumOf(a, S) /\ ChainExecuted'[r] = SumOf(b, S)
        BY <1>8, <1>9, <2>1, <2>2, ChainExecutedIs, ExecutedNext
    <2> QED
        BY <2>5, <2>6, <2>7
<1>13. orders[o].qty \in Nat /\ exch[o].filled \in Nat
    BY QtyAssumption DEF ChainsInv, ChainInv, TypeOK, Order, Venue
<1>14. (ChainExecuted[r] + 1 < Qty <=> f # orders[o].qty) \/ ChainHidden[r]
    BY <1>1, <1>2, <1>11, <1>13, QtyAssumption
<1>15. ChainLive'[r] <=> f # orders[o].qty
    <2>1. \A p \in Chain(r) : p # o => ~Live(p)
        BY <1>6, <1>7, ChainKnown, LiveIsTail DEF Chain, ChainsInv, ChainInv, OneTailPerChain
    <2>2. \A p \in Chain(r) : Live(p)' <=> p = o /\ f # orders[o].qty
        BY <1>3, <1>5, <2>1 DEF Live, Chain
    <2>3. o \in Chain(r)
        BY <1>6 DEF Chain
    <2> QED
        BY <1>8, <2>2, <2>3, LiveNext
<1>16. ChainHidden'[r] = ChainHidden[r]
    <2>1. \A p \in Chain(r) : HidesFills(p)' <=> HidesFills(p)
        BY <1>2, <1>3, <1>5 DEF Chain, HidesFills, Live
    <2> QED
        BY <1>8, <2>1, HiddenNext, Zenon
<1> QED
    BY <1>10, <1>11, <1>12, <1>14, <1>15, <1>16, IsExecute

\* ... or ends it.
LEMMA ClientEnded ==
    ASSUME ChainsInv, TypeOK', NEW o \in Oid, ExchCancel(o) \/ ExchKill(o)
    PROVE  Client!Next
<1>1. PICK st : st \in {"CANCELLED", "REJECTED"} /\ exch' = [exch EXCEPT ![o].st = st]
    BY DEF ExchCancel, ExchKill
<1>2. Live(o) /\ orders' = orders
    BY DEF ExchCancel, ExchKill
<1>3. /\ ~Live(o)' /\ exch'[o].filled = exch[o].filled
      /\ \A p \in Oid : p # o => exch'[p] = exch[p]
    BY <1>1 DEF ChainsInv, ChainInv, TypeOK, Venue, Live
<1>4. PICK r \in Oid : r = orders[o].ref
    BY <1>2, LiveIsTail
<1>5. Known(o) /\ orders[o].succ = None
    BY <1>2, LiveIsTail
<1>6. Kept /\ \A q \in Oid : Chain(q)' = Chain(q)
    BY <1>2 DEF Kept, Chain
<1>7. ChainsWhole'
    BY <1>6, WholeKept DEF ChainsInv
<1>8. Others(r)
    <2> SUFFICES ASSUME NEW q \in Oid, q # r
                 PROVE  Alike(q)
        BY DEF Others
    <2>1. Chain(q)' = Chain(q) /\ \A p \in Chain(q) : exch'[p] = exch[p]
        BY <1>3, <1>4, <1>6 DEF Chain
    <2> QED
        BY <1>7, <2>1, LeftAlone
<1>9. ChainLive[r]
    BY <1>2, <1>4, <1>5, TailLeft
<1>10. ChainExecuted'[r] = ChainExecuted[r]
    <2>1. \A p \in Chain(r) : exch'[p].filled = exch[p].filled
        BY <1>3 DEF Chain
    <2> QED
        BY <1>6, <1>7, <2>1, NothingExecuted
<1>11. ~ChainLive'[r]
    <2>1. \A p \in Chain(r) : p # o => ~Live(p)
        BY <1>4, <1>5, ChainKnown, LiveIsTail DEF Chain, ChainsInv, ChainInv, OneTailPerChain
    <2>2. \A p \in Chain(r)' : ~Live(p)'
        BY <1>3, <1>6, <2>1 DEF Live, Chain
    <2> QED
        BY <2>2, LiveNext
<1>12. CASE HidesFills(o)'
    <2>1. 2 <= exch[o].filled /\ exch[o].filled \in Nat
        BY <1>3, <1>12, QtyAssumption DEF HidesFills, ChainsInv, ChainInv, TypeOK, Venue
    <2>2. ChainExecuted[r] >= 2
        BY <1>4, <1>5, <2>1, TailLeft
    <2>3. ChainHidden'[r]
        <3>1. o \in Chain(r)'
            BY <1>4, <1>6 DEF Chain
        <3> QED
            BY <1>12, <3>1, HiddenNext
    <2> QED
        BY <1>8, <1>9, <1>10, <1>11, <2>2, <2>3, IsRefuse
<1>13. CASE ~HidesFills(o)'
    <2>1. \A p \in Chain(r) : HidesFills(p)' <=> HidesFills(p)
        BY <1>2, <1>3, <1>13 DEF Chain, HidesFills, Live
    <2>2. ChainHidden'[r] = ChainHidden[r]
        BY <1>6, <2>1, HiddenNext, Zenon
    <2> QED
        BY <1>8, <1>9, <1>10, <1>11, <2>2, IsPull
<1> QED
    BY <1>12, <1>13

\* Acknowledgements, and cancellations that come too late, change nothing for the client.
LEMMA ClientTold ==
    ASSUME ChainsInv, NEW o \in Oid, ExchAck(o) \/ ExchLateCancel(o)
    PROVE  Kept /\ Unseen
<1>1. \/ exch[o].st = "new" /\ exch' = [exch EXCEPT ![o].st = "working"]
      \/ exch' = [exch EXCEPT ![o].req = FALSE]
    BY DEF ExchAck, ExchLateCancel
<1>2. \A p \in Oid : /\ exch'[p].filled = exch[p].filled
                     /\ exch'[p].st = exch[p].st \/ (exch[p].st = "new" /\ exch'[p].st = "working")
    <2>1. exch \in [Oid -> Venue]
        BY DEF ChainsInv, ChainInv, TypeOK
    <2>2. CASE exch[o].st = "new" /\ exch' = [exch EXCEPT ![o].st = "working"]
        BY <2>1, <2>2 DEF Venue
    <2>3. CASE exch' = [exch EXCEPT ![o].req = FALSE]
        BY <2>1, <2>3 DEF Venue
    <2> QED
        BY <1>1, <2>2, <2>3
<1>3. Unseen
    BY <1>2 DEF Unseen, Live, HidesFills
<1> QED
    BY <1>3, ExchKept DEF ExchStep

LEMMA ClientNext ==
    ASSUME Faultless, ChainsInv, TypeOK', ChainsWhole', [Next]_vars
    PROVE  ClientStep
<1>1. ASSUME NEW o \in Oid, ExchStep(o) PROVE ClientStep
    BY <1>1, ClientFilled, ClientEnded, ClientTold, KeptUnseen DEF ExchStep, ClientStep
<1> QED
    BY <1>1, StepKinds, KeptUnseen, ClientSubmit, ClientPlaced, ClientReplaced DEF ClientStep, ChainsInv

\* However often it is cancelled, filled in between, and replaced, an intent behaves as the one
\* order its submitter believes in: OrderManager implements SingleOrder, chain by chain, what a
\* refusal hides from it included.
THEOREM OneOrderPerIntent ==
    ASSUME Faultless
    PROVE  Spec => ImplementsSingleOrder
<1>1. Init => Client!Init
    <2> SUFFICES ASSUME Init PROVE Client!Init
        OBVIOUS
    <2>1. \A r \in Oid : Chain(r) = {}
        BY OidAssumption DEF Init, Chain, NoOrder
    <2>2. \A r \in Oid : ~ChainLive[r] /\ ChainLive[r] \in BOOLEAN
        BY <2>1, LiveNext
    <2>3. \A r \in Oid : ChainLive[r] = FALSE
        BY <2>2, Zenon
    <2>4. TypeOK /\ ChainsWhole
        BY <2>1, ChainInit, FS_EmptySet DEF ChainInv, ChainsWhole
    <2>5. \A r \in Oid : ChainExecuted[r] = 0
        BY <2>1, <2>4, ChainExecutedIs, SumEmpty
    <2>6. ChainLive = [r \in Oid |-> FALSE]
        BY <2>3, Seen, Zenon
    <2>7. ChainExecuted = [r \in Oid |-> 0]
        BY <2>5, Seen, Zenon
    <2>8. \A r \in Oid : ~ChainHidden[r] /\ ChainHidden[r] \in BOOLEAN
        BY <2>1, HiddenNext
    <2>9. \A r \in Oid : ChainHidden[r] = FALSE
        BY <2>8, Zenon
    <2>10. ChainHidden = [r \in Oid |-> FALSE]
        BY <2>9, Seen, Zenon
    <2> QED
        BY <2>6, <2>7, <2>10 DEF Client!Init
<1>2. ChainsInv /\ ChainInv' /\ ChainsWhole' /\ [Next]_vars => [Client!Next]_ClientVars
    BY ClientNext DEF ClientStep, ChainInv
<1>3. MaxDrops = 0
    BY DEF Faultless
<1>4. Spec => []CancelInv
    BY <1>3, CancelInvariant
<1>5. Spec => []CountInv
    BY CountInvariant
<1>6. Spec => []ChainsWhole
    BY ChainsInvariant
<1>7. ChainInv /\ CancelInv /\ CountInv /\ ChainsWhole => ChainsInv
    BY DEF ChainsInv
<1> QED
    BY <1>1, <1>2, <1>4, <1>5, <1>6, <1>7, ChainInvariant, PTL DEF Spec, ImplementsSingleOrder, Client!Spec, ClientVars
=============================================================================
