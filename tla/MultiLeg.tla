------------------------------ MODULE MultiLeg ------------------------------
(***************************************************************************)
(* Multi-leg coordination: the runner's tick (_manage_active_orders, the   *)
(* wait-until-flat gate and the submission of a batch in _process_tick,    *)
(* _check_exits, all in src/src/app/runner.py) over the replacement chains *)
(* that OrderManager keeps moving.                                         *)
(*                                                                         *)
(* A chain is the leg of one entry batch, and is represented by its tail,  *)
(* the order that has not been superseded (OrderManager's OneTailPerChain: *)
(* there is exactly one).  What OrderManager, the repricer and the         *)
(* exchange do to a tail is here the moves of OrderManager seen from the   *)
(* outside.  The tick suspends at every cancel, at the strategies' poll,   *)
(* at every submission and, pc being "rest", while it checks exits and     *)
(* sleeps; everything else may happen there.                               *)
(*                                                                         *)
(* One strategy, all positions opened in this session.                     *)
(***************************************************************************)
EXTENDS Naturals, FiniteSets

CONSTANTS
    Contracts,    \* the contracts of the strategy's structure
    None,
    Qty,          \* quantity of each leg: the strategy sizes them one by one
    MaxEntries,   \* bound: entries of the strategy
    MaxReprices,  \* RepriceConfig.max_attempts; 0 if orders are modified in place
    MaxKills,     \* bound: orders the broker ends of its own accord
    ExecsFirst    \* the exchange reports an execution before the order status

ASSUME LegsAssumption == None \notin Contracts /\ IsFiniteSet(Contracts)
ASSUME LegBoundAssumption ==
    /\ Qty \in [Contracts -> Nat \ {0}]
    /\ MaxEntries \in Nat /\ MaxReprices \in Nat /\ MaxKills \in Nat
    /\ ExecsFirst \in BOOLEAN

Batches == 1 .. MaxEntries
Chains == Batches \X Contracts

VARIABLES
    tail,      \* the tail of each chain, as OrderManager knows it
    rep,       \* the chain's repricer task
    due,       \* what the exchange has executed and not yet reported
    spawned,   \* chains whose remainder a spawned task is about to cancel
    pos,       \* PositionManager: open quantity per contract
    owner,     \* the batch whose fill opened the position
    flagged,   \* _asymmetric_exits
    exiting,   \* quantity of the position's active exit order
    rejects,   \* broker_rejected_order_ids is not empty
    halted,    \* the system is locked (nobody unlocks it here)
    pc,        \* where the tick is suspended
    todo,      \* orders the tick is still to cancel (chain and number)
    batch,     \* the batch the tick is working on
    failed,    \* the leg it found to have failed
    seen,      \* positions that were open when coordination began
    count      \* batches, orders and broker-ended orders so far

tickVars == <<pc, todo, batch, failed, seen>>
posVars == <<pos, owner, flagged, exiting>>
legVars == <<tail, rep, due, spawned, posVars, rejects, halted, tickVars, count>>

Dead == {"CANCELLED", "REJECTED", "ERROR"}

\* "none": not submitted; "working" stands for the cancellable statuses.
\* no is the number of the tail among all orders, in the order of creation.
NoTail == [st |-> "none", hard |-> FALSE, qty |-> 0, filled |-> 0, no |-> 0]

LegInit ==
    /\ tail = [c \in Chains |-> NoTail]
    /\ rep = [c \in Chains |-> [pc |-> "off", att |-> 0]]
    /\ due = [c \in Chains |-> [status |-> 0, exec |-> 0]]
    /\ spawned = {}
    /\ pos = [l \in Contracts |-> 0]
    /\ owner = [l \in Contracts |-> 0]
    /\ flagged = {}
    /\ exiting = [l \in Contracts |-> 0]
    /\ rejects = FALSE /\ halted = FALSE
    /\ pc = "rest" /\ todo = {} /\ batch = 0 /\ failed = None /\ seen = {}
    /\ count = [batches |-> 0, orders |-> 0, kills |-> 0]

-----------------------------------------------------------------------------
(* What the coordination asks of a chain *)

IsActive(c) == tail[c].st \in {"working", "pending"}
OpenLegs == {l \in Contracts : pos[l] > 0}

\* Mutant: a cancelled leg does not count as failed.
FailedUnlessCancelled(c) == tail[c].st \in {"REJECTED", "ERROR"} /\ tail[c].filled = 0

\* The final order of the chain is terminal without a fill.
Failed(c) == tail[c].st \in Dead /\ tail[c].filled = 0

\* Mutant: orders that are being cancelled do not count.
FlatButForCancels ==
    /\ OpenLegs = {}
    /\ \A c \in Chains : tail[c].st # "working"

\* "Always wait until flat": no open position, no active order.
StrategyFlat ==
    /\ OpenLegs = {}
    /\ \A l \in Contracts : exiting[l] = 0
    /\ \A c \in Chains : ~IsActive(c)

\* cancel_order with hard_cancel, of an order that is active.
HardCancelled(t) == [t EXCEPT !.hard = TRUE, !.st = "pending"]

OrdersOf(S) == {<<c, tail[c].no>> : c \in S}

-----------------------------------------------------------------------------
(* The tick *)

Working == {c \in Chains : tail[c].st = "working"}

\* The failed leg of a batch is the first that the loop over the orders finds.
FirstFailed(b) ==
    {l \in Contracts : /\ Failed(<<b, l>>)
                  /\ \A k \in Contracts : Failed(<<b, k>>) => tail[<<b, l>>].no <= tail[<<b, k>>].no}

WorkingPeers(b, l) == {<<b, k>> : k \in {j \in Contracts \ {l} : tail[<<b, j>>].st = "working"}}

\* Of the positions open when coordination began, those of the batch, except one
\* whose own chain is the failed leg.
Asymmetric(b, l, open) == {k \in (open \cap OpenLegs) \ {l} : owner[k] = b}

\* The loop over the batches goes on at batch b: it flags what it finds and
\* suspends only at a failed leg with working peers, to cancel them.
Suspends(b) == \E l \in FirstFailed(b) : WorkingPeers(b, l) # {}

FlaggedBy(S, open) ==
    UNION {UNION {Asymmetric(b, l, open) : l \in FirstFailed(b)} : b \in S}

Coordinate(b, open, flags) ==
    \/ /\ \A a \in b .. count.batches : ~Suspends(a)
       /\ flagged' = flags \cup FlaggedBy(b .. count.batches, open)
       /\ pc' = "poll" /\ todo' = {} /\ batch' = 0 /\ failed' = None /\ seen' = {}
    \/ \E n \in b .. count.batches :
          /\ \A a \in b .. n - 1 : ~Suspends(a)
          /\ flagged' = flags \cup FlaggedBy(b .. n - 1, open)
          /\ pc' = "coord" /\ batch' = n /\ seen' = open
          /\ \E l \in FirstFailed(n) :
                /\ WorkingPeers(n, l) # {}
                /\ failed' = l /\ todo' = OrdersOf(WorkingPeers(n, l))

\* _manage_active_orders after a broker reject: everything active is cancelled
\* and that is all.
TickLocks ==
    /\ pc = "rest" /\ rejects
    /\ halted' = TRUE
    /\ pc' = "lock" /\ todo' = OrdersOf(Working)
    /\ UNCHANGED <<tail, rep, due, spawned, posVars, rejects, batch, failed, seen, count>>

\* ... and otherwise: entries that have timed out are cancelled, if there are any.
TickBegin ==
    /\ pc = "rest" /\ ~rejects
    /\ \/ \E S \in SUBSET Working \ {{}} :
             /\ pc' = "timeouts" /\ todo' = OrdersOf(S)
             /\ UNCHANGED <<flagged, batch, failed, seen>>
       \/ Coordinate(1, OpenLegs, flagged)
    /\ UNCHANGED <<tail, rep, due, spawned, pos, owner, exiting, rejects, halted, count>>

\* One cancel_order; an order that is no longer working, or no longer the tail,
\* is passed over.
CancelNext ==
    /\ pc \in {"lock", "timeouts", "coord"}
    /\ \E k \in todo :
          /\ todo' = todo \ {k}
          /\ tail' = IF tail[k[1]].no = k[2] /\ tail[k[1]].st = "working"
                     THEN [tail EXCEPT ![k[1]] = HardCancelled(@)] ELSE tail
    /\ UNCHANGED <<rep, due, spawned, posVars, rejects, halted, pc, batch, failed, seen, count>>

LockDone ==
    /\ pc = "lock" /\ todo = {}
    /\ rejects' = FALSE
    /\ pc' = "poll"
    /\ UNCHANGED <<tail, rep, due, spawned, posVars, halted, todo, batch, failed, seen, count>>

TimeoutsDone ==
    /\ pc = "timeouts" /\ todo = {}
    /\ Coordinate(1, OpenLegs, flagged)
    /\ UNCHANGED <<tail, rep, due, spawned, pos, owner, exiting, rejects, halted, count>>

\* The peers are cancelled, the positions of the batch are flagged.
PeersCancelled ==
    /\ pc = "coord" /\ todo = {}
    /\ Coordinate(batch + 1, seen, flagged \cup Asymmetric(batch, failed, seen))
    /\ UNCHANGED <<tail, rep, due, spawned, pos, owner, exiting, rejects, halted, count>>

\* The strategy is polled and has signals for all legs ...
PollSignals ==
    /\ pc = "poll" /\ ~halted /\ StrategyFlat
    /\ count.batches < MaxEntries
    /\ pc' = "submit"
    /\ batch' = count.batches + 1
    /\ count' = [count EXCEPT !.batches = @ + 1]
    /\ UNCHANGED <<tail, rep, due, spawned, posVars, rejects, halted, todo, failed, seen>>

\* ... or has none, or is not polled.
PollNothing ==
    /\ pc = "poll"
    /\ pc' = "rest"
    /\ UNCHANGED <<tail, rep, due, spawned, posVars, rejects, halted, todo, batch, failed, seen, count>>

\* submit_intent for the next leg; the broker client may refuse.
SubmitLeg ==
    /\ pc = "submit"
    /\ \E l \in Contracts, st \in {"working", "ERROR"} :
          LET c == <<batch, l>> IN
          /\ tail[c].st = "none"
          /\ tail' = [tail EXCEPT ![c] = [st |-> st, hard |-> FALSE, qty |-> Qty[l], filled |-> 0,
                                          no |-> count.orders + 1]]
          /\ rep' = IF st = "working" THEN [rep EXCEPT ![c].pc = "sleep"] ELSE rep
    /\ count' = [count EXCEPT !.orders = @ + 1]
    /\ UNCHANGED <<due, spawned, posVars, rejects, halted, tickVars>>

BatchSubmitted ==
    /\ pc = "submit"
    /\ \A l \in Contracts : tail[<<batch, l>>].st # "none"
    /\ pc' = "rest" /\ batch' = 0
    /\ UNCHANGED <<tail, rep, due, spawned, posVars, rejects, halted, todo, failed, seen, count>>

ExitQty(l) == pos[l]

\* _check_exits: a flagged position, or one whose own rules say so, gets an
\* exit order for its whole quantity unless it has one; entry orders still
\* working on the contract are cancelled first.  Then the loop sleeps.
SubmitExit ==
    /\ pc = "rest"
    /\ \E l \in OpenLegs :
          /\ exiting[l] = 0
          /\ exiting' = [exiting EXCEPT ![l] = ExitQty(l)]
          /\ tail' = [c \in Chains |-> IF c[2] = l /\ tail[c].st = "working"
                                       THEN HardCancelled(tail[c]) ELSE tail[c]]
    /\ UNCHANGED <<rep, due, spawned, pos, owner, flagged, rejects, halted, tickVars, count>>

-----------------------------------------------------------------------------
(* The repricer of a chain, as OrderManager's RepStep *)

RepSoftCancel(c) ==
    /\ rep[c].pc = "sleep" /\ rep[c].att < MaxReprices
    /\ tail[c].st = "working" /\ ~tail[c].hard
    /\ tail' = [tail EXCEPT ![c].st = "pending"]
    /\ rep' = [rep EXCEPT ![c].pc = "wait"]
    /\ UNCHANGED <<due, spawned, posVars, rejects, halted, tickVars, count>>

\* Its time is up.
RepGiveUp(c) ==
    /\ rep[c].pc = "sleep"
    /\ tail[c].st = "working" /\ ~tail[c].hard
    /\ tail' = [tail EXCEPT ![c] = HardCancelled(@)]
    /\ rep' = [rep EXCEPT ![c].pc = "off"]
    /\ UNCHANGED <<due, spawned, posVars, rejects, halted, tickVars, count>>

RepReplace(c) ==
    /\ rep[c].pc = "wait"
    /\ tail[c].st = "CANCELLED" /\ ~tail[c].hard
    /\ \E st \in {"working", "ERROR"} :
          /\ tail' = [tail EXCEPT ![c] = [st |-> st, hard |-> FALSE, qty |-> tail[c].qty - tail[c].filled,
                                          filled |-> 0, no |-> count.orders + 1]]
          /\ rep' = [rep EXCEPT ![c] = [pc |-> IF st = "working" THEN "sleep" ELSE "off", att |-> rep[c].att + 1]]
    /\ count' = [count EXCEPT !.orders = @ + 1]
    /\ UNCHANGED <<due, spawned, posVars, rejects, halted, tickVars>>

\* The chain is over, or the confirmation does not come in time.
RepStop(c) ==
    /\ \/ rep[c].pc = "sleep" /\ (tail[c].hard \/ tail[c].st \in Dead \cup {"FILLED"})
       \/ rep[c].pc = "wait" /\ (tail[c].hard \/ tail[c].st # "CANCELLED")
    /\ rep' = [rep EXCEPT ![c].pc = "off"]
    /\ UNCHANGED <<tail, due, spawned, posVars, rejects, halted, tickVars, count>>

-----------------------------------------------------------------------------
(* The exchange, and its two reports of a fill *)

Left(c) == tail[c].qty - tail[c].filled - due[c].status

ExchFill(c) ==
    /\ IsActive(c) /\ Left(c) > 0
    /\ due' = [due EXCEPT ![c] = [status |-> @.status + 1, exec |-> @.exec + 1]]
    /\ UNCHANGED <<tail, rep, spawned, posVars, rejects, halted, tickVars, count>>

\* _on_order_status: FILLED, or partly filled, which spawns the cancellation of
\* the remainder unless the order is being cancelled already.
ReportStatus(c) ==
    /\ due[c].status > 0
    /\ ExecsFirst => due[c].exec = 0
    /\ LET done == Left(c) = 0 IN
       /\ tail' = [tail EXCEPT ![c].filled = @ + due[c].status,
                                  ![c].st = IF done THEN "FILLED" ELSE @]
       /\ spawned' = IF ~done /\ tail[c].st = "working"
                     THEN spawned \cup {<<c, tail[c].no>>} ELSE spawned
    /\ due' = [due EXCEPT ![c].status = 0]
    /\ UNCHANGED <<rep, posVars, rejects, halted, tickVars, count>>

\* _on_exec_details: PositionManager opens or increases the position.
ReportExec(c) ==
    LET l == c[2] IN
    /\ due[c].exec > 0
    /\ pos' = [pos EXCEPT ![l] = @ + 1]
    /\ owner' = IF pos[l] = 0 THEN [owner EXCEPT ![l] = c[1]] ELSE owner
    /\ seen' = IF pos[l] = 0 THEN seen \ {l} ELSE seen
    /\ due' = [due EXCEPT ![c].exec = @ - 1]
    /\ UNCHANGED <<tail, rep, spawned, flagged, exiting, rejects, halted, pc, todo, batch, failed, count>>

CancelRemainder(c) ==
    /\ <<c, tail[c].no>> \in spawned
    /\ spawned' = spawned \ {<<c, tail[c].no>>}
    /\ tail' = IF IsActive(c) THEN [tail EXCEPT ![c] = HardCancelled(@)]
               ELSE [tail EXCEPT ![c].hard = TRUE]
    /\ UNCHANGED <<rep, due, posVars, rejects, halted, tickVars, count>>

\* The confirmation of a cancellation.
ExchCancel(c) ==
    /\ tail[c].st = "pending" /\ due[c].status = 0 /\ Left(c) > 0
    /\ tail' = [tail EXCEPT ![c].st = "CANCELLED"]
    /\ UNCHANGED <<rep, due, spawned, posVars, rejects, halted, tickVars, count>>

\* The broker ends an order on its own.
ExchKill(c) ==
    /\ tail[c].st = "working" /\ due[c].status = 0
    /\ count.kills < MaxKills
    /\ tail' = [tail EXCEPT ![c].st = "REJECTED"]
    /\ rejects' = TRUE
    /\ count' = [count EXCEPT !.kills = @ + 1]
    /\ UNCHANGED <<rep, due, spawned, posVars, halted, tickVars>>

\* The exit order fills, or ends without a fill and will be tried again.
ExitDone(l) ==
    /\ exiting[l] > 0
    /\ exiting' = [exiting EXCEPT ![l] = 0]
    /\ \/ /\ pos' = [pos EXCEPT ![l] = @ - exiting[l]]
          /\ flagged' = IF pos'[l] = 0 THEN flagged \ {l} ELSE flagged
       \/ UNCHANGED <<pos, flagged>>
    /\ UNCHANGED <<tail, rep, due, spawned, owner, rejects, halted, tickVars, count>>

-----------------------------------------------------------------------------

TickTurn ==
    \/ TickLocks \/ TickBegin \/ CancelNext \/ LockDone \/ TimeoutsDone
    \/ PeersCancelled \/ PollSignals \/ PollNothing \/ SubmitLeg \/ BatchSubmitted

RepTurn(c) == RepSoftCancel(c) \/ RepGiveUp(c) \/ RepReplace(c) \/ RepStop(c)

\* What is under way for a chain: its tasks run, and the exchange confirms
\* cancellations and reports what it has executed.
ChainTurn(c) ==
    RepTurn(c) \/ CancelRemainder(c) \/ ReportStatus(c) \/ ReportExec(c) \/ ExchCancel(c)

LegNext ==
    \/ TickTurn \/ SubmitExit
    \/ \E c \in Chains : ChainTurn(c) \/ ExchFill(c) \/ ExchKill(c)
    \/ \E l \in Contracts : ExitDone(l)

LegSpec == LegInit /\ [][LegNext]_legVars

\* The loop ticks, and what is under way for a chain goes on (in any order: a
\* chain has only so many steps).  The exchange need not fill anything.
LegFairSpec ==
    /\ LegSpec
    /\ WF_legVars(TickTurn)
    /\ \A c \in Chains : WF_legVars(ChainTurn(c))

-----------------------------------------------------------------------------
(* Properties *)

LegTypeOK ==
    /\ \A c \in Chains :
          /\ tail[c].st \in Dead \cup {"none", "working", "pending", "FILLED"}
          /\ tail[c].hard \in BOOLEAN
          /\ tail[c].qty \in 0 .. Qty[c[2]] /\ tail[c].filled \in 0 .. tail[c].qty
          /\ tail[c].no \in 0 .. count.orders
          /\ rep[c].pc \in {"off", "sleep", "wait"} /\ rep[c].att \in 0 .. MaxReprices
          /\ due[c].status \in 0 .. Qty[c[2]] /\ due[c].exec \in 0 .. Qty[c[2]]
    /\ spawned \cup todo \subseteq Chains \X (1 .. count.orders) \cup Chains \X {0}
    /\ \A l \in Contracts :
          /\ pos[l] \in 0 .. Qty[l] * MaxEntries /\ exiting[l] \in 0 .. pos[l]
          /\ owner[l] \in 0 .. MaxEntries
    /\ flagged \subseteq OpenLegs
    /\ seen \subseteq Contracts /\ failed \in Contracts \cup {None}
    /\ <<rejects, halted>> \in BOOLEAN \X BOOLEAN
    /\ pc \in {"rest", "lock", "timeouts", "coord", "poll", "submit"}
    /\ batch \in 0 .. MaxEntries

\* No order of the chain will ever work again.
Over(c) ==
    \/ tail[c].st \in {"REJECTED", "ERROR"}
    \/ tail[c].st = "CANCELLED" /\ (tail[c].hard \/ rep[c].pc # "wait")

\* "Routine repricer cancels are superseded, never failures": whenever peers are
\* cancelled and flattened for the sake of a failed leg, that leg is really out.
RoutineCancelNeverFailsLeg == pc = "coord" => Over(<<batch, failed>>)

\* "A partial fill with cancelled remainder is valid": a position is flattened
\* for the structure's sake only if another leg of its batch got nothing at all
\* and never will.
OnlyEmptyLegFlattens ==
    \A l \in flagged : \E k \in Contracts \ {l} :
        Over(<<owner[l], k>>) /\ tail[<<owner[l], k>>].filled = 0

\* A batch that is in the market or in the book.
InMarket(b) ==
    \/ \E l \in Contracts : IsActive(<<b, l>>) \/ due[<<b, l>>].exec > 0
    \/ \E l \in OpenLegs : owner[l] = b

\* "Always wait until flat": two entries of a strategy are never on together.
WaitUntilFlat == \A a, b \in Batches : InMarket(a) /\ InMarket(b) => a = b

\* Nothing of the batch is in the market, and whatever its legs hold is flagged
\* to be flattened.
Withdrawn(b, l) ==
    /\ ~IsActive(<<b, l>>) /\ rep[<<b, l>>].pc = "off"
    /\ due[<<b, l>>].exec = 0
    /\ l \in OpenLegs /\ owner[l] = b => l \in flagged

\* No order of the leg has been filled, or ever will be.
Empty(b, l) == Over(<<b, l>>) /\ tail[<<b, l>>].qty = Qty[l] /\ tail[<<b, l>>].filled = 0

\* "True failure: hard-cancel working peer legs and flatten filled peers": no
\* batch stays as it is once a leg is out without ever having been filled, but
\* every peer ends up withdrawn, also one that was being replaced or that fills
\* at the last moment.
PeersOut(b) == \A l, k \in Contracts : Empty(b, l) /\ k # l => Withdrawn(b, k)

EveryFailedBatchEndsFlat == \A b \in Batches : []<>PeersOut(b)

\* A leg that holds something ended with a replacement that got nothing: the
\* loop takes it for the failed leg and looks at no other.
PassesForFailed(b) == \E k \in Contracts : Failed(<<b, k>>) /\ tail[<<b, k>>].qty < Qty[k]

\* ... which the code keeps unless a leg passes for the failed one that is not.
FailedBatchEndsFlat == \A b \in Batches : []<>(PeersOut(b) \/ PassesForFailed(b))
=============================================================================
