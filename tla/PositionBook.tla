---------------------------- MODULE PositionBook ----------------------------
(***************************************************************************)
(* The position book and its exits: PositionManager.handle_fill            *)
(* (src/src/portfolio/position_manager.py), ExitManager.check_exits        *)
(* (src/src/portfolio/exit_manager.py) and, in src/src/app/runner.py, the  *)
(* runner's _check_exits with its retry throttle, the fill handler and the *)
(* commands exit_position and flatten_all.                                 *)
(*                                                                         *)
(* One strategy and one contract, so that the book has at most one open    *)
(* position.  An order stands for a whole replacement chain, which to its  *)
(* submitter is one order (OrderManager implements SingleOrder); what the  *)
(* repricer does to it is seen here as a cancellation, and, when orders    *)
(* are not modified in place, as the moment between two orders of the      *)
(* chain.                                                                  *)
(***************************************************************************)
EXTENDS Integers, Sequences, FiniteSetsExt

CONSTANTS
    Qty,         \* quantity of every entry
    MaxEntries,  \* bound: entries submitted
    MaxExits,    \* bound: exit orders that reach the broker
    Modes,       \* the settings of broker and broker client to consider
    HoldFor      \* the time exit is max_hold_seconds, not a time of day

ASSUME BookAssumption ==
    /\ Qty \in Nat \ {0} /\ MaxEntries \in Nat /\ MaxExits \in Nat
    /\ Modes \subseteq [replaces : BOOLEAN, execsFirst : BOOLEAN]
    /\ HoldFor \in BOOLEAN

VARIABLES
    mode,     \* never changes.  replaces: orders are repriced by cancel/replace (not
              \* modified in place, or not successfully).  execsFirst: the exchange
              \* reports an execution before the status it leads to.
    ord,      \* the orders submitted so far, a sequence by number
    pos,      \* the last position opened; closed when its qty is 0
    latch,    \* _flatten_all_active
    flagged,  \* _manual_exits and _asymmetric_exits: ids of positions
    due,      \* the position's time_exit_utc has passed
    tries,    \* _exit_attempts of the position: how many, up to 5 ...
    since,    \* ... and how long ago: < 10 s, < 60 s, longer
    pc,       \* where the tick is suspended in _check_exits
    intent    \* the exit it is working on

tickVars == <<pc, intent, tries, since>>
vars == <<mode, ord, pos, latch, flagged, due, tickVars>>

Nobody == 0
NoIntent == [id |-> Nobody, buy |-> FALSE, qty |-> 0]

\* st is what OrderManager knows: active while working, pending (cancel
\* requested), or soft (cancel requested by the repricer, to be replaced); in
\* the gap between two orders of a chain; or over.  live, done and told are the
\* exchange's: may still fill, quantity executed, and executions handed over.
NewOrder(id, buy, qty) ==
    [pid |-> id, buy |-> buy, qty |-> qty, st |-> "working", live |-> TRUE, done |-> 0, told |-> 0]

Placed == DOMAIN ord
Entries == {i \in Placed : ord[i].pid = Nobody}
Exits == Placed \ Entries

Signed(buy, n) == IF buy THEN n ELSE -n
Open == pos.qty > 0

Init ==
    /\ mode \in Modes
    /\ ord = <<>>
    /\ pos = [id |-> Nobody, qty |-> 0, long |-> FALSE]
    /\ latch = FALSE /\ flagged = {} /\ due = FALSE
    /\ tries = 0 /\ since = 2
    /\ pc = "idle" /\ intent = NoIntent

-----------------------------------------------------------------------------
(* PositionManager *)

\* Mutant: the quantity of a second fill replaces that of the first.
FilledOver(p, buy, n) ==
    CASE p.qty = 0                   -> [id |-> p.id + 1, qty |-> n, long |-> buy]
      [] p.qty # 0 /\ p.long = buy   -> [p EXCEPT !.qty = n]
      [] p.qty # 0 /\ p.long # buy   -> [p EXCEPT !.qty = @ - Min({n, @})]

\* handle_fill: open, add, or reduce; an exit larger than the position closes
\* it and the excess is dropped.
Filled(p, buy, n) ==
    CASE p.qty = 0                   -> [id |-> p.id + 1, qty |-> n, long |-> buy]
      [] p.qty # 0 /\ p.long = buy   -> [p EXCEPT !.qty = @ + n]
      [] p.qty # 0 /\ p.long # buy   -> [p EXCEPT !.qty = @ - Min({n, @})]

\* The fill handler: every fill re-applies the exit rules, so a relative time
\* exit is anchored anew.
HandleFill(buy, n) ==
    /\ pos' = Filled(pos, buy, n)
    /\ due' = (due /\ ~HoldFor /\ Open)
    /\ IF Open THEN UNCHANGED <<tries, since>> ELSE tries' = 0 /\ since' = 2

-----------------------------------------------------------------------------
(* Orders, as OrderManager moves them, and the exchange *)

ActiveStatus == {"working", "pending", "soft"}
Active(i) == ord[i].st \in ActiveStatus

Remaining(i) == ord[i].qty - ord[i].done
Undelivered(i) == ord[i].done - ord[i].told

Set(i, r) == ord' = [ord EXCEPT ![i] = r]

\* "Always wait until flat": no open position and no active order.
SubmitEntry ==
    /\ pc = "idle" /\ ~Open
    /\ \A i \in Placed : ~Active(i)
    /\ Cardinality(Entries) < MaxEntries
    /\ \E buy \in BOOLEAN : ord' = Append(ord, NewOrder(Nobody, buy, Qty))
    /\ UNCHANGED <<mode, pos, latch, flagged, due, tickVars>>

\* cancel_order: by a timeout, the repricer's last attempt, a command, the lock,
\* or for the remainder of a partly filled entry.
Withdraw(i) ==
    /\ ord[i].st \in {"working", "soft"}
    /\ Set(i, [ord[i] EXCEPT !.st = "pending"])
    /\ UNCHANGED <<mode, pos, latch, flagged, due, tickVars>>

\* The repricer cancels an order in order to replace it ...
SoftCancel(i) ==
    /\ mode.replaces /\ ord[i].st = "working"
    /\ Set(i, [ord[i] EXCEPT !.st = "soft"])
    /\ UNCHANGED <<mode, pos, latch, flagged, due, tickVars>>

\* ... and does, or is refused.
Replace(i) ==
    /\ ord[i].st = "gap"
    /\ \/ Set(i, [ord[i] EXCEPT !.st = "working", !.live = TRUE])
       \/ Set(i, [ord[i] EXCEPT !.st = "over"])
    /\ UNCHANGED <<mode, pos, latch, flagged, due, tickVars>>

Execute(i) ==
    /\ ord[i].live
    /\ \E n \in 1 .. Remaining(i) :
          Set(i, [ord[i] EXCEPT !.done = @ + n, !.live = n < Remaining(i)])
    /\ UNCHANGED <<mode, pos, latch, flagged, due, tickVars>>

\* The exchange confirms a cancellation, or ends an order nobody cancelled.
Expire(i) ==
    /\ ord[i].live
    /\ Set(i, [ord[i] EXCEPT !.live = FALSE])
    /\ UNCHANGED <<mode, pos, latch, flagged, due, tickVars>>

\* _on_exec_details.
ReportExec(i) ==
    /\ \E n \in 1 .. Undelivered(i) :
          /\ Set(i, [ord[i] EXCEPT !.told = @ + n])
          /\ HandleFill(ord[i].buy, n)
    /\ UNCHANGED <<mode, latch, flagged, pc, intent>>

\* _on_order_status, with a terminal status.
ReportStatus(i) ==
    /\ ~ord[i].live /\ Active(i)
    /\ mode.execsFirst => Undelivered(i) = 0
    /\ Set(i, [ord[i] EXCEPT !.st = IF @ = "soft" /\ Remaining(i) > 0 THEN "gap" ELSE "over"])
    /\ UNCHANGED <<mode, pos, latch, flagged, due, tickVars>>

-----------------------------------------------------------------------------
(* Commands, the clock *)

FlattenAll ==
    /\ pc = "idle"
    /\ latch' = TRUE
    /\ UNCHANGED <<mode, ord, pos, flagged, due, tickVars>>

\* exit_position, or multi-leg coordination.
FlagExit ==
    /\ pc = "idle" /\ Open
    /\ flagged' = flagged \cup {pos.id}
    /\ UNCHANGED <<mode, ord, pos, latch, due, tickVars>>

TimeUp ==
    /\ Open /\ ~due
    /\ due' = TRUE
    /\ UNCHANGED <<mode, ord, pos, latch, flagged, tickVars>>

Elapse ==
    /\ since < 2
    /\ since' = since + 1
    /\ UNCHANGED <<mode, ord, pos, latch, flagged, due, pc, intent, tries>>

-----------------------------------------------------------------------------
(* _check_exits *)

\* Mutant: an exit that is being cancelled does not count.
WorkingExit(id) == \E i \in Exits : ord[i].pid = id /\ ord[i].st = "working"

\* _positions_with_pending_exit_orders, and submit_intent's duplicate check.
HasExit(id) == \E i \in Exits : ord[i].pid = id /\ Active(i)

\* Nothing is open: flags and latch are released.
CheckFlat ==
    /\ pc = "idle" /\ ~Open
    /\ latch' = FALSE /\ flagged' = {}
    /\ UNCHANGED <<mode, ord, pos, due, tickVars>>

\* The open position has no exit order: fetch quotes for it.
CheckBegin ==
    /\ pc = "idle" /\ Open
    /\ flagged' = flagged \cap {pos.id}
    /\ IF HasExit(pos.id) THEN UNCHANGED <<pc, intent>>
       ELSE pc' = "quotes" /\ intent' = [NoIntent EXCEPT !.id = pos.id]
    /\ UNCHANGED <<mode, ord, pos, latch, due, tries, since>>

Back == pc' = "idle" /\ intent' = NoIntent

\* The position is still open after the wait.
Candidate == pc = "quotes" /\ Open /\ pos.id = intent.id

\* It must be closed, whatever its price.
Wanted == latch \/ due \/ pos.id \in flagged

\* Mutant: after five attempts there is no other.
HeldForGood == tries >= 5 \/ (tries >= 1 /\ since < 1)

\* Retries wait 10 s, from the fifth on 60 s.
Held == (tries >= 5 /\ since < 2) \/ (tries >= 1 /\ since < 1)

\* Nothing triggers, or there is no quote, or it is too early to try again.
NoExit ==
    /\ pc = "quotes"
    /\ Back
    /\ UNCHANGED <<mode, ord, pos, latch, flagged, due, tries, since>>

\* An exit for the position's whole quantity; Wanted, or a stop or target hit.
Trigger ==
    /\ Candidate /\ ~Held
    /\ intent' = [id |-> pos.id, buy |-> ~pos.long, qty |-> pos.qty]
    /\ pc' = "cancel"
    /\ tries' = Min({tries + 1, 5}) /\ since' = 0
    /\ UNCHANGED <<mode, ord, pos, latch, flagged, due>>

\* Mutant: only entries nothing of which is filled are in the way.
InTheWayUnfilled == {i \in Placed : ord[i].st = "working" /\ ord[i].buy # intent.buy /\ ord[i].told = 0}

\* Working orders on the other side of the contract.
InTheWay == {i \in Placed : ord[i].st = "working" /\ ord[i].buy # intent.buy}

CancelOpposite ==
    /\ pc = "cancel"
    /\ \E i \in InTheWay : Set(i, [ord[i] EXCEPT !.st = "pending"])
    /\ UNCHANGED <<mode, pos, latch, flagged, due, tickVars>>

OppositesCancelled ==
    /\ pc = "cancel" /\ InTheWay = {}
    /\ pc' = "submit"
    /\ UNCHANGED <<mode, ord, pos, latch, flagged, due, intent, tries, since>>

\* submit_intent: refused as a duplicate or by the broker client, or placed.
SubmitExit ==
    /\ pc = "submit"
    /\ \/ UNCHANGED ord
       \/ /\ ~HasExit(intent.id)
          /\ Cardinality(Exits) < MaxExits
          /\ ord' = Append(ord, NewOrder(intent.id, intent.buy, intent.qty))
    /\ Back
    /\ UNCHANGED <<mode, pos, latch, flagged, due, tries, since>>

-----------------------------------------------------------------------------

Next ==
    \/ SubmitEntry \/ FlattenAll \/ FlagExit \/ TimeUp \/ Elapse
    \/ CheckFlat \/ CheckBegin \/ NoExit \/ Trigger
    \/ CancelOpposite \/ OppositesCancelled \/ SubmitExit
    \/ \E i \in Placed :
          \/ Withdraw(i) \/ SoftCancel(i) \/ Replace(i)
          \/ Execute(i) \/ Expire(i) \/ ReportExec(i) \/ ReportStatus(i)

Spec == Init /\ [][Next]_vars

TickTurn == CheckFlat \/ CheckBegin \/ NoExit \/ Trigger \/ CancelOpposite
            \/ OppositesCancelled \/ SubmitExit

\* The loop ticks and time passes; a quote is there in the end for a position
\* that must be closed.  Nothing need fill, and no submission need succeed.
FairSpec ==
    /\ Spec
    /\ WF_vars(TickTurn) /\ WF_vars(Elapse)
    /\ SF_vars(Wanted /\ Trigger)

-----------------------------------------------------------------------------
(* Properties *)

Order == [pid : Nat, buy : BOOLEAN, qty : Nat, st : ActiveStatus \cup {"gap", "over"},
          live : BOOLEAN, done : Nat, told : Nat]

\* Shape of orders, book and tick; nothing is executed or handed over twice, and an
\* order may fill, or be replaced, only while something is left of it.
TypeOK ==
    /\ mode \in Modes
    /\ ord \in Seq(Order)
    /\ \A i \in Placed :
          /\ ord[i].told <= ord[i].done /\ ord[i].done <= ord[i].qty
          /\ ord[i].live => Remaining(i) > 0 /\ Active(i)
          /\ ord[i].st = "gap" => Remaining(i) > 0
    /\ pos \in [id : Nat, qty : Nat, long : BOOLEAN]
    /\ {latch, due} \subseteq BOOLEAN /\ flagged \subseteq Nat
    /\ tries \in 0 .. 5 /\ since \in 0 .. 2
    /\ pc \in {"idle", "quotes", "cancel", "submit"}
    /\ intent \in [id : Nat, buy : BOOLEAN, qty : Nat]

\* What the broker holds for us, and what the book will hold when the executions
\* under way have been handed over.
Net == MapThenSumSet(LAMBDA i : Signed(ord[i].buy, ord[i].done), Placed)
InFlight == MapThenSumSet(LAMBDA i : Signed(ord[i].buy, Undelivered(i)), Placed)
Book == Signed(pos.long, pos.qty)

\* The broker and the client as the code expects them.
Smooth == mode.execsFirst /\ ~mode.replaces

\* Position updates driven by fills alone keep the book equal to the broker's,
\* up to what is in flight, in every order of fills of entries and exits: no
\* execution is cut off, none opens a position the broker does not have.
BookIsBroker == Smooth => Net = Book + InFlight

LiveExits == {i \in Exits : ord[i].live}

\* Exits only reduce: were every live exit order executed now, the position at
\* the broker would shrink or close, never turn around, whatever entry
\* remainders still fill meanwhile.
ExitsOnlyReduce ==
    /\ \A i \in LiveExits : ord[i].buy = (Net < 0)
    /\ MapThenSumSet(Remaining, LiveExits) <= IF Net < 0 THEN -Net ELSE Net

\* ... which is so in a smooth market.
ExitsAreCovered == Smooth => ExitsOnlyReduce

\* No open orders on both sides of a contract: when an exit can fill, whatever can
\* fill on the other side is being cancelled, unless that is an exit too, for which
\* this one is.
BothSidesWithdrawn ==
    ~mode.replaces => \A i \in LiveExits : \A j \in Placed :
        ord[j].live /\ ord[j].buy # ord[i].buy /\ ord[j].st = "working" =>
            j \in Exits /\ ord[i].st # "working"

\* A position that flatten_all, a command or the clock wants closed is tried again
\* and again until it is: an exit order of its own is working or one is submitted.
KeepsTrying == (Open /\ Wanted) ~> (~Open \/ HasExit(pos.id) \/ pc = "submit")

\* "Flatten everything: latches until flat": when the latch is released, nothing is
\* held and nothing can fill any more.
LatchedUntilFlat ==
    [][latch /\ ~latch' => Net = 0 /\ \A i \in Placed : ~ord[i].live]_vars

\* A time exit that is due stays due until the position is closed.
TimeExitStands == [][due /\ Open /\ pos'.id = pos.id /\ pos'.qty > 0 => due']_vars
=============================================================================
