---------------------------- MODULE OrderChains ----------------------------
(***************************************************************************)
(* A replacement chain of OrderManager seen as the single order its        *)
(* submitter believes in (module SingleOrder).  A chain is the set of      *)
(* orders that carry the order_ref of the order submit_intent created.     *)
(***************************************************************************)
EXTENDS OrderManager, FiniteSetsExt

Chain(r) == {o \in Oid : orders[o].ref = r}

ChainLive == [r \in Oid |-> \E o \in Chain(r) : Live(o)]

ChainExecuted == [r \in Oid |-> MapThenSumSet(LAMBDA o : exch[o].filled, Chain(r))]

\* The exchange refused an order that had been executed at least twice.  The
\* second partial fill changes no status, so the broker client does not hand
\* it on, and when the refusal finds the order CANCEL_PENDING it is adopted as
\* a cancellation without its filled quantity.
HidesFills(o) == exch[o].st = "REJECTED" /\ exch[o].filled >= 2

ChainHidden == [r \in Oid |-> \E o \in Chain(r) : HidesFills(o)]

Client == INSTANCE SingleOrder
          WITH Clients <- Oid, live <- ChainLive, executed <- ChainExecuted,
               hidden <- ChainHidden

\* Repricing is invisible to the submitter: however often the order is
\* cancelled and replaced, the chain behaves as one order of Qty, never in the
\* market twice and, while no order of it hid executions in a refusal, never
\* executed beyond Qty.
ImplementsSingleOrder == Client!Spec

\* The same promise as a state predicate: no chain executes more than the
\* quantity it was submitted for, unless a refusal hid executions of it.
NoOverfill == \A r \in Oid : ChainExecuted[r] <= Qty \/ ChainHidden[r]

\* What the comment in _run_repricer says of the replacement, without that
\* exception: "Recalculate remaining quantity to prevent race conditions from
\* fills received during cancellation".
FillsDuringCancelCounted == \A r \in Oid : ChainExecuted[r] <= Qty
=============================================================================
