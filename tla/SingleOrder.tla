---------------------------- MODULE SingleOrder ----------------------------
(***************************************************************************)
(* What whoever submits an intent may assume of it, before any of the      *)
(* machinery that keeps it priced: it is one order.  At any time it is in  *)
(* the market or it is not, and over its whole life no more than Qty is    *)
(* executed - unless the exchange refused it after a second execution:     *)
(* what had been executed by then is hidden from the machinery.            *)
(***************************************************************************)
EXTENDS Naturals

CONSTANTS Clients, Qty

VARIABLES live,      \* is the order in the market?
          executed,  \* how much of it has been executed
          hidden     \* has it been refused with executions nobody counted?

Init ==
    /\ live = [c \in Clients |-> FALSE]
    /\ executed = [c \in Clients |-> 0]
    /\ hidden = [c \in Clients |-> FALSE]

\* The order enters the market, for the first time or at a new price.
Work(c) ==
    /\ ~live[c]
    /\ executed[c] < Qty \/ hidden[c]
    /\ live' = [live EXCEPT ![c] = TRUE]
    /\ UNCHANGED <<executed, hidden>>

\* It leaves the market exactly when it is complete ...
Execute(c) ==
    /\ live[c]
    /\ executed' = [executed EXCEPT ![c] = @ + 1]
    /\ \/ live' = [live EXCEPT ![c] = executed[c] + 1 < Qty]
       \/ hidden[c] /\ \E more \in BOOLEAN : live' = [live EXCEPT ![c] = more]
    /\ UNCHANGED hidden

\* ... or when it is withdrawn ...
Pull(c) ==
    /\ live[c]
    /\ live' = [live EXCEPT ![c] = FALSE]
    /\ UNCHANGED <<executed, hidden>>

\* ... or refused after a second execution.
Refuse(c) ==
    /\ live[c]
    /\ executed[c] >= 2
    /\ live' = [live EXCEPT ![c] = FALSE]
    /\ hidden' = [hidden EXCEPT ![c] = TRUE]
    /\ UNCHANGED executed

Next == \E c \in Clients : Work(c) \/ Execute(c) \/ Pull(c) \/ Refuse(c)

Spec == Init /\ [][Next]_<<live, executed, hidden>>
=============================================================================
