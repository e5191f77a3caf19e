----------------------------- MODULE RunnerProofs -----------------------------
(***************************************************************************)
(* Theorems about the three models of the runner's tick                    *)
(* (src/src/app/runner.py): the way of a batch of signals into the market  *)
(* (RiskGate), multi-leg coordination (MultiLeg) and protect mode          *)
(* (SystemLock).  Each is proved about on its own; the names of one do not *)
(* occur in the others.                                                    *)
(*                                                                         *)
(* Each part begins with its inductive invariant and says why it is the    *)
(* one needed.                                                             *)
(***************************************************************************)
EXTENDS RiskGate, MultiLeg, SystemLock, FiniteSetTheorems, TLAPS

-----------------------------------------------------------------------------
(* The way of a batch into the market, for any number of strategies and    *)
(* legs and any limits.  A batch is judged leg by leg and sent later, so   *)
(* what a leg was approved on has to be carried through the fills and      *)
(* exits in between: GateInv says that once a leg has passed no switch is  *)
(* against the strategy (they change between ticks only) and there is      *)
(* room, and that while the legs are sent what is held and what is still   *)
(* to be sent stay within the bound together.                              *)

\* Slots with an order or a position.
Held == Active \cup Orders

\* The exposure below which a leg is approved.
Room == Least(MaxOpenPositions, MaxPerUnderlying) + MaxOpenOrders - 2

\* No switch is against an entry of strategy s.
Free(s) == ~overrides.locked /\ ~overrides.reduce /\ ~late /\ s \notin overrides.paused

\* The batch of the tick.
BatchOfTick ==
    \/ tick = Idle
    \/ /\ DOMAIN tick = {"pc", "s", "todo", "approved"}
       /\ tick.pc \in {"evaluate", "submit"} /\ tick.s \in Strats
       /\ tick.todo \subseteq Legs /\ tick.approved \subseteq Legs

GateInv ==
    /\ leg \in [Slots -> {"none", "working", "open", "leaving"}]
    /\ BatchOfTick
    /\ tick.pc # "submit" => Cardinality(Held) <= Room + Cardinality(Legs)
    /\ tick.pc = "evaluate" /\ tick.approved # {} => Free(tick.s) /\ Cardinality(Held) <= Room
    /\ tick.pc = "submit" =>
         /\ tick.approved = Legs /\ Free(tick.s)
         /\ Cardinality(Held) + Cardinality(tick.todo) <= Room + Cardinality(Legs)

-----------------------------------------------------------------------------

\* The sets of slots are finite, and what is held is no more than positions and orders.
LEMMA SlotSizes ==
    /\ IsFiniteSet(Slots) /\ IsFiniteSet(Active) /\ IsFiniteSet(Orders) /\ IsFiniteSet(Held)
    /\ Cardinality(Active) \in Nat /\ Cardinality(Orders) \in Nat /\ Cardinality(Held) \in Nat
    /\ Cardinality(Held) <= Cardinality(Active) + Cardinality(Orders)
    /\ Cardinality(Legs) \in Nat \ {0} /\ Room \in Nat
<1>1. IsFiniteSet(Slots)
    BY FS_Product, RiskAssumption DEF Slots
<1>2. IsFiniteSet(Active) /\ IsFiniteSet(Orders)
    BY <1>1, FS_Subset DEF Active, Orders
<1>3. IsFiniteSet(Held) /\ IsFiniteSet(Active \cap Orders)
      /\ Cardinality(Held) = Cardinality(Active) + Cardinality(Orders) - Cardinality(Active \cap Orders)
    BY <1>2, FS_Union, FS_Intersection DEF Held
<1>4. /\ Cardinality(Active) \in Nat /\ Cardinality(Orders) \in Nat /\ Cardinality(Held) \in Nat
      /\ Cardinality(Active \cap Orders) \in Nat
    BY <1>2, <1>3, FS_CardinalityType
<1>5. Cardinality(Legs) \in Nat \ {0}
    BY RiskAssumption, FS_CardinalityType, FS_EmptySet
<1>6. Room \in Nat
    BY RiskAssumption DEF Room, Least
<1> QED
    BY <1>1, <1>2, <1>3, <1>4, <1>5, <1>6

\* A leg that passes finds room under the limits and no switch against it.
LEMMA PassesMeans ==
    ASSUME NEW s, NEW quote, Blocking(s, Snapshot(quote)) = {}
    PROVE  Free(s) /\ Cardinality(Held) <= Room
<1>1. Switches(s, Snapshot(quote)) = {} /\ Limits(s, Snapshot(quote)) = {}
    BY DEF Blocking
<1>2. Free(s)
    <2>1. ~overrides.locked
        BY <1>1 DEF Switches
    <2>2. ~overrides.reduce
        BY <1>1 DEF Switches
    <2>3. ~late
        BY <1>1 DEF Switches
    <2>4. s \notin overrides.paused
        BY <1>1 DEF Switches
    <2> QED
        BY <2>1, <2>2, <2>3, <2>4 DEF Free
<1>3. ~(Cardinality(Active) >= MaxOpenPositions)
    BY <1>1 DEF Limits, Snapshot
<1>4. ~(Cardinality(Active) >= MaxPerUnderlying)
    BY <1>1 DEF Limits, Snapshot
<1>5. ~(Cardinality(Orders) >= MaxOpenOrders)
    BY <1>1 DEF Limits, Snapshot
<1>6. Cardinality(Held) <= Room
    BY <1>3, <1>4, <1>5, SlotSizes, RiskAssumption DEF Room, Least
<1> QED
    BY <1>2, <1>6

\* Fewer slots are held, or as many.
LEMMA FewerHeld ==
    ASSUME Held' \subseteq Held
    PROVE  Cardinality(Held') \in Nat /\ Cardinality(Held') <= Cardinality(Held)
BY SlotSizes, FS_Subset, FS_CardinalityType

\* At any time what is held is bounded.
LEMMA HeldBounded == ASSUME GateInv PROVE Cardinality(Held) <= Room + Cardinality(Legs)
<1>1. CASE tick.pc # "submit"
    BY <1>1 DEF GateInv
<1>2. CASE tick.pc = "submit"
    <2>1. tick.todo \subseteq Legs
        BY <1>2 DEF GateInv, BatchOfTick, Idle
    <2>2. Cardinality(tick.todo) \in Nat
        BY <2>1, RiskAssumption, FS_Subset, FS_CardinalityType
    <2> QED
        BY <1>2, <2>2, SlotSizes DEF GateInv
<1> QED
    BY <1>1, <1>2

\* One slot more is one more at most.
LEMMA OneMoreSlot ==
    ASSUME NEW S, IsFiniteSet(S), NEW x
    PROVE  /\ IsFiniteSet(S \cup {x}) /\ Cardinality(S \cup {x}) \in Nat
           /\ Cardinality(S \cup {x}) <= Cardinality(S) + 1
<1>1. Cardinality(S) \in Nat
    BY FS_CardinalityType
<1>2. IsFiniteSet(S \cup {x}) /\ Cardinality(S \cup {x}) = IF x \in S THEN Cardinality(S) ELSE Cardinality(S) + 1
    BY FS_AddElement
<1> QED
    BY <1>1, <1>2

\* Nothing is held and no batch is on its way.
LEMMA InitGate == Init => GateInv
<1> SUFFICES ASSUME Init PROVE GateInv
    OBVIOUS
<1>1. Held = {}
    BY DEF Init, Held, Active, Orders
<1>2. Cardinality(Held) = 0
    BY <1>1, FS_EmptySet
<1> QED
    BY <1>2, SlotSizes DEF Init, GateInv, BatchOfTick, Idle

\* A leg is judged.
LEMMA EvaluateStep ==
    ASSUME GateInv, NEW l \in Legs, NEW quote \in QuoteKinds, Evaluate(l, quote)
    PROVE  GateInv'
<1> DEFINE passes == Blocking(tick.s, Snapshot(quote)) = {}
<1>1. tick' = [tick EXCEPT !.todo = @ \ {l}, !.approved = IF passes THEN @ \cup {l} ELSE @]
    BY DEF Evaluate
<1>2. passes => Free(tick.s) /\ Cardinality(Held) <= Room
    BY PassesMeans
<1> HIDE DEF passes
<1>3. /\ tick.pc = "evaluate" /\ DOMAIN tick = {"pc", "s", "todo", "approved"} /\ tick # Idle
      /\ tick.s \in Strats /\ tick.todo \subseteq Legs /\ tick.approved \subseteq Legs
    BY DEF Evaluate, GateInv, BatchOfTick, Idle
<1>4. /\ DOMAIN tick' = {"pc", "s", "todo", "approved"} /\ tick'.pc = "evaluate" /\ tick'.s = tick.s
      /\ tick'.todo \subseteq Legs /\ tick'.approved \subseteq Legs
      /\ tick'.approved # {} => passes \/ tick.approved # {}
    BY <1>1, <1>3
<1>5. leg' = leg /\ Held' = Held /\ (Free(tick.s))' = Free(tick'.s)
    BY DEF Evaluate, Held, Active, Orders, Free
<1> QED
    BY <1>2, <1>3, <1>4, <1>5 DEF GateInv, BatchOfTick, Free

\* The batch is sent if all its legs were approved.
LEMMA DecideStep == ASSUME GateInv, Decide PROVE GateInv'
<1>1. /\ tick.pc = "evaluate" /\ DOMAIN tick = {"pc", "s", "todo", "approved"}
      /\ tick.s \in Strats /\ tick.todo \subseteq Legs /\ tick.approved \subseteq Legs
    BY DEF Decide, GateInv, BatchOfTick, Idle
<1>2. leg' = leg /\ Held' = Held /\ overrides' = overrides /\ late' = late
    BY DEF Decide, Held, Active, Orders
<1>3. CASE tick.approved = Legs
    <2>1. tick' = [tick EXCEPT !.pc = "submit", !.todo = Legs]
        BY <1>3 DEF Decide
    <2>2. /\ DOMAIN tick' = {"pc", "s", "todo", "approved"} /\ tick'.pc = "submit" /\ tick'.s = tick.s
          /\ tick'.todo = Legs /\ tick'.approved = Legs
        BY <1>1, <1>3, <2>1
    <2>3. Free(tick.s) /\ Cardinality(Held) <= Room
        BY <1>1, <1>3, RiskAssumption DEF GateInv
    <2> QED
        BY <1>1, <1>2, <2>2, <2>3, SlotSizes DEF GateInv, BatchOfTick, Free
<1>4. CASE tick.approved # Legs
    <2>1. tick' = Idle
        BY <1>4 DEF Decide
    <2> QED
        BY <1>1, <1>2, <2>1 DEF GateInv, BatchOfTick, Idle
<1> QED
    BY <1>3, <1>4

\* A leg is sent: what it adds to the slots it takes off the batch.
LEMMA SubmitStep ==
    ASSUME GateInv, NEW l \in Legs, NEW placed \in BOOLEAN, Submit(l, placed)
    PROVE  GateInv'
<1>1. /\ tick.pc = "submit" /\ DOMAIN tick = {"pc", "s", "todo", "approved"} /\ l \in tick.todo
      /\ tick.s \in Strats /\ tick.todo \subseteq Legs /\ tick.approved = Legs
    BY DEF Submit, GateInv, BatchOfTick, Idle
<1>2. tick' = [tick EXCEPT !.todo = @ \ {l}]
    BY DEF Submit
<1>3. /\ DOMAIN tick' = {"pc", "s", "todo", "approved"} /\ tick'.pc = "submit" /\ tick'.s = tick.s
      /\ tick'.todo = tick.todo \ {l} /\ tick'.approved = Legs
    BY <1>1, <1>2
<1>4. leg' \in [Slots -> {"none", "working", "open", "leaving"}] /\ Held' \subseteq Held \cup {<<tick.s, l>>}
    BY <1>1 DEF Submit, GateInv, Slots, Held, Active, Orders
<1>5. IsFiniteSet(Held \cup {<<tick.s, l>>}) /\ Cardinality(Held \cup {<<tick.s, l>>}) \in Nat
      /\ Cardinality(Held \cup {<<tick.s, l>>}) <= Cardinality(Held) + 1
    BY SlotSizes, OneMoreSlot
<1>6. Cardinality(Held') \in Nat /\ Cardinality(Held') <= Cardinality(Held) + 1
    BY <1>4, <1>5, SlotSizes, FS_Subset, FS_CardinalityType
<1>7. IsFiniteSet(tick.todo) /\ Cardinality(tick.todo) \in Nat
    BY <1>1, RiskAssumption, FS_Subset, FS_CardinalityType
<1>8. Cardinality(tick'.todo) = Cardinality(tick.todo) - 1
    <2>1. Cardinality(tick.todo \ {l}) = Cardinality(tick.todo) - 1
        BY <1>1, <1>7, FS_RemoveElement
    <2> QED
        BY <1>3, <2>1
<1>9. Cardinality(Held') + Cardinality(tick'.todo) <= Room + Cardinality(Legs)
    BY <1>1, <1>6, <1>7, <1>8, SlotSizes DEF GateInv
<1>10. overrides' = overrides /\ late' = late
    BY DEF Submit
<1> QED
    BY <1>1, <1>3, <1>4, <1>9, <1>10 DEF GateInv, BatchOfTick, Free

\* What only empties slots keeps the invariant.
LEMMA EasedStep ==
    ASSUME GateInv, leg' \in [Slots -> {"none", "working", "open", "leaving"}], Held' \subseteq Held,
           tick' = tick, overrides' = overrides, late' = late
    PROVE  GateInv'
<1>1. Cardinality(Held') \in Nat /\ Cardinality(Held') <= Cardinality(Held)
    BY FewerHeld
<1>2. CASE tick.pc = "submit"
    <2>1. tick.todo \subseteq Legs
        BY <1>2 DEF GateInv, BatchOfTick, Idle
    <2>2. Cardinality(tick.todo) \in Nat
        BY <2>1, RiskAssumption, FS_Subset, FS_CardinalityType
    <2>3. Cardinality(Held') + Cardinality(tick.todo) <= Room + Cardinality(Legs)
        BY <1>1, <1>2, <2>2, SlotSizes DEF GateInv
    <2> QED
        BY <1>2, <2>3 DEF GateInv, BatchOfTick, Free
<1>3. CASE tick.pc # "submit"
    <2>1. Cardinality(Held') <= Room + Cardinality(Legs)
        BY <1>1, <1>3, SlotSizes DEF GateInv
    <2>2. tick.pc = "evaluate" /\ tick.approved # {} => Free(tick.s) /\ Cardinality(Held') <= Room
        BY <1>1, SlotSizes DEF GateInv
    <2> QED
        BY <1>3, <2>1, <2>2 DEF GateInv, BatchOfTick, Free
<1> QED
    BY <1>2, <1>3

\* Every step.
LEMMA GateStep == GateInv /\ [Next]_vars => GateInv'
<1> SUFFICES ASSUME GateInv, [Next]_vars PROVE GateInv'
    OBVIOUS
<1>1. ASSUME NEW s \in Strats, Poll(s) PROVE GateInv'
    <2>1. tick' = [pc |-> "evaluate", s |-> s, todo |-> Legs, approved |-> {}] /\ tick = Idle
        BY <1>1 DEF Poll
    <2>2. leg' = leg /\ Held' = Held
        BY <1>1 DEF Poll, Held, Active, Orders
    <2> QED
        BY <2>1, <2>2 DEF GateInv, BatchOfTick, Idle
<1>2. CASE NextStrategy
    <2>1. tick' = Idle /\ leg' = leg /\ Held' = Held /\ tick.pc = "submit" /\ tick.todo = {}
        BY <1>2 DEF NextStrategy, Held, Active, Orders
    <2>2. Cardinality(Held) <= Room + Cardinality(Legs)
        BY <2>1, SlotSizes, FS_EmptySet DEF GateInv
    <2> QED
        BY <2>1, <2>2 DEF GateInv, BatchOfTick, Idle
<1>3. ASSUME NEW x \in Slots, EntryEnds(x) \/ ExitSent(x) PROVE GateInv'
    <2>1. /\ leg' \in [Slots -> {"none", "working", "open", "leaving"}] /\ Held' \subseteq Held
          /\ tick' = tick /\ overrides' = overrides /\ late' = late
        BY <1>3 DEF EntryEnds, ExitSent, GateInv, Held, Active, Orders
    <2> QED
        BY <2>1, EasedStep
<1>4. ASSUME NEW x \in Slots, NEW result \in Results, NEW whole \in BOOLEAN, ExitFills(x, result, whole)
      PROVE  GateInv'
    <2>1. /\ leg' \in [Slots -> {"none", "working", "open", "leaving"}] /\ Held' \subseteq Held
          /\ tick' = tick /\ overrides' = overrides /\ late' = late
        BY <1>4 DEF ExitFills, GateInv, Held, Active, Orders
    <2> QED
        BY <2>1, EasedStep
<1>5. CASE Override \/ Cutoff
    <2>1. tick = Idle /\ tick' = Idle /\ leg' = leg /\ Held' = Held
        BY <1>5 DEF Override, Cutoff, Held, Active, Orders
    <2> QED
        BY <2>1 DEF GateInv, BatchOfTick, Idle
<1>6. CASE Restart
    <2>1. /\ leg' \in [Slots -> {"none", "working", "open", "leaving"}] /\ Held' \subseteq Held
          /\ tick' = Idle
        BY <1>6 DEF Restart, GateInv, Held, Active, Orders
    <2>2. Cardinality(Held) <= Room + Cardinality(Legs)
        BY HeldBounded
    <2> QED
        BY <2>1, <2>2, SlotSizes, FewerHeld DEF GateInv, BatchOfTick, Idle
<1>7. CASE UNCHANGED <<leg, overrides, late, tick>>
    BY <1>7 DEF GateInv, BatchOfTick, Held, Active, Orders, Free
<1>8. CASE UNCHANGED vars
    BY <1>7, <1>8 DEF vars
<1>9. ASSUME NEW s \in Strats, RetryAgain(s) PROVE GateInv'
    BY <1>7, <1>9 DEF RetryAgain
<1> QED
    BY <1>1, <1>2, <1>3, <1>4, <1>5, <1>6, <1>8, <1>9, EvaluateStep, DecideStep, SubmitStep
       DEF Next, Batch

-----------------------------------------------------------------------------

\* However fills, exits, switches and restarts fall between the snapshots, what is held stays within
\* the limits plus a batch (evaluate and _process_tick).
THEOREM BoundedExposure == Spec => []ExposureBounded
<1>1. Init => GateInv
    BY InitGate
<1>2. GateInv /\ [Next]_vars => GateInv'
    BY GateStep
<1>3. ASSUME GateInv PROVE ExposureBounded
    <2>1. Least(MaxOpenPositions, MaxPerUnderlying) \in Nat
        BY RiskAssumption DEF Least
    <2> QED
        BY <1>3, <2>1, HeldBounded, SlotSizes, RiskAssumption DEF ExposureBounded, Held, Room
<1> QED
    BY <1>1, <1>2, <1>3, PTL DEF Spec

\* An entry order goes in only from a batch of which every leg was approved, and with no switch
\* against it: the approvals still stand when the legs are sent (_process_tick).
THEOREM OnlyWhenAllowed == Spec => EntersOnlyWhenAllowed
<1> DEFINE Entering(s) == \E x \in Of(s) : leg[x] = "none" /\ leg'[x] = "working"
           Permitted(s) == /\ ~overrides.locked /\ ~overrides.reduce /\ ~late /\ s \notin overrides.paused
                           /\ tick.approved = Legs
<1>1. Init => GateInv
    BY InitGate
<1>2. GateInv /\ [Next]_vars => GateInv'
    BY GateStep
<1>3. GateInv /\ [Next]_vars => [\A s \in Strats : Entering(s) => Permitted(s)]_vars
    <2> SUFFICES ASSUME GateInv, Next, NEW s \in Strats, NEW x \in Of(s), leg[x] = "none", leg'[x] = "working"
                 PROVE  Permitted(s)
        OBVIOUS
    <2>1. x \in Slots /\ x[1] = s
        BY DEF Of
    <2>2. \E l \in Legs, placed \in BOOLEAN : Submit(l, placed)
        <3>1. leg' # leg
            OBVIOUS
        <3>2. ~(\E y \in Slots : EntryEnds(y) \/ ExitSent(y))
            BY <2>1 DEF EntryEnds, ExitSent, GateInv
        <3>3. ~(\E y \in Slots, result \in Results, whole \in BOOLEAN : ExitFills(y, result, whole))
            BY <2>1 DEF ExitFills, GateInv
        <3>4. ~Restart
            BY <2>1 DEF Restart
        <3> QED
            BY <3>1, <3>2, <3>3, <3>4
               DEF Next, Batch, Poll, Evaluate, Decide, NextStrategy, Override, Cutoff, RetryAgain
    <2>3. PICK l \in Legs, placed \in BOOLEAN : Submit(l, placed)
        BY <2>2
    <2>4. x = <<tick.s, l>>
        BY <2>1, <2>3 DEF Submit, GateInv
    <2>5. tick.s = s
        BY <2>1, <2>4
    <2>6. Free(s) /\ tick.approved = Legs
        BY <2>3, <2>5 DEF Submit, GateInv
    <2> QED
        BY <2>6 DEF Free
<1> QED
    BY <1>1, <1>2, <1>3, PTL DEF Spec, EntersOnlyWhenAllowed

-----------------------------------------------------------------------------
(* Multi-leg coordination with orders that are modified in place           *)
(* (MaxReprices = 0), for any number of legs, batches, broker-ended orders *)
(* and any quantities.  With cancel/replace the theorem does not hold, for *)
(* a strategy counts as flat between the confirmation of a cancel and the  *)
(* replacement.  ChainOk says that a chain that is over has nothing left   *)
(* to report, TickOk that the batch the tick submits is the youngest,      *)
(* YoungestOnly that what is active or open is of the youngest batch,      *)
(* which the wait-until-flat gate alone would not give: executions arrive  *)
(* after the gate was passed.                                              *)

Status == Dead \cup {"none", "working", "pending", "FILLED"}

\* A chain whose orders are modified in place: its repricer never waits for a cancellation, and the
\* exchange has nothing to report of an order that is over.
ChainOk(c) ==
    /\ DOMAIN tail[c] = {"st", "hard", "qty", "filled", "no"} /\ tail[c].st \in Status
    /\ DOMAIN rep[c] = {"pc", "att"} /\ rep[c].pc # "wait" /\ rep[c].att = 0
    /\ due[c] \in [status : Nat, exec : Nat]
    /\ ~IsActive(c) => due[c].status = 0
    /\ ExecsFirst /\ due[c].exec > 0 => due[c].status > 0

\* The state has its shape.
Shaped ==
    /\ tail = [c \in Chains |-> tail[c]] /\ rep = [c \in Chains |-> rep[c]]
    /\ due = [c \in Chains |-> due[c]]

ChainsOk == Shaped /\ \A c \in Chains : ChainOk(c)

\* What the tick knows when it submits.
TickOk ==
    /\ DOMAIN count = {"batches", "orders", "kills"} /\ count.batches \in 0 .. MaxEntries
    /\ pc = "submit" => batch = count.batches /\ batch \in Batches

\* An exit is no larger than its position.
BookOk ==
    /\ pos \in [Contracts -> Nat] /\ exiting \in [Contracts -> Nat] /\ \A l \in Contracts : exiting[l] <= pos[l]
    /\ owner = [l \in Contracts |-> owner[l]]

\* Only the youngest batch has active orders or positions.
YoungestOnly ==
    ExecsFirst => /\ \A c \in Chains : IsActive(c) => c[1] = count.batches
                  /\ \A l \in Contracts : pos[l] > 0 => owner[l] = count.batches

LegInv == ChainsOk /\ TickOk /\ BookOk /\ YoungestOnly

-----------------------------------------------------------------------------


\* Nothing has been submitted.
LEMMA InitLegs == LegInit => LegInv
BY LegBoundAssumption DEF LegInit, LegInv, ChainsOk, Shaped, ChainOk, TickOk, BookOk, YoungestOnly,
   Status, IsActive, NoTail, Dead, Chains, Batches

\* A step that revives no chain and sends the tick nowhere.
LEMMA ChainsMove ==
    ASSUME LegInv, ChainsOk', BookOk', pos' = pos, owner' = owner,
           \A c \in Chains : IsActive(c)' => IsActive(c),
           \A c \in Chains : tail[c].st \in Dead => tail'[c].st \in Dead,
           pc' = pc, batch' = batch, failed' = failed,
           DOMAIN count' = DOMAIN count, count'.batches = count.batches
    PROVE  LegInv'
<1>1. TickOk'
    BY DEF LegInv, TickOk, Chains
<1>2. YoungestOnly'
    BY DEF LegInv, YoungestOnly
<1> QED
    BY <1>1, <1>2 DEF LegInv

\* An order that is cancelled for good stays active until the exchange confirms it.
LEMMA HardCancelKeeps ==
    ASSUME NEW t, DOMAIN t = {"st", "hard", "qty", "filled", "no"}
    PROVE  DOMAIN HardCancelled(t) = DOMAIN t /\ HardCancelled(t).st = "pending"
BY DEF HardCancelled

\* cancel_order for some of the active chains.
LEMMA CancelSome ==
    ASSUME LegInv, NEW S \in SUBSET {c \in Chains : IsActive(c)},
           tail' = [c \in Chains |-> IF c \in S THEN HardCancelled(tail[c]) ELSE tail[c]],
           \A c \in Chains : rep'[c].pc \in {rep[c].pc, "off"} /\ rep'[c].att = rep[c].att
                             /\ DOMAIN rep'[c] = DOMAIN rep[c],
           rep' = [c \in Chains |-> rep'[c]], due' = due
    PROVE  /\ ChainsOk'
           /\ \A c \in Chains : IsActive(c)' => IsActive(c)
           /\ \A c \in Chains : tail[c].st \in Dead => tail'[c].st \in Dead
<1>1. Shaped /\ \A c \in Chains : ChainOk(c)
    BY DEF LegInv, ChainsOk
<1>2. \A c \in Chains : c \in S => /\ IsActive(c) /\ DOMAIN tail'[c] = DOMAIN tail[c]
                                   /\ tail'[c].st = "pending"
    BY <1>1, HardCancelKeeps DEF ChainOk
<1>3. \A c \in Chains : c \notin S => tail'[c] = tail[c]
    OBVIOUS
<1>4. \A c \in Chains : c \in S => tail[c].st \notin Dead
    BY DEF IsActive, Dead
<1>5. \A c \in Chains : IsActive(c)' <=> IsActive(c)
    BY <1>2, <1>3 DEF IsActive
<1>6. \A c \in Chains : ChainOk(c)'
    BY <1>1, <1>2, <1>3, <1>5 DEF ChainOk, Status
<1>7. Shaped'
    BY <1>1 DEF Shaped
<1>8. \A c \in Chains : tail[c].st \in Dead => tail'[c].st \in Dead
    BY <1>3, <1>4
<1> QED
    BY <1>5, <1>6, <1>7, <1>8 DEF ChainsOk

\* A cancel_order of the tick, if the order is still the tail and working.
LEMMA CancelNextStep == ASSUME LegInv, CancelNext PROVE LegInv'
<1>1. PICK k \in todo : tail' = IF tail[k[1]].no = k[2] /\ tail[k[1]].st = "working"
                                THEN [tail EXCEPT ![k[1]] = HardCancelled(@)] ELSE tail
    BY DEF CancelNext
<1>2. \E S \in SUBSET {c \in Chains : IsActive(c)} :
        tail' = [c \in Chains |-> IF c \in S THEN HardCancelled(tail[c]) ELSE tail[c]]
    <2>1. CASE tail' = tail
        <3>1. tail' = [c \in Chains |-> IF c \in {} THEN HardCancelled(tail[c]) ELSE tail[c]]
            BY <2>1 DEF LegInv, ChainsOk, Shaped
        <3>2. {} \in SUBSET {c \in Chains : IsActive(c)}
            OBVIOUS
        <3> QED
            BY <3>1, <3>2, Zenon
    <2>2. CASE tail[k[1]].st = "working" /\ tail' = [tail EXCEPT ![k[1]] = HardCancelled(@)] /\ k[1] \in Chains
        <3>1. {k[1]} \in SUBSET {c \in Chains : IsActive(c)}
            BY <2>2 DEF IsActive
        <3>2. tail' = [c \in Chains |-> IF c \in {k[1]} THEN HardCancelled(tail[c]) ELSE tail[c]]
            BY <2>2 DEF LegInv, ChainsOk, Shaped
        <3> QED
            BY <3>1, <3>2
    <2>3. CASE tail' = [tail EXCEPT ![k[1]] = HardCancelled(@)] /\ k[1] \notin Chains
        <3>1. tail' = tail
            BY <2>3 DEF LegInv, ChainsOk, Shaped
        <3> QED
            BY <2>1, <3>1
    <2> QED
        BY <1>1, <2>1, <2>2, <2>3
<1>3. /\ rep' = rep /\ due' = due /\ pos' = pos /\ owner' = owner /\ exiting' = exiting /\ count' = count
      /\ pc' = pc /\ batch' = batch /\ failed' = failed
    BY DEF CancelNext, posVars
<1>4. BookOk' /\ rep' = [c \in Chains |-> rep'[c]]
    BY <1>3 DEF LegInv, BookOk, ChainsOk, Shaped
<1>5. \A c \in Chains : rep'[c].pc \in {rep[c].pc, "off"} /\ rep'[c].att = rep[c].att
                        /\ DOMAIN rep'[c] = DOMAIN rep[c]
    BY <1>3
<1>6. /\ ChainsOk'
      /\ \A c \in Chains : IsActive(c)' => IsActive(c)
      /\ \A c \in Chains : tail[c].st \in Dead => tail'[c].st \in Dead
    BY <1>2, <1>3, <1>4, <1>5, CancelSome
<1> QED
    BY <1>3, <1>4, <1>6, ChainsMove

\* An exit, and the withdrawal of what works on its contract.
LEMMA SubmitExitStep == ASSUME LegInv, SubmitExit PROVE LegInv'
<1>1. PICK l \in OpenLegs :
        /\ exiting' = [exiting EXCEPT ![l] = ExitQty(l)]
        /\ tail' = [c \in Chains |-> IF c[2] = l /\ tail[c].st = "working" THEN HardCancelled(tail[c]) ELSE tail[c]]
    BY DEF SubmitExit
<1> DEFINE S == {c \in Chains : c[2] = l /\ tail[c].st = "working"}
<1>2. S \in SUBSET {c \in Chains : IsActive(c)}
    BY DEF IsActive
<1>3. tail' = [c \in Chains |-> IF c \in S THEN HardCancelled(tail[c]) ELSE tail[c]]
    BY <1>1
<1> HIDE DEF S
<1>4. /\ rep' = rep /\ due' = due /\ pos' = pos /\ owner' = owner /\ count' = count
      /\ pc' = pc /\ batch' = batch /\ failed' = failed
    BY DEF SubmitExit, tickVars
<1>5. rep' = [c \in Chains |-> rep'[c]]
    BY <1>4 DEF LegInv, ChainsOk, Shaped
<1>6. BookOk'
    BY <1>1, <1>4 DEF LegInv, BookOk, ExitQty, OpenLegs
<1>7. \A c \in Chains : rep'[c].pc \in {rep[c].pc, "off"} /\ rep'[c].att = rep[c].att
                        /\ DOMAIN rep'[c] = DOMAIN rep[c]
    BY <1>4
<1>8. /\ ChainsOk'
      /\ \A c \in Chains : IsActive(c)' => IsActive(c)
      /\ \A c \in Chains : tail[c].st \in Dead => tail'[c].st \in Dead
    BY <1>2, <1>3, <1>4, <1>5, <1>7, CancelSome
<1> QED
    BY <1>4, <1>6, <1>8, ChainsMove

\* One chain moves, and is not revived.
LEMMA OneChainMoves ==
    ASSUME LegInv, NEW c \in Chains,
           \A d \in Chains \ {c} : tail'[d] = tail[d] /\ rep'[d] = rep[d] /\ due'[d] = due[d],
           Shaped', ChainOk(c)', IsActive(c)' => IsActive(c), tail[c].st \in Dead => tail'[c].st \in Dead,
           pos' = pos, owner' = owner, exiting' = exiting, DOMAIN count' = DOMAIN count,
           count'.batches = count.batches, pc' = pc, batch' = batch, failed' = failed
    PROVE  LegInv'
<1>1. \A d \in Chains \ {c} : ChainOk(d)' /\ (IsActive(d)' <=> IsActive(d))
    BY DEF LegInv, ChainsOk, ChainOk, IsActive
<1>2. ChainsOk'
    BY <1>1 DEF ChainsOk
<1>3. BookOk'
    BY DEF LegInv, BookOk
<1>4. /\ \A d \in Chains : IsActive(d)' => IsActive(d)
      /\ \A d \in Chains : tail[d].st \in Dead => tail'[d].st \in Dead
    BY <1>1
<1> QED
    BY <1>2, <1>3, <1>4, ChainsMove

\* The repricer: it never cancels to replace, so it only stops or gives up.
LEMMA RepStep == ASSUME MaxReprices = 0, LegInv, NEW c \in Chains, RepTurn(c) PROVE LegInv'
<1>1. ChainOk(c) /\ Shaped
    BY DEF LegInv, ChainsOk
<1>2. ~RepSoftCancel(c) /\ ~RepReplace(c)
    BY <1>1 DEF RepSoftCancel, RepReplace, ChainOk
<1>3. /\ due' = due /\ pos' = pos /\ owner' = owner /\ exiting' = exiting /\ count' = count
      /\ pc' = pc /\ batch' = batch /\ failed' = failed
    BY <1>2 DEF RepTurn, RepGiveUp, RepStop, posVars, tickVars
<1>4. rep' = [rep EXCEPT ![c].pc = "off"]
    BY <1>2 DEF RepTurn, RepGiveUp, RepStop
<1>5. /\ \A d \in Chains \ {c} : rep'[d] = rep[d]
      /\ rep' = [d \in Chains |-> rep'[d]]
      /\ DOMAIN rep'[c] = {"pc", "att"} /\ rep'[c].pc = "off" /\ rep'[c].att = 0
    BY <1>1, <1>4 DEF ChainOk, Shaped
<1>6. CASE tail' = tail
    BY <1>1, <1>3, <1>5, <1>6, OneChainMoves DEF ChainOk, Shaped, IsActive
<1>7. CASE tail[c].st = "working" /\ tail' = [tail EXCEPT ![c] = HardCancelled(@)]
    <2>1. /\ \A d \in Chains \ {c} : tail'[d] = tail[d]
          /\ tail' = [d \in Chains |-> tail'[d]] /\ tail'[c] = HardCancelled(tail[c])
        BY <1>1, <1>7 DEF Shaped
    <2>2. DOMAIN tail'[c] = {"st", "hard", "qty", "filled", "no"} /\ tail'[c].st = "pending"
        BY <1>1, <2>1, HardCancelKeeps DEF ChainOk
    <2>3. IsActive(c)' /\ IsActive(c) /\ tail[c].st \notin Dead
        BY <1>7, <2>2 DEF IsActive, Dead
    <2>4. ChainOk(c)' /\ Shaped'
        BY <1>1, <1>3, <1>5, <2>1, <2>2, <2>3 DEF ChainOk, Shaped, Status
    <2> QED
        BY <1>3, <1>5, <2>1, <2>3, <2>4, OneChainMoves
<1> QED
    BY <1>2, <1>6, <1>7 DEF RepTurn, RepGiveUp, RepStop

\* The exchange, its order statuses, and the spawned cancellation of a remainder.
LEMMA ExchangeStep ==
    ASSUME LegInv, NEW c \in Chains,
           ExchFill(c) \/ ReportStatus(c) \/ CancelRemainder(c) \/ ExchCancel(c) \/ ExchKill(c)
    PROVE  LegInv'
<1>1. ChainOk(c) /\ Shaped
    BY DEF LegInv, ChainsOk
<1>2. /\ rep' = rep /\ pos' = pos /\ owner' = owner /\ exiting' = exiting
      /\ pc' = pc /\ batch' = batch /\ failed' = failed
    BY DEF ExchFill, ReportStatus, CancelRemainder, ExchCancel, ExchKill, posVars, tickVars
<1>3. DOMAIN count' = DOMAIN count /\ count'.batches = count.batches
    BY DEF LegInv, TickOk, ExchFill, ReportStatus, CancelRemainder, ExchCancel, ExchKill
<1>4. CASE ExchFill(c)
    <2>1. tail' = tail /\ due' = [due EXCEPT ![c] = [status |-> @.status + 1, exec |-> @.exec + 1]] /\ IsActive(c)
        BY <1>4 DEF ExchFill
    <2>2. /\ \A d \in Chains \ {c} : due'[d] = due[d]
          /\ due'[c] = [status |-> due[c].status + 1, exec |-> due[c].exec + 1] /\ due' = [d \in Chains |-> due'[d]]
        BY <1>1, <2>1 DEF Shaped
    <2>3. ChainOk(c)' /\ Shaped' /\ (IsActive(c)' <=> IsActive(c))
        BY <1>1, <1>2, <2>1, <2>2 DEF ChainOk, Shaped, IsActive
    <2> QED
        BY <1>2, <1>3, <2>1, <2>2, <2>3, OneChainMoves
<1>5. CASE ReportStatus(c)
    <2>1. due' = [due EXCEPT ![c].status = 0] /\ due[c].status > 0 /\ (ExecsFirst => due[c].exec = 0)
        BY <1>5 DEF ReportStatus
    <2>2. /\ \A d \in Chains \ {c} : due'[d] = due[d]
          /\ due'[c] \in [status : Nat, exec : Nat] /\ due'[c].status = 0 /\ due'[c].exec = due[c].exec
          /\ due' = [d \in Chains |-> due'[d]]
        BY <1>1, <2>1 DEF Shaped, ChainOk
    <2>3. PICK f, st : tail' = [tail EXCEPT ![c].filled = f, ![c].st = st] /\ st \in {"FILLED", tail[c].st}
        <3> DEFINE f == tail[c].filled + due[c].status
                   st == IF Left(c) = 0 THEN "FILLED" ELSE tail[c].st
        <3>1. tail' = [tail EXCEPT ![c].filled = f, ![c].st = st]
            BY <1>5 DEF ReportStatus
        <3>2. st \in {"FILLED", tail[c].st}
            OBVIOUS
        <3> HIDE DEF f, st
        <3> QED
            BY <3>1, <3>2
    <2>4. /\ \A d \in Chains \ {c} : tail'[d] = tail[d] /\ tail' = [e \in Chains |-> tail'[e]]
          /\ DOMAIN tail'[c] = {"st", "hard", "qty", "filled", "no"} /\ tail'[c].st = st
        BY <1>1, <2>3 DEF Shaped, ChainOk
    <2>5. IsActive(c) /\ tail[c].st \notin Dead
        BY <1>1, <2>1 DEF ChainOk, IsActive, Dead
    <2>6. tail' = [e \in Chains |-> tail'[e]]
        BY <1>1, <2>3 DEF Shaped
    <2>7. ChainOk(c)' /\ Shaped'
        BY <1>1, <1>2, <2>1, <2>2, <2>3, <2>4, <2>6 DEF ChainOk, Shaped, Status, IsActive
    <2> QED
        BY <1>2, <1>3, <2>2, <2>4, <2>5, <2>7, OneChainMoves
<1>6. CASE CancelRemainder(c)
    <2>1. tail' = (IF IsActive(c) THEN [tail EXCEPT ![c] = HardCancelled(@)] ELSE [tail EXCEPT ![c].hard = TRUE])
          /\ due' = due
        BY <1>6 DEF CancelRemainder
    <2>2. (\A d \in Chains \ {c} : tail'[d] = tail[d]) /\ tail' = [e \in Chains |-> tail'[e]]
          /\ tail'[c] = IF IsActive(c) THEN HardCancelled(tail[c]) ELSE [tail[c] EXCEPT !.hard = TRUE]
        BY <1>1, <2>1 DEF Shaped
    <2>3. DOMAIN tail'[c] = {"st", "hard", "qty", "filled", "no"}
          /\ tail'[c].st = IF IsActive(c) THEN "pending" ELSE tail[c].st
        BY <1>1, <2>2, HardCancelKeeps DEF ChainOk
    <2>4. (IsActive(c)' <=> IsActive(c)) /\ (tail[c].st \in Dead => tail'[c].st \in Dead)
        BY <2>3 DEF IsActive, Dead
    <2>5. ChainOk(c)' /\ Shaped'
        BY <1>1, <1>2, <2>1, <2>2, <2>3, <2>4 DEF ChainOk, Shaped, Status
    <2> QED
        BY <1>2, <1>3, <2>1, <2>2, <2>4, <2>5, OneChainMoves
<1>7. CASE ExchCancel(c) \/ ExchKill(c)
    <2>1. due' = due /\ due[c].status = 0
        BY <1>7 DEF ExchCancel, ExchKill
    <2>2. PICK st \in {"CANCELLED", "REJECTED"} : tail' = [tail EXCEPT ![c].st = st]
        BY <1>7 DEF ExchCancel, ExchKill
    <2>3. (\A d \in Chains \ {c} : tail'[d] = tail[d]) /\ tail' = [e \in Chains |-> tail'[e]]
          /\ DOMAIN tail'[c] = {"st", "hard", "qty", "filled", "no"} /\ tail'[c].st = st
        BY <1>1, <2>2 DEF Shaped, ChainOk
    <2>4. ~IsActive(c)' /\ tail'[c].st \in Dead
        BY <2>3 DEF IsActive, Dead
    <2>5. ChainOk(c)' /\ Shaped'
        BY <1>1, <1>2, <2>1, <2>3, <2>4 DEF ChainOk, Shaped, Status
    <2> QED
        BY <1>2, <1>3, <2>1, <2>3, <2>4, <2>5, OneChainMoves
<1> QED
    BY <1>4, <1>5, <1>6, <1>7

\* An execution is of an active order, hence of the youngest batch.
LEMMA ReportExecStep == ASSUME LegInv, NEW c \in Chains, ReportExec(c) PROVE LegInv'
<1> DEFINE l == c[2]
<1>1. ChainOk(c) /\ Shaped /\ l \in Contracts
    BY DEF LegInv, ChainsOk, Chains
<1>2. /\ tail' = tail /\ rep' = rep /\ exiting' = exiting /\ count' = count
      /\ pc' = pc /\ batch' = batch /\ failed' = failed
    BY DEF ReportExec
<1>3. /\ due[c].exec > 0 /\ due' = [due EXCEPT ![c].exec = @ - 1] /\ pos' = [pos EXCEPT ![l] = @ + 1]
      /\ owner' = IF pos[l] = 0 THEN [owner EXCEPT ![l] = c[1]] ELSE owner
    BY DEF ReportExec
<1> HIDE DEF l
<1>4. /\ \A d \in Chains \ {c} : due'[d] = due[d]
      /\ due'[c] \in [status : Nat, exec : Nat] /\ due'[c].status = due[c].status
      /\ due'[c].exec = due[c].exec - 1 /\ due' = [d \in Chains |-> due'[d]]
    BY <1>1, <1>3 DEF Shaped, ChainOk
<1>5. \A d \in Chains : IsActive(d)' <=> IsActive(d)
    BY <1>2 DEF IsActive
<1>6. ChainOk(c)'
    BY <1>1, <1>2, <1>3, <1>4, <1>5 DEF ChainOk
<1>7. \A d \in Chains \ {c} : ChainOk(d)'
    BY <1>2, <1>4, <1>5 DEF LegInv, ChainsOk, ChainOk
<1>8. ChainsOk'
    BY <1>1, <1>2, <1>4, <1>6, <1>7 DEF ChainsOk, Shaped
<1>9. BookOk'
    BY <1>1, <1>2, <1>3 DEF LegInv, BookOk
<1>10. TickOk'
    BY <1>2 DEF LegInv, TickOk
<1>11. ExecsFirst => c[1] = count.batches
    BY <1>1, <1>3 DEF LegInv, YoungestOnly, ChainOk
<1>12. ExecsFirst => \A k \in Contracts : pos'[k] > 0 => owner'[k] = count.batches
    <2> SUFFICES ASSUME ExecsFirst, NEW k \in Contracts, pos'[k] > 0 PROVE owner'[k] = count.batches
        OBVIOUS
    <2>1. CASE k = l /\ pos[k] = 0
        BY <1>3, <1>11, <2>1 DEF LegInv, BookOk
    <2>2. CASE ~(k = l /\ pos[k] = 0)
        <3>1. owner'[k] = owner[k] /\ pos[k] > 0
            BY <1>1, <1>3, <2>2 DEF LegInv, BookOk
        <3> QED
            BY <3>1 DEF LegInv, YoungestOnly
    <2> QED
        BY <2>1, <2>2
<1>13. YoungestOnly'
    BY <1>2, <1>5, <1>12 DEF LegInv, YoungestOnly
<1> QED
    BY <1>8, <1>9, <1>10, <1>13 DEF LegInv

\* An exit order that ends.
LEMMA ExitStep == ASSUME LegInv, NEW l \in Contracts, ExitDone(l) PROVE LegInv'
<1>1. /\ tail' = tail /\ rep' = rep /\ due' = due /\ owner' = owner /\ count' = count
      /\ pc' = pc /\ batch' = batch /\ failed' = failed
    BY DEF ExitDone, tickVars
<1>2. exiting' = [exiting EXCEPT ![l] = 0] /\ (pos' = [pos EXCEPT ![l] = @ - exiting[l]] \/ pos' = pos)
    BY DEF ExitDone
<1>3. BookOk' /\ \A k \in Contracts : pos'[k] > 0 => pos[k] > 0
    BY <1>1, <1>2 DEF LegInv, BookOk
<1>4. ChainsOk' /\ TickOk'
    BY <1>1 DEF LegInv, ChainsOk, Shaped, ChainOk, IsActive, TickOk
<1>5. YoungestOnly'
    BY <1>1, <1>3 DEF LegInv, YoungestOnly, IsActive
<1> QED
    BY <1>3, <1>4, <1>5 DEF LegInv

\* submit_intent for a leg of the youngest batch.
LEMMA SubmitLegStep == ASSUME LegInv, SubmitLeg PROVE LegInv'
<1>1. PICK l \in Contracts, st \in {"working", "ERROR"} :
        /\ tail[<<batch, l>>].st = "none"
        /\ tail' = [tail EXCEPT ![<<batch, l>>] = [st |-> st, hard |-> FALSE, qty |-> Qty[l], filled |-> 0,
                                                   no |-> count.orders + 1]]
        /\ rep' = IF st = "working" THEN [rep EXCEPT ![<<batch, l>>].pc = "sleep"] ELSE rep
    BY DEF SubmitLeg
<1>2. PICK c \in Chains : c = <<batch, l>> /\ c[1] = count.batches /\ pc = "submit"
    <2>1. pc = "submit" /\ <<batch, l>> \in Chains /\ <<batch, l>>[1] = count.batches
        BY DEF SubmitLeg, LegInv, TickOk, Chains
    <2> QED
        BY <2>1
<1>3. /\ tail[c].st = "none" /\ tail' = [tail EXCEPT ![c] = [st |-> st, hard |-> FALSE, qty |-> Qty[l], filled |-> 0,
                                                             no |-> count.orders + 1]]
      /\ rep' = IF st = "working" THEN [rep EXCEPT ![c].pc = "sleep"] ELSE rep
    BY <1>1, <1>2
<1>4. /\ due' = due /\ pos' = pos /\ owner' = owner /\ exiting' = exiting /\ count' = [count EXCEPT !.orders = @ + 1]
      /\ pc' = pc /\ batch' = batch /\ failed' = failed
    BY DEF SubmitLeg, posVars, tickVars
<1>5. Shaped /\ ChainOk(c)
    BY <1>2 DEF LegInv, ChainsOk
<1>6. /\ \A d \in Chains \ {c} : tail'[d] = tail[d] /\ rep'[d] = rep[d]
      /\ tail' = [d \in Chains |-> tail'[d]] /\ rep' = [d \in Chains |-> rep'[d]]
      /\ DOMAIN tail'[c] = {"st", "hard", "qty", "filled", "no"} /\ tail'[c].st = st
      /\ DOMAIN rep'[c] = {"pc", "att"} /\ rep'[c].pc # "wait" /\ rep'[c].att = 0
    BY <1>2, <1>3, <1>5 DEF Shaped, ChainOk
<1>7. due[c].status = 0
    BY <1>3, <1>5 DEF ChainOk, IsActive
<1>8. ChainOk(c)'
    <2>1. tail'[c].st \in Status
        BY <1>6 DEF Status, Dead
    <2>2. due'[c] = due[c] /\ due[c].status = 0
        BY <1>4, <1>7
    <2>3. due[c] \in [status : Nat, exec : Nat] /\ (ExecsFirst /\ due[c].exec > 0 => due[c].status > 0)
        BY <1>5 DEF ChainOk
    <2> QED
        BY <1>6, <2>1, <2>2, <2>3 DEF ChainOk
<1>9. \A d \in Chains \ {c} : ChainOk(d)' /\ (IsActive(d)' <=> IsActive(d))
    BY <1>4, <1>6 DEF LegInv, ChainsOk, ChainOk, IsActive
<1>10. ChainsOk'
    <2>1. Shaped'
        BY <1>4, <1>5, <1>6 DEF Shaped
    <2>2. \A d \in Chains : ChainOk(d)'
        BY <1>8, <1>9
    <2> QED
        BY <2>1, <2>2 DEF ChainsOk
<1>11. count'.batches = count.batches /\ DOMAIN count' = DOMAIN count
    BY <1>4 DEF LegInv, TickOk
<1>12. TickOk' /\ BookOk'
    BY <1>2, <1>4, <1>11 DEF LegInv, TickOk, BookOk
<1>13. YoungestOnly'
    BY <1>2, <1>4, <1>9, <1>11 DEF LegInv, YoungestOnly
<1> QED
    BY <1>10, <1>12, <1>13 DEF LegInv

\* The gate is open: nothing is active or open, and a new batch is the youngest.
LEMMA PollSignalsStep == ASSUME LegInv, PollSignals PROVE LegInv'
<1>1. /\ tail' = tail /\ rep' = rep /\ due' = due /\ pos' = pos /\ owner' = owner /\ exiting' = exiting
      /\ pc' = "submit" /\ batch' = count.batches + 1 /\ count' = [count EXCEPT !.batches = @ + 1]
      /\ count.batches < MaxEntries /\ StrategyFlat
    BY DEF PollSignals, posVars
<1>2. ChainsOk' /\ BookOk'
    BY <1>1 DEF LegInv, ChainsOk, Shaped, ChainOk, IsActive, BookOk
<1>3. TickOk'
    BY <1>1, LegBoundAssumption DEF LegInv, TickOk, Batches
<1>4. \A c \in Chains : ~IsActive(c)'
    BY <1>1 DEF StrategyFlat, IsActive
<1>5. \A l \in Contracts : ~(pos'[l] > 0)
    BY <1>1 DEF StrategyFlat, OpenLegs
<1> QED
    BY <1>2, <1>3, <1>4, <1>5 DEF LegInv, YoungestOnly

\* The tick goes on to its next place.
LEMMA TickMoves ==
    ASSUME LegInv, TickOk', UNCHANGED <<tail, rep, due, pos, owner, exiting, count>>
    PROVE  LegInv'
BY DEF LegInv, ChainsOk, Shaped, ChainOk, IsActive, BookOk, YoungestOnly

\* Coordination leads to the poll or to the cancelling of peers.
LEMMA CoordinateMoves ==
    ASSUME NEW b, NEW legs, NEW flags, Coordinate(b, legs, flags)
    PROVE  pc' \in {"poll", "coord"}
BY DEF Coordinate

\* The rest of the tick changes its own state only.
LEMMA TickStep ==
    ASSUME LegInv,
           TickLocks \/ TickBegin \/ LockDone \/ TimeoutsDone \/ PeersCancelled \/ PollNothing
             \/ BatchSubmitted
    PROVE  LegInv'
<1>1. UNCHANGED <<tail, rep, due, pos, owner, exiting, count>>
    BY DEF TickLocks, TickBegin, LockDone, TimeoutsDone, PeersCancelled, PollNothing, BatchSubmitted,
           posVars
<1>2. pc' # "submit"
    BY CoordinateMoves DEF TickLocks, TickBegin, LockDone, TimeoutsDone, PeersCancelled, PollNothing,
       BatchSubmitted
<1> QED
    BY <1>1, <1>2, TickMoves DEF LegInv, TickOk

\* Every step.
LEMMA LegStep == ASSUME MaxReprices = 0, LegInv, [LegNext]_legVars PROVE LegInv'
<1>1. CASE UNCHANGED legVars
    <2>1. TickOk' /\ UNCHANGED <<tail, rep, due, pos, owner, exiting, count>>
        BY <1>1 DEF legVars, posVars, tickVars, LegInv, TickOk
    <2> QED
        BY <2>1, TickMoves
<1>2. CASE TickTurn \/ SubmitExit
    BY <1>2, CancelNextStep, SubmitExitStep, SubmitLegStep, PollSignalsStep, TickStep DEF TickTurn
<1>3. ASSUME NEW c \in Chains, ChainTurn(c) \/ ExchFill(c) \/ ExchKill(c) PROVE LegInv'
    BY <1>3, RepStep, ExchangeStep, ReportExecStep DEF ChainTurn
<1>4. ASSUME NEW l \in Contracts, ExitDone(l) PROVE LegInv'
    BY <1>4, ExitStep
<1> QED
    BY <1>1, <1>2, <1>3, <1>4 DEF LegNext

\* The invariant holds.
LEMMA LegInvariant == ASSUME MaxReprices = 0 PROVE LegSpec => []LegInv
<1>1. LegInit => LegInv
    BY InitLegs
<1>2. LegInv /\ [LegNext]_legVars => LegInv'
    BY LegStep
<1> QED
    BY <1>1, <1>2, PTL DEF LegSpec

-----------------------------------------------------------------------------

\* Orders that are modified in place and executions that are reported before statuses: two entries of
\* a strategy are never on together (the wait-until-flat gate of _process_tick).
THEOREM OneEntryAtATime ==
    ASSUME MaxReprices = 0, ExecsFirst
    PROVE  LegSpec => []WaitUntilFlat
<1>1. LegInv => WaitUntilFlat
    <2> SUFFICES ASSUME LegInv, NEW b \in Batches, InMarket(b) PROVE b = count.batches
        BY DEF WaitUntilFlat
    <2>1. ASSUME NEW l \in Contracts, IsActive(<<b, l>>) PROVE b = count.batches
        <3>1. <<b, l>> \in Chains /\ <<b, l>>[1] = b
            BY DEF Chains
        <3> QED
            BY <2>1, <3>1 DEF LegInv, YoungestOnly
    <2>2. ASSUME NEW l \in Contracts, due[<<b, l>>].exec > 0 PROVE b = count.batches
        <3>1. <<b, l>> \in Chains
            BY DEF Chains
        <3>2. IsActive(<<b, l>>)
            BY <2>2, <3>1 DEF LegInv, ChainsOk, ChainOk
        <3> QED
            BY <2>1, <3>2
    <2>3. ASSUME NEW l \in OpenLegs, owner[l] = b PROVE b = count.batches
        BY <2>3 DEF OpenLegs, LegInv, YoungestOnly
    <2> QED
        BY <2>1, <2>2, <2>3 DEF InMarket
<1> QED
    BY <1>1, LegInvariant, PTL

-----------------------------------------------------------------------------
(* Protect mode, for any number of rejects, lost connections, crashes,     *)
(* changes of the book and contracts.  HumanLocksHold is not inductive:    *)
(* auto-resume would lift an operator's lock if the lock had disconnect    *)
(* provenance.  NoProvenance says that it has none before a connection is  *)
(* lost, LockedForReason that a lock stands for every reason but a reject  *)
(* the tick has not seen yet; a tick that has seen it is locked while it   *)
(* cancels (LockedWhileCancelling), one that has found none has an open    *)
(* gate only if there was no reason at all (NoneAtTheCheck), and a process *)
(* starts with no reasons but those of the file, of which the first has    *)
(* none (DownForgets).                                                     *)

\* What has been used of the bounds.
Budget == [changes : 0 .. MaxChanges, rejects : 0 .. MaxRejects, drops : 0 .. MaxDrops,
           crashes : 0 .. MaxCrashes, saves : 0 .. MaxSaves]

\* Neither a connection nor a process has been lost.
NothingLost == used.drops = 0 /\ used.crashes = 0

\* Before a connection is lost no lock has disconnect provenance.
NoProvenance == Undisturbed => connected /\ ~byDisc

\* Every reason but a reject that waits to be seen comes with the lock.
LockedForReason ==
    Undisturbed => /\ reasons \cap {"operator", "mismatch", "disconnect"} # {} => locked
                   /\ "reject" \in reasons => locked \/ rejected

\* Active orders are cancelled under the lock.
LockedWhileCancelling == Undisturbed /\ place = "cancelling" => locked

\* A tick that goes on unlocked after its check for rejects found no reason to be locked.
NoneAtTheCheck == Undisturbed /\ place = "checked" /\ ~locked => known = {}

\* A process that is not there holds no lock, and before the first there is no reason for one.
DownForgets == place = "down" => ~locked /\ (NothingLost => reasons = {})

LockInv ==
    /\ LockTypeOK
    /\ NoProvenance /\ LockedForReason
    /\ LockedWhileCancelling /\ NoneAtTheCheck
    /\ DownForgets

-----------------------------------------------------------------------------
\* It holds of a program that has just started.
LEMMA InitLockInv == LockInit => LockInv
<1> SUFFICES ASSUME LockInit PROVE LockInv
    OBVIOUS
<1>1. LockTypeOK
    <2>1. held \in 0 .. MaxHeld /\ atBroker \in 0 .. MaxHeld
        BY LockBoundAssumption DEF LockInit
    <2>2. used \in Budget
        BY LockBoundAssumption DEF LockInit, Budget
    <2> QED
        BY <2>1, <2>2 DEF LockInit, LockTypeOK, Budget
<1>2. place = "down" /\ ~locked /\ reasons = {}
    BY DEF LockInit
<1> QED
    BY <1>1, <1>2 DEF LockInv, NoProvenance, LockedForReason, LockedWhileCancelling, NoneAtTheCheck, DownForgets,
       Undisturbed

\* Every step keeps within the bounds on faults.
LEMMA UsedStep == LockTypeOK /\ [LockNext]_runVars => used' \in Budget
<1> SUFFICES ASSUME LockTypeOK, [LockNext]_runVars PROVE used' \in Budget
    OBVIOUS
<1>1. used \in Budget
    BY DEF LockTypeOK, Budget
<1>2. CASE UNCHANGED used
    BY <1>1, <1>2
<1>3. CASE CmdSave
    BY <1>1, <1>3, LockBoundAssumption DEF CmdSave, Budget
<1>4. CASE Reject
    BY <1>1, <1>4, LockBoundAssumption DEF Reject, Budget
<1>5. CASE BrokerChanges
    BY <1>1, <1>5, LockBoundAssumption DEF BrokerChanges, Budget
<1>6. CASE Disconnect
    BY <1>1, <1>6, LockBoundAssumption DEF Disconnect, Budget
<1>7. CASE Crash
    BY <1>1, <1>7, LockBoundAssumption DEF Crash, Budget
<1>8. CASE Boot \/ TopAutoResume \/ TopTick \/ TopDisconnected \/ CmdLock \/ CmdUnlock
    BY <1>2, <1>8 DEF Boot, TopAutoResume, TopTick, TopDisconnected, CmdLock, CmdUnlock
<1>9. CASE Manage \/ ReadGate \/ ManageCancelled \/ EndTick \/ Reconcile \/ ReconcileRaises \/ Sleep
    BY <1>2, <1>9 DEF Manage, ReadGate, ManageCancelled, EndTick, Reconcile, ReconcileRaises, Sleep
<1>10. CASE Elapse \/ FillsHandled \/ Reconnect \/ UNCHANGED runVars
    BY <1>2, <1>10 DEF Elapse, FillsHandled, Reconnect, runVars
<1> QED
    BY <1>3, <1>4, <1>5, <1>6, <1>7, <1>8, <1>9, <1>10 DEF LockNext, Loop

\* Every step keeps the types.
LEMMA TypeStep == LockTypeOK /\ [LockNext]_runVars => LockTypeOK'
<1> SUFFICES ASSUME LockTypeOK, [LockNext]_runVars PROVE LockTypeOK'
    OBVIOUS
<1>0. used' \in Budget
    BY UsedStep
<1> USE <1>0 DEF LockTypeOK, Budget, lockVars, gateVars, bookVars
<1>1. CASE Boot
    BY <1>1 DEF Boot, Reasons
<1>2. CASE TopAutoResume
    BY <1>2 DEF TopAutoResume, UnlockSystem, NotClean, Reasons
<1>3. CASE TopTick \/ EndTick \/ Sleep \/ Elapse \/ Reconnect
    <2>1. CASE TopTick
        BY <2>1 DEF TopTick
    <2>2. CASE EndTick
        BY <2>2 DEF EndTick
    <2>3. CASE Sleep
        BY <2>3 DEF Sleep
    <2>4. CASE Elapse
        BY <2>4 DEF Elapse
    <2>5. CASE Reconnect
        BY <2>5 DEF Reconnect
    <2> QED
        BY <1>3, <2>1, <2>2, <2>3, <2>4, <2>5
<1>4. CASE TopDisconnected
    BY <1>4 DEF TopDisconnected, Reasons
<1>5. CASE Manage \/ ReadGate \/ ManageCancelled
    <2>1. CASE Manage
        BY <2>1 DEF Manage, LockSystem
    <2>2. CASE ReadGate
        BY <2>2 DEF ReadGate
    <2>3. CASE ManageCancelled
        BY <2>3 DEF ManageCancelled
    <2> QED
        BY <1>5, <2>1, <2>2, <2>3
<1>6. CASE Reconcile
    BY <1>6 DEF Reconcile, NotClean, Reasons
<1>7. CASE ReconcileRaises
    BY <1>7 DEF ReconcileRaises, Die
<1>8. CASE CmdLock
    BY <1>8 DEF CmdLock, LockSystem, Reasons
<1>9. CASE CmdUnlock
    BY <1>9 DEF CmdUnlock, UnlockSystem, NotClean, Pending, Reasons
<1>10. CASE CmdSave
    BY <1>10 DEF CmdSave
<1>11. CASE Reject
    BY <1>11 DEF Reject, Reasons
<1>12. CASE BrokerChanges
    <2>1. atBroker' \in 0 .. MaxHeld /\ stray' \in BOOLEAN
        BY <1>12 DEF BrokerChanges
    <2> QED
        BY <1>12, <2>1 DEF BrokerChanges
<1>13. CASE FillsHandled
    BY <1>13 DEF FillsHandled
<1>14. CASE Disconnect
    BY <1>14 DEF Disconnect
<1>15. CASE Crash
    BY <1>15 DEF Crash, Die
<1>16. CASE UNCHANGED runVars
    BY <1>16 DEF runVars
<1> QED
    BY <1>1, <1>2, <1>3, <1>4, <1>5, <1>6, <1>7, <1>8, <1>9, <1>10, <1>11, <1>12, <1>13, <1>14,
       <1>15, <1>16 DEF LockNext, Loop

\* The reasons and the lock: one step for each action that touches what LockInv speaks of.
LEMMA LockStep == LockInv /\ [LockNext]_runVars => LockInv'
<1> SUFFICES ASSUME LockInv, [LockNext]_runVars PROVE LockInv'
    OBVIOUS
<1>0. LockTypeOK /\ LockTypeOK'
    BY TypeStep DEF LockInv
<1>b. used.drops \in Nat /\ used.crashes \in Nat /\ used \in Budget /\ reasons \subseteq Reasons
    BY <1>0 DEF LockTypeOK, Budget
<1> USE <1>0, <1>b DEF LockInv, NoProvenance, LockedForReason, LockedWhileCancelling, NoneAtTheCheck, DownForgets,
        NothingLost, Undisturbed, lockVars, gateVars, bookVars
<1>1. CASE Boot
    BY <1>1 DEF Boot, Reasons
<1>2. CASE TopAutoResume
    BY <1>2 DEF TopAutoResume, UnlockSystem, NotClean
<1>3. CASE TopTick \/ EndTick \/ Sleep \/ Elapse \/ UNCHANGED runVars
    BY <1>3 DEF TopTick, EndTick, Sleep, Elapse, runVars
<1>4. CASE TopDisconnected
    BY <1>4 DEF TopDisconnected
<1>5. CASE Manage
    BY <1>5 DEF Manage, LockSystem, Reasons
<1>6. CASE ReadGate \/ ManageCancelled
    BY <1>6 DEF ReadGate, ManageCancelled
<1>7. CASE Reconcile
    BY <1>7 DEF Reconcile, NotClean
<1>8. CASE ReconcileRaises
    BY <1>8 DEF ReconcileRaises, Die
<1>9. CASE CmdLock
    BY <1>9 DEF CmdLock, LockSystem
<1>10. CASE CmdUnlock
    BY <1>10 DEF CmdUnlock, UnlockSystem, NotClean, Pending
<1>11. CASE CmdSave
    BY <1>11 DEF CmdSave, Budget
<1>12. CASE Reject
    BY <1>12 DEF Reject, Budget
<1>13. CASE BrokerChanges
    <2>1. used'.drops = used.drops /\ used'.crashes = used.crashes
        BY <1>13 DEF BrokerChanges, Budget
    <2> QED
        BY <1>13, <2>1 DEF BrokerChanges
<1>14. CASE FillsHandled \/ Reconnect
    BY <1>14 DEF FillsHandled, Reconnect
<1>15. CASE Disconnect
    <2>1. used'.drops > 0
        BY <1>15 DEF Disconnect, Budget
    <2> QED
        BY <1>15, <2>1 DEF Disconnect
<1>16. CASE Crash
    <2>1. used'.crashes > 0
        BY <1>16 DEF Crash, Budget
    <2> QED
        BY <1>16, <2>1 DEF Crash, Die
<1> QED
    BY <1>1, <1>2, <1>3, <1>4, <1>5, <1>6, <1>7, <1>8, <1>9, <1>10, <1>11, <1>12, <1>13, <1>14,
       <1>15, <1>16 DEF LockNext, Loop

\* Every state of a behaviour satisfies the invariant.
THEOREM LockInvariant == LockSpec => []LockInv
<1>1. LockInit => LockInv
    BY InitLockInv
<1>2. LockInv /\ [LockNext]_runVars => LockInv'
    BY LockStep
<1> QED
    BY <1>1, <1>2, PTL DEF LockSpec

-----------------------------------------------------------------------------
\* A manual or reconciliation lock stays until an operator's unlock finds the book clean, as long
\* as connection and process last (lock_system, _run_reconciliation, _try_auto_resume).
THEOREM HumanLocks == LockSpec => []HumanLocksHold
<1>1. LockInv => HumanLocksHold
    BY DEF LockInv, LockedForReason, HumanLocksHold, Human
<1> QED
    BY <1>1, LockInvariant, PTL

\* No tick reads an open entry gate when its check found a reason to be locked, a broker reject
\* reported until then included; all that can have come since is another reject, which the next
\* tick's check finds (_manage_active_orders, _process_tick).
THEOREM GateShut == LockSpec => GateShutForReason
<1> DEFINE Shut == Undisturbed /\ place' = "entries" /\ place # "entries" /\ open'
                   => known = {} /\ reasons \subseteq {"reject"}
<1>1. LockInv /\ [LockNext]_runVars => [Shut]_runVars
    <2> SUFFICES ASSUME LockInv, LockNext, Undisturbed, place' = "entries", place # "entries", open'
                 PROVE known = {} /\ reasons \subseteq {"reject"}
        OBVIOUS
    <2>1. reasons \subseteq Reasons
        BY DEF LockInv, LockTypeOK
    <2>2. ReadGate \/ ManageCancelled
        BY DEF LockNext, Loop, Boot, TopAutoResume, TopTick, TopDisconnected, Manage, ReadGate,
           ManageCancelled, EndTick, Reconcile, ReconcileRaises, Die, Sleep, CmdLock, CmdUnlock,
           CmdSave, Elapse, Reject, BrokerChanges, FillsHandled, Disconnect, Reconnect, Crash
    <2>3. ~locked
        BY <2>2 DEF ReadGate, ManageCancelled
    <2>4. place = "checked"
        BY <2>2, <2>3 DEF ReadGate, ManageCancelled, LockInv, LockedWhileCancelling
    <2>5. known = {}
        BY <2>3, <2>4 DEF LockInv, NoneAtTheCheck
    <2>6. reasons \subseteq {"reject"}
        BY <2>1, <2>3 DEF LockInv, LockedForReason, Reasons
    <2> QED
        BY <2>5, <2>6
<1> QED
    BY <1>1, LockInvariant, PTL DEF LockSpec, GateShutForReason

\* The lock is lifted only by a reconciliation that finds the books equal (_try_auto_resume, the
\* command unlock_system); a process that ends takes its lock with it.
THEOREM UnlocksClean == LockSpec => UnlocksIntoCleanBook
<1> DEFINE IntoClean == locked /\ ~locked' /\ place' # "down" => Clean
<1>1. LockInv /\ [LockNext]_runVars => [IntoClean]_runVars
    <2> SUFFICES ASSUME LockInv, LockNext, locked, ~locked', place' # "down" PROVE Clean
        OBVIOUS
    <2>1. place # "down"
        BY DEF LockInv, DownForgets
    <2>2. TopAutoResume \/ CmdUnlock
        BY <2>1 DEF LockNext, Loop, lockVars, gateVars, Boot, TopAutoResume, TopTick, TopDisconnected, Manage,
           ReadGate, ManageCancelled, LockSystem, EndTick, Reconcile, NotClean, ReconcileRaises, Die, Sleep,
           CmdLock, CmdUnlock, CmdSave, Elapse, Reject, BrokerChanges, FillsHandled, Disconnect,
           Reconnect, Crash
    <2> QED
        BY <2>2 DEF TopAutoResume, CmdUnlock, NotClean
<1> QED
    BY <1>1, LockInvariant, PTL DEF LockSpec, UnlocksIntoCleanBook

===============================================================================
