---------------------------- MODULE FiveEmaProofs ----------------------------
(***************************************************************************)
(* Theorems about the bar builder and the contexts of the strategies, for  *)
(* any number of strategies, ticks, lost answers, restarts and days.       *)
(*                                                                         *)
(* BarsInOrder follows from BarInv, which adds what a tick and a read rely *)
(* on: a completed bar is of a minute that is over, the working bar is the *)
(* youngest, and the bars hold exactly the minutes that had a tick.        *)
(*                                                                         *)
(* GuardedByOwnTrigger follows from CtxInv.  Between the entry and the     *)
(* first look at the open position its trigger is only the pending one, so *)
(* Matches follows it from the order at work over the position without     *)
(* context to the context, and Shaped says which fields the records have.  *)
(*                                                                         *)
(* OncePerTrigger follows from TrigInv: what a strategy has sent on is     *)
(* Old, older than all the builder has seen or than the day, and then no   *)
(* window can make a mark of it again; or Recent, not younger than the     *)
(* trigger it remembers.  The loop over the windows is gone through by     *)
(* the least round that would break this.                                  *)
(***************************************************************************)
EXTENDS FiveEma, SequenceTheorems, WellFoundedInduction, TLAPS

\* Bars that come one after the other, and their minutes.
Ordered(b) == \A i, j \in 1 .. Len(b) : i < j => b[i].m < b[j].m
Minutes(b) == {b[i].m : i \in 1 .. Len(b)}

\* Completed bars are of minutes that are over, in order; the working bar is the youngest.
BarInv ==
    /\ now \in Nat
    /\ done \in Seq(Bar) /\ work \in Seq(Bar) /\ Len(work) <= 1
    /\ Ordered(done) /\ \A i \in 1 .. Len(done) : done[i].m < now
    /\ work # <<>> => work[1].m <= now /\ \A i \in 1 .. Len(done) : done[i].m < work[1].m
    /\ Minutes(done) \cup Minutes(work) = ticked

-----------------------------------------------------------------------------
(* Sequences of bars *)

\* There is no more than one working bar.
LEMMA Single == ASSUME NEW w \in Seq(Bar), w # <<>>, Len(w) <= 1 PROVE Len(w) = 1 /\ w[1] \in Bar
<1>1. Len(w) \in Nat \ {0}
    BY EmptySeq
<1>2. Len(w) = 1
    <2> DEFINE n == Len(w)
    <2>1. n \in Nat \ {0} /\ n <= 1
        BY <1>1
    <2> HIDE DEF n
    <2>2. n = 1
        BY <2>1
    <2> QED
        BY <2>2 DEF n
<1> QED
    BY <1>2, ElementOfSeq

\* A bar appended to bars adds its minute.
LEMMA OneMore ==
    ASSUME NEW s \in Seq(Bar), NEW w \in Seq(Bar), Len(w) = 1
    PROVE  /\ s \o w \in Seq(Bar) /\ Len(s \o w) = Len(s) + 1
           /\ \A i \in 1 .. Len(s) : (s \o w)[i] = s[i]
           /\ (s \o w)[Len(s) + 1] = w[1]
<1>1. Len(s) \in Nat
    BY LenProperties
<1>2. /\ s \o w \in Seq(Bar) /\ Len(s \o w) = Len(s) + Len(w)
      /\ \A i \in 1 .. Len(s) + Len(w) : (s \o w)[i] = IF i <= Len(s) THEN s[i] ELSE w[i - Len(s)]
    BY ConcatProperties
<1>3. \A i \in 1 .. Len(s) : (s \o w)[i] = s[i]
    BY <1>1, <1>2
<1>4. (s \o w)[Len(s) + 1] = w[Len(s) + 1 - Len(s)] /\ Len(s) + 1 - Len(s) = 1
    BY <1>1, <1>2
<1> QED
    BY <1>2, <1>3, <1>4

\* A bar younger than the others may be appended to them.
LEMMA OneMoreOrdered ==
    ASSUME NEW s \in Seq(Bar), NEW w \in Seq(Bar), Len(w) = 1, Ordered(s),
           \A i \in 1 .. Len(s) : s[i].m < w[1].m
    PROVE  Ordered(s \o w) /\ Minutes(s \o w) = Minutes(s) \cup Minutes(w)
<1>1. \A i \in 1 .. Len(s) + 1 : (s \o w)[i] = IF i = Len(s) + 1 THEN w[1] ELSE s[i]
    BY OneMore
<1>2. Len(s) \in Nat /\ Len(s \o w) = Len(s) + 1
    BY OneMore
<1>3. Ordered(s \o w)
    BY <1>1, <1>2 DEF Ordered
<1>4. Minutes(w) = {w[1].m}
    BY DEF Minutes
<1>5. Minutes(s \o w) = {(s \o w)[i].m : i \in 1 .. Len(s) + 1}
    BY <1>2 DEF Minutes
<1>6. \A x \in Minutes(s) \cup Minutes(w) : x \in Minutes(s \o w)
    <2> SUFFICES ASSUME NEW x \in Minutes(s) \cup {w[1].m} PROVE x \in Minutes(s \o w)
        BY <1>4
    <2>1. CASE x \in Minutes(s)
        <3>1. PICK i \in 1 .. Len(s) : x = s[i].m
            BY <2>1 DEF Minutes
        <3> QED
            BY <3>1, <1>1, <1>2, <1>5
    <2>2. CASE x = w[1].m
        BY <2>2, <1>1, <1>2, <1>5
    <2> QED
        BY <2>1, <2>2
<1>7. \A x \in Minutes(s \o w) : x \in Minutes(s) \cup Minutes(w)
    <2> SUFFICES ASSUME NEW x \in Minutes(s \o w) PROVE x \in Minutes(s) \cup {w[1].m}
        BY <1>4
    <2>1. PICK i \in 1 .. Len(s) + 1 : x = (s \o w)[i].m
        BY <1>5
    <2>2. CASE i = Len(s) + 1
        BY <2>1, <2>2, <1>1
    <2>3. CASE i # Len(s) + 1
        <3>1. i \in 1 .. Len(s) /\ x = s[i].m
            BY <2>1, <2>3, <1>1, <1>2
        <3> QED
            BY <3>1 DEF Minutes
    <2> QED
        BY <2>2, <2>3
<1> QED
    BY <1>3, <1>6, <1>7

\* A read moves a working bar whose minute is over to the completed ones.
LEMMA CompletedBars ==
    ASSUME BarInv
    PROVE  /\ Completed \in Seq(Bar) /\ Ordered(Completed)
           /\ \A i \in 1 .. Len(Completed) : Completed[i].m < now
           /\ Minutes(Completed) = IF Elapsed THEN ticked ELSE Minutes(done)
<1>1. CASE Elapsed
    <2>1. Len(work) = 1 /\ work[1].m < now /\ Completed = done \o work
        BY <1>1, Single DEF BarInv, Elapsed, Completed
    <2>2. \A i \in 1 .. Len(done) : done[i].m < work[1].m
        BY <1>1 DEF BarInv, Elapsed
    <2>3. Completed \in Seq(Bar) /\ Len(Completed) = Len(done) + 1 /\ Len(done) \in Nat
          /\ \A i \in 1 .. Len(done) : Completed[i] = done[i]
          /\ Completed[Len(done) + 1] = work[1]
        BY <2>1, OneMore, LenProperties DEF BarInv
    <2>4. Ordered(Completed) /\ Minutes(Completed) = Minutes(done) \cup Minutes(work)
        BY <2>1, <2>2, OneMoreOrdered DEF BarInv
    <2>5. \A i \in 1 .. Len(Completed) : Completed[i].m < now
        BY <2>1, <2>3 DEF BarInv
    <2> QED
        BY <1>1, <2>3, <2>4, <2>5 DEF BarInv
<1>2. CASE ~Elapsed
    BY <1>2 DEF BarInv, Completed
<1> QED
    BY <1>1, <1>2

\* A read that completes the working bar, or leaves it (get_bars).
LEMMA ReadStep == BarInv /\ Read /\ now' = now => BarInv'
<1> SUFFICES ASSUME BarInv, Read, now' = now PROVE BarInv'
    OBVIOUS
<1>1. /\ done' \in Seq(Bar) /\ Ordered(done')
      /\ \A i \in 1 .. Len(done') : done'[i].m < now
      /\ Minutes(done') = IF Elapsed THEN ticked ELSE Minutes(done)
    BY CompletedBars DEF Read
<1>2. CASE Elapsed
    <2>1. work' = <<>> /\ Minutes(<<>>) = {}
        BY <1>2 DEF Read, Minutes
    <2> QED
        BY <1>1, <1>2, <2>1, EmptySeq DEF BarInv, Read
<1>3. CASE ~Elapsed
    BY <1>1, <1>3 DEF BarInv, Read, Completed
<1> QED
    BY <1>2, <1>3

\* A tick that begins a bar, completes one first, or falls into the working bar (on_tick).
LEMMA TickStep == ASSUME BarInv, NEW p \in Levels, OnTick(p), now' = now PROVE BarInv'
<1>1. /\ done' \in Seq(Bar) /\ Ordered(done')
      /\ \A i \in 1 .. Len(done') : done'[i].m < now
      /\ Minutes(done') = IF Elapsed THEN ticked ELSE Minutes(done)
    BY CompletedBars DEF OnTick
<1>2. p \in Nat /\ now \in Nat
    BY LevelsAssumption DEF BarInv
<1>3. PICK b \in Bar : work' = <<b>> /\ b.m = now
    <2>1. CASE work = <<>> \/ Elapsed
        BY <2>1, <1>2 DEF OnTick, NewBar, Bar
    <2>2. CASE work # <<>> /\ ~Elapsed
        <3>1. work[1] \in Bar
            BY <2>2, Single DEF BarInv
        <3>2. work[1].m = now
            BY <2>2, <3>1 DEF BarInv, Elapsed, Bar
        <3>3. Updated(work[1], p) \in Bar /\ Updated(work[1], p).m = now
            BY <3>1, <3>2 DEF Updated, Bar
        <3> QED
            BY <2>2, <3>3 DEF OnTick
    <2> QED
        BY <2>1, <2>2
<1>4. work' \in Seq(Bar) /\ Len(work') = 1 /\ work' # <<>> /\ work'[1].m = now
    BY <1>3
<1>5. Minutes(work') = {now}
    BY <1>4 DEF Minutes
<1>6. Minutes(done') \cup {now} = ticked \cup {now}
    <2>1. CASE Elapsed
        BY <1>1, <2>1
    <2>2. CASE work = <<>>
        <3>1. Minutes(work) = {}
            BY <2>2 DEF Minutes
        <3> QED
            BY <1>1, <2>2, <3>1 DEF BarInv, Elapsed
    <2>3. CASE work # <<>> /\ ~Elapsed
        <3>1. Len(work) = 1 /\ work[1].m = now
            <4>1. work[1] \in Bar /\ Len(work) = 1
                BY <2>3, Single DEF BarInv
            <4> QED
                BY <2>3, <4>1 DEF BarInv, Elapsed, Bar
        <3>2. Minutes(work) = {now}
            BY <3>1 DEF Minutes
        <3> QED
            BY <1>1, <2>3, <3>2 DEF BarInv
    <2> QED
        BY <2>1, <2>2, <2>3
<1>7. ticked' = ticked \cup {now}
    BY DEF OnTick
<1> QED
    BY <1>1, <1>2, <1>4, <1>5, <1>6, <1>7 DEF BarInv

\* There are no bars before the first tick.
LEMMA InitBarInv == Init => BarInv
<1> SUFFICES ASSUME Init PROVE BarInv
    OBVIOUS
<1>1. work = <<>> /\ done = <<>> /\ ticked = {} /\ now = 0
    BY DEF Init, BarsInit
<1>2. Minutes(<<>>) = {} /\ Ordered(<<>>)
    BY DEF Minutes, Ordered
<1> QED
    BY <1>1, <1>2, EmptySeq DEF BarInv

\* Every step: what does not touch the bars at most lets time pass.
LEMMA BarStep == BarInv /\ [Next]_vars => BarInv'
<1> SUFFICES ASSUME BarInv, [Next]_vars PROVE BarInv'
    OBVIOUS
<1>1. CASE UNCHANGED barVars /\ now' \in {now, now + 1}
    <2>1. done' = done /\ work' = work /\ ticked' = ticked /\ now' \in Nat /\ now <= now'
        BY <1>1 DEF BarInv, barVars
    <2>2. \A i \in 1 .. Len(done) : done[i].m < now'
        <3> SUFFICES ASSUME NEW i \in 1 .. Len(done) PROVE done[i].m < now'
            OBVIOUS
        <3>1. done[i] \in Bar /\ done[i].m < now
            BY ElementOfSeq DEF BarInv
        <3> QED
            BY <2>1, <3>1 DEF BarInv, Bar
    <2>3. work # <<>> => work[1].m <= now'
        <3> SUFFICES ASSUME work # <<>> PROVE work[1].m <= now'
            OBVIOUS
        <3>1. work[1] \in Bar /\ work[1].m <= now
            BY Single DEF BarInv
        <3> QED
            BY <2>1, <3>1 DEF BarInv, Bar
    <2> QED
        BY <2>1, <2>2, <2>3 DEF BarInv
<1>2. ASSUME NEW p \in Levels, Tick(p) PROVE BarInv'
    BY <1>2, TickStep DEF Tick
<1>3. CASE Minute
    BY <1>1, <1>3 DEF Minute
<1>4. ASSUME NEW s \in Strats, NEW hist \in Histories, NEW approved \in BOOLEAN,
             Poll(s, hist, approved)
      PROVE  BarInv'
    <2>1. (Read \/ UNCHANGED barVars) /\ now' = now
        BY <1>4 DEF Poll, Refresh
    <2> QED
        BY <1>1, <2>1, ReadStep
<1>5. ASSUME NEW s \in Strats, NEW hist \in Histories, NEW mid \in Premiums,
             CollectExits(s, hist, mid)
      PROVE  BarInv'
    BY <1>5, ReadStep DEF CollectExits
<1>6. ASSUME NEW s \in Strats, EntryFills(s) \/ OrderEnds(s) \/ ExitFills(s) PROVE BarInv'
    BY <1>1, <1>6 DEF EntryFills, OrderEnds, ExitFills
<1>7. CASE Restart
    <2>1. work' = <<>> /\ done' = <<>> /\ ticked' = {} /\ now' = now
        BY <1>7 DEF Restart, Forget
    <2>2. Minutes(<<>>) = {} /\ Ordered(<<>>)
        BY DEF Minutes, Ordered
    <2> QED
        BY <2>1, <2>2, EmptySeq DEF BarInv
<1>8. CASE UNCHANGED vars
    BY <1>1, <1>8 DEF vars
<1> QED
    BY <1>2, <1>3, <1>4, <1>5, <1>6, <1>7, <1>8 DEF Next

\* The invariant gives the property.
LEMMA BarsFollow == BarInv => BarsInOrder
<1> SUFFICES ASSUME BarInv PROVE BarsInOrder
    OBVIOUS
<1>1. CASE work = <<>>
    <2>1. done \o work = done /\ DOMAIN done = 1 .. Len(done)
        BY <1>1, ConcatEmptySeq, LenProperties DEF BarInv
    <2>2. Minutes(work) = {}
        BY <1>1 DEF Minutes
    <2> QED
        BY <2>1, <2>2 DEF BarInv, BarsInOrder, Ordered, Minutes
<1>2. CASE work # <<>>
    <2>1. Len(work) = 1
        BY <1>2, Single DEF BarInv
    <2>2. done \o work \in Seq(Bar) /\ Ordered(done \o work) /\ Minutes(done \o work) = ticked
        BY <1>2, <2>1, OneMore, OneMoreOrdered DEF BarInv
    <2>3. DOMAIN (done \o work) = 1 .. Len(done \o work)
        BY <2>2, LenProperties
    <2> QED
        BY <2>2, <2>3 DEF BarsInOrder, Ordered, Minutes
<1> QED
    BY <1>1, <1>2

\* However ticks, reads and restarts fall around the end of a minute, the bars are in order and
\* every minute with a tick is in exactly one of them (bars.py, on_tick and
\* _maybe_roll_stale_working).
THEOREM OneBarPerMinute == Spec => []BarsInOrder
<1>1. Init => BarInv
    BY InitBarInv
<1>2. BarInv /\ [Next]_vars => BarInv'
    BY BarStep
<1>3. BarInv => BarsInOrder
    BY BarsFollow
<1> QED
    BY <1>1, <1>2, <1>3, PTL DEF Spec

-----------------------------------------------------------------------------
(* Contexts *)

\* The records of the state have their fields.
IsOwn(o) == DOMAIN o = {"trades", "consumed", "pending", "ctx"}
IsPos(p) == DOMAIN p = {"st", "id", "trig", "adopted"}
IsCtx(c) == c = [id |-> c.id, trig |-> c.trig, peak |-> c.peak, floor |-> c.floor]

Shaped ==
    /\ own = [s \in Strats |-> own[s]] /\ pos = [s \in Strats |-> pos[s]]
    /\ \A s \in Strats : IsOwn(own[s]) /\ IsPos(pos[s])

\* A context or a pending one is of the trigger of position p.
OfTrigger(t, p) == t # None /\ t.at = p.trig

\* What the context o of a strategy says of its order or position p: the entry at work is the one
\* that is pending, and so is an open position without context, unless it was taken over.
Matches(o, p) ==
    /\ p.st = "working" => o.ctx = None /\ OfTrigger(o.pending, p) /\ p.adopted = FALSE
    /\ p.st \in {"open", "exiting"} =>
         IF o.ctx = None
           THEN IF p.adopted THEN o.pending = None ELSE OfTrigger(o.pending, p)
           ELSE /\ IsCtx(o.ctx) /\ o.ctx.id = p.id
                /\ IF p.adopted THEN o.ctx.trig = None ELSE OfTrigger(o.ctx.trig, p)

CtxInv == Shaped /\ \A s \in Strats : Matches(own[s], pos[s])

\* A new day changes the two counters of a strategy and nothing else.
LEMMA Recounted ==
    ASSUME NEW o, IsOwn(o)
    PROVE  /\ IsOwn([o EXCEPT !.trades = 0, !.consumed = 0])
           /\ [o EXCEPT !.trades = 0, !.consumed = 0].pending = o.pending
           /\ [o EXCEPT !.trades = 0, !.consumed = 0].ctx = o.ctx
BY DEF IsOwn

\* What a restart leaves of a position that is still there.
LEMMA Adopted ==
    ASSUME NEW p, IsPos(p)
    PROVE  LET q == [p EXCEPT !.st = "open", !.adopted = TRUE]
           IN IsPos(q) /\ q.st = "open" /\ q.adopted = TRUE
BY DEF IsPos

\* _roll_day_if_needed leaves the contexts alone.
LEMMA CountersKeep ==
    ASSUME Shaped, NEW s \in Strats
    PROVE  /\ IsOwn(Counters(s))
           /\ Counters(s).pending = own[s].pending /\ Counters(s).ctx = own[s].ctx
<1> DEFINE o == own[s]
<1>1. IsOwn(o)
    BY DEF Shaped
<1>2. Counters(s) = o \/ Counters(s) = [o EXCEPT !.trades = 0, !.consumed = 0]
    BY DEF Counters
<1> HIDE DEF o
<1>3. /\ IsOwn([o EXCEPT !.trades = 0, !.consumed = 0])
      /\ [o EXCEPT !.trades = 0, !.consumed = 0].pending = o.pending
      /\ [o EXCEPT !.trades = 0, !.consumed = 0].ctx = o.ctx
    BY <1>1, Recounted
<1>4. IsOwn(Counters(s)) /\ Counters(s).pending = o.pending /\ Counters(s).ctx = o.ctx
    BY <1>1, <1>2, <1>3
<1> QED
    BY <1>4 DEF o

\* Without an open position the context is dropped and the pending one kept.
LEMMA SyncedFlat ==
    ASSUME NEW s \in Strats, ~Open(s), NEW o, IsOwn(o)
    PROVE  IsOwn(Synced(s, o)) /\ Synced(s, o).ctx = None /\ Synced(s, o).pending = o.pending
BY DEF Synced, IsOwn

\* An open position has a context after _sync_position_contexts, and it matches.
LEMMA SyncedOpen ==
    ASSUME NEW s \in Strats, Open(s), NEW o, IsOwn(o), Matches(o, pos[s])
    PROVE  /\ IsOwn(Synced(s, o)) /\ Synced(s, o).ctx # None
           /\ Matches(Synced(s, o), pos[s])
<1> DEFINE kept == o.ctx # None /\ Open(s) /\ o.ctx.id = pos[s].id
           bound(t) == [id |-> pos[s].id, trig |-> t, peak |-> Paid, floor |-> 0]
<1>0. \A t : IsCtx(bound(t)) /\ bound(t) # None /\ bound(t).id = pos[s].id /\ bound(t).trig = t
    BY DEF IsCtx, None
<1>1. CASE o.ctx # None
    <2>1. kept
        BY <1>1 DEF Matches, Open
    <2>2. Synced(s, o) = o
        BY <2>1 DEF Synced
    <2> QED
        BY <1>1, <2>2
<1>2. CASE o.ctx = None /\ o.pending # None
    <2>1. Synced(s, o) = [o EXCEPT !.ctx = bound(o.pending), !.pending = None]
        BY <1>2 DEF Synced
    <2>2. Synced(s, o).ctx = bound(o.pending) /\ IsOwn(Synced(s, o))
        BY <2>1 DEF IsOwn
    <2>3. ~pos[s].adopted /\ OfTrigger(o.pending, pos[s])
        BY <1>2 DEF Matches, Open
    <2> HIDE DEF bound
    <2> QED
        BY <1>0, <2>2, <2>3 DEF Matches, Open
<1>3. CASE o.ctx = None /\ o.pending = None
    <2>1. Synced(s, o) = [o EXCEPT !.ctx = bound(None)]
        BY <1>3 DEF Synced
    <2>2. Synced(s, o).ctx = bound(None) /\ IsOwn(Synced(s, o))
        BY <2>1 DEF IsOwn
    <2>3. pos[s].adopted
        BY <1>3 DEF Matches, Open, OfTrigger
    <2> HIDE DEF bound
    <2> QED
        BY <1>0, <2>2, <2>3 DEF Matches, Open
<1> QED
    BY <1>1, <1>2, <1>3

\* What is looked at for the trailing floor leaves the trigger of a context alone.
LEMMA LookedKeeps ==
    ASSUME NEW s \in Strats, NEW c, IsCtx(c), NEW mid
    PROVE  IsCtx(Looked(s, c, mid)) /\ Looked(s, c, mid).id = c.id /\ Looked(s, c, mid).trig = c.trig
BY DEF Looked, Trailed, IsCtx

\* A strategy starts flat and without contexts.
LEMMA InitCtxInv == Init => CtxInv
BY DEF Init, CtxInv, Shaped, IsOwn, IsPos, Matches, Unused, Flat, None

\* An entry leaves its trigger pending, and its order carries the same (poll_intents).
LEMMA PollStep ==
    ASSUME CtxInv, NEW s \in Strats, NEW hist \in Histories, NEW approved \in BOOLEAN,
           Poll(s, hist, approved)
    PROVE  CtxInv'
<1> DEFINE mine == Synced(s, Counters(s))
           mk == UpdatedMarket(hist)
           entered == [mine EXCEPT !.trades = @ + 1, !.consumed = mk.trig.at, !.pending = mk.trig]
           order == [st |-> "working", id |-> pos[s].id + 1, trig |-> mk.trig.at, adopted |-> FALSE]
<1>1. pos[s].st = "flat" /\ ~Open(s)
    BY DEF Poll, IsFlat, Open
<1>2. \A x \in Strats : /\ IsOwn(Counters(x)) /\ Counters(x).pending = own[x].pending
                        /\ Counters(x).ctx = own[x].ctx
    BY CountersKeep DEF CtxInv
<1>3. IsOwn(mine) /\ mine.ctx = None
    BY <1>1, <1>2, SyncedFlat
<1>4. \A x \in Strats : Matches(Counters(x), pos[x])
    BY <1>2 DEF CtxInv, Matches
<1>5. Matches(mine, pos[s])
    BY <1>1 DEF Matches
<1>6. CASE ~Wants(mk, mine)
    <2>1. own' = [x \in Strats |-> IF x = s THEN mine ELSE Counters(x)] /\ pos' = pos
        BY <1>6 DEF Poll
    <2> HIDE DEF mine
    <2> QED
        BY <2>1, <1>2, <1>3, <1>4, <1>5 DEF CtxInv, Shaped
<1>7. CASE Wants(mk, mine)
    <2>1. mk.trig # None
        BY <1>7 DEF Wants
    <2>2. own' = [x \in Strats |-> IF x = s THEN entered ELSE Counters(x)]
        BY <1>7 DEF Poll
    <2>3. pos' = pos \/ pos' = [pos EXCEPT ![s] = order]
        BY <1>7 DEF Poll
    <2> HIDE DEF mine, mk
    <2>4. IsOwn(entered) /\ entered.pending = mk.trig /\ entered.ctx = None
        BY <1>3 DEF IsOwn
    <2>5. IsPos(order) /\ order.st = "working" /\ order.trig = mk.trig.at /\ order.adopted = FALSE
        BY DEF IsPos
    <2>6. Matches(entered, order)
        BY <2>1, <2>4, <2>5 DEF Matches, OfTrigger
    <2>7. Matches(entered, pos[s])
        BY <1>1 DEF Matches
    <2> HIDE DEF entered, order
    <2>8. \A x \in Strats : own'[x] = IF x = s THEN entered ELSE Counters(x)
        BY <2>2
    <2>9. \A x \in Strats : pos'[x] = pos[x] \/ (x = s /\ pos'[x] = order)
        BY <2>3 DEF CtxInv, Shaped
    <2>10. own' = [x \in Strats |-> own'[x]] /\ pos' = [x \in Strats |-> pos'[x]]
        BY <2>2, <2>3 DEF CtxInv, Shaped
    <2>11. \A x \in Strats : IsOwn(own'[x]) /\ IsPos(pos'[x])
        BY <1>2, <2>4, <2>5, <2>8, <2>9 DEF CtxInv, Shaped
    <2>12. \A x \in Strats : Matches(own'[x], pos'[x])
        BY <1>4, <2>6, <2>7, <2>8, <2>9
    <2> QED
        BY <2>10, <2>11, <2>12 DEF CtxInv, Shaped
<1> QED
    BY <1>6, <1>7

\* A look at an open position makes its context of the pending one (collect_strategy_exits).
LEMMA CollectStep ==
    ASSUME CtxInv, NEW s \in Strats, NEW hist \in Histories, NEW mid \in Premiums,
           CollectExits(s, hist, mid)
    PROVE  CtxInv'
<1> DEFINE mine == Synced(s, Counters(s))
           ctx == Looked(s, mine.ctx, mid)
           looked == [mine EXCEPT !.ctx = ctx]
<1>1. pos[s].st = "open" /\ Open(s)
    BY DEF CollectExits, Open
<1>2. \A x \in Strats : /\ IsOwn(Counters(x)) /\ Counters(x).pending = own[x].pending
                        /\ Counters(x).ctx = own[x].ctx
    BY CountersKeep DEF CtxInv
<1>3. \A x \in Strats : Matches(Counters(x), pos[x])
    BY <1>2 DEF CtxInv, Matches
<1>4. IsOwn(mine) /\ mine.ctx # None /\ Matches(mine, pos[s])
    BY <1>1, <1>2, <1>3, SyncedOpen
<1>5. own' = [x \in Strats |-> IF x = s THEN looked ELSE Counters(x)]
    BY DEF CollectExits
<1>6. pos' = pos \/ pos' = [pos EXCEPT ![s].st = "exiting"]
    BY DEF CollectExits
<1>7. IsCtx(mine.ctx)
    BY <1>1, <1>4 DEF Matches
<1>8. IsCtx(ctx) /\ ctx.id = mine.ctx.id /\ ctx.trig = mine.ctx.trig
    BY <1>7, LookedKeeps
<1> HIDE DEF mine, ctx
<1>9. IsOwn(looked) /\ looked.ctx = ctx
    BY <1>4 DEF IsOwn
<1>10. ctx # None
    BY <1>8 DEF IsCtx, None
<1> HIDE DEF looked
<1>11. \A p : p.st \in {"open", "exiting"} /\ p.id = pos[s].id /\ p.trig = pos[s].trig
              /\ p.adopted = pos[s].adopted => Matches(looked, p)
    BY <1>1, <1>4, <1>8, <1>9, <1>10 DEF Matches, OfTrigger
<1>12. IsPos(pos'[s]) /\ pos'[s].st \in {"open", "exiting"} /\ pos'[s].id = pos[s].id
       /\ pos'[s].trig = pos[s].trig /\ pos'[s].adopted = pos[s].adopted
    BY <1>1, <1>6 DEF CtxInv, Shaped, IsPos
<1>13. \A x \in Strats : x # s => pos'[x] = pos[x]
    BY <1>6 DEF CtxInv, Shaped
<1>14. \A x \in Strats : own'[x] = IF x = s THEN looked ELSE Counters(x)
    BY <1>5
<1>15. own' = [x \in Strats |-> own'[x]] /\ pos' = [x \in Strats |-> pos'[x]]
    BY <1>5, <1>6 DEF CtxInv, Shaped
<1>16. \A x \in Strats : IsOwn(own'[x]) /\ IsPos(pos'[x])
    BY <1>2, <1>9, <1>12, <1>13, <1>14 DEF CtxInv, Shaped
<1>17. \A x \in Strats : Matches(own'[x], pos'[x])
    BY <1>3, <1>11, <1>12, <1>13, <1>14
<1> QED
    BY <1>15, <1>16, <1>17 DEF CtxInv, Shaped

\* Every step: orders change the state of a position, a restart forgets the contexts and adopts.
LEMMA CtxStep == CtxInv /\ [Next]_vars => CtxInv'
<1> SUFFICES ASSUME CtxInv, [Next]_vars PROVE CtxInv'
    OBVIOUS
<1>1. CASE UNCHANGED <<own, pos>>
    BY <1>1 DEF CtxInv, Shaped
<1>2. ASSUME NEW p \in Levels, Tick(p) PROVE CtxInv'
    BY <1>1, <1>2 DEF Tick
<1>3. CASE Minute
    <2>1. own' = own /\ (pos' = pos \/ pos' = [s \in Strats |-> [Flat EXCEPT !.id = pos[s].id]])
        BY <1>3 DEF Minute
    <2>2. CASE pos' = pos
        BY <1>1, <2>1, <2>2
    <2>3. CASE pos' = [s \in Strats |-> [Flat EXCEPT !.id = pos[s].id]]
        <3>1. \A s \in Strats : IsPos(pos'[s]) /\ pos'[s].st = "flat"
            BY <2>3 DEF IsPos, Flat
        <3> QED
            BY <2>1, <2>3, <3>1 DEF CtxInv, Shaped, Matches
    <2> QED
        BY <2>1, <2>2, <2>3
<1>4. ASSUME NEW s \in Strats, EntryFills(s) \/ OrderEnds(s) \/ ExitFills(s) PROVE CtxInv'
    <2>1. own' = own
        BY <1>4 DEF EntryFills, OrderEnds, ExitFills
    <2>2. PICK st \in {"open", "flat"} :
            /\ pos' = [pos EXCEPT ![s].st = st]
            /\ st = "open" => pos[s].st \in {"working", "exiting"}
        BY <1>4 DEF EntryFills, OrderEnds, ExitFills, Becomes
    <2>3. /\ \A x \in Strats : x # s => pos'[x] = pos[x]
          /\ pos'[s] = [pos[s] EXCEPT !.st = st] /\ pos' = [x \in Strats |-> pos'[x]]
        BY <2>2 DEF CtxInv, Shaped
    <2>4. IsPos(pos'[s]) /\ pos'[s].st = st /\ pos'[s].id = pos[s].id
          /\ pos'[s].trig = pos[s].trig /\ pos'[s].adopted = pos[s].adopted
        BY <2>3 DEF CtxInv, Shaped, IsPos
    <2>5. Matches(own[s], pos[s])
        BY DEF CtxInv
    <2>6. Matches(own[s], pos'[s])
        BY <2>2, <2>4, <2>5 DEF Matches, OfTrigger
    <2> QED
        BY <2>1, <2>3, <2>4, <2>6 DEF CtxInv, Shaped
<1>5. CASE Restart
    <2>1. own' = [s \in Strats |-> Unused]
        BY <1>5 DEF Restart
    <2>2. PICK left \in SUBSET {s \in Strats : pos[s].st # "flat"} :
            pos' = [s \in Strats |-> IF s \in left
                      THEN [pos[s] EXCEPT !.st = "open", !.adopted = TRUE]
                      ELSE [Flat EXCEPT !.id = pos[s].id]]
        BY <1>5 DEF Restart
    <2>3. \A s \in Strats : IsPos(pos'[s]) /\ (pos'[s].adopted = TRUE \/ pos'[s].st = "flat")
                            /\ pos'[s].st # "working"
        <3> SUFFICES ASSUME NEW s \in Strats
                     PROVE  IsPos(pos'[s]) /\ (pos'[s].adopted = TRUE \/ pos'[s].st = "flat")
                            /\ pos'[s].st # "working"
            OBVIOUS
        <3>1. CASE s \in left
            <4>1. pos'[s] = [pos[s] EXCEPT !.st = "open", !.adopted = TRUE]
                BY <2>2, <3>1
            <4>2. IsPos(pos[s])
                BY DEF CtxInv, Shaped
            <4> QED
                BY <4>1, <4>2, Adopted
        <3>2. CASE s \notin left
            <4>1. pos'[s] = [Flat EXCEPT !.id = pos[s].id]
                BY <2>2, <3>2
            <4> QED
                BY <4>1 DEF IsPos, Flat
        <3> QED
            BY <3>1, <3>2
    <2>4. \A s \in Strats : IsOwn(own'[s]) /\ own'[s].ctx = None /\ own'[s].pending = None
        BY <2>1 DEF IsOwn, Unused
    <2> QED
        BY <2>1, <2>2, <2>3, <2>4 DEF CtxInv, Shaped, Matches
<1>6. CASE UNCHANGED vars
    BY <1>1, <1>6 DEF vars
<1> QED
    BY <1>2, <1>3, <1>4, <1>5, <1>6, PollStep, CollectStep DEF Next

\* A position is guarded by the stop of the trigger its entry was sent on, whatever entries were
\* refused or never filled before, and one taken over by none (_pending_ctx and _pos_ctx).
THEOREM OwnTriggerGuards == Spec => []GuardedByOwnTrigger
<1>1. Init => CtxInv
    BY InitCtxInv
<1>2. CtxInv /\ [Next]_vars => CtxInv'
    BY CtxStep
<1>3. CtxInv => GuardedByOwnTrigger
    BY DEF CtxInv, Matches, GuardedByOwnTrigger, OfTrigger, Open
<1> QED
    BY <1>1, <1>2, <1>3, PTL DEF Spec

-----------------------------------------------------------------------------
(* Triggers *)

\* The market state and its two marks have their fields.
IsMarket(mk) ==
    /\ mk = [day |-> mk.day, ema |-> mk.ema, next |-> mk.next, sig |-> mk.sig, trig |-> mk.trig,
             failed |-> mk.failed]
    /\ mk.day \in Int /\ mk.next \in Nat
    /\ mk.sig # None => mk.sig.at \in Nat /\ mk.sig.at <= mk.next
    /\ mk.trig # None => mk.trig.at \in Nat /\ mk.trig.at <= mk.next /\ mk.trig.at <= now

\* Where a day's state stands: before it has started there are no marks.
DayInv(mk) ==
    IF mk.day = -1 THEN mk.sig = None /\ mk.trig = None
    ELSE mk.day \in Nat /\ mk.day <= Today /\ mk.day * DayLen + Width <= mk.next

\* A trigger sent on is of an earlier day or process: older than all the builder has seen since, or
\* than the day of the market state; and older than its marks.
Old(e, mk) ==
    /\ (\A m \in ticked : e <= m) \/ e <= mk.day * DayLen
    /\ mk.sig # None => e < mk.sig.at
    /\ mk.trig # None => e < mk.trig.at

\* Or of this one, and then not younger than the last one that was sent on.
Recent(e, mk, last) == e <= last /\ e < (mk.day + 1) * DayLen

\* What a strategy has sent on, the last of it on this day, and the market state.
SentInv(mk, past, last) ==
    /\ last \in Nat /\ last <= mk.next /\ (mk.trig # None => last <= mk.trig.at)
    /\ \A i \in DOMAIN past : /\ past[i] \in Nat /\ past[i] <= now
                              /\ Old(past[i], mk) \/ Recent(past[i], mk, last)
    /\ \A i, j \in DOMAIN past : i < j => past[i] < past[j]

TrigInv ==
    /\ IsMarket(market) /\ DayInv(market) /\ DOMAIN sent = Strats
    /\ \A s \in Strats : sent[s] \in Seq(Nat) /\ SentInv(market, sent[s], own[s].consumed)

-----------------------------------------------------------------------------
(* The loop of _update_market_state *)

\* The least of a set of numbers.
LEMMA Least == ASSUME NEW S \in SUBSET Nat, S # {} PROVE \E x \in S : \A y \in S : x <= y
<1>1. PICK x \in S : \A y \in S : <<y, x>> \notin OpToRel(<, Nat)
    BY WFMin, NatLessThanWellFounded, Zenon
<1>2. \A y \in S : ~(y < x)
    BY <1>1 DEF OpToRel
<1> QED
    BY <1>2

\* The run before its first round, and g its first n rounds.
Outset == [mk |-> Fresh(market), fetches |-> 0, over |-> FALSE]
Rounds(g, n, hist) == g = [k \in 0 .. n |-> IF k = 0 THEN Outset ELSE Went(g[k - 1], hist)]

\* Every number of rounds can be run.
LEMMA RoundsExist == ASSUME NEW hist, NEW n \in Nat PROVE \E g : Rounds(g, n, hist)
<1> DEFINE B == {k \in Nat : ~ \E g : Rounds(g, k, hist)}
<1> SUFFICES ASSUME B # {} PROVE FALSE
    OBVIOUS
<1>1. PICK k \in B : \A j \in B : k <= j
    <2>1. B \in SUBSET Nat
        OBVIOUS
    <2> HIDE DEF B
    <2> QED
        BY <2>1, Least
<1>2. CASE k = 0
    <2> DEFINE g == [i \in 0 .. 0 |-> Outset]
    <2>1. Rounds(g, 0, hist)
        BY DEF Rounds
    <2> QED
        BY <1>1, <1>2, <2>1
<1>3. CASE k # 0
    <2>1. k \in Nat /\ k - 1 \in Nat
        BY <1>1, <1>3
    <2>2. k - 1 \notin B
        BY <1>1, <2>1
    <2>3. PICK g : Rounds(g, k - 1, hist)
        BY <2>1, <2>2
    <2> DEFINE h == [i \in 0 .. k |-> IF i = k THEN Went(g[k - 1], hist) ELSE g[i]]
    <2>4. \A i \in 0 .. k - 1 : g[i] = IF i = 0 THEN Outset ELSE Went(g[i - 1], hist)
        BY <2>3 DEF Rounds
    <2>5. ASSUME NEW i \in 0 .. k PROVE h[i] = IF i = 0 THEN Outset ELSE Went(h[i - 1], hist)
        <3>1. CASE i = k
            <4>1. h[i] = Went(g[k - 1], hist) /\ h[k - 1] = g[k - 1] /\ i # 0
                BY <1>3, <2>1, <3>1
            <4> QED
                BY <3>1, <4>1
        <3>2. CASE i # k /\ i # 0
            <4>1. i \in 0 .. k - 1 /\ i - 1 \in 0 .. k /\ i - 1 # k
                BY <2>1, <3>2
            <4>2. h[i] = g[i] /\ h[i - 1] = g[i - 1]
                BY <2>1, <3>2, <4>1
            <4> QED
                BY <2>4, <3>2, <4>1, <4>2
        <3>3. CASE i = 0
            <4>1. 0 \in 0 .. k - 1 /\ h[0] = g[0]
                BY <1>3, <2>1, <3>3
            <4> QED
                BY <2>4, <3>3, <4>1
        <3> QED
            BY <3>1, <3>2, <3>3
    <2>6. h = [i \in 0 .. k |-> h[i]]
        OBVIOUS
    <2> HIDE DEF h
    <2>7. Rounds(h, k, hist)
        BY <2>5, <2>6 DEF Rounds
    <2> QED
        BY <1>1, <2>7
<1> QED
    BY <1>2, <1>3

\* Two runs agree on the rounds both have.
LEMMA RoundsAgree ==
    ASSUME NEW hist, NEW n \in Nat, NEW m \in Nat, NEW g, NEW h, Rounds(g, n, hist), Rounds(h, m, hist),
           NEW k \in Nat, k <= n, k <= m
    PROVE  g[k] = h[k]
<1> DEFINE B == {i \in Nat : i <= n /\ i <= m /\ g[i] # h[i]}
<1> SUFFICES ASSUME B # {} PROVE FALSE
    OBVIOUS
<1>1. PICK i \in B : \A j \in B : i <= j
    <2>1. B \in SUBSET Nat
        OBVIOUS
    <2> HIDE DEF B
    <2> QED
        BY <2>1, Least
<1>2. /\ \A j \in 0 .. n : g[j] = IF j = 0 THEN Outset ELSE Went(g[j - 1], hist)
      /\ \A j \in 0 .. m : h[j] = IF j = 0 THEN Outset ELSE Went(h[j - 1], hist)
    BY DEF Rounds
<1>3. i \in 0 .. n /\ i \in 0 .. m
    BY <1>1
<1>4. i # 0
    BY <1>1, <1>2, <1>3
<1>5. i - 1 \in Nat /\ i - 1 <= n /\ i - 1 <= m /\ i - 1 < i
    BY <1>3, <1>4
<1>6. g[i - 1] = h[i - 1]
    BY <1>1, <1>5
<1>7. g[i] = Went(g[i - 1], hist) /\ h[i] = Went(h[i - 1], hist)
    BY <1>2, <1>3, <1>4
<1> QED
    BY <1>1, <1>6, <1>7

\* So the loop has a run of any length, and UpdatedMarket is where it stands in the end.
LEMMA RunExists ==
    ASSUME NEW hist
    PROVE  \E run : /\ run = [n \in Nat |-> IF n = 0 THEN Outset ELSE Went(run[n - 1], hist)]
                    /\ UpdatedMarket(hist) = run[DayLen \div Width].mk
<1> DEFINE first(n) == CHOOSE g : Rounds(g, n, hist)
           run == [n \in Nat |-> first(n)[n]]
<1>1. \A n \in Nat : Rounds(first(n), n, hist)
    BY RoundsExist
<1>2. ASSUME NEW n \in Nat PROVE run[n] = IF n = 0 THEN Outset ELSE Went(run[n - 1], hist)
    <2>1. run[n] = first(n)[n]
        OBVIOUS
    <2>2. \A k \in 0 .. n : first(n)[k] = IF k = 0 THEN Outset ELSE Went(first(n)[k - 1], hist)
        <3>1. PICK g : g = first(n)
            OBVIOUS
        <3>2. Rounds(g, n, hist)
            BY <1>1, <3>1
        <3>3. \A k \in 0 .. n : g[k] = IF k = 0 THEN Outset ELSE Went(g[k - 1], hist)
            BY <3>2 DEF Rounds
        <3> HIDE DEF first
        <3> QED
            BY <3>1, <3>3
    <2>3. CASE n = 0
        <3> HIDE DEF first
        <3> QED
            BY <2>1, <2>2, <2>3
    <2>4. CASE n # 0
        <3>1. n - 1 \in Nat /\ n - 1 <= n /\ n \in 0 .. n
            BY <2>4
        <3>2. run[n - 1] = first(n - 1)[n - 1]
            BY <3>1
        <3>3. first(n)[n - 1] = first(n - 1)[n - 1]
            <4>1. PICK k \in Nat : k = n - 1 /\ k <= n
                BY <3>1
            <4>2. Rounds(first(n), n, hist) /\ Rounds(first(k), k, hist)
                BY <1>1, <4>1
            <4> HIDE DEF first
            <4>3. PICK g, h : g = first(n) /\ h = first(k)
                OBVIOUS
            <4>4. g[k] = h[k]
                BY <4>1, <4>2, <4>3, RoundsAgree
            <4> QED
                BY <4>1, <4>3, <4>4
        <3> HIDE DEF first, run
        <3> QED
            BY <2>1, <2>2, <2>4, <3>1, <3>2, <3>3
    <2> QED
        BY <2>3, <2>4
<1>3. run = [n \in Nat |-> run[n]]
    OBVIOUS
<1> HIDE DEF run
<1>4. run = [n \in Nat |-> IF n = 0 THEN Outset ELSE Went(run[n - 1], hist)]
    BY <1>2, <1>3
<1> QED
    BY <1>4 DEF UpdatedMarket, Outset

-----------------------------------------------------------------------------
(* The market state in the loop *)

\* The days of minutes.
LEMMA DayIs ==
    ASSUME NEW n \in Nat, NEW d \in Nat \ {0}
    PROVE  n \div d \in Nat /\ (n \div d) * d <= n /\ n < (n \div d + 1) * d
OBVIOUS

\* A later day begins later.
LEMMA LaterDay == ASSUME NEW a \in Int, NEW b \in Int, a <= b, NEW d \in Nat PROVE a * d <= b * d
OBVIOUS

\* What a window has made of the market state: the new marks are of its end, a signal bar only if
\* the builder was live.
Advanced(mk, new, end, live) ==
    /\ new = [day |-> new.day, ema |-> new.ema, next |-> new.next, sig |-> new.sig, trig |-> new.trig,
              failed |-> new.failed]
    /\ new.day = mk.day /\ new.next = end + Width
    /\ new.sig # None => new.sig = mk.sig \/ (live /\ new.sig.at = end)
    /\ new.trig # None => new.trig = mk.trig \/ (mk.sig # None /\ new.trig.at = end)

\* The market state during the loop.
GoodMarket(mk) ==
    /\ IsMarket(mk) /\ DayInv(mk) /\ mk.day = Today
    /\ \A s \in Strats : SentInv(mk, sent[s], Counters(s).consumed)

\* The records of marks are not None.
LEMMA Marks ==
    ASSUME NEW dir, NEW high, NEW low, NEW end, NEW sig, NEW close
    PROVE  /\ [dir |-> dir, high |-> high, low |-> low, at |-> end].at = end
           /\ Trigger(sig, close, end) # None /\ Trigger(sig, close, end).at = end
BY DEF Trigger, None

\* The fields that a close changes.
LEMMA Rewritten ==
    ASSUME NEW r, NEW d, NEW a, NEW n, NEW g, NEW t, NEW f,
           r = [day |-> d, ema |-> a, next |-> n, sig |-> g, trig |-> t, failed |-> f],
           NEW e, NEW h, NEW u
    PROVE  [r EXCEPT !.ema = e, !.sig = h, !.trig = u]
             = [day |-> d, ema |-> e, next |-> n, sig |-> h, trig |-> u, failed |-> f]
<1>1. PICK q : q = [r EXCEPT !.ema = e]
    OBVIOUS
<1>2. q = [day |-> d, ema |-> e, next |-> n, sig |-> g, trig |-> t, failed |-> f]
    BY <1>1
<1>3. PICK o : o = [q EXCEPT !.sig = h]
    OBVIOUS
<1>4. o = [day |-> d, ema |-> e, next |-> n, sig |-> h, trig |-> t, failed |-> f]
    BY <1>2, <1>3
<1>5. [o EXCEPT !.trig = u] = [day |-> d, ema |-> e, next |-> n, sig |-> h, trig |-> u, failed |-> f]
    BY <1>4
<1>6. [r EXCEPT !.ema = e, !.sig = h, !.trig = u] = [o EXCEPT !.trig = u]
    BY <1>1, <1>3
<1> QED
    BY <1>5, <1>6

\* A window that has a close.
LEMMA ClosedIs ==
    ASSUME NEW mk, IsMarket(mk), NEW end, NEW bar, NEW close, NEW next,
           next = [mk EXCEPT !.next = end + Width]
    PROVE  Advanced(mk, Closed(next, bar, close, end), end, bar # None)
<1> DEFINE ema == Ema(next, close)
           hit == [next EXCEPT !.ema = ema, !.sig = None, !.trig = Trigger(next.sig, close, end)]
           arm == Armed(next.sig, bar, ema, end)
           miss == [next EXCEPT !.ema = ema, !.sig = arm, !.trig = None]
<1>1. /\ next = [day |-> mk.day, ema |-> mk.ema, next |-> end + Width, sig |-> mk.sig, trig |-> mk.trig,
                 failed |-> mk.failed]
      /\ next.sig = mk.sig
    BY DEF IsMarket
<1>2. CASE Breaks(next.sig, close)
    <2>1. Closed(next, bar, close, end) = hit
        BY <1>2 DEF Closed
    <2>2. mk.sig # None
        BY <1>1, <1>2 DEF Breaks
    <2>3. PICK t : t = Trigger(next.sig, close, end) /\ t.at = end
        BY Marks
    <2>4. PICK e : e = ema
        OBVIOUS
    <2>5. hit = [day |-> mk.day, ema |-> e, next |-> end + Width, sig |-> None, trig |-> t,
                 failed |-> mk.failed]
        <3>1. hit = [next EXCEPT !.ema = e, !.sig = None, !.trig = t]
            BY <2>3, <2>4
        <3> HIDE DEF hit
        <3> QED
            BY <1>1, <3>1, Rewritten, Zenon
    <2> HIDE DEF hit
    <2>6. /\ hit.day = mk.day /\ hit.ema = e /\ hit.next = end + Width /\ hit.sig = None /\ hit.trig = t
          /\ hit.failed = mk.failed
        BY <2>5
    <2>7. hit = [day |-> hit.day, ema |-> hit.ema, next |-> hit.next, sig |-> hit.sig, trig |-> hit.trig,
                 failed |-> hit.failed]
        BY <2>5, <2>6
    <2> QED
        BY <2>1, <2>2, <2>3, <2>6, <2>7 DEF Advanced
<1>3. CASE ~Breaks(next.sig, close)
    <2>1. Closed(next, bar, close, end) = miss
        BY <1>3 DEF Closed
    <2>2. PICK g : g = arm /\ (g # None => g = mk.sig \/ (bar # None /\ g.at = end))
        <3>1. arm # None => arm = mk.sig \/ (bar # None /\ arm.at = end)
            BY <1>1 DEF Armed, None
        <3> QED
            BY <3>1
    <2>3. PICK e : e = ema
        OBVIOUS
    <2>4. miss = [day |-> mk.day, ema |-> e, next |-> end + Width, sig |-> g, trig |-> None,
                  failed |-> mk.failed]
        <3>1. miss = [next EXCEPT !.ema = e, !.sig = g, !.trig = None]
            BY <2>2, <2>3
        <3> HIDE DEF miss
        <3> QED
            BY <1>1, <3>1, Rewritten, Zenon
    <2> HIDE DEF miss
    <2>5. /\ miss.day = mk.day /\ miss.ema = e /\ miss.next = end + Width /\ miss.sig = g
          /\ miss.trig = None /\ miss.failed = mk.failed
        BY <2>4
    <2>6. miss = [day |-> miss.day, ema |-> miss.ema, next |-> miss.next, sig |-> miss.sig,
                  trig |-> miss.trig, failed |-> miss.failed]
        BY <2>4, <2>5
    <2> QED
        BY <2>1, <2>2, <2>5, <2>6 DEF Advanced
<1> QED
    BY <1>2, <1>3

\* A window without one.
LEMMA SkippedIs ==
    ASSUME NEW mk, IsMarket(mk), NEW end, NEW next, next = [mk EXCEPT !.next = end + Width], NEW f
    PROVE  Advanced(mk, next, end, FALSE) /\ Advanced(mk, [next EXCEPT !.failed = f], end, FALSE)
<1>1. next = [day |-> mk.day, ema |-> mk.ema, next |-> end + Width, sig |-> mk.sig, trig |-> mk.trig,
              failed |-> mk.failed]
    BY DEF IsMarket
<1>2. Advanced(mk, next, end, FALSE)
    BY <1>1 DEF Advanced
<1>3. PICK u : u = [next EXCEPT !.failed = f]
    OBVIOUS
<1>4. u = [day |-> mk.day, ema |-> mk.ema, next |-> end + Width, sig |-> mk.sig, trig |-> mk.trig,
           failed |-> f]
    BY <1>1, <1>3
<1>5. Advanced(mk, u, end, FALSE)
    BY <1>4 DEF Advanced
<1> QED
    BY <1>2, <1>3, <1>5

\* The builder is live for a window only if it has seen a tick before it.
LEMMA LiveBarIs ==
    ASSUME BarInv, NEW end \in Nat, LiveBar(end) # None
    PROVE  \E m \in ticked : m \in Nat /\ m <= end - Width
<1>1. PICK b \in Seq(Bar) : b = Completed
    BY CompletedBars
<1>2. Minutes(b) \subseteq ticked
    BY <1>1, CompletedBars DEF BarInv
<1>3. DOMAIN b # {} /\ ~(b[1].m > end - Width)
    BY <1>1 DEF LiveBar
<1>4. Len(b) \in Nat /\ DOMAIN b = 1 .. Len(b)
    BY LenProperties
<1>5. 1 \in 1 .. Len(b)
    BY <1>3, <1>4
<1>6. b[1] \in Bar /\ b[1].m \in Minutes(b)
    BY <1>5, ElementOfSeq DEF Minutes
<1>7. b[1].m \in Nat
    BY <1>6 DEF Bar
<1> QED
    BY <1>2, <1>3, <1>6, <1>7, EmaAssumption

\* The lengths of a day and of a window, and the day it is.
LEMMA Lengths ==
    ASSUME now \in Nat
    PROVE  /\ DayLen \in Nat \ {0} /\ Width \in Nat \ {0}
           /\ Today \in Nat /\ Today * DayLen \in Nat /\ Today * DayLen <= now
           /\ now < (Today + 1) * DayLen /\ (Today + 1) * DayLen \in Nat
<1>1. DayLen \in Nat \ {0} /\ Width \in Nat \ {0}
    BY EmaAssumption
<1>2. Today \in Nat /\ Today * DayLen <= now /\ now < (Today + 1) * DayLen
    BY <1>1, DayIs DEF Today
<1> QED
    BY <1>1, <1>2

\* A trigger that is old stays older than what a window adds: its signal bar needs a tick since,
\* its trigger a signal bar.
LEMMA OldStays ==
    ASSUME BarInv, NEW mk, IsMarket(mk), DayInv(mk), mk.day = Today, NEW end \in Nat, end = mk.next,
           NEW new, NEW live, Advanced(mk, new, end, live),
           live => \E m \in ticked : m \in Nat /\ m <= end - Width,
           NEW e \in Nat, Old(e, mk)
    PROVE  Old(e, new)
<1>1. /\ DayLen \in Nat \ {0} /\ Width \in Nat \ {0} /\ Today \in Nat
    BY Lengths DEF BarInv
<1>2. PICK b \in Nat : b = mk.day * DayLen /\ b = new.day * DayLen /\ b + Width <= end
    <2>1. mk.day # -1 /\ new.day = mk.day /\ mk.day * DayLen \in Nat
        BY <1>1 DEF Advanced
    <2>2. mk.day * DayLen + Width <= end
        BY <2>1 DEF DayInv
    <2> QED
        BY <2>1, <2>2
<1>3. (\A m \in ticked : e <= m) \/ e <= b
    BY <1>2 DEF Old
<1>4. live => e < end
    <2> SUFFICES ASSUME live PROVE e < end
        OBVIOUS
    <2>1. PICK m \in ticked : m \in Nat /\ m <= end - Width
        OBVIOUS
    <2>2. CASE e <= m
        BY <1>1, <2>1, <2>2
    <2>3. CASE e <= b
        BY <1>1, <1>2, <2>3
    <2> QED
        BY <1>3, <2>1, <2>2, <2>3
<1>5. new.sig # None => e < new.sig.at
    <2>1. CASE new.sig = mk.sig
        BY <2>1 DEF Old
    <2>2. CASE live /\ new.sig.at = end
        BY <2>2, <1>4
    <2> QED
        BY <2>1, <2>2 DEF Advanced
<1>6. new.trig # None => e < new.trig.at
    <2>1. CASE new.trig = mk.trig
        BY <2>1 DEF Old
    <2>2. CASE mk.sig # None /\ new.trig.at = end
        <3>1. PICK a \in Nat : a = mk.sig.at /\ a <= end
            BY <2>2 DEF IsMarket
        <3>2. e < a
            BY <2>2, <3>1 DEF Old
        <3> QED
            BY <2>2, <3>1, <3>2
    <2> QED
        BY <2>1, <2>2 DEF Advanced
<1> QED
    BY <1>2, <1>3, <1>5, <1>6 DEF Old

\* A window keeps the market state good.
LEMMA AdvancedGood ==
    ASSUME BarInv, NEW mk, GoodMarket(mk), NEW end, end = mk.next, end <= now,
           NEW new, NEW live, Advanced(mk, new, end, live),
           live => \E m \in ticked : m \in Nat /\ m <= end - Width
    PROVE  GoodMarket(new)
<1>1. /\ DayLen \in Nat \ {0} /\ Width \in Nat \ {0} /\ Today \in Nat /\ now \in Nat
    BY Lengths DEF BarInv
<1>2. IsMarket(mk) /\ DayInv(mk) /\ mk.day = Today /\ end \in Nat
    BY DEF GoodMarket, IsMarket
<1>3. /\ new = [day |-> new.day, ema |-> new.ema, next |-> new.next, sig |-> new.sig, trig |-> new.trig,
                failed |-> new.failed]
      /\ new.day = Today
    BY <1>2 DEF Advanced
<1>4. PICK n \in Nat : n = new.next /\ n = end + Width
    BY <1>1, <1>2 DEF Advanced
<1>5. new.sig # None => new.sig.at \in Nat /\ new.sig.at <= n
    <2>1. CASE new.sig = mk.sig
        <3> SUFFICES ASSUME mk.sig # None PROVE mk.sig.at \in Nat /\ mk.sig.at <= n
            BY <2>1
        <3>1. PICK a \in Nat : a = mk.sig.at /\ a <= end
            BY <1>2 DEF IsMarket
        <3> QED
            BY <1>1, <1>2, <1>4, <3>1
    <2>2. CASE new.sig.at = end
        BY <2>2, <1>1, <1>2, <1>4
    <2> QED
        BY <2>1, <2>2 DEF Advanced
<1>6. new.trig # None => new.trig.at \in Nat /\ new.trig.at <= n /\ new.trig.at <= now
    <2>1. CASE new.trig = mk.trig
        <3> SUFFICES ASSUME mk.trig # None PROVE mk.trig.at \in Nat /\ mk.trig.at <= n /\ mk.trig.at <= now
            BY <2>1
        <3>1. PICK a \in Nat : a = mk.trig.at /\ a <= end /\ a <= now
            BY <1>2 DEF IsMarket
        <3> QED
            BY <1>1, <1>2, <1>4, <3>1
    <2>2. CASE new.trig.at = end
        BY <2>2, <1>1, <1>2, <1>4
    <2> QED
        BY <2>1, <2>2 DEF Advanced
<1>7. IsMarket(new)
    <2>1. new.day \in Int
        BY <1>1, <1>3
    <2> QED
        BY <1>3, <1>4, <1>5, <1>6, <2>1 DEF IsMarket
<1>8. DayInv(new)
    <2>1. new.day # -1 /\ mk.day # -1 /\ new.day \in Nat /\ new.day <= Today
        BY <1>1, <1>2, <1>3
    <2>2. PICK b \in Nat : b = mk.day * DayLen /\ b = new.day * DayLen
        BY <1>1, <1>2, <1>3
    <2>3. b + Width <= end
        BY <1>2, <2>1, <2>2 DEF DayInv
    <2>4. b + Width <= n
        BY <1>1, <1>2, <1>4, <2>3
    <2> QED
        BY <1>4, <2>1, <2>2, <2>4 DEF DayInv
<1>9. ASSUME NEW s \in Strats PROVE SentInv(new, sent[s], Counters(s).consumed)
    <2>1. PICK last \in Nat : last = Counters(s).consumed /\ last <= end
        BY DEF GoodMarket, SentInv
    <2>2. SentInv(mk, sent[s], last)
        BY <2>1 DEF GoodMarket
    <2>3. last <= n
        BY <1>1, <1>2, <1>4, <2>1
    <2>4. new.trig # None => last <= new.trig.at
        <3>1. CASE new.trig = mk.trig
            BY <2>2, <3>1 DEF SentInv
        <3>2. CASE new.trig.at = end
            BY <2>1, <3>2
        <3> QED
            BY <3>1, <3>2 DEF Advanced
    <2>5. ASSUME NEW i \in DOMAIN sent[s]
          PROVE  sent[s][i] \in Nat /\ sent[s][i] <= now
                 /\ (Old(sent[s][i], new) \/ Recent(sent[s][i], new, last))
        <3>1. PICK e \in Nat : e = sent[s][i] /\ e <= now /\ (Old(e, mk) \/ Recent(e, mk, last))
            BY <2>2 DEF SentInv
        <3>2. CASE Old(e, mk)
            <4>1. Old(e, new)
                BY <1>2, <3>2, OldStays
            <4> QED
                BY <3>1, <4>1
        <3>3. CASE Recent(e, mk, last)
            <4>1. Recent(e, new, last)
                BY <1>2, <1>3, <3>3 DEF Recent
            <4> QED
                BY <3>1, <4>1
        <3> QED
            BY <3>1, <3>2, <3>3
    <2>6. \A i, j \in DOMAIN sent[s] : i < j => sent[s][i] < sent[s][j]
        BY <2>2 DEF SentInv
    <2> QED
        BY <1>4, <2>1, <2>3, <2>4, <2>5, <2>6 DEF SentInv
<1> QED
    BY <1>3, <1>7, <1>8, <1>9 DEF GoodMarket

-----------------------------------------------------------------------------
(* The market state after the loop *)

\* What holds of the loop's run in every round.
RunInv(r) ==
    /\ r = [mk |-> r.mk, fetches |-> r.fetches, over |-> r.over]
    /\ r.fetches \in 0 .. MaxFetches /\ GoodMarket(r.mk)

\* A run is its fields.
LEMMA RunIs ==
    ASSUME NEW r, RunInv(r), NEW mk, NEW f, NEW t
    PROVE  /\ [r EXCEPT !.mk = mk] = [mk |-> mk, fetches |-> r.fetches, over |-> r.over]
           /\ [r EXCEPT !.over = t] = [mk |-> r.mk, fetches |-> r.fetches, over |-> t]
           /\ [r EXCEPT !.fetches = f, !.mk = mk] = [mk |-> mk, fetches |-> f, over |-> r.over]
<1>1. PICK m, n, o : r = [mk |-> m, fetches |-> n, over |-> o] /\ r.mk = m /\ r.fetches = n /\ r.over = o
    BY DEF RunInv
<1>2. [r EXCEPT !.mk = mk] = [mk |-> mk, fetches |-> n, over |-> o]
    BY <1>1
<1>3. [r EXCEPT !.over = t] = [mk |-> m, fetches |-> n, over |-> t]
    BY <1>1
<1>4. PICK q : q = [r EXCEPT !.fetches = f]
    OBVIOUS
<1>5. q = [mk |-> m, fetches |-> f, over |-> o]
    BY <1>1, <1>4
<1>6. [q EXCEPT !.mk = mk] = [mk |-> mk, fetches |-> f, over |-> o]
    BY <1>5
<1>7. [r EXCEPT !.fetches = f, !.mk = mk] = [q EXCEPT !.mk = mk]
    BY <1>4
<1> QED
    BY <1>1, <1>2, <1>3, <1>6, <1>7

\* The fields make a run.
LEMMA RunOf ==
    ASSUME NEW mk, NEW f \in 0 .. MaxFetches, NEW o, GoodMarket(mk)
    PROVE  RunInv([mk |-> mk, fetches |-> f, over |-> o])
<1>1. PICK r : r = [mk |-> mk, fetches |-> f, over |-> o]
    OBVIOUS
<1>2. r.mk = mk /\ r.fetches = f /\ r.over = o
    BY <1>1
<1>3. RunInv(r)
    BY <1>1, <1>2 DEF RunInv
<1> QED
    BY <1>1, <1>3

\* One round.
LEMMA RoundGood ==
    ASSUME BarInv, NEW hist, NEW r, RunInv(r), NEW end, end = r.mk.next, end <= now
    PROVE  RunInv(Round(r, end, hist))
<1> DEFINE mk == r.mk
           bar == LiveBar(end)
           next == [mk EXCEPT !.next = end + Width]
           close == hist[r.fetches + 1]
<1>1. GoodMarket(mk) /\ IsMarket(mk) /\ end \in Nat /\ r.fetches \in 0 .. MaxFetches /\ MaxFetches \in Nat
    BY EmaAssumption DEF RunInv, GoodMarket, IsMarket
<1>2. \A f : GoodMarket(next) /\ GoodMarket([next EXCEPT !.failed = f])
    <2> SUFFICES ASSUME NEW f PROVE GoodMarket(next) /\ GoodMarket([next EXCEPT !.failed = f])
        OBVIOUS
    <2>1. Advanced(mk, next, end, FALSE) /\ Advanced(mk, [next EXCEPT !.failed = f], end, FALSE)
        BY <1>1, SkippedIs
    <2> HIDE DEF mk, next
    <2> QED
        BY <1>1, <2>1, AdvancedGood DEF mk
<1>3. bar # None => \A c : GoodMarket(Closed(next, bar, c, end))
    <2> SUFFICES ASSUME bar # None, NEW c PROVE GoodMarket(Closed(next, bar, c, end))
        OBVIOUS
    <2>1. \E m \in ticked : m \in Nat /\ m <= end - Width
        BY <1>1, LiveBarIs
    <2>2. Advanced(mk, Closed(next, bar, c, end), end, TRUE)
        <3>1. Advanced(mk, Closed(next, bar, c, end), end, bar # None)
            BY <1>1, ClosedIs
        <3> QED
            BY <3>1
    <2> HIDE DEF next, bar
    <2> QED
        BY <1>1, <2>1, <2>2, AdvancedGood
<1>4. \A c : GoodMarket(Closed(next, None, c, end))
    <2> SUFFICES ASSUME NEW c PROVE GoodMarket(Closed(next, None, c, end))
        OBVIOUS
    <2>1. Advanced(mk, Closed(next, None, c, end), end, None # None)
        BY <1>1, ClosedIs
    <2> HIDE DEF next
    <2> QED
        BY <1>1, <2>1, AdvancedGood
<1>5. CASE bar # None
    <2>1. Round(r, end, hist) = [r EXCEPT !.mk = Closed(next, bar, bar.close, end)]
        BY <1>5 DEF Round
    <2> HIDE DEF mk, bar, next
    <2>2. PICK c : c = Closed(next, bar, bar.close, end)
        OBVIOUS
    <2>3. GoodMarket(c)
        BY <1>3, <1>5, <2>2
    <2>4. Round(r, end, hist) = [mk |-> c, fetches |-> r.fetches, over |-> r.over]
        BY <2>1, <2>2, RunIs
    <2> QED
        BY <1>1, <2>3, <2>4, RunOf
<1>6. CASE bar = None /\ mk.failed = mk.day
    <2>1. Round(r, end, hist) = [r EXCEPT !.mk = next]
        BY <1>6 DEF Round
    <2> HIDE DEF next
    <2>2. Round(r, end, hist) = [mk |-> next, fetches |-> r.fetches, over |-> r.over]
        BY <2>1, RunIs
    <2> QED
        BY <1>1, <1>2, <2>2, RunOf
<1>7. CASE bar = None /\ mk.failed # mk.day /\ r.fetches = MaxFetches
    <2>1. Round(r, end, hist) = [r EXCEPT !.over = TRUE]
        <3>1. ~(r.fetches < MaxFetches)
            BY <1>1, <1>7
        <3> QED
            BY <1>7, <3>1 DEF Round
    <2>2. Round(r, end, hist) = [mk |-> mk, fetches |-> r.fetches, over |-> TRUE]
        BY <2>1, RunIs, Zenon
    <2> QED
        BY <1>1, <2>2, RunOf
<1>8. CASE bar = None /\ mk.failed # mk.day /\ r.fetches < MaxFetches
    <2> DEFINE new == IF close = 0 THEN [next EXCEPT !.failed = mk.day]
                      ELSE Closed(next, None, close, end)
    <2>1. Round(r, end, hist) = [r EXCEPT !.fetches = r.fetches + 1, !.mk = new]
        <3>1. r.fetches # MaxFetches
            BY <1>1, <1>8
        <3> QED
            BY <1>8, <3>1 DEF Round
    <2>2. GoodMarket(new)
        BY <1>2, <1>4
    <2>3. r.fetches + 1 \in 0 .. MaxFetches
        BY <1>1, <1>8
    <2> HIDE DEF new
    <2>4. Round(r, end, hist) = [mk |-> new, fetches |-> r.fetches + 1, over |-> r.over]
        BY <2>1, RunIs
    <2> QED
        BY <2>2, <2>3, <2>4, RunOf
<1>9. r.fetches = MaxFetches \/ r.fetches < MaxFetches
    BY <1>1
<1> QED
    BY <1>5, <1>6, <1>7, <1>8, <1>9

\* The loop, however many windows it goes through.
LEMMA LoopGood ==
    ASSUME BarInv, NEW hist, GoodMarket(Fresh(market))
    PROVE  GoodMarket(UpdatedMarket(hist))
<1>1. PICK run : /\ run = [n \in Nat |-> IF n = 0 THEN Outset ELSE Went(run[n - 1], hist)]
                 /\ UpdatedMarket(hist) = run[DayLen \div Width].mk
    BY RunExists
<1>2. \A n \in Nat : run[n] = IF n = 0 THEN Outset ELSE Went(run[n - 1], hist)
    BY <1>1
<1>3. RunInv(Outset)
    <2>1. 0 \in 0 .. MaxFetches
        BY EmaAssumption
    <2> QED
        BY <2>1, RunOf DEF Outset
<1>4. \A r : RunInv(r) => RunInv(Went(r, hist))
    <2> SUFFICES ASSUME NEW r, RunInv(r) PROVE RunInv(Went(r, hist))
        OBVIOUS
    <2>1. CASE r.over \/ now < r.mk.next
        BY <2>1 DEF Went
    <2>2. CASE ~(r.over \/ now < r.mk.next)
        <3>1. PICK end \in Nat : end = r.mk.next /\ end <= now
            <4>1. r.mk.next \in Nat /\ now \in Nat
                BY DEF RunInv, GoodMarket, IsMarket, BarInv
            <4> QED
                BY <2>2, <4>1
        <3> QED
            BY <2>2, <3>1, RoundGood DEF Went
    <2> QED
        BY <2>1, <2>2
<1>5. ASSUME NEW n \in Nat PROVE RunInv(run[n])
    <2> DEFINE B == {k \in Nat : ~RunInv(run[k])}
    <2> SUFFICES ASSUME B # {} PROVE FALSE
        OBVIOUS
    <2>1. PICK k \in B : \A j \in B : k <= j
        <3>1. B \in SUBSET Nat
            OBVIOUS
        <3> HIDE DEF B
        <3> QED
            BY <3>1, Least
    <2>2. k # 0
        BY <1>2, <1>3, <2>1
    <2>3. k - 1 \in Nat /\ k - 1 \notin B
        BY <2>1, <2>2
    <2>4. run[k] = Went(run[k - 1], hist)
        BY <1>2, <2>1, <2>2
    <2> QED
        BY <1>4, <2>1, <2>3, <2>4
<1>6. DayLen \div Width \in Nat
    <2>1. DayLen \in Nat /\ Width \in Nat \ {0}
        BY EmaAssumption
    <2> QED
        BY <2>1
<1> QED
    BY <1>1, <1>5, <1>6 DEF RunInv

\* A new day begins after all that was sent on before.
LEMMA ResetGood ==
    ASSUME BarInv, Shaped, TrigInv, market.day # Today
    PROVE  GoodMarket(Reset(market))
<1>1. /\ DayLen \in Nat \ {0} /\ Width \in Nat \ {0} /\ Today \in Nat /\ Today * DayLen \in Nat /\ now \in Nat
    BY Lengths DEF BarInv
<1>2. PICK b \in Nat : b = Today * DayLen
    BY <1>1
<1>3. PICK d \in Int : d = market.day /\ d < Today
    BY <1>1 DEF TrigInv, IsMarket, DayInv
<1>4. PICK c \in Int : c = d * DayLen /\ c <= b
    <2>1. d <= Today /\ d \in Int
        BY <1>1, <1>3
    <2> QED
        BY <1>1, <1>2, <2>1, LaterDay
<1>5. PICK a \in Int : a = (d + 1) * DayLen /\ a <= b
    <2>1. d + 1 <= Today /\ d + 1 \in Int
        BY <1>1, <1>3
    <2> QED
        BY <1>1, <1>2, <2>1, LaterDay
<1>6. PICK new : new = Reset(market)
    OBVIOUS
<1>7. new = [day |-> Today, ema |-> 0, next |-> b + Width, sig |-> None, trig |-> None,
             failed |-> market.failed]
    BY <1>2, <1>6 DEF Reset, Unstarted
<1>8. /\ new.day = Today /\ new.ema = 0 /\ new.next = b + Width /\ new.sig = None /\ new.trig = None
      /\ new.failed = market.failed
    BY <1>7
<1>9. IsMarket(new) /\ DayInv(new)
    <2>1. b + Width \in Nat /\ Today \in Int /\ Today # -1 /\ Today <= Today
        BY <1>1, <1>2
    <2>2. new = [day |-> new.day, ema |-> new.ema, next |-> new.next, sig |-> new.sig,
                 trig |-> new.trig, failed |-> new.failed]
        BY <1>7, <1>8
    <2>3. IsMarket(new)
        BY <1>8, <2>1, <2>2 DEF IsMarket
    <2>4. DayInv(new)
        BY <1>1, <1>2, <1>8, <2>1 DEF DayInv
    <2> QED
        BY <2>3, <2>4
<1>10. ASSUME NEW s \in Strats PROVE SentInv(new, sent[s], Counters(s).consumed)
    <2>1. Counters(s).consumed = 0
        <3>1. PICK o : o = own[s] /\ IsOwn(o)
            BY DEF Shaped
        <3>2. Counters(s) = [o EXCEPT !.trades = 0, !.consumed = 0]
            BY <3>1 DEF Counters
        <3> QED
            BY <3>1, <3>2 DEF IsOwn
    <2>2. SentInv(market, sent[s], own[s].consumed)
        BY DEF TrigInv
    <2>3. ASSUME NEW i \in DOMAIN sent[s]
          PROVE  sent[s][i] \in Nat /\ sent[s][i] <= now /\ Old(sent[s][i], new)
        <3>1. PICK e \in Nat : e = sent[s][i] /\ e <= now
                               /\ (Old(e, market) \/ Recent(e, market, own[s].consumed))
            BY <2>2 DEF SentInv
        <3>2. (\A m \in ticked : e <= m) \/ e <= b
            <4>1. CASE Old(e, market)
                <5>1. (\A m \in ticked : e <= m) \/ e <= c
                    BY <1>3, <1>4, <4>1 DEF Old
                <5>2. CASE e <= c
                    BY <1>4, <5>2
                <5> QED
                    BY <5>1, <5>2
            <4>2. CASE Recent(e, market, own[s].consumed)
                <5>1. e < a
                    BY <1>3, <1>5, <4>2 DEF Recent
                <5> QED
                    BY <1>5, <5>1
            <4> QED
                BY <3>1, <4>1, <4>2
        <3>3. Old(e, new)
            BY <1>2, <1>8, <3>2 DEF Old
        <3> QED
            BY <3>1, <3>3
    <2>4. \A i, j \in DOMAIN sent[s] : i < j => sent[s][i] < sent[s][j]
        BY <2>2 DEF SentInv
    <2>5. 0 \in Nat /\ 0 <= b + Width
        BY <1>1
    <2> QED
        BY <1>8, <2>1, <2>3, <2>4, <2>5 DEF SentInv
<1> QED
    BY <1>6, <1>8, <1>9, <1>10 DEF GoodMarket

\* The market state the loop starts from.
LEMMA FreshGood == ASSUME BarInv, Shaped, TrigInv PROVE GoodMarket(Fresh(market))
<1>1. CASE market.day = Today
    <2>1. Fresh(market) = market /\ \A s \in Strats : Counters(s) = own[s]
        BY <1>1 DEF Fresh, Counters
    <2> QED
        BY <1>1, <2>1 DEF GoodMarket, TrigInv
<1>2. CASE market.day # Today
    BY <1>2, ResetGood DEF Fresh
<1> QED
    BY <1>1, <1>2

-----------------------------------------------------------------------------
(* TrigInv is an invariant *)

\* Before the first trigger.
LEMMA InitTrigInv == Init => TrigInv
<1> SUFFICES ASSUME Init PROVE TrigInv
    OBVIOUS
<1>1. /\ market = Unstarted /\ DOMAIN sent = Strats
      /\ \A s \in Strats : sent[s] = <<>> /\ own[s].consumed = 0
    BY DEF Init, Unused
<1>2. IsMarket(Unstarted) /\ DayInv(Unstarted) /\ Unstarted.next = 0 /\ Unstarted.trig = None
    BY DEF IsMarket, DayInv, Unstarted
<1>3. SentInv(Unstarted, <<>>, 0)
    BY <1>2 DEF SentInv
<1> QED
    BY <1>1, <1>2, <1>3, EmptySeq DEF TrigInv

\* A look at the contexts leaves the last trigger.
LEMMA SyncedKeeps == ASSUME NEW s, NEW o, IsOwn(o) PROVE Synced(s, o).consumed = o.consumed
BY DEF Synced, IsOwn

\* The market state after the loop, when nothing is sent.
LEMMA NothingSent ==
    ASSUME NEW mk, GoodMarket(mk), TrigInv, now' = now, ticked' = ticked, market' = mk, sent' = sent,
           \A s \in Strats : own'[s].consumed = Counters(s).consumed
    PROVE  TrigInv'
<1>1. IsMarket(market)' /\ DayInv(market)'
    <2>1. IsMarket(mk) /\ DayInv(mk)
        BY DEF GoodMarket
    <2> QED
        BY <2>1 DEF IsMarket, DayInv, Today
<1>2. ASSUME NEW s \in Strats PROVE (sent[s] \in Seq(Nat) /\ SentInv(market, sent[s], own[s].consumed))'
    <2>1. SentInv(mk, sent[s], Counters(s).consumed) /\ sent[s] \in Seq(Nat)
        BY DEF GoodMarket, TrigInv
    <2> QED
        BY <2>1 DEF SentInv, Old, Recent
<1> QED
    BY <1>1, <1>2 DEF TrigInv

\* A trigger sent on is younger than all before it.
LEMMA SentOn ==
    ASSUME BarInv, NEW mk, GoodMarket(mk), NEW past \in Seq(Nat), NEW last, SentInv(mk, past, last),
           mk.trig # None, last # mk.trig.at
    PROVE  Append(past, mk.trig.at) \in Seq(Nat)
           /\ SentInv(mk, Append(past, mk.trig.at), mk.trig.at)
<1>1. PICK t \in Nat : t = mk.trig.at /\ t <= mk.next /\ t <= now
    BY DEF GoodMarket, IsMarket
<1>2. last \in Nat /\ last < t
    BY <1>1 DEF SentInv
<1>3. PICK n \in Nat : n = Len(past) /\ DOMAIN past = 1 .. n
    BY LenProperties
<1>4. PICK new : new = Append(past, t)
    OBVIOUS
<1>5. new \in Seq(Nat) /\ DOMAIN new = 1 .. n + 1 /\ new[n + 1] = t /\ \A i \in 1 .. n : new[i] = past[i]
    BY <1>3, <1>4, AppendProperties
<1>6. Recent(t, mk, t)
    <2>1. mk.day = Today /\ now < (Today + 1) * DayLen /\ (Today + 1) * DayLen \in Nat /\ now \in Nat
        BY Lengths DEF GoodMarket, BarInv
    <2>2. PICK a \in Nat : a = (mk.day + 1) * DayLen /\ now < a
        BY <2>1
    <2>3. t < a
        BY <1>1, <2>1, <2>2
    <2> QED
        BY <2>2, <2>3 DEF Recent
<1>7. ASSUME NEW i \in 1 .. n
      PROVE  past[i] \in Nat /\ past[i] <= now /\ past[i] < t
             /\ (Old(past[i], mk) \/ Recent(past[i], mk, t))
    <2>1. PICK e \in Nat : e = past[i] /\ e <= now /\ (Old(e, mk) \/ Recent(e, mk, last))
        BY <1>3 DEF SentInv
    <2>2. CASE Old(e, mk)
        <3>1. e < t
            BY <1>1, <2>2 DEF Old
        <3> QED
            BY <2>1, <2>2, <3>1
    <2>3. CASE Recent(e, mk, last)
        <3>1. e <= last
            BY <2>3 DEF Recent
        <3>2. e < t /\ e <= t
            BY <1>2, <3>1
        <3>3. Recent(e, mk, t)
            BY <2>3, <3>2 DEF Recent
        <3> QED
            BY <2>1, <3>2, <3>3
    <2> QED
        BY <2>1, <2>2, <2>3
<1>8. \A i \in 1 .. n + 1 : new[i] \in Nat /\ new[i] <= now /\ (Old(new[i], mk) \/ Recent(new[i], mk, t))
    <2> SUFFICES ASSUME NEW i \in 1 .. n + 1
                 PROVE  new[i] \in Nat /\ new[i] <= now /\ (Old(new[i], mk) \/ Recent(new[i], mk, t))
        OBVIOUS
    <2>1. CASE i = n + 1
        BY <1>1, <1>5, <1>6, <2>1
    <2>2. CASE i \in 1 .. n
        BY <1>5, <1>7, <2>2
    <2> QED
        BY <1>3, <2>1, <2>2
<1>9. \A i, j \in 1 .. n + 1 : i < j => new[i] < new[j]
    <2> SUFFICES ASSUME NEW i \in 1 .. n + 1, NEW j \in 1 .. n + 1, i < j PROVE new[i] < new[j]
        OBVIOUS
    <2>1. i \in 1 .. n /\ new[i] = past[i]
        BY <1>3, <1>5
    <2>2. CASE j = n + 1
        BY <1>5, <1>7, <2>1, <2>2
    <2>3. CASE j \in 1 .. n
        <3>1. past[i] < past[j]
            BY <1>3, <2>1, <2>3 DEF SentInv
        <3> QED
            BY <1>5, <2>1, <2>3, <3>1
    <2> QED
        BY <1>3, <2>2, <2>3
<1>10. SentInv(mk, new, t)
    BY <1>1, <1>5, <1>8, <1>9 DEF SentInv
<1> QED
    BY <1>1, <1>4, <1>5, <1>10

\* Steps that leave the market state, what was sent and the last trigger alone; one may be a tick.
LEMMA MarketKept ==
    ASSUME TrigInv, market' = market, sent' = sent, now' = now,
           \A s \in Strats : own'[s].consumed = own[s].consumed,
           ticked' = ticked \/ (ticked' = ticked \cup {now} /\ now \in Nat)
    PROVE  TrigInv'
<1>1. IsMarket(market)' /\ DayInv(market)'
    BY DEF TrigInv, IsMarket, DayInv, Today
<1>2. ASSUME NEW s \in Strats PROVE (sent[s] \in Seq(Nat) /\ SentInv(market, sent[s], own[s].consumed))'
    <2>1. SentInv(market, sent[s], own[s].consumed) /\ sent[s] \in Seq(Nat)
        BY DEF TrigInv
    <2>2. ASSUME NEW e \in Nat, e <= now, Old(e, market) PROVE Old(e, market)'
        BY <2>2 DEF Old
    <2>3. \A e, l : Recent(e, market, l) => Recent(e, market, l)'
        BY DEF Recent
    <2>4. \A i \in DOMAIN sent[s] :
            (Old(sent[s][i], market) \/ Recent(sent[s][i], market, own[s].consumed))'
        <3> SUFFICES ASSUME NEW i \in DOMAIN sent[s]
                     PROVE  (Old(sent[s][i], market) \/ Recent(sent[s][i], market, own[s].consumed))'
            OBVIOUS
        <3>1. PICK e \in Nat : e = sent[s][i] /\ e <= now
                               /\ (Old(e, market) \/ Recent(e, market, own[s].consumed))
            BY <2>1 DEF SentInv
        <3>2. CASE Old(e, market)
            BY <2>2, <3>1, <3>2
        <3>3. CASE Recent(e, market, own[s].consumed)
            BY <3>1, <3>3 DEF Recent
        <3> QED
            BY <3>1, <3>2, <3>3
    <2> QED
        BY <2>1, <2>4 DEF SentInv
<1> QED
    BY <1>1, <1>2 DEF TrigInv

\* The clock moves on.
LEMMA TrigMinute == ASSUME BarInv, TrigInv, Minute PROVE TrigInv'
<1>1. PICK n \in Nat : n = now /\ now' = n + 1
    BY DEF BarInv, Minute
<1>2. DayLen \in Nat \ {0}
    BY EmaAssumption
<1>3. PICK a \in Nat : a = Today /\ a * DayLen <= n
    BY <1>1, <1>2, DayIs DEF Today
<1>4. PICK b \in Nat : b = Today' /\ n + 1 < (b + 1) * DayLen
    <2>1. PICK k \in Nat : k = n + 1
        OBVIOUS
    <2>2. k \div DayLen \in Nat /\ k < (k \div DayLen + 1) * DayLen
        BY <1>2, DayIs
    <2> QED
        BY <1>1, <2>1, <2>2 DEF Today
<1>5. a <= b
    <2> SUFFICES ASSUME b + 1 <= a PROVE FALSE
        OBVIOUS
    <2>1. (b + 1) * DayLen <= a * DayLen
        BY <1>2, LaterDay
    <2>2. PICK x \in Nat, y \in Nat : x = (b + 1) * DayLen /\ y = a * DayLen
        BY <1>2
    <2> QED
        BY <1>1, <1>3, <1>4, <2>1, <2>2
<1>6. market' = market /\ sent' = sent /\ own' = own /\ ticked' = ticked
    BY DEF Minute, barVars
<1>7. IsMarket(market)'
    <2>1. market.trig # None => market.trig.at <= now'
        <3> SUFFICES ASSUME market.trig # None PROVE market.trig.at <= now'
            OBVIOUS
        <3>1. PICK t \in Nat : t = market.trig.at /\ t <= n
            BY <1>1 DEF TrigInv, IsMarket
        <3> QED
            BY <1>1, <3>1
    <2> QED
        BY <1>6, <2>1 DEF TrigInv, IsMarket
<1>8. DayInv(market)'
    <2>1. CASE market.day = -1
        BY <1>6, <2>1 DEF TrigInv, DayInv
    <2>2. CASE market.day # -1
        <3>1. PICK d \in Nat : d = market.day /\ d <= a /\ d * DayLen + Width <= market.next
            BY <1>3, <2>2 DEF TrigInv, DayInv
        <3>2. d <= b
            BY <1>5, <3>1
        <3> QED
            BY <1>4, <1>6, <2>2, <3>1, <3>2 DEF DayInv
    <2> QED
        BY <2>1, <2>2
<1>9. ASSUME NEW s \in Strats PROVE (sent[s] \in Seq(Nat) /\ SentInv(market, sent[s], own[s].consumed))'
    <2>1. SentInv(market, sent[s], own[s].consumed) /\ sent[s] \in Seq(Nat)
        BY DEF TrigInv
    <2>2. \A i \in DOMAIN sent[s] : sent[s][i] <= now'
        <3> SUFFICES ASSUME NEW i \in DOMAIN sent[s] PROVE sent[s][i] <= now'
            OBVIOUS
        <3>1. PICK e \in Nat : e = sent[s][i] /\ e <= n
            BY <1>1, <2>1 DEF SentInv
        <3> QED
            BY <1>1, <3>1
    <2> QED
        BY <1>6, <2>1, <2>2 DEF SentInv, Old, Recent
<1> QED
    BY <1>6, <1>7, <1>8, <1>9 DEF TrigInv

\* A poll that enters, and one that does not (poll_intents).
LEMMA TrigPoll ==
    ASSUME BarInv, Shaped, TrigInv, NEW s \in Strats, NEW hist \in Histories, NEW approved \in BOOLEAN,
           Poll(s, hist, approved)
    PROVE  TrigInv'
<1> DEFINE mine == Synced(s, Counters(s))
           entered == [mine EXCEPT !.trades = @ + 1, !.consumed = UpdatedMarket(hist).trig.at,
                                   !.pending = UpdatedMarket(hist).trig]
<1>1. PICK mk : mk = UpdatedMarket(hist)
    OBVIOUS
<1>2. GoodMarket(mk)
    BY <1>1, FreshGood, LoopGood
<1>3. market' = mk /\ now' = now /\ ticked' = ticked
    BY <1>1 DEF Poll, Refresh, Read, barVars
<1>4. IsOwn(mine) /\ mine.consumed = Counters(s).consumed
    <2>1. IsOwn(Counters(s)) /\ ~Open(s)
        BY CountersKeep DEF Poll, IsFlat, Open
    <2> QED
        BY <2>1, SyncedKeeps, SyncedFlat
<1>5. CASE ~Wants(mk, mine)
    <2>1. own' = [x \in Strats |-> IF x = s THEN mine ELSE Counters(x)] /\ sent' = sent
        BY <1>1, <1>5 DEF Poll
    <2> HIDE DEF mine
    <2>2. \A x \in Strats : own'[x].consumed = Counters(x).consumed
        BY <1>4, <2>1
    <2> QED
        BY <1>2, <1>3, <2>1, <2>2, NothingSent
<1>6. CASE Wants(mk, mine)
    <2>1. /\ own' = [x \in Strats |-> IF x = s THEN entered ELSE Counters(x)]
          /\ sent' = [sent EXCEPT ![s] = Append(@, mk.trig.at)]
        BY <1>1, <1>6 DEF Poll
    <2>2. mk.trig # None /\ mine.consumed # mk.trig.at
        BY <1>6 DEF Wants
    <2> HIDE DEF mine
    <2>3. entered.consumed = mk.trig.at
        BY <1>1, <1>4 DEF IsOwn
    <2> HIDE DEF entered
    <2>4. PICK past, last : past = sent[s] /\ last = Counters(s).consumed
        OBVIOUS
    <2>5. past \in Seq(Nat) /\ SentInv(mk, past, last) /\ last # mk.trig.at
        BY <1>2, <1>4, <2>2, <2>4 DEF GoodMarket, TrigInv
    <2>6. PICK t : t = mk.trig.at
        OBVIOUS
    <2>7. Append(past, t) \in Seq(Nat) /\ SentInv(mk, Append(past, t), t)
        BY <1>2, <2>2, <2>5, <2>6, SentOn
    <2>8. IsMarket(market)' /\ DayInv(market)'
        BY <1>2, <1>3 DEF GoodMarket, IsMarket, DayInv, Today
    <2>9. ASSUME NEW x \in Strats
          PROVE  (sent[x] \in Seq(Nat) /\ SentInv(market, sent[x], own[x].consumed))'
        <3>1. PICK new, l : new = sent'[x] /\ l = own'[x].consumed
            OBVIOUS
        <3>2. new \in Seq(Nat) /\ SentInv(mk, new, l)
            <4>1. CASE x = s
                <5>1. new = Append(past, t)
                    BY <2>1, <2>4, <2>6, <3>1, <4>1 DEF TrigInv
                <5>2. l = t
                    BY <2>1, <2>3, <2>6, <3>1, <4>1
                <5> QED
                    BY <2>7, <5>1, <5>2
            <4>2. CASE x # s
                <5>1. new = sent[x] /\ l = Counters(x).consumed
                    BY <2>1, <3>1, <4>2
                <5> QED
                    BY <1>2, <5>1 DEF GoodMarket, TrigInv
            <4> QED
                BY <4>1, <4>2
        <3> QED
            BY <1>3, <3>1, <3>2 DEF SentInv, Old, Recent
    <2>10. DOMAIN sent' = Strats
        BY <2>1 DEF TrigInv
    <2> QED
        BY <2>8, <2>9, <2>10 DEF TrigInv
<1> QED
    BY <1>5, <1>6

\* A look at an open position sends nothing on a trigger (collect_strategy_exits).
LEMMA TrigCollect ==
    ASSUME BarInv, Shaped, CtxInv, TrigInv, NEW s \in Strats, NEW hist \in Histories,
           NEW mid \in Premiums, CollectExits(s, hist, mid)
    PROVE  TrigInv'
<1> DEFINE mine == Synced(s, Counters(s))
           ctx == Looked(s, mine.ctx, mid)
<1>1. GoodMarket(UpdatedMarket(hist))
    BY FreshGood, LoopGood
<1>2. market' = UpdatedMarket(hist) /\ now' = now /\ ticked' = ticked /\ sent' = sent
    BY DEF CollectExits, Read
<1>3. IsOwn(mine) /\ mine.consumed = Counters(s).consumed
    <2>1. IsOwn(Counters(s)) /\ Open(s) /\ Matches(Counters(s), pos[s])
        BY CountersKeep DEF CollectExits, Open, CtxInv, Matches
    <2> QED
        BY <2>1, SyncedKeeps, SyncedOpen
<1>4. own' = [x \in Strats |-> IF x = s THEN [mine EXCEPT !.ctx = ctx] ELSE Counters(x)]
    BY DEF CollectExits
<1> HIDE DEF mine, ctx
<1>5. [mine EXCEPT !.ctx = ctx].consumed = mine.consumed
    BY <1>3 DEF IsOwn
<1>6. \A x \in Strats : own'[x].consumed = Counters(x).consumed
    BY <1>3, <1>4, <1>5
<1> QED
    BY <1>1, <1>2, <1>6, NothingSent

\* A restart forgets the ticks, the market state and what was entered on.
LEMMA TrigRestart == ASSUME BarInv, TrigInv, Restart PROVE TrigInv'
<1>1. /\ market' = Unstarted /\ own' = [s \in Strats |-> Unused] /\ ticked' = {} /\ now' = now
      /\ sent' = sent
    BY DEF Restart, Forget
<1>2. /\ IsMarket(Unstarted) /\ DayInv(Unstarted) /\ Unstarted.next = 0 /\ Unstarted.trig = None
      /\ Unstarted.sig = None
    BY DEF IsMarket, DayInv, Unstarted
<1>3. IsMarket(market)' /\ DayInv(market)'
    BY <1>1, <1>2 DEF IsMarket, DayInv, Today
<1>4. ASSUME NEW s \in Strats PROVE (sent[s] \in Seq(Nat) /\ SentInv(market, sent[s], own[s].consumed))'
    <2>1. SentInv(market, sent[s], own[s].consumed) /\ sent[s] \in Seq(Nat)
        BY DEF TrigInv
    <2>2. own'[s].consumed = 0
        BY <1>1 DEF Unused
    <2>3. \A e : Old(e, market)'
        BY <1>1, <1>2 DEF Old
    <2>4. market'.next = 0 /\ market'.trig = None
        BY <1>1, <1>2
    <2> QED
        BY <1>1, <2>1, <2>2, <2>3, <2>4 DEF SentInv
<1> QED
    BY <1>1, <1>3, <1>4 DEF TrigInv

\* Every step.
LEMMA TrigStep == BarInv /\ CtxInv /\ TrigInv /\ [Next]_vars => TrigInv'
<1> SUFFICES ASSUME BarInv, CtxInv, TrigInv, [Next]_vars PROVE TrigInv'
    OBVIOUS
<1>0. Shaped
    BY DEF CtxInv
<1>1. ASSUME NEW p \in Levels, Tick(p) PROVE TrigInv'
    <2>1. market' = market /\ sent' = sent /\ now' = now /\ own' = own /\ ticked' = ticked \cup {now}
          /\ now \in Nat
        BY <1>1 DEF Tick, OnTick, BarInv
    <2> QED
        BY <2>1, MarketKept
<1>2. CASE Minute
    BY <1>2, TrigMinute
<1>3. ASSUME NEW s \in Strats, NEW hist \in Histories, NEW approved \in BOOLEAN, Poll(s, hist, approved)
      PROVE  TrigInv'
    BY <1>0, <1>3, TrigPoll
<1>4. ASSUME NEW s \in Strats, NEW hist \in Histories, NEW mid \in Premiums, CollectExits(s, hist, mid)
      PROVE  TrigInv'
    BY <1>0, <1>4, TrigCollect
<1>5. ASSUME NEW s \in Strats, EntryFills(s) \/ OrderEnds(s) \/ ExitFills(s) PROVE TrigInv'
    <2>1. market' = market /\ sent' = sent /\ now' = now /\ own' = own /\ ticked' = ticked
        BY <1>5 DEF EntryFills, OrderEnds, ExitFills, barVars
    <2> QED
        BY <2>1, MarketKept
<1>6. CASE Restart
    BY <1>6, TrigRestart
<1>7. CASE UNCHANGED vars
    <2>1. market' = market /\ sent' = sent /\ now' = now /\ own' = own /\ ticked' = ticked
        BY <1>7 DEF vars, barVars
    <2> QED
        BY <2>1, MarketKept
<1> QED
    BY <1>1, <1>2, <1>3, <1>4, <1>5, <1>6, <1>7 DEF Next

\* The triggers a strategy sends on are younger and younger, so none comes twice.
LEMMA TriggersFollow == TrigInv => OncePerTrigger
<1> SUFFICES ASSUME TrigInv, NEW s \in Strats PROVE IsInjective(sent[s])
    BY DEF OncePerTrigger
<1> SUFFICES ASSUME NEW i \in DOMAIN sent[s], NEW j \in DOMAIN sent[s], sent[s][i] = sent[s][j]
             PROVE  i = j
    BY DEF IsInjective
<1>1. i \in Nat /\ j \in Nat
    BY LenProperties DEF TrigInv
<1>2. PICK e \in Nat : e = sent[s][i] /\ e = sent[s][j]
    BY DEF TrigInv, SentInv
<1>3. ~(i < j) /\ ~(j < i)
    <2>1. i < j => e < e
        BY <1>2 DEF TrigInv, SentInv
    <2>2. j < i => e < e
        BY <1>2 DEF TrigInv, SentInv
    <2> QED
        BY <2>1, <2>2
<1> QED
    BY <1>1, <1>3

\* No strategy enters twice on one trigger, over restarts and days, whatever closes the history
\* returns and whatever calls for them fail (poll_intents and _update_market_state).
THEOREM EntersOnce == Spec => []OncePerTrigger
<1> DEFINE Inv == BarInv /\ CtxInv /\ TrigInv
<1>1. Init => Inv
    BY InitBarInv, InitCtxInv, InitTrigInv
<1>2. Inv /\ [Next]_vars => Inv'
    BY BarStep, CtxStep, TrigStep
<1>3. Inv => OncePerTrigger
    BY TriggersFollow
<1> QED
    BY <1>1, <1>2, <1>3, PTL DEF Spec
=============================================================================
