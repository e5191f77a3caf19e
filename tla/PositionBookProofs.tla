-------------------------- MODULE PositionBookProofs --------------------------
(***************************************************************************)
(* Proofs about PositionBook, for any number of entries and exits of any   *)
(* size.  TypeOK and Numbered hold by themselves.  In a smooth market the  *)
(* book is the sum of the executions handed over (SmoothInv, Book = Told), *)
(* which holds because at most one entry and one unfinished exit are about *)
(* at a time, on opposite sides, and because an exit never asks for more   *)
(* than the position has left: SmoothInv names those parts.  OneSide, of   *)
(* a broker that modifies orders in place, needs none of that.             *)
(***************************************************************************)
EXTENDS PositionBook, SumProofs

\* Positions, and the positions exits are for, are numbered from 1; an exit that is
\* being prepared has a quantity.
Numbered ==
    /\ Open => pos.id > 0
    /\ pc # "idle" => intent.id > 0
    /\ pc \in {"cancel", "submit"} => intent.qty > 0

\* Nothing is replaced by a broker client that modifies orders.
InPlaceOnly == ~mode.replaces => \A i \in Placed : ord[i].st \notin {"soft", "gap"}

\* All working orders are on one side, that of an exit under way and of the one
\* about to be submitted.
OneSide ==
    ~mode.replaces =>
        /\ \A i, j \in Placed : ord[i].st = "working" /\ ord[j].st = "working" => ord[i].buy = ord[j].buy
        /\ \A i \in Exits, j \in Entries : Active(i) /\ ord[j].st = "working" => ord[i].buy = ord[j].buy
        /\ pc = "submit" => \A i \in Placed : ord[i].st = "working" => ord[i].buy = intent.buy

\* Exits that may still reduce the position.
Unfinished == {i \in Exits : Active(i) /\ ord[i].told < ord[i].qty}

\* All executions of an order that is over have been handed over.
OverIsTold == \A i \in Placed : ord[i].st = "over" => ord[i].told = ord[i].done

\* At most one entry is active, and it is on the side of the open position.
EntriesOpen ==
    /\ \A i, j \in Entries : Active(i) /\ Active(j) => i = j
    /\ \A i \in Entries : Active(i) /\ Open => ord[i].buy = pos.long

\* At most one exit is unfinished; it is for the open position and for no more than
\* that has.
ExitsClose ==
    /\ \A i \in Placed : ord[i].pid <= pos.id
    /\ \A i \in Unfinished :
          /\ Open /\ ord[i].pid = pos.id /\ ord[i].buy # pos.long
          /\ ord[i].qty - ord[i].told <= pos.qty
    /\ \A i, j \in Unfinished : i = j

\* An exit is prepared for the open position, which has no other; entry remainders
\* can add to the position meanwhile, nothing can take from it.
Deciding ==
    /\ pc # "idle" => Open /\ pos.id = intent.id /\ ~HasExit(pos.id)
    /\ pc \in {"cancel", "submit"} => intent.buy # pos.long /\ intent.qty <= pos.qty

ToldOf == [i \in Placed |-> Signed(ord[i].buy, ord[i].told)]
WayOf == [i \in Placed |-> Signed(ord[i].buy, Undelivered(i))]
DoneOf == [i \in Placed |-> Signed(ord[i].buy, ord[i].done)]
LeftOf == [i \in Placed |-> Remaining(i)]

\* The executions handed over.
Told == SumOf(ToldOf, Placed)

SmoothInv == Smooth => OverIsTold /\ EntriesOpen /\ ExitsClose /\ Deciding /\ Book = Told

IInv == InPlaceOnly /\ OneSide /\ SmoothInv

-----------------------------------------------------------------------------
(* Sequences of orders *)

\* One order changes.
LEMMA SetOrder ==
    ASSUME ord \in Seq(Order), NEW i \in Placed, NEW r \in Order, Set(i, r)
    PROVE  /\ ord' \in Seq(Order) /\ Placed' = Placed
           /\ ord'[i] = r /\ \A j \in Placed : j # i => ord'[j] = ord[j]
BY DEF Set, Placed

\* One order more.
LEMMA OneMore ==
    ASSUME ord \in Seq(Order), NEW r \in Order, ord' = Append(ord, r)
    PROVE  \E n \in Nat : /\ ord' \in Seq(Order) /\ n \notin Placed /\ Placed' = Placed \cup {n}
                          /\ ord'[n] = r /\ \A j \in Placed : ord'[j] = ord[j]
<1>1. Len(ord) + 1 \in Nat /\ Len(ord) + 1 \notin Placed
    BY DEF Placed
<1>2. ord' \in Seq(Order) /\ Len(ord') = Len(ord) + 1
    OBVIOUS
<1>3. Placed' = Placed \cup {Len(ord) + 1}
    BY <1>2 DEF Placed
<1>4. ord'[Len(ord) + 1] = r /\ \A j \in Placed : ord'[j] = ord[j]
    BY DEF Placed
<1> QED
    BY <1>1, <1>2, <1>3, <1>4

\* Only finitely many orders have been placed.
LEMMA PlacedFinite == ASSUME ord \in Seq(Order) PROVE IsFiniteSet(Placed)
<1>1. Placed = 1 .. Len(ord) /\ Len(ord) \in Nat
    BY DEF Placed
<1> QED
    BY <1>1, FS_Interval

\* The fields of an order.
LEMMA Fields ==
    ASSUME ord \in Seq(Order), NEW i \in Placed
    PROVE  /\ ord[i] \in Order
           /\ ord[i].pid \in Nat /\ ord[i].buy \in BOOLEAN /\ ord[i].qty \in Nat
           /\ ord[i].st \in {"working", "pending", "soft", "gap", "over"} /\ ord[i].live \in BOOLEAN
           /\ ord[i].done \in Nat /\ ord[i].told \in Nat
<1>1. ord[i] \in Order
    BY DEF Placed
<1> QED
    BY <1>1 DEF Order, ActiveStatus

\* A smaller of two numbers.
LEMMA Smaller == ASSUME NEW a \in Int, NEW b \in Int PROVE Min({a, b}) = IF a <= b THEN a ELSE b
<1>1. CASE a <= b
    <2>1. /\ a \in {a, b} /\ \A y \in {a, b} : a <= y
          /\ \A x \in {a, b} : (\A y \in {a, b} : x <= y) => x = a
        BY <1>1
    <2> QED
        BY <1>1, <2>1 DEF Min
<1>2. CASE ~(a <= b)
    <2>1. /\ b \in {a, b} /\ \A y \in {a, b} : b <= y
          /\ \A x \in {a, b} : (\A y \in {a, b} : x <= y) => x = b
        BY <1>2
    <2> QED
        BY <1>2, <2>1 DEF Min
<1> QED
    BY <1>1, <1>2

-----------------------------------------------------------------------------
(* Types and numbers *)

Statuses == ActiveStatus \cup {"gap", "over"}

\* An order with one field changed.
LEMMA WithStatus ==
    ASSUME NEW q \in Order, NEW s \in Statuses, NEW r, r = [q EXCEPT !.st = s]
    PROVE  /\ r \in Order /\ r.st = s /\ r.pid = q.pid /\ r.buy = q.buy /\ r.qty = q.qty
           /\ r.live = q.live /\ r.done = q.done /\ r.told = q.told
BY DEF Order, Statuses, ActiveStatus

\* ... its liveness ...
LEMMA WithLive ==
    ASSUME NEW q \in Order, NEW l \in BOOLEAN, NEW r, r = [q EXCEPT !.live = l]
    PROVE  /\ r \in Order /\ r.st = q.st /\ r.pid = q.pid /\ r.buy = q.buy /\ r.qty = q.qty
           /\ r.live = l /\ r.done = q.done /\ r.told = q.told
BY DEF Order

\* ... what has been executed of it ...
LEMMA WithDone ==
    ASSUME NEW q \in Order, NEW d \in Nat, NEW r, r = [q EXCEPT !.done = d]
    PROVE  /\ r \in Order /\ r.st = q.st /\ r.pid = q.pid /\ r.buy = q.buy /\ r.qty = q.qty
           /\ r.live = q.live /\ r.done = d /\ r.told = q.told
BY DEF Order

\* ... what has been handed over of it.
LEMMA WithTold ==
    ASSUME NEW q \in Order, NEW t \in Nat, NEW r, r = [q EXCEPT !.told = t]
    PROVE  /\ r \in Order /\ r.st = q.st /\ r.pid = q.pid /\ r.buy = q.buy /\ r.qty = q.qty
           /\ r.live = q.live /\ r.done = q.done /\ r.told = t
BY DEF Order

\* What TypeOK says of an order besides the types of its fields.
Sane(r) ==
    /\ r.told <= r.done /\ r.done <= r.qty
    /\ r.live => r.qty - r.done > 0 /\ r.st \in ActiveStatus
    /\ r.st = "gap" => r.qty - r.done > 0

\* TypeOK, with what it says of the orders gathered.
LEMMA Sanity == TypeOK <=>
    /\ mode \in Modes /\ ord \in Seq(Order) /\ \A i \in Placed : Sane(ord[i])
    /\ pos \in [id : Nat, qty : Nat, long : BOOLEAN]
    /\ {latch, due} \subseteq BOOLEAN /\ flagged \subseteq Nat
    /\ tries \in 0 .. 5 /\ since \in 0 .. 2
    /\ pc \in {"idle", "quotes", "cancel", "submit"}
    /\ intent \in [id : Nat, buy : BOOLEAN, qty : Nat]
BY DEF TypeOK, Sane, Remaining, Active

\* ... and what the next state must satisfy.
Sound ==
    /\ mode \in Modes
    /\ pos \in [id : Nat, qty : Nat, long : BOOLEAN]
    /\ {latch, due} \subseteq BOOLEAN /\ flagged \subseteq Nat
    /\ tries \in 0 .. 5 /\ since \in 0 .. 2
    /\ pc \in {"idle", "quotes", "cancel", "submit"}
    /\ intent \in [id : Nat, buy : BOOLEAN, qty : Nat]

\* A change of one order keeps the types ...
LEMMA TypeSet ==
    ASSUME TypeOK, Sound', NEW i \in Placed, NEW r \in Order, Set(i, r), Sane(r)
    PROVE  TypeOK'
<1>1. ord \in Seq(Order) /\ \A j \in Placed : Sane(ord[j])
    BY Sanity
<1>2. /\ ord' \in Seq(Order) /\ Placed' = Placed
      /\ ord'[i] = r /\ \A j \in Placed : j # i => ord'[j] = ord[j]
    BY <1>1, SetOrder
<1>3. \A j \in Placed' : Sane(ord'[j])
    BY <1>1, <1>2
<1> HIDE DEF Sane
<1> QED
    BY <1>2, <1>3 DEF Sound, TypeOK, Sane, Remaining, Active

\* ... a new order ...
LEMMA TypeMore ==
    ASSUME TypeOK, Sound', NEW r \in Order, ord' = Append(ord, r), Sane(r)
    PROVE  TypeOK'
<1>1. ord \in Seq(Order) /\ \A j \in Placed : Sane(ord[j])
    BY Sanity
<1>2. PICK n \in Nat : /\ ord' \in Seq(Order) /\ n \notin Placed /\ Placed' = Placed \cup {n}
                       /\ ord'[n] = r /\ \A j \in Placed : ord'[j] = ord[j]
    BY <1>1, OneMore
<1>3. \A j \in Placed' : Sane(ord'[j])
    BY <1>1, <1>2
<1> QED
    BY <1>2, <1>3 DEF Sound, TypeOK, Sane, Remaining, Active

\* ... and no change of the orders.
LEMMA TypeSame == ASSUME TypeOK, Sound', ord' = ord PROVE TypeOK'
BY DEF Sound, TypeOK, Remaining, Active, Placed

\* The initial state is well typed.
LEMMA TypeInit == BookAssumption /\ Init => TypeOK /\ Numbered
<1> SUFFICES ASSUME BookAssumption, Init PROVE TypeOK /\ Numbered
    OBVIOUS
<1>1. ord = <<>> /\ ord \in Seq(Order) /\ Placed = {}
    BY DEF Init, Placed
<1>2. mode \in Modes /\ {latch, due} \subseteq BOOLEAN /\ flagged \subseteq Nat
    BY DEF Init
<1>3. tries \in 0 .. 5 /\ since \in 0 .. 2 /\ pc = "idle"
    BY DEF Init
<1>4. pos \in [id : Nat, qty : Nat, long : BOOLEAN] /\ ~Open
    BY DEF Init, Nobody, Open
<1>5. intent \in [id : Nat, buy : BOOLEAN, qty : Nat]
    BY DEF Init, NoIntent, Nobody
<1>6. TypeOK
    BY <1>1, <1>2, <1>3, <1>4, <1>5 DEF TypeOK
<1> QED
    BY <1>3, <1>4, <1>6 DEF Numbered

\* What a fill makes of the position.
LEMMA FilledIs ==
    ASSUME pos \in [id : Nat, qty : Nat, long : BOOLEAN], NEW buy \in BOOLEAN, NEW n \in Nat, n > 0,
           NEW p, p = Filled(pos, buy, n)
    PROVE  /\ p \in [id : Nat, qty : Nat, long : BOOLEAN]
           /\ ~Open => p.id = pos.id + 1 /\ p.qty = n /\ p.long = buy
           /\ Open => p.id = pos.id /\ p.long = pos.long
           /\ Open /\ buy = pos.long => p.qty = pos.qty + n
           /\ Open /\ buy # pos.long => p.qty = IF n <= pos.qty THEN pos.qty - n ELSE 0
<1>1. pos.id \in Nat /\ pos.qty \in Nat /\ pos.long \in BOOLEAN
    OBVIOUS
<1>2. Min({n, pos.qty}) = IF n <= pos.qty THEN n ELSE pos.qty
    BY <1>1, Smaller
<1>3. CASE ~Open
    <2>1. pos.qty = 0 /\ pos.id + 1 \in Nat
        BY <1>1, <1>3 DEF Open
    <2>2. p = [id |-> pos.id + 1, qty |-> n, long |-> buy]
        BY <2>1 DEF Filled
    <2> QED
        BY <1>3, <2>1, <2>2
<1>4. CASE Open /\ buy = pos.long
    <2>1. p = [pos EXCEPT !.qty = pos.qty + n]
        BY <1>1, <1>4 DEF Filled, Open
    <2>2. pos.qty + n \in Nat
        BY <1>1
    <2> QED
        BY <1>1, <1>4, <2>1, <2>2
<1>5. CASE Open /\ buy # pos.long
    <2>1. PICK k : k = IF n <= pos.qty THEN pos.qty - n ELSE 0
        OBVIOUS
    <2>2. k \in Nat /\ pos.qty - Min({n, pos.qty}) = k
        BY <1>1, <1>2, <2>1
    <2>3. p = [pos EXCEPT !.qty = k]
        BY <1>1, <1>5, <2>2 DEF Filled, Open
    <2> QED
        BY <1>1, <1>5, <2>1, <2>2, <2>3
<1> QED
    BY <1>3, <1>4, <1>5

\* A step of an order that the exchange or OrderManager takes by itself.
OrderStep(i) ==
    Withdraw(i) \/ SoftCancel(i) \/ Replace(i) \/ Execute(i) \/ Expire(i) \/ ReportStatus(i)

\* It changes what is known of the order or what is executed of it, never what it is
\* for nor what has been handed over.
LEMMA OrderStepMakes ==
    ASSUME TypeOK, NEW i \in Placed, OrderStep(i)
    PROVE  \E r \in Order :
              /\ Set(i, r) /\ Sane(r)
              /\ r.pid = ord[i].pid /\ r.buy = ord[i].buy /\ r.qty = ord[i].qty /\ r.told = ord[i].told
              /\ UNCHANGED <<mode, pos, latch, flagged, due, tickVars>>
              /\ r.st = ord[i].st \/ (r.st = "pending" /\ Active(i)) \/ (r.st = "soft" /\ mode.replaces)
                 \/ (r.st = "working" /\ ord[i].st = "gap")
                 \/ (r.st = "gap" /\ ord[i].st = "soft")
                 \/ (r.st = "over" /\ ord[i].st = "gap")
                 \/ (r.st = "over" /\ r.done = ord[i].done /\ (mode.execsFirst => r.told = r.done))
              /\ r.done = ord[i].done \/ (r.st = ord[i].st /\ Active(i))
<1>1. PICK q : q = ord[i]
    OBVIOUS
<1>2. ord \in Seq(Order) /\ Sane(q)
    BY <1>1, Sanity
<1>3. /\ q \in Order /\ q.pid \in Nat /\ q.qty \in Nat /\ q.done \in Nat /\ q.told \in Nat
      /\ q.buy \in BOOLEAN /\ q.live \in BOOLEAN /\ q.st \in Statuses
    BY <1>1, <1>2, Fields DEF Statuses, ActiveStatus
<1>4. CASE Withdraw(i)
    <2>1. PICK r : r = [q EXCEPT !.st = "pending"]
        OBVIOUS
    <2>2. "pending" \in Statuses
        BY DEF Statuses, ActiveStatus
    <2>3. /\ r \in Order /\ r.st = "pending" /\ r.pid = q.pid /\ r.buy = q.buy /\ r.qty = q.qty
          /\ r.live = q.live /\ r.done = q.done /\ r.told = q.told
        BY <1>3, <2>1, <2>2, WithStatus
    <2>4. Set(i, r) /\ q.st \in {"working", "soft"} /\ UNCHANGED <<mode, pos, latch, flagged, due, tickVars>>
        BY <1>1, <1>4, <2>1 DEF Withdraw
    <2>5. Sane(r) /\ Active(i)
        BY <1>1, <1>2, <2>3, <2>4 DEF Sane, ActiveStatus, Active
    <2> QED
        BY <1>1, <2>3, <2>4, <2>5
<1>5. CASE SoftCancel(i)
    <2>1. PICK r : r = [q EXCEPT !.st = "soft"]
        OBVIOUS
    <2>2. "soft" \in Statuses
        BY DEF Statuses, ActiveStatus
    <2>3. /\ r \in Order /\ r.st = "soft" /\ r.pid = q.pid /\ r.buy = q.buy /\ r.qty = q.qty
          /\ r.live = q.live /\ r.done = q.done /\ r.told = q.told
        BY <1>3, <2>1, <2>2, WithStatus
    <2>4. Set(i, r) /\ mode.replaces /\ q.st = "working" /\ UNCHANGED <<mode, pos, latch, flagged, due, tickVars>>
        BY <1>1, <1>5, <2>1 DEF SoftCancel
    <2>5. Sane(r)
        BY <1>2, <2>3, <2>4 DEF Sane, ActiveStatus
    <2> QED
        BY <1>1, <2>3, <2>4, <2>5
<1>6. CASE Replace(i)
    <2>1. q.st = "gap" /\ UNCHANGED <<mode, pos, latch, flagged, due, tickVars>>
        BY <1>1, <1>6 DEF Replace
    <2>2. CASE Set(i, [ord[i] EXCEPT !.st = "working", !.live = TRUE])
        <3>1. PICK p : p = [q EXCEPT !.st = "working"]
            OBVIOUS
        <3>2. "working" \in Statuses
            BY DEF Statuses, ActiveStatus
        <3>3. /\ p \in Order /\ p.st = "working" /\ p.pid = q.pid /\ p.buy = q.buy /\ p.qty = q.qty
              /\ p.live = q.live /\ p.done = q.done /\ p.told = q.told
            BY <1>3, <3>1, <3>2, WithStatus
        <3>4. PICK r : r = [p EXCEPT !.live = TRUE]
            OBVIOUS
        <3>5. /\ r \in Order /\ r.st = p.st /\ r.pid = p.pid /\ r.buy = p.buy /\ r.qty = p.qty
              /\ r.live = TRUE /\ r.done = p.done /\ r.told = p.told
            BY <3>3, <3>4, WithLive
        <3>6. Set(i, r)
            BY <1>1, <2>2, <3>1, <3>4
        <3>7. Sane(r)
            BY <1>2, <2>1, <3>3, <3>5 DEF Sane, ActiveStatus
        <3> QED
            BY <1>1, <2>1, <3>3, <3>5, <3>6, <3>7
    <2>3. CASE Set(i, [ord[i] EXCEPT !.st = "over"])
        <3>1. PICK r : r = [q EXCEPT !.st = "over"]
            OBVIOUS
        <3>2. "over" \in Statuses
            BY DEF Statuses
        <3>3. /\ r \in Order /\ r.st = "over" /\ r.pid = q.pid /\ r.buy = q.buy /\ r.qty = q.qty
              /\ r.live = q.live /\ r.done = q.done /\ r.told = q.told
            BY <1>3, <3>1, <3>2, WithStatus
        <3>4. Sane(r) /\ Set(i, r)
            BY <1>1, <1>2, <2>1, <2>3, <3>1, <3>3 DEF Sane, ActiveStatus
        <3> QED
            BY <1>1, <2>1, <3>3, <3>4
    <2> QED
        BY <1>6, <2>2, <2>3 DEF Replace
<1>7. CASE Execute(i)
    <2>1. PICK n \in 1 .. (q.qty - q.done) :
              ord' = [ord EXCEPT ![i] = [ord[i] EXCEPT !.done = @ + n, !.live = n < Remaining(i)]]
        BY <1>1, <1>7 DEF Execute, Remaining, Set
    <2>2. PICK l : l = (n < q.qty - q.done)
        OBVIOUS
    <2>3. PICK p : p = [q EXCEPT !.done = q.done + n]
        OBVIOUS
    <2>4. n \in Nat /\ n > 0 /\ q.done + n \in Nat /\ q.done + n <= q.qty /\ l \in BOOLEAN
        BY <1>3, <2>1, <2>2
    <2>5. /\ p \in Order /\ p.st = q.st /\ p.pid = q.pid /\ p.buy = q.buy /\ p.qty = q.qty
          /\ p.live = q.live /\ p.done = q.done + n /\ p.told = q.told
        BY <1>3, <2>3, <2>4, WithDone
    <2>6. PICK r : r = [p EXCEPT !.live = l]
        OBVIOUS
    <2>7. /\ r \in Order /\ r.st = p.st /\ r.pid = p.pid /\ r.buy = p.buy /\ r.qty = p.qty
          /\ r.live = l /\ r.done = p.done /\ r.told = p.told
        BY <2>4, <2>5, <2>6, WithLive
    <2>8. Set(i, r)
        BY <1>1, <2>1, <2>2, <2>3, <2>6 DEF Set, Remaining
    <2>9. q.live = TRUE /\ UNCHANGED <<mode, pos, latch, flagged, due, tickVars>>
        BY <1>1, <1>3, <1>7 DEF Execute
    <2>10. Sane(r) /\ Active(i)
        <3>1. q.st \in ActiveStatus /\ q.told <= q.done /\ q.done <= q.qty
            BY <1>2, <2>9 DEF Sane
        <3>2. r.st # "gap" /\ r.st \in ActiveStatus
            BY <2>5, <2>7, <3>1 DEF ActiveStatus
        <3>3. r.live => r.qty - r.done > 0
            <4> SUFFICES ASSUME r.live PROVE r.qty - r.done > 0
                OBVIOUS
            <4>1. l
                BY <2>7
            <4>2. n < q.qty - q.done
                BY <2>2, <4>1
            <4> QED
                BY <1>3, <2>4, <2>5, <2>7, <4>2
        <3>4. r.told <= r.done /\ r.done <= r.qty
            BY <1>3, <2>4, <2>5, <2>7, <3>1
        <3> QED
            BY <1>1, <3>1, <3>2, <3>3, <3>4 DEF Sane, Active
    <2> QED
        BY <1>1, <2>5, <2>7, <2>8, <2>9, <2>10
<1>8. CASE Expire(i)
    <2>1. PICK r : r = [q EXCEPT !.live = FALSE]
        OBVIOUS
    <2>2. /\ r \in Order /\ r.st = q.st /\ r.pid = q.pid /\ r.buy = q.buy /\ r.qty = q.qty
          /\ r.live = FALSE /\ r.done = q.done /\ r.told = q.told
        BY <1>3, <2>1, WithLive
    <2>3. Set(i, r) /\ UNCHANGED <<mode, pos, latch, flagged, due, tickVars>>
        BY <1>1, <1>8, <2>1 DEF Expire
    <2>4. Sane(r)
        BY <1>2, <2>2 DEF Sane
    <2> QED
        BY <1>1, <2>2, <2>3, <2>4
<1>9. CASE ReportStatus(i)
    <2>1. PICK s : s = IF q.st = "soft" /\ q.qty - q.done > 0 THEN "gap" ELSE "over"
        OBVIOUS
    <2>2. PICK r : r = [q EXCEPT !.st = s]
        OBVIOUS
    <2>3. s \in Statuses
        BY <2>1 DEF Statuses
    <2>4. /\ r \in Order /\ r.st = s /\ r.pid = q.pid /\ r.buy = q.buy /\ r.qty = q.qty
          /\ r.live = q.live /\ r.done = q.done /\ r.told = q.told
        BY <1>3, <2>2, <2>3, WithStatus
    <2>5. Set(i, r) /\ UNCHANGED <<mode, pos, latch, flagged, due, tickVars>>
        BY <1>1, <1>9, <2>1, <2>2 DEF ReportStatus, Remaining
    <2>6. ~q.live /\ (mode.execsFirst => q.done - q.told = 0)
        BY <1>1, <1>9 DEF ReportStatus, Undelivered
    <2>7. Sane(r)
        BY <1>2, <2>1, <2>4, <2>6 DEF Sane
    <2>8. mode.execsFirst => r.told = r.done
        BY <1>3, <2>4, <2>6
    <2> QED
        BY <1>1, <2>1, <2>4, <2>5, <2>7, <2>8
<1> QED
    BY <1>4, <1>5, <1>6, <1>7, <1>8, <1>9 DEF OrderStep

\* Everything but the orders stays.
LEMMA SoundSame ==
    ASSUME TypeOK, UNCHANGED <<mode, pos, latch, flagged, due, tickVars>>
    PROVE  Sound' /\ (Numbered => Numbered')
<1>1. Sound
    BY Sanity DEF Sound
<1>2. Sound'
    BY <1>1 DEF Sound, tickVars
<1>3. Numbered => Numbered'
    BY DEF Numbered, Open, tickVars
<1> QED
    BY <1>2, <1>3

\* Every step keeps types and numbers.
LEMMA TypeStep == BookAssumption /\ TypeOK /\ Numbered /\ Next => TypeOK' /\ Numbered'
<1> SUFFICES ASSUME BookAssumption, TypeOK, Numbered, Next PROVE TypeOK' /\ Numbered'
    OBVIOUS
<1>1. /\ ord \in Seq(Order) /\ \A j \in Placed : Sane(ord[j])
      /\ Sound
    BY Sanity DEF Sound
<1>2. Qty \in Nat /\ Qty > 0
    BY DEF BookAssumption
<1>3. /\ pos \in [id : Nat, qty : Nat, long : BOOLEAN] /\ pos.id \in Nat /\ pos.qty \in Nat /\ pos.long \in BOOLEAN
      /\ intent.id \in Nat /\ intent.qty \in Nat /\ intent.buy \in BOOLEAN
      /\ latch \in BOOLEAN /\ due \in BOOLEAN /\ flagged \in SUBSET Nat
      /\ tries \in 0 .. 5 /\ since \in 0 .. 2 /\ mode \in Modes
      /\ pc \in {"idle", "quotes", "cancel", "submit"}
    BY <1>1 DEF Sound
<1>4. ASSUME NEW i \in Placed, OrderStep(i) PROVE TypeOK' /\ Numbered'
    <2>1. PICK r \in Order : Set(i, r) /\ Sane(r) /\ UNCHANGED <<mode, pos, latch, flagged, due, tickVars>>
        BY <1>4, OrderStepMakes
    <2>2. Sound' /\ Numbered'
        BY <2>1, SoundSame
    <2> QED
        BY <2>1, <2>2, TypeSet
<1>5. ASSUME NEW i \in Placed, ReportExec(i) PROVE TypeOK' /\ Numbered'
    <2>1. PICK n \in 1 .. (ord[i].done - ord[i].told) :
              /\ Set(i, [ord[i] EXCEPT !.told = ord[i].told + n])
              /\ HandleFill(ord[i].buy, n)
        BY <1>5 DEF ReportExec, Undelivered
    <2>2. PICK q : q = ord[i]
        OBVIOUS
    <2>3. /\ q \in Order /\ q.qty \in Nat /\ q.done \in Nat /\ q.told \in Nat /\ q.buy \in BOOLEAN
          /\ Sane(q)
        BY <1>1, <2>2, Fields
    <2>4. PICK r : r = [q EXCEPT !.told = q.told + n]
        OBVIOUS
    <2>5. n \in Nat /\ n > 0 /\ q.told + n \in Nat /\ q.told + n <= q.done
        BY <2>1, <2>2, <2>3
    <2>6. /\ r \in Order /\ r.st = q.st /\ r.pid = q.pid /\ r.buy = q.buy /\ r.qty = q.qty
          /\ r.live = q.live /\ r.done = q.done /\ r.told = q.told + n
        BY <2>3, <2>4, <2>5, WithTold
    <2>7. Sane(r) /\ Set(i, r)
        BY <2>1, <2>2, <2>3, <2>4, <2>5, <2>6 DEF Sane
    <2>8. pos' = Filled(pos, q.buy, n)
        BY <2>1, <2>2 DEF HandleFill
    <2>9. /\ pos' \in [id : Nat, qty : Nat, long : BOOLEAN]
          /\ ~Open => pos'.id = pos.id + 1
          /\ Open => pos'.id = pos.id
        <3>1. PICK b \in BOOLEAN : b = q.buy
            BY <2>3
        <3>2. PICK p : p = Filled(pos, b, n) /\ p = pos'
            BY <2>8, <3>1
        <3>3. /\ p \in [id : Nat, qty : Nat, long : BOOLEAN]
              /\ ~Open => p.id = pos.id + 1
              /\ Open => p.id = pos.id
            <4>1. /\ pos \in [id : Nat, qty : Nat, long : BOOLEAN] /\ n \in Nat /\ n > 0 /\ p = Filled(pos, b, n)
                BY <1>3, <2>5, <3>2
            <4>2. p \in [id : Nat, qty : Nat, long : BOOLEAN]
                BY <4>1, FilledIs, Zenon
            <4>3. ~Open => p.id = pos.id + 1
                BY <4>1, FilledIs, Zenon
            <4>4. Open => p.id = pos.id
                BY <4>1, FilledIs, Zenon
            <4> QED
                BY <4>2, <4>3, <4>4
        <3> QED
            BY <3>2, <3>3
    <2>10. due' \in BOOLEAN /\ tries' \in 0 .. 5 /\ since' \in 0 .. 2
        BY <1>3, <2>1 DEF HandleFill
    <2>11. UNCHANGED <<mode, latch, flagged, pc, intent>>
        BY <1>5 DEF ReportExec
    <2>12. Sound'
        BY <1>1, <2>9, <2>10, <2>11 DEF Sound
    <2>13. pos'.id > 0
        BY <1>3, <2>9 DEF Numbered
    <2>14. Numbered'
        BY <2>11, <2>13 DEF Numbered
    <2> QED
        BY <2>6, <2>7, <2>12, <2>14, TypeSet
<1>6. CASE SubmitEntry
    <2>1. PICK buy \in BOOLEAN : ord' = Append(ord, NewOrder(Nobody, buy, Qty))
        BY <1>6 DEF SubmitEntry
    <2>2. PICK r : r = NewOrder(Nobody, buy, Qty)
        OBVIOUS
    <2>3. /\ r \in Order /\ r.st = "working" /\ r.pid = 0 /\ r.buy = buy /\ r.qty = Qty
          /\ r.live = TRUE /\ r.done = 0 /\ r.told = 0
        BY <1>2, <2>2 DEF Nobody, NewOrder, Order, ActiveStatus
    <2>4. Sane(r)
        BY <1>2, <2>3 DEF Sane, ActiveStatus
    <2>5. UNCHANGED <<mode, pos, latch, flagged, due, tickVars>>
        BY <1>6 DEF SubmitEntry
    <2> QED
        BY <2>1, <2>2, <2>3, <2>4, <2>5, SoundSame, TypeMore
<1>7. CASE SubmitExit
    <2>1. pc = "submit" /\ UNCHANGED <<mode, pos, latch, flagged, due, tries, since>> /\ pc' = "idle" /\ intent' = NoIntent
        BY <1>7 DEF SubmitExit, Back
    <2>2. NoIntent \in [id : Nat, buy : BOOLEAN, qty : Nat]
        BY DEF NoIntent, Nobody
    <2>3. Sound' /\ Numbered'
        BY <1>1, <2>1, <2>2 DEF Sound, Numbered, Open
    <2>4. CASE ord' = ord
        BY <2>3, <2>4, TypeSame
    <2>5. CASE ord' = Append(ord, NewOrder(intent.id, intent.buy, intent.qty))
        <3>1. PICK r : r = NewOrder(intent.id, intent.buy, intent.qty)
            OBVIOUS
        <3>2. /\ r \in Order /\ r.st = "working" /\ r.qty = intent.qty
              /\ r.live = TRUE /\ r.done = 0 /\ r.told = 0
            BY <1>3, <3>1 DEF NewOrder, Order, ActiveStatus
        <3>3. intent.qty > 0
            BY <2>1 DEF Numbered
        <3>4. Sane(r)
            BY <1>3, <3>2, <3>3 DEF Sane, ActiveStatus
        <3> QED
            BY <2>3, <2>5, <3>1, <3>2, <3>4, TypeMore
    <2> QED
        BY <1>7, <2>4, <2>5 DEF SubmitExit
<1>8. CASE FlattenAll \/ FlagExit \/ TimeUp \/ Elapse \/ CheckFlat
    <2>1. /\ ord' = ord /\ mode' = mode /\ pos' = pos /\ pc' = pc /\ intent' = intent /\ tries' = tries
          /\ latch' \in BOOLEAN /\ due' \in BOOLEAN /\ flagged' \in SUBSET Nat /\ since' \in 0 .. 2
        <3>1. CASE FlattenAll
            BY <1>3, <3>1 DEF FlattenAll, tickVars
        <3>2. CASE FlagExit
            BY <1>3, <3>2 DEF FlagExit, tickVars
        <3>3. CASE TimeUp
            BY <1>3, <3>3 DEF TimeUp, tickVars
        <3>4. CASE Elapse
            BY <1>3, <3>4 DEF Elapse
        <3>5. CASE CheckFlat
            BY <1>3, <3>5 DEF CheckFlat, tickVars
        <3> QED
            BY <1>8, <3>1, <3>2, <3>3, <3>4, <3>5
    <2>2. Sound'
        BY <1>1, <2>1 DEF Sound
    <2>3. Numbered'
        BY <2>1 DEF Numbered, Open
    <2> QED
        BY <2>1, <2>2, <2>3, TypeSame
<1>9. CASE CheckBegin \/ NoExit \/ Trigger \/ OppositesCancelled
    <2>1. /\ ord' = ord /\ mode' = mode /\ pos' = pos /\ latch' = latch /\ due' = due
          /\ flagged' \in SUBSET Nat /\ tries' \in 0 .. 5 /\ since' \in 0 .. 2
        <3>1. CASE CheckBegin
            BY <1>3, <3>1 DEF CheckBegin
        <3>2. CASE NoExit
            BY <1>3, <3>2 DEF NoExit
        <3>3. CASE Trigger
            <4>1. tries' = Min({tries + 1, 5}) /\ since' = 0
                BY <3>3 DEF Trigger
            <4>2. tries + 1 \in Int /\ 5 \in Int /\ tries + 1 >= 0
                BY <1>3
            <4>3. tries' \in 0 .. 5
                BY <1>3, <4>1, <4>2, Smaller
            <4> QED
                BY <1>3, <3>3, <4>1, <4>3 DEF Trigger
        <3>4. CASE OppositesCancelled
            BY <1>3, <3>4 DEF OppositesCancelled
        <3> QED
            BY <1>9, <3>1, <3>2, <3>3, <3>4
    <2>2. /\ pc' \in {"idle", "quotes", "cancel", "submit"}
          /\ intent' \in [id : Nat, buy : BOOLEAN, qty : Nat]
          /\ pc' # "idle" => intent'.id > 0
          /\ pc' \in {"cancel", "submit"} => intent'.qty > 0
        <3>1. CASE CheckBegin
            <4>1. CASE HasExit(pos.id)
                BY <1>1, <3>1, <4>1 DEF CheckBegin, Sound, Numbered
            <4>2. CASE ~HasExit(pos.id)
                <5>1. pc' = "quotes" /\ intent' = [id |-> pos.id, buy |-> FALSE, qty |-> 0] /\ pos.id > 0
                    BY <3>1, <4>2 DEF CheckBegin, NoIntent, Numbered
                <5> QED
                    BY <1>3, <5>1
            <4> QED
                BY <4>1, <4>2
        <3>2. CASE NoExit
            BY <3>2 DEF NoExit, Back, NoIntent, Nobody
        <3>3. CASE Trigger
            <4>1. pc' = "cancel" /\ intent' = [id |-> pos.id, buy |-> ~pos.long, qty |-> pos.qty]
                BY <3>3 DEF Trigger
            <4>2. pos.id > 0 /\ pos.qty > 0
                BY <3>3 DEF Trigger, Candidate, Open, Numbered
            <4>3. (~pos.long) \in BOOLEAN
                OBVIOUS
            <4>4. intent'.id = pos.id /\ intent'.qty = pos.qty
                BY <4>1
            <4>5. intent' \in [id : Nat, buy : BOOLEAN, qty : Nat]
                BY <1>3, <4>1, <4>3
            <4> QED
                BY <4>1, <4>2, <4>4, <4>5
        <3>4. CASE OppositesCancelled
            BY <1>1, <3>4 DEF OppositesCancelled, Sound, Numbered
        <3> QED
            BY <1>9, <3>1, <3>2, <3>3, <3>4
    <2>3. Sound'
        BY <1>1, <2>1, <2>2 DEF Sound
    <2>4. Numbered'
        BY <2>1, <2>2 DEF Numbered, Open
    <2> QED
        BY <2>1, <2>3, <2>4, TypeSame
<1>10. CASE CancelOpposite
    <2>1. PICK i \in InTheWay : Set(i, [ord[i] EXCEPT !.st = "pending"])
        BY <1>10 DEF CancelOpposite
    <2>2. i \in Placed /\ Withdraw(i)
        BY <1>10, <2>1 DEF CancelOpposite, InTheWay, Withdraw
    <2> QED
        BY <1>4, <2>2 DEF OrderStep
<1> QED
    BY <1>4, <1>5, <1>6, <1>7, <1>8, <1>9, <1>10 DEF Next, OrderStep

\* Orders, book and tick keep their shape, for any number of orders of any size: no order executes or
\* is handed over more than it has, and only an active order with something left can fill (handle_fill,
\* _replace_order, _check_exits).
THEOREM TypesHold == Spec => []TypeOK
<1>1. BookAssumption
    BY BookAssumption
<1>2. Init => TypeOK /\ Numbered
    BY <1>1, TypeInit
<1>3. TypeOK /\ Numbered /\ [Next]_vars => TypeOK' /\ Numbered'
    <2>1. ASSUME TypeOK, Numbered, UNCHANGED vars PROVE TypeOK' /\ Numbered'
        <3>1. ord' = ord /\ UNCHANGED <<mode, pos, latch, flagged, due, tickVars>>
            BY <2>1 DEF vars
        <3> QED
            BY <2>1, <3>1, SoundSame, TypeSame
    <2> QED
        BY <1>1, <2>1, TypeStep
<1> QED
    BY <1>2, <1>3, PTL DEF Spec

-----------------------------------------------------------------------------
(* The inductive invariant *)

\* A signed quantity is a number ...
LEMMA SignedInt == ASSUME NEW buy, NEW n \in Int PROVE Signed(buy, n) \in Int
BY DEF Signed

\* ... and nothing is nothing on either side.
LEMMA SignedZero == ASSUME NEW buy PROVE Signed(buy, 0) = 0
<1>1. PICK n \in Int : n = 0
    OBVIOUS
<1>2. PICK m \in Int : m = -n
    OBVIOUS
<1>3. m = 0 - n
    BY <1>2
<1>4. m = 0
    BY <1>1, <1>3
<1>5. Signed(buy, n) = IF buy THEN n ELSE m
    BY <1>2 DEF Signed
<1> QED
    BY <1>1, <1>4, <1>5

\* What has been handed over of each order, as summands.
LEMMA ToldTypes ==
    ASSUME TypeOK
    PROVE  /\ IsFiniteSet(Placed)
           /\ \A i \in Placed : ToldOf[i] = Signed(ord[i].buy, ord[i].told) /\ ToldOf[i] \in Int
<1>1. ord \in Seq(Order)
    BY Sanity
<1>2. IsFiniteSet(Placed)
    BY <1>1, PlacedFinite
<1>3. \A i \in Placed : ToldOf[i] = Signed(ord[i].buy, ord[i].told)
    BY DEF ToldOf
<1>4. \A i \in Placed : ord[i].told \in Int
    BY <1>1, Fields
<1> QED
    BY <1>2, <1>3, <1>4, SignedInt

\* What exchange, repricer and client do to an order hands nothing over and revives nothing.
LEMMA OrderStepKeeps ==
    ASSUME TypeOK, IInv, NEW i \in Placed, OrderStep(i)
    PROVE  IInv'
<1>1. PICK r \in Order :
              /\ Set(i, r) /\ Sane(r)
              /\ r.pid = ord[i].pid /\ r.buy = ord[i].buy /\ r.qty = ord[i].qty /\ r.told = ord[i].told
              /\ UNCHANGED <<mode, pos, latch, flagged, due, tickVars>>
              /\ r.st = ord[i].st \/ (r.st = "pending" /\ Active(i)) \/ (r.st = "soft" /\ mode.replaces)
                 \/ (r.st = "working" /\ ord[i].st = "gap")
                 \/ (r.st = "gap" /\ ord[i].st = "soft")
                 \/ (r.st = "over" /\ ord[i].st = "gap")
                 \/ (r.st = "over" /\ r.done = ord[i].done /\ (mode.execsFirst => r.told = r.done))
              /\ r.done = ord[i].done \/ (r.st = ord[i].st /\ Active(i))
    BY OrderStepMakes
<1>2. ord \in Seq(Order) /\ \A j \in Placed : Sane(ord[j])
    BY Sanity
<1>3. /\ ord' \in Seq(Order) /\ Placed' = Placed
      /\ ord'[i] = r /\ \A j \in Placed : j # i => ord'[j] = ord[j]
    BY <1>1, <1>2, SetOrder
<1>4. UNCHANGED <<mode, pos, pc, intent>>
    BY <1>1 DEF tickVars
<1>5. \A j \in Placed : /\ ord'[j].pid = ord[j].pid /\ ord'[j].buy = ord[j].buy
                        /\ ord'[j].qty = ord[j].qty /\ ord'[j].told = ord[j].told
    BY <1>1, <1>3
<1>6. Entries' = Entries /\ Exits' = Exits
    BY <1>3, <1>5 DEF Entries, Exits
<1>7. ~mode.replaces => \A j \in Placed : ord[j].st \notin {"soft", "gap"}
    BY DEF IInv, InPlaceOnly
<1>8. ~mode.replaces => \A j \in Placed : ord'[j].st \notin {"soft", "gap"}
    BY <1>1, <1>3, <1>7
<1>9. ~mode.replaces => \A j \in Placed : /\ ord'[j].st \in ActiveStatus => ord[j].st \in ActiveStatus
                                          /\ ord'[j].st = "working" => ord[j].st = "working"
    BY <1>1, <1>3, <1>7 DEF Active, ActiveStatus
<1>10. InPlaceOnly'
    BY <1>3, <1>4, <1>8 DEF InPlaceOnly
<1>11. OneSide'
    <2> SUFFICES ASSUME ~mode.replaces PROVE OneSide'
        BY <1>4 DEF OneSide
    <2>1. /\ \A j, k \in Placed : ord[j].st = "working" /\ ord[k].st = "working" => ord[j].buy = ord[k].buy
          /\ \A j \in Exits, k \in Entries : ord[j].st \in ActiveStatus /\ ord[k].st = "working" => ord[j].buy = ord[k].buy
          /\ pc = "submit" => \A j \in Placed : ord[j].st = "working" => ord[j].buy = intent.buy
        BY DEF IInv, OneSide, Active
    <2>2. Exits \in SUBSET Placed /\ Entries \in SUBSET Placed
        BY DEF Entries, Exits
    <2>3. /\ \A j, k \in Placed : ord'[j].st = "working" /\ ord'[k].st = "working" => ord'[j].buy = ord'[k].buy
          /\ \A j \in Exits, k \in Entries : ord'[j].st \in ActiveStatus /\ ord'[k].st = "working" => ord'[j].buy = ord'[k].buy
          /\ pc = "submit" => \A j \in Placed : ord'[j].st = "working" => ord'[j].buy = intent.buy
        BY <1>5, <1>9, <2>1, <2>2
    <2> QED
        BY <1>3, <1>4, <1>6, <2>3 DEF OneSide, Active
<1>12. SmoothInv'
    <2> SUFFICES ASSUME Smooth PROVE OverIsTold' /\ EntriesOpen' /\ ExitsClose' /\ Deciding' /\ (Book = Told)'
        BY <1>4 DEF SmoothInv, Smooth
    <2>1. OverIsTold /\ EntriesOpen /\ ExitsClose /\ Deciding /\ Book = Told
        BY DEF IInv, SmoothInv
    <2>2. \A j \in Placed : ord'[j].st \in ActiveStatus => ord[j].st \in ActiveStatus
        BY <1>9 DEF Smooth
    <2>3. Open' = Open
        BY <1>4 DEF Open
    <2>4. OverIsTold'
        <3>1. r.st = "over" => r.told = r.done
            BY <1>1, <1>7, <2>1 DEF Smooth, OverIsTold, Active, ActiveStatus
        <3> QED
            BY <1>3, <2>1, <3>1 DEF OverIsTold
    <2>5. EntriesOpen'
        BY <1>3, <1>4, <1>5, <1>6, <2>1, <2>2, <2>3 DEF EntriesOpen, Active, Entries
    <2>6. Unfinished' \in SUBSET Unfinished
        BY <1>5, <1>6, <2>2 DEF Unfinished, Active, Exits
    <2>7. ExitsClose'
        <3>1. Unfinished \in SUBSET Placed
            BY DEF Unfinished, Exits
        <3> QED
            BY <1>3, <1>4, <1>5, <2>1, <2>3, <2>6, <3>1 DEF ExitsClose
    <2>8. HasExit(pos.id)' => HasExit(pos.id)
        BY <1>4, <1>5, <1>6, <2>2 DEF HasExit, Active, Exits
    <2>9. Deciding'
        BY <1>4, <2>1, <2>3, <2>8 DEF Deciding
    <2>10. ToldOf' = ToldOf
        BY <1>3, <1>5 DEF ToldOf
    <2>11. (Book = Told)'
        BY <1>3, <1>4, <2>1, <2>10 DEF Book, Told
    <2> QED
        BY <2>4, <2>5, <2>7, <2>9, <2>11
<1> QED
    BY <1>10, <1>11, <1>12 DEF IInv

\* A fill: it is that of the active entry or of the unfinished exit.
LEMMA ReportExecKeeps ==
    ASSUME TypeOK, Numbered, IInv, NEW i \in Placed, ReportExec(i)
    PROVE  IInv'
<1>1. PICK n \in 1 .. (ord[i].done - ord[i].told) :
          /\ Set(i, [ord[i] EXCEPT !.told = ord[i].told + n])
          /\ HandleFill(ord[i].buy, n)
    BY DEF ReportExec, Undelivered
<1>2. PICK q : q = ord[i]
    OBVIOUS
<1>3. /\ ord \in Seq(Order) /\ \A j \in Placed : Sane(ord[j])
      /\ pos \in [id : Nat, qty : Nat, long : BOOLEAN] /\ pos.id \in Nat /\ pos.qty \in Nat /\ pos.long \in BOOLEAN
    BY Sanity
<1>4. /\ q \in Order /\ q.pid \in Nat /\ q.qty \in Nat /\ q.done \in Nat /\ q.told \in Nat /\ q.buy \in BOOLEAN
      /\ q.st \in Statuses /\ Sane(q) /\ q.told <= q.done /\ q.done <= q.qty
    BY <1>2, <1>3, Fields DEF Statuses, ActiveStatus, Sane
<1>5. PICK r : r = [q EXCEPT !.told = q.told + n]
    OBVIOUS
<1>6. n \in Nat /\ n > 0 /\ q.told + n \in Nat /\ q.told + n <= q.done
    BY <1>1, <1>2, <1>4
<1>7. /\ r \in Order /\ r.st = q.st /\ r.pid = q.pid /\ r.buy = q.buy /\ r.qty = q.qty
      /\ r.live = q.live /\ r.done = q.done /\ r.told = q.told + n
    BY <1>4, <1>5, <1>6, WithTold
<1>8. Set(i, r)
    BY <1>1, <1>2, <1>5
<1>9. /\ ord' \in Seq(Order) /\ Placed' = Placed
      /\ ord'[i] = r /\ \A j \in Placed : j # i => ord'[j] = ord[j]
    BY <1>3, <1>7, <1>8, SetOrder
<1>10. UNCHANGED <<mode, pc, intent>>
    BY DEF ReportExec
<1>11. \A j \in Placed : /\ ord'[j].pid = ord[j].pid /\ ord'[j].buy = ord[j].buy
                         /\ ord'[j].qty = ord[j].qty /\ ord'[j].st = ord[j].st /\ ord'[j].done = ord[j].done
    BY <1>2, <1>7, <1>9
<1>12. Entries' = Entries /\ Exits' = Exits /\ Entries \in SUBSET Placed /\ Exits \in SUBSET Placed
    BY <1>9, <1>11 DEF Entries, Exits
<1>13. InPlaceOnly'
    BY <1>9, <1>10, <1>11 DEF IInv, InPlaceOnly
<1>14. OneSide'
    BY <1>9, <1>10, <1>11, <1>12 DEF IInv, OneSide, Active
<1>15. SmoothInv'
    <2> SUFFICES ASSUME Smooth PROVE OverIsTold' /\ EntriesOpen' /\ ExitsClose' /\ Deciding' /\ (Book = Told)'
        BY <1>10 DEF SmoothInv, Smooth
    <2>1. OverIsTold /\ EntriesOpen /\ ExitsClose /\ Deciding /\ Book = Told
        BY DEF IInv, SmoothInv
    <2>2. q.st \in ActiveStatus
        <3>1. q.st # "over"
            BY <1>2, <1>4, <1>6, <2>1 DEF OverIsTold
        <3>2. q.st # "gap"
            BY <1>2 DEF Smooth, IInv, InPlaceOnly
        <3> QED
            BY <1>4, <3>1, <3>2 DEF Statuses
    <2>3. PICK p : p = pos'
        OBVIOUS
    <2>4. PICK b \in BOOLEAN : b = q.buy
        BY <1>4
    <2>5. p = Filled(pos, b, n)
        BY <1>1, <1>2, <2>3, <2>4 DEF HandleFill
    <2>6. /\ p.id \in Nat /\ p.qty \in Nat /\ p.long \in BOOLEAN
          /\ ~Open => p.id = pos.id + 1 /\ p.qty = n /\ p.long = b
          /\ Open => p.id = pos.id /\ p.long = pos.long
          /\ Open /\ b = pos.long => p.qty = pos.qty + n
          /\ Open /\ b # pos.long => p.qty = IF n <= pos.qty THEN pos.qty - n ELSE 0
        <3>1. p \in [id : Nat, qty : Nat, long : BOOLEAN]
            BY <1>3, <1>6, <2>5, FilledIs, Zenon
        <3>2. ~Open => p.id = pos.id + 1 /\ p.qty = n /\ p.long = b
            BY <1>3, <1>6, <2>5, FilledIs, Zenon
        <3>3. Open => p.id = pos.id /\ p.long = pos.long
            BY <1>3, <1>6, <2>5, FilledIs, Zenon
        <3>4. Open /\ b = pos.long => p.qty = pos.qty + n
            BY <1>3, <1>6, <2>5, FilledIs, Zenon
        <3>5. Open /\ b # pos.long => p.qty = IF n <= pos.qty THEN pos.qty - n ELSE 0
            BY <1>3, <1>6, <2>5, FilledIs, Zenon
        <3> QED
            BY <3>1, <3>2, <3>3, <3>4, <3>5
    <2>7. i \in Exits => i \in Unfinished
        BY <1>2, <1>4, <1>6, <2>2 DEF Unfinished, Active
    <2>8. i \in Exits => Open /\ q.pid = pos.id /\ b # pos.long /\ q.qty - q.told <= pos.qty
        BY <1>2, <2>1, <2>4, <2>7 DEF ExitsClose
    <2>9. i \notin Exits => i \in Entries
        BY DEF Exits
    <2>10. i \in Entries /\ Open => b = pos.long
        BY <1>2, <2>1, <2>2, <2>4 DEF EntriesOpen, Active
    <2>11. Open /\ b # pos.long => n <= pos.qty /\ p.qty = pos.qty - n
        <3>1. Open /\ b # pos.long => i \in Exits
            BY <2>9, <2>10
        <3>2. i \in Exits => n <= pos.qty
            BY <1>3, <1>4, <1>6, <2>8
        <3> QED
            BY <2>6, <3>1, <3>2
    <2>12. OverIsTold'
        <3>1. q.st # "over"
            BY <2>2 DEF ActiveStatus
        <3> QED
            BY <1>2, <1>9, <1>11, <2>1, <3>1 DEF OverIsTold
    <2>13. Open' <=> p.qty > 0
        BY <2>3 DEF Open
    <2>14. EntriesOpen'
        <3>1. \A j, k \in Entries : Active(j) /\ Active(k) => j = k
            BY <2>1 DEF EntriesOpen
        <3>2. \A j \in Placed : Active(j)' <=> Active(j)
            BY <1>9, <1>11 DEF Active
        <3>3. ASSUME NEW j \in Entries, Active(j), p.qty > 0 PROVE ord[j].buy = p.long
            <4>1. CASE Open
                BY <2>1, <2>6, <3>3, <4>1 DEF EntriesOpen
            <4>2. CASE ~Open
                <5>1. i \in Entries /\ Active(i)
                    BY <1>2, <2>2, <2>8, <2>9, <4>2 DEF Active
                <5>2. j = i
                    BY <3>1, <3>3, <5>1
                <5> QED
                    BY <1>2, <2>4, <2>6, <4>2, <5>2
            <4> QED
                BY <4>1, <4>2
        <3>4. \A j \in Entries : Active(j) /\ p.qty > 0 => ord'[j].buy = pos'.long
            BY <1>11, <1>12, <2>3, <3>3
        <3> QED
            BY <1>12, <2>13, <3>1, <3>2, <3>4 DEF EntriesOpen
    <2>15. ExitsClose'
        <3>1. pos.id <= p.id
            BY <1>3, <2>6
        <3>2. \A j \in Placed : ord'[j].pid <= pos'.id
            <4>1. \A j \in Placed : ord[j].pid \in Nat /\ ord[j].pid <= pos.id
                BY <1>3, <2>1, Fields DEF ExitsClose
            <4> QED
                BY <1>3, <1>11, <2>3, <2>6, <3>1, <4>1
        <3>3. Unfinished' \in SUBSET Unfinished
            <4>1. ASSUME NEW j \in Unfinished' PROVE j \in Unfinished
                <5>1. j \in Exits /\ ord'[j].st \in ActiveStatus /\ ord'[j].told < ord'[j].qty /\ j \in Placed
                    BY <1>12, <4>1 DEF Unfinished, Active
                <5>2. ord[j].told < ord[j].qty
                    <6>1. CASE j = i
                        BY <1>2, <1>4, <1>6, <1>7, <1>9, <5>1, <6>1
                    <6>2. CASE j # i
                        BY <1>9, <5>1, <6>2
                    <6> QED
                        BY <6>1, <6>2
                <5> QED
                    BY <1>11, <5>1, <5>2 DEF Unfinished, Active
            <4> QED
                BY <4>1
        <3>4. ASSUME NEW j \in Unfinished'
              PROVE  p.qty > 0 /\ ord'[j].pid = p.id /\ ord'[j].buy # p.long
                     /\ ord'[j].qty - ord'[j].told <= p.qty
            <4>1. j \in Unfinished /\ j \in Exits /\ j \in Placed
                BY <1>12, <3>3, <3>4 DEF Unfinished
            <4>2. Open /\ ord[j].pid = pos.id /\ ord[j].buy # pos.long /\ ord[j].qty - ord[j].told <= pos.qty
                BY <2>1, <4>1 DEF ExitsClose
            <4>3. ord'[j].pid = p.id /\ ord'[j].buy # p.long
                BY <1>11, <2>6, <4>1, <4>2
            <4>4. ord'[j].told < ord'[j].qty
                BY <3>4 DEF Unfinished
            <4>5. CASE j = i
                <5>1. b # pos.long /\ q.qty - q.told <= pos.qty
                    BY <2>8, <4>1, <4>5
                <5>2. p.qty = pos.qty - n
                    BY <2>11, <4>2, <5>1
                <5>3. q.told + n < q.qty
                    BY <1>7, <1>9, <4>4, <4>5
                <5>4. q.qty - (q.told + n) <= p.qty /\ p.qty > 0
                    BY <1>3, <1>4, <1>6, <5>1, <5>2, <5>3
                <5> QED
                    BY <1>7, <1>9, <4>3, <4>5, <5>4
            <4>6. CASE j # i
                <5>1. i \in Entries
                    BY <2>1, <2>7, <2>9, <4>1, <4>6 DEF ExitsClose
                <5>2. p.qty = pos.qty + n
                    BY <2>6, <2>10, <4>2, <5>1
                <5>3. ord'[j] = ord[j] /\ ord[j].qty \in Nat /\ ord[j].told \in Nat
                    BY <1>3, <1>9, <4>1, <4>6, Fields
                <5>4. ord[j].qty - ord[j].told <= p.qty /\ p.qty > 0
                    BY <1>3, <1>6, <4>2, <5>2, <5>3
                <5> QED
                    BY <4>3, <5>3, <5>4
            <4> QED
                BY <4>5, <4>6
        <3>5. \A j, k \in Unfinished : j = k
            BY <2>1 DEF ExitsClose
        <3> QED
            BY <1>9, <2>3, <2>13, <3>2, <3>3, <3>4, <3>5 DEF ExitsClose
    <2>16. Deciding'
        <3> SUFFICES ASSUME pc # "idle" PROVE Deciding'
            BY <1>10 DEF Deciding
        <3>1. Open /\ pos.id = intent.id /\ ~HasExit(pos.id)
            BY <2>1 DEF Deciding
        <3>2. pc \in {"cancel", "submit"} => intent.buy # pos.long /\ intent.qty <= pos.qty
            BY <2>1 DEF Deciding
        <3>3. i \in Entries
            BY <1>2, <2>2, <2>8, <2>9, <3>1 DEF HasExit, Active
        <3>4. p.qty = pos.qty + n /\ p.id = pos.id /\ p.long = pos.long
            BY <2>6, <2>10, <3>1, <3>3
        <3>5. ~HasExit(pos.id)'
            BY <1>11, <1>12, <2>3, <3>1, <3>4 DEF HasExit, Active
        <3>6. Open' /\ pos'.id = intent.id
            BY <1>3, <1>6, <2>3, <2>13, <3>1, <3>4
        <3>7. pc \in {"cancel", "submit"} => intent.buy # pos'.long /\ intent.qty <= pos'.qty
            <4>1. intent.qty \in Nat
                BY Sanity
            <4>2. intent.qty <= pos.qty => intent.qty <= p.qty
                BY <1>3, <1>6, <3>4, <4>1
            <4> QED
                BY <2>3, <3>2, <3>4, <4>2
        <3> QED
            BY <1>10, <3>5, <3>6, <3>7 DEF Deciding
    <2>17. (Book = Told)'
        <3>1. PICK f, g, S : f = ToldOf /\ g = ToldOf' /\ S = Placed
            OBVIOUS
        <3>2. IsFiniteSet(S) /\ \A j \in S : f[j] = Signed(ord[j].buy, ord[j].told) /\ f[j] \in Int
            BY <3>1, ToldTypes
        <3>3. \A j \in S : g[j] = Signed(ord'[j].buy, ord'[j].told)
            BY <1>9, <3>1 DEF ToldOf
        <3>4. f[i] = Signed(b, q.told) /\ g[i] = Signed(b, q.told + n)
            BY <1>2, <1>7, <1>9, <2>4, <3>1, <3>2, <3>3
        <3>5. g[i] \in Int /\ f[i] \in Int /\ g[i] - f[i] = Signed(b, n)
            BY <1>4, <1>6, <3>4 DEF Signed
        <3>6. \A j \in S \ {i} : g[j] = f[j]
            BY <1>9, <3>1, <3>2, <3>3
        <3>7. SumOf(g, S) = SumOf(f, S) + g[i] - f[i]
            BY <3>1, <3>2, <3>5, <3>6, SumChange
        <3>8. SumOf(f, S) \in Int /\ SumOf(f, S) = Signed(pos.long, pos.qty)
            BY <2>1, <3>1, <3>2, SumInt DEF Told, Book
        <3>9. Signed(p.long, p.qty) = Signed(pos.long, pos.qty) + Signed(b, n)
            <4>1. CASE ~Open
                <5>1. pos.qty = 0 /\ p.qty = n /\ p.long = b
                    BY <1>3, <2>6, <4>1 DEF Open
                <5>2. Signed(pos.long, pos.qty) = 0
                    <6>1. Signed(pos.long, 0) = 0
                        BY SignedZero
                    <6> QED
                        BY <5>1, <6>1
                <5>3. Signed(b, n) \in Int
                    BY <1>6, SignedInt
                <5> QED
                    BY <5>1, <5>2, <5>3
            <4>2. CASE Open /\ b = pos.long
                BY <1>3, <1>6, <2>6, <4>2 DEF Signed
            <4>3. CASE Open /\ b # pos.long
                BY <1>3, <1>6, <2>6, <2>11, <4>3 DEF Signed
            <4> QED
                BY <4>1, <4>2, <4>3
        <3>10. SumOf(g, S) = Signed(p.long, p.qty)
            BY <3>5, <3>7, <3>8, <3>9
        <3> QED
            BY <1>9, <2>3, <3>1, <3>10 DEF Book, Told
    <2> QED
        BY <2>12, <2>14, <2>15, <2>16, <2>17
<1> QED
    BY <1>13, <1>14, <1>15 DEF IInv

\* An order is submitted while nothing works against it.
LEMMA SubmitEntryKeeps == ASSUME BookAssumption, TypeOK, Numbered, IInv, SubmitEntry PROVE IInv'
<1>1. PICK buy \in BOOLEAN : ord' = Append(ord, NewOrder(Nobody, buy, Qty))
    BY DEF SubmitEntry
<1>2. PICK r : r = NewOrder(Nobody, buy, Qty)
    OBVIOUS
<1>3. Qty \in Nat /\ Qty > 0 /\ ord \in Seq(Order)
    BY Sanity DEF BookAssumption
<1>4. /\ r \in Order /\ r.st = "working" /\ r.pid = 0 /\ r.told = 0
    BY <1>2, <1>3 DEF Nobody, NewOrder, Order, ActiveStatus
<1>5. PICK n \in Nat : /\ ord' \in Seq(Order) /\ n \notin Placed /\ Placed' = Placed \cup {n}
                       /\ ord'[n] = r /\ \A j \in Placed : ord'[j] = ord[j]
    BY <1>1, <1>2, <1>3, <1>4, OneMore
<1>6. UNCHANGED <<mode, pos, pc, intent>> /\ pc = "idle" /\ ~Open /\ \A j \in Placed : ord[j].st \notin ActiveStatus
    BY DEF SubmitEntry, tickVars, Active
<1>7. Exits' = Exits /\ Entries' = Entries \cup {n} /\ Exits \in SUBSET Placed /\ Entries \in SUBSET Placed
    BY <1>4, <1>5 DEF Exits, Entries, Nobody
<1>8. InPlaceOnly'
    BY <1>4, <1>5, <1>6 DEF IInv, InPlaceOnly
<1>9. OneSide'
    BY <1>5, <1>6, <1>7 DEF OneSide, Active, ActiveStatus
<1>10. SmoothInv'
    <2> SUFFICES ASSUME Smooth PROVE OverIsTold' /\ EntriesOpen' /\ ExitsClose' /\ Deciding' /\ (Book = Told)'
        BY <1>6 DEF SmoothInv, Smooth
    <2>1. OverIsTold /\ EntriesOpen /\ ExitsClose /\ Deciding /\ Book = Told
        BY DEF IInv, SmoothInv
    <2>2. OverIsTold'
        BY <1>4, <1>5, <2>1 DEF OverIsTold
    <2>3. EntriesOpen'
        BY <1>5, <1>6, <1>7 DEF EntriesOpen, Active, Open
    <2>4. Unfinished' = {}
        BY <1>5, <1>6, <1>7 DEF Unfinished, Active
    <2>5. ExitsClose'
        <3>1. pos.id \in Nat
            BY Sanity
        <3>2. \A j \in Placed' : ord'[j].pid <= pos'.id
            BY <1>4, <1>5, <1>6, <2>1, <3>1 DEF ExitsClose
        <3> QED
            BY <2>4, <3>2 DEF ExitsClose
    <2>6. Deciding'
        BY <1>6 DEF Deciding
    <2>7. (Book = Told)'
        <3>1. PICK f, g, S : f = ToldOf /\ g = ToldOf' /\ S = Placed
            OBVIOUS
        <3>2. IsFiniteSet(S) /\ \A j \in S : f[j] = Signed(ord[j].buy, ord[j].told) /\ f[j] \in Int
            BY <3>1, ToldTypes
        <3>3. \A j \in S \cup {n} : g[j] = Signed(ord'[j].buy, ord'[j].told)
            BY <1>5, <3>1 DEF ToldOf
        <3>4. g[n] = 0
            <4>1. Signed(r.buy, 0) = 0
                BY SignedZero
            <4> QED
                BY <1>4, <1>5, <3>3, <4>1
        <3>5. \A j \in S : g[j] = f[j] /\ g[j] \in Int
            BY <1>5, <3>1, <3>2, <3>3
        <3>6. SumOf(g, S \cup {n}) = g[n] + SumOf(g, S)
            BY <1>5, <3>1, <3>2, <3>4, <3>5, SumWith
        <3>7. SumOf(g, S) = SumOf(f, S) /\ SumOf(g, S) \in Int
            BY <3>2, <3>5, SumSame, SumInt
        <3>8. SumOf(g, S \cup {n}) = SumOf(f, S)
            BY <3>4, <3>6, <3>7
        <3>9. Told' = Told
            BY <1>5, <3>1, <3>8 DEF Told
        <3> QED
            BY <1>6, <2>1, <3>9 DEF Book
    <2> QED
        BY <2>2, <2>3, <2>5, <2>6, <2>7
<1> QED
    BY <1>8, <1>9, <1>10 DEF IInv

\* A new exit is the only one, and no larger than the position.
LEMMA SubmitExitKeeps == ASSUME TypeOK, Numbered, IInv, SubmitExit PROVE IInv'
<1>1. UNCHANGED <<mode, pos>> /\ pc = "submit" /\ pc' = "idle"
    BY DEF SubmitExit, Back
<1>2. CASE ord' = ord
    <2>1. Placed' = Placed /\ Exits' = Exits /\ Entries' = Entries /\ Unfinished' = Unfinished /\ ToldOf' = ToldOf
        BY <1>2 DEF Placed, Exits, Entries, Unfinished, Active, ToldOf
    <2>2. InPlaceOnly' /\ OneSide'
        BY <1>1, <1>2, <2>1 DEF IInv, InPlaceOnly, OneSide, Active
    <2>3. SmoothInv'
        BY <1>1, <1>2, <2>1 DEF IInv, SmoothInv, Smooth, OverIsTold, EntriesOpen, ExitsClose, Deciding,
                                Active, Open, Book, Told
    <2> QED
        BY <2>2, <2>3 DEF IInv
<1>3. CASE ~HasExit(intent.id) /\ ord' = Append(ord, NewOrder(intent.id, intent.buy, intent.qty))
    <2>1. PICK r : r = NewOrder(intent.id, intent.buy, intent.qty)
        OBVIOUS
    <2>2. /\ ord \in Seq(Order) /\ intent.id \in Nat /\ intent.qty \in Nat /\ intent.buy \in BOOLEAN
          /\ pos.id \in Nat /\ pos.qty \in Nat
        BY Sanity
    <2>3. intent.id > 0 /\ intent.qty > 0
        BY <1>1 DEF Numbered
    <2>4. /\ r \in Order /\ r.st = "working" /\ r.pid = intent.id /\ r.told = 0 /\ r.qty = intent.qty
          /\ r.buy = intent.buy
        BY <2>1, <2>2 DEF NewOrder, Order, ActiveStatus
    <2>5. PICK n \in Nat : /\ ord' \in Seq(Order) /\ n \notin Placed /\ Placed' = Placed \cup {n}
                           /\ ord'[n] = r /\ \A j \in Placed : ord'[j] = ord[j]
        BY <1>3, <2>1, <2>2, <2>4, OneMore
    <2>6. Entries' = Entries /\ Exits' = Exits \cup {n} /\ Exits \in SUBSET Placed /\ Entries \in SUBSET Placed
        BY <2>3, <2>4, <2>5 DEF Exits, Entries, Nobody
    <2>7. InPlaceOnly'
        BY <1>1, <2>4, <2>5 DEF IInv, InPlaceOnly
    <2>8. OneSide'
        <3> SUFFICES ASSUME ~mode.replaces PROVE OneSide'
            BY <1>1 DEF OneSide
        <3>1. /\ \A i, j \in Placed : ord[i].st = "working" /\ ord[j].st = "working" => ord[i].buy = ord[j].buy
              /\ \A i \in Exits, j \in Entries : Active(i) /\ ord[j].st = "working" => ord[i].buy = ord[j].buy
              /\ \A i \in Placed : ord[i].st = "working" => ord[i].buy = intent.buy
            BY <1>1 DEF IInv, OneSide
        <3>2. \A i, j \in Placed' : ord'[i].st = "working" /\ ord'[j].st = "working" => ord'[i].buy = ord'[j].buy
            BY <2>4, <2>5, <3>1
        <3>3. \A i \in Exits', j \in Entries' : Active(i)' /\ ord'[j].st = "working" => ord'[i].buy = ord'[j].buy
            BY <2>4, <2>5, <2>6, <3>1 DEF Active
        <3> QED
            BY <1>1, <3>2, <3>3 DEF OneSide
    <2>9. SmoothInv'
        <3> SUFFICES ASSUME Smooth PROVE OverIsTold' /\ EntriesOpen' /\ ExitsClose' /\ Deciding' /\ (Book = Told)'
            BY <1>1 DEF SmoothInv, Smooth
        <3>1. OverIsTold /\ EntriesOpen /\ ExitsClose /\ Deciding /\ Book = Told
            BY DEF IInv, SmoothInv
        <3>2. Open /\ pos.id = intent.id /\ ~HasExit(pos.id) /\ intent.buy # pos.long /\ intent.qty <= pos.qty
            BY <1>1, <3>1 DEF Deciding
        <3>3. OverIsTold'
            BY <2>4, <2>5, <3>1 DEF OverIsTold
        <3>4. EntriesOpen'
            BY <1>1, <2>5, <2>6, <3>1 DEF EntriesOpen, Active, Open
        <3>5. Unfinished = {}
            BY <3>1, <3>2 DEF Unfinished, ExitsClose, HasExit
        <3>6. Unfinished' \in SUBSET {n}
            BY <2>5, <2>6, <3>5 DEF Unfinished, Active
        <3>7. ExitsClose'
            <4>1. \A j \in Placed' : ord'[j].pid <= pos'.id
                BY <1>1, <2>2, <2>4, <2>5, <3>1, <3>2 DEF ExitsClose
            <4>2. Open' /\ ord'[n].pid = pos'.id /\ ord'[n].buy # pos'.long
                BY <1>1, <2>4, <2>5, <3>2 DEF Open
            <4>3. ord'[n].qty - ord'[n].told <= pos'.qty
                BY <1>1, <2>2, <2>4, <2>5, <3>2
            <4> QED
                BY <3>6, <4>1, <4>2, <4>3 DEF ExitsClose
        <3>8. Deciding'
            BY <1>1 DEF Deciding
        <3>9. (Book = Told)'
            <4>1. PICK f, g, S : f = ToldOf /\ g = ToldOf' /\ S = Placed
                OBVIOUS
            <4>2. IsFiniteSet(S) /\ \A j \in S : f[j] = Signed(ord[j].buy, ord[j].told) /\ f[j] \in Int
                BY <4>1, ToldTypes
            <4>3. \A j \in S \cup {n} : g[j] = Signed(ord'[j].buy, ord'[j].told)
                BY <2>5, <4>1 DEF ToldOf
            <4>4. g[n] = 0
                <5>1. Signed(r.buy, 0) = 0
                    BY SignedZero
                <5> QED
                    BY <2>4, <2>5, <4>3, <5>1
            <4>5. \A j \in S : g[j] = f[j] /\ g[j] \in Int
                BY <2>5, <4>1, <4>2, <4>3
            <4>6. SumOf(g, S \cup {n}) = g[n] + SumOf(g, S)
                BY <2>5, <4>1, <4>2, <4>4, <4>5, SumWith
            <4>7. SumOf(g, S) = SumOf(f, S) /\ SumOf(g, S) \in Int
                BY <4>2, <4>5, SumSame, SumInt
            <4>8. SumOf(g, S \cup {n}) = SumOf(f, S)
                BY <4>4, <4>6, <4>7
            <4>9. Told' = Told
                BY <2>5, <4>1, <4>8 DEF Told
            <4> QED
                BY <1>1, <3>1, <4>9 DEF Book
        <3> QED
            BY <3>3, <3>4, <3>7, <3>8, <3>9
    <2> QED
        BY <2>7, <2>8, <2>9 DEF IInv
<1> QED
    BY <1>2, <1>3 DEF SubmitExit

\* The steps of the tick, the commands and the clock leave the orders alone.
LEMMA RestKeeps ==
    ASSUME TypeOK, Numbered, IInv, ord' = ord, UNCHANGED <<mode, pos>>,
           \/ UNCHANGED <<pc, intent>>
           \/ pc' = "idle"
           \/ CheckBegin \/ Trigger \/ OppositesCancelled
    PROVE  IInv'
<1>1. Placed' = Placed /\ Exits' = Exits /\ Entries' = Entries /\ Unfinished' = Unfinished /\ ToldOf' = ToldOf
    BY DEF Placed, Exits, Entries, Unfinished, Active, ToldOf
<1>2. InPlaceOnly'
    BY <1>1 DEF IInv, InPlaceOnly
<1>3. ~mode.replaces /\ pc' = "submit" => \A i \in Placed : ord[i].st = "working" => ord[i].buy = intent'.buy
    <2> SUFFICES ASSUME ~mode.replaces, pc' = "submit", NEW i \in Placed, ord[i].st = "working"
                 PROVE  ord[i].buy = intent'.buy
        OBVIOUS
    <2>1. CASE UNCHANGED <<pc, intent>>
        BY <2>1 DEF IInv, OneSide
    <2>2. CASE CheckBegin
        <3>1. UNCHANGED <<pc, intent>>
            BY <2>2 DEF CheckBegin
        <3> QED
            BY <3>1, <2>1
    <2>3. CASE OppositesCancelled
        BY <2>3 DEF OppositesCancelled, InTheWay
    <2>4. CASE Trigger
        BY <2>4 DEF Trigger
    <2> QED
        BY <2>1, <2>2, <2>3, <2>4
<1>4. OneSide'
    BY <1>1, <1>3 DEF IInv, OneSide, Active
<1>5. ASSUME Smooth PROVE Deciding'
    <2>1. Deciding
        BY <1>5 DEF IInv, SmoothInv
    <2>2. Open' = Open /\ \A id \in Nat : HasExit(id)' = HasExit(id)
        BY <1>1 DEF Open, HasExit, Active
    <2>3. pos.id \in Nat /\ pos.qty \in Nat /\ pos.long \in BOOLEAN
        BY Sanity
    <2>4. HasExit(pos.id)' <=> HasExit(pos.id)
        BY <1>1 DEF HasExit, Active
    <2>5. CASE UNCHANGED <<pc, intent>>
        BY <2>1, <2>2, <2>4, <2>5 DEF Deciding
    <2>6. CASE pc' = "idle"
        BY <2>6 DEF Deciding
    <2>7. CASE CheckBegin
        <3>1. CASE HasExit(pos.id)
            BY <2>5, <2>7, <3>1 DEF CheckBegin
        <3>2. CASE ~HasExit(pos.id)
            <4>1. pc' = "quotes" /\ intent' = [id |-> pos.id, buy |-> FALSE, qty |-> 0] /\ Open
                BY <2>7, <3>2 DEF CheckBegin, NoIntent
            <4> QED
                BY <2>2, <2>4, <3>2, <4>1 DEF Deciding
        <3> QED
            BY <3>1, <3>2
    <2>8. CASE Trigger
        <3>1. /\ pc' = "cancel" /\ intent' = [id |-> pos.id, buy |-> ~pos.long, qty |-> pos.qty]
              /\ pc = "quotes" /\ Open
            BY <2>8 DEF Trigger, Candidate
        <3>2. intent'.id = pos.id /\ intent'.qty = pos.qty /\ intent'.buy = ~pos.long
            BY <3>1
        <3>3. (intent'.buy # pos'.long) /\ intent'.qty <= pos'.qty
            BY <2>3, <3>2
        <3>4. ~HasExit(pos.id)
            BY <2>1, <3>1 DEF Deciding
        <3> QED
            BY <2>2, <2>4, <3>1, <3>2, <3>3, <3>4 DEF Deciding
    <2>9. CASE OppositesCancelled
        BY <2>1, <2>2, <2>4, <2>9 DEF OppositesCancelled, Deciding
    <2> QED
        BY <2>5, <2>6, <2>7, <2>8, <2>9
<1>6. SmoothInv'
    BY <1>1, <1>5 DEF IInv, SmoothInv, Smooth, OverIsTold, EntriesOpen, ExitsClose, Active, Open, Book, Told
<1> QED
    BY <1>2, <1>4, <1>6 DEF IInv

\* The invariant holds at the start ...
LEMMA InvInit == BookAssumption /\ Init => IInv
<1> SUFFICES ASSUME BookAssumption, Init PROVE IInv
    OBVIOUS
<1>1. Placed = {} /\ Exits = {} /\ Entries = {} /\ pc = "idle" /\ pos.qty = 0
    BY DEF Init, Placed, Exits, Entries
<1>2. InPlaceOnly /\ OneSide
    BY <1>1 DEF InPlaceOnly, OneSide
<1>3. OverIsTold /\ EntriesOpen /\ ExitsClose /\ Deciding
    BY <1>1 DEF OverIsTold, EntriesOpen, ExitsClose, Unfinished, Deciding
<1>4. Book = 0 /\ Told = 0
    BY <1>1, SignedZero, SumEmpty DEF Book, Told
<1> QED
    BY <1>2, <1>3, <1>4 DEF IInv, SmoothInv

\* ... every step keeps it ...
LEMMA InvStep == BookAssumption /\ TypeOK /\ Numbered /\ IInv /\ [Next]_vars => IInv'
<1> SUFFICES ASSUME BookAssumption, TypeOK, Numbered, IInv, [Next]_vars PROVE IInv'
    OBVIOUS
<1>1. CASE UNCHANGED vars
    <2>1. ord' = ord /\ UNCHANGED <<mode, pos>> /\ UNCHANGED <<pc, intent>>
        BY <1>1 DEF vars, tickVars
    <2> QED
        BY <2>1, RestKeeps
<1>2. CASE SubmitEntry
    BY <1>2, SubmitEntryKeeps
<1>3. CASE SubmitExit
    BY <1>3, SubmitExitKeeps
<1>4. CASE FlattenAll \/ FlagExit \/ TimeUp \/ Elapse \/ CheckFlat
    <2>1. ord' = ord /\ UNCHANGED <<mode, pos>> /\ UNCHANGED <<pc, intent>>
        BY <1>4 DEF FlattenAll, FlagExit, TimeUp, Elapse, CheckFlat, tickVars
    <2> QED
        BY <2>1, RestKeeps
<1>5. CASE NoExit
    <2>1. ord' = ord /\ UNCHANGED <<mode, pos>> /\ pc' = "idle"
        BY <1>5 DEF NoExit, Back
    <2> QED
        BY <2>1, RestKeeps
<1>6. CASE CheckBegin
    BY <1>6, RestKeeps DEF CheckBegin
<1>7. CASE Trigger
    BY <1>7, RestKeeps DEF Trigger
<1>8. CASE OppositesCancelled
    BY <1>8, RestKeeps DEF OppositesCancelled
<1>9. CASE CancelOpposite
    <2>1. PICK i \in InTheWay : Set(i, [ord[i] EXCEPT !.st = "pending"])
        BY <1>9 DEF CancelOpposite
    <2>2. i \in Placed /\ Withdraw(i)
        BY <1>9, <2>1 DEF CancelOpposite, InTheWay, Withdraw
    <2> QED
        BY <2>2, OrderStepKeeps DEF OrderStep
<1>10. ASSUME NEW i \in Placed, OrderStep(i) PROVE IInv'
    BY <1>10, OrderStepKeeps
<1>11. ASSUME NEW i \in Placed, ReportExec(i) PROVE IInv'
    BY <1>11, ReportExecKeeps
<1> QED
    BY <1>1, <1>2, <1>3, <1>4, <1>5, <1>6, <1>7, <1>8, <1>9, <1>10, <1>11 DEF Next, OrderStep

\* ... and so it always holds.
LEMMA InvHolds == Spec => [](TypeOK /\ Numbered /\ IInv)
<1>1. BookAssumption
    BY BookAssumption
<1>2. Init => TypeOK /\ Numbered /\ IInv
    BY <1>1, TypeInit, InvInit
<1>3. TypeOK /\ Numbered /\ IInv /\ [Next]_vars => TypeOK' /\ Numbered' /\ IInv'
    <2>1. ASSUME TypeOK, Numbered, UNCHANGED vars PROVE TypeOK' /\ Numbered'
        <3>1. ord' = ord /\ UNCHANGED <<mode, pos, latch, flagged, due, tickVars>>
            BY <2>1 DEF vars
        <3> QED
            BY <2>1, <3>1, SoundSame, TypeSame
    <2> QED
        BY <1>1, <2>1, TypeStep, InvStep
<1> QED
    BY <1>2, <1>3, PTL DEF Spec

-----------------------------------------------------------------------------
(* What follows from it *)

\* The broker's position as a sum ...
LEMMA NetIs == ASSUME TypeOK PROVE Net = SumOf(DoneOf, Placed) /\ \A i \in Placed : DoneOf[i] \in Int
<1> DEFINE chosen == CHOOSE jt : jt = [s \in SUBSET Placed |->
              IF s = {} THEN 0 ELSE Signed(ord[Pick(s)].buy, ord[Pick(s)].done) + jt[s \ {Pick(s)}]]
<1>1. ord \in Seq(Order) /\ IsFiniteSet(Placed)
    BY Sanity, PlacedFinite
<1>2. \A i \in Placed : DoneOf[i] = Signed(ord[i].buy, ord[i].done) /\ DoneOf[i] \in Int
    BY <1>1, Fields, SignedInt DEF DoneOf
<1>3. Net = chosen[Placed]
    BY Zenon DEF Net, MapThenSumSet, MapThenFoldSet, Pick
<1>4. PICK it : Folds(it, DoneOf, Placed)
    BY <1>1, FoldExists
<1>5. [s \in SUBSET Placed |-> IF s = {} THEN 0 ELSE DoneOf[Pick(s)] + it[s \ {Pick(s)}]]
        = [s \in SUBSET Placed |-> IF s = {} THEN 0 ELSE Signed(ord[Pick(s)].buy, ord[Pick(s)].done) + it[s \ {Pick(s)}]]
    BY <1>2, PickIn
<1>6. \E jt : jt = [s \in SUBSET Placed |->
              IF s = {} THEN 0 ELSE Signed(ord[Pick(s)].buy, ord[Pick(s)].done) + jt[s \ {Pick(s)}]]
    BY <1>4, <1>5 DEF Folds
<1>7. chosen = [s \in SUBSET Placed |->
              IF s = {} THEN 0 ELSE Signed(ord[Pick(s)].buy, ord[Pick(s)].done) + chosen[s \ {Pick(s)}]]
    BY <1>6, Zenon
<1> HIDE DEF chosen
<1>8. [s \in SUBSET Placed |-> IF s = {} THEN 0 ELSE DoneOf[Pick(s)] + chosen[s \ {Pick(s)}]]
        = [s \in SUBSET Placed |-> IF s = {} THEN 0 ELSE Signed(ord[Pick(s)].buy, ord[Pick(s)].done) + chosen[s \ {Pick(s)}]]
    BY <1>2, PickIn
<1>9. Folds(chosen, DoneOf, Placed)
    BY <1>7, <1>8 DEF Folds
<1>10. SumOf(DoneOf, Placed) = chosen[Placed]
    BY <1>1, <1>2, <1>9, SumFolds
<1> QED
    BY <1>2, <1>3, <1>10

\* ... what is in flight ...
LEMMA InFlightIs == ASSUME TypeOK PROVE InFlight = SumOf(WayOf, Placed) /\ \A i \in Placed : WayOf[i] \in Int
<1> DEFINE chosen == CHOOSE jt : jt = [s \in SUBSET Placed |->
              IF s = {} THEN 0 ELSE Signed(ord[Pick(s)].buy, Undelivered(Pick(s))) + jt[s \ {Pick(s)}]]
<1>1. ord \in Seq(Order) /\ IsFiniteSet(Placed)
    BY Sanity, PlacedFinite
<1>2. \A i \in Placed : WayOf[i] = Signed(ord[i].buy, Undelivered(i)) /\ WayOf[i] \in Int
    <2>1. \A i \in Placed : Undelivered(i) \in Int
        BY <1>1, Fields DEF Undelivered
    <2> QED
        BY <2>1, SignedInt DEF WayOf
<1>3. InFlight = chosen[Placed]
    BY Zenon DEF InFlight, MapThenSumSet, MapThenFoldSet, Pick
<1>4. PICK it : Folds(it, WayOf, Placed)
    BY <1>1, FoldExists
<1>5. [s \in SUBSET Placed |-> IF s = {} THEN 0 ELSE WayOf[Pick(s)] + it[s \ {Pick(s)}]]
        = [s \in SUBSET Placed |-> IF s = {} THEN 0 ELSE Signed(ord[Pick(s)].buy, Undelivered(Pick(s))) + it[s \ {Pick(s)}]]
    BY <1>2, PickIn
<1>6. \E jt : jt = [s \in SUBSET Placed |->
              IF s = {} THEN 0 ELSE Signed(ord[Pick(s)].buy, Undelivered(Pick(s))) + jt[s \ {Pick(s)}]]
    BY <1>4, <1>5 DEF Folds
<1>7. chosen = [s \in SUBSET Placed |->
              IF s = {} THEN 0 ELSE Signed(ord[Pick(s)].buy, Undelivered(Pick(s))) + chosen[s \ {Pick(s)}]]
    BY <1>6, Zenon
<1> HIDE DEF chosen
<1>8. [s \in SUBSET Placed |-> IF s = {} THEN 0 ELSE WayOf[Pick(s)] + chosen[s \ {Pick(s)}]]
        = [s \in SUBSET Placed |-> IF s = {} THEN 0 ELSE Signed(ord[Pick(s)].buy, Undelivered(Pick(s))) + chosen[s \ {Pick(s)}]]
    BY <1>2, PickIn
<1>9. Folds(chosen, WayOf, Placed)
    BY <1>7, <1>8 DEF Folds
<1>10. SumOf(WayOf, Placed) = chosen[Placed]
    BY <1>1, <1>2, <1>9, SumFolds
<1> QED
    BY <1>2, <1>3, <1>10

\* ... and what is left of some orders.
LEMMA LeftIs ==
    ASSUME TypeOK, NEW S \in SUBSET Placed
    PROVE  MapThenSumSet(Remaining, S) = SumOf(LeftOf, S) /\ \A i \in S : LeftOf[i] \in Int
<1> DEFINE chosen == CHOOSE jt : jt = [s \in SUBSET S |->
              IF s = {} THEN 0 ELSE Remaining(Pick(s)) + jt[s \ {Pick(s)}]]
<1>1. ord \in Seq(Order) /\ IsFiniteSet(S)
    BY Sanity, PlacedFinite, FS_Subset
<1>2. \A i \in S : LeftOf[i] = Remaining(i) /\ LeftOf[i] \in Int
    <2>1. \A i \in S : Remaining(i) \in Int
        BY <1>1, Fields DEF Remaining
    <2> QED
        BY <2>1 DEF LeftOf
<1>3. MapThenSumSet(Remaining, S) = chosen[S]
    BY Zenon DEF MapThenSumSet, MapThenFoldSet, Pick
<1>4. PICK it : Folds(it, LeftOf, S)
    BY <1>1, FoldExists
<1>5. [s \in SUBSET S |-> IF s = {} THEN 0 ELSE LeftOf[Pick(s)] + it[s \ {Pick(s)}]]
        = [s \in SUBSET S |-> IF s = {} THEN 0 ELSE Remaining(Pick(s)) + it[s \ {Pick(s)}]]
    BY <1>2, PickIn
<1>6. \E jt : jt = [s \in SUBSET S |-> IF s = {} THEN 0 ELSE Remaining(Pick(s)) + jt[s \ {Pick(s)}]]
    BY <1>4, <1>5 DEF Folds
<1>7. chosen = [s \in SUBSET S |-> IF s = {} THEN 0 ELSE Remaining(Pick(s)) + chosen[s \ {Pick(s)}]]
    BY <1>6, Zenon
<1> HIDE DEF chosen
<1>8. [s \in SUBSET S |-> IF s = {} THEN 0 ELSE LeftOf[Pick(s)] + chosen[s \ {Pick(s)}]]
        = [s \in SUBSET S |-> IF s = {} THEN 0 ELSE Remaining(Pick(s)) + chosen[s \ {Pick(s)}]]
    BY <1>2, PickIn
<1>9. Folds(chosen, LeftOf, S)
    BY <1>7, <1>8 DEF Folds
<1>10. SumOf(LeftOf, S) = chosen[S]
    BY <1>1, <1>2, <1>9, SumFolds
<1> QED
    BY <1>2, <1>3, <1>10

\* Net is the book plus what is in flight, ...
LEMMA BooksBalance == TypeOK /\ IInv => BookIsBroker
<1> SUFFICES ASSUME TypeOK, IInv, Smooth PROVE Net = Book + InFlight
    BY DEF BookIsBroker
<1>1. Book = Told
    BY DEF IInv, SmoothInv
<1>2. ord \in Seq(Order) /\ IsFiniteSet(Placed)
    BY Sanity, PlacedFinite
<1>3. PICK d, t, w, S : d = DoneOf /\ t = ToldOf /\ w = WayOf /\ S = Placed
    OBVIOUS
<1>4. (\A i \in S : d[i] \in Int) /\ (\A i \in S : t[i] \in Int) /\ (\A i \in S : w[i] \in Int)
    BY <1>3, NetIs, InFlightIs, ToldTypes
<1>5. ASSUME NEW i \in S PROVE d[i] = t[i] + w[i]
    <2>1. ord[i].done \in Nat /\ ord[i].told \in Nat
        BY <1>2, <1>3, <1>5, Fields
    <2>2. Signed(ord[i].buy, ord[i].done)
            = Signed(ord[i].buy, ord[i].told) + Signed(ord[i].buy, ord[i].done - ord[i].told)
        BY <2>1 DEF Signed
    <2> QED
        BY <1>3, <1>5, <2>2 DEF DoneOf, ToldOf, WayOf, Undelivered
<1>6. SumOf(d, S) = SumOf(t, S) + SumOf(w, S)
    BY <1>2, <1>3, <1>4, <1>5, SumPlus
<1> QED
    BY <1>1, <1>3, <1>6, NetIs, InFlightIs DEF Told

\* ... to which all but the unfinished exit contribute on the side of the position.
LEMMA ExitsCovered == TypeOK /\ IInv => ExitsAreCovered
<1> SUFFICES ASSUME TypeOK, IInv, Smooth PROVE ExitsOnlyReduce
    BY DEF ExitsAreCovered
<1>1. OverIsTold /\ EntriesOpen /\ ExitsClose /\ Deciding
    BY DEF IInv, SmoothInv
<1>2. /\ ord \in Seq(Order) /\ IsFiniteSet(Placed) /\ \A i \in Placed : Sane(ord[i])
      /\ pos.qty \in Nat /\ pos.long \in BOOLEAN
    BY Sanity, PlacedFinite
<1>3. Net = Book + InFlight /\ InFlight = SumOf(WayOf, Placed) /\ Net \in Int
    <2>1. Net = SumOf(DoneOf, Placed) /\ \A i \in Placed : DoneOf[i] \in Int
        BY NetIs
    <2>2. Net \in Int
        BY <1>2, <2>1, SumInt
    <2> QED
        BY <2>2, BooksBalance, InFlightIs DEF BookIsBroker
<1>4. LiveExits \in SUBSET Placed /\ Exits \in SUBSET Placed
    BY DEF LiveExits, Exits
<1>5. LiveExits \in SUBSET Unfinished
    <2> SUFFICES ASSUME NEW i \in LiveExits PROVE i \in Unfinished
        OBVIOUS
    <2>1. i \in Exits /\ i \in Placed /\ ord[i].live
        BY <1>4 DEF LiveExits
    <2>2. Sane(ord[i]) /\ ord[i].told \in Nat /\ ord[i].done \in Nat /\ ord[i].qty \in Nat
        BY <1>2, <2>1, Fields
    <2>3. Active(i) /\ ord[i].told < ord[i].qty
        BY <2>1, <2>2 DEF Sane, Active
    <2> QED
        BY <2>1, <2>3 DEF Unfinished
<1>6. CASE LiveExits = {}
    <2>1. MapThenSumSet(Remaining, LiveExits) = SumOf(LeftOf, LiveExits)
        BY <1>4, LeftIs
    <2>2. MapThenSumSet(Remaining, LiveExits) = 0
        BY <1>6, <2>1, SumEmpty
    <2>3. 0 <= IF Net < 0 THEN -Net ELSE Net
        BY <1>3
    <2> QED
        BY <1>6, <2>2, <2>3 DEF ExitsOnlyReduce
<1>7. ASSUME NEW e \in LiveExits PROVE ExitsOnlyReduce
    <2>1. LiveExits = {e} /\ e \in Unfinished /\ e \in Placed
        BY <1>1, <1>4, <1>5, <1>7 DEF ExitsClose
    <2>2. PICK q : q = ord[e]
        OBVIOUS
    <2>3. /\ q.done \in Nat /\ q.told \in Nat /\ q.qty \in Nat /\ q.buy \in BOOLEAN
          /\ q.told <= q.done /\ q.done < q.qty
        <3>1. q.done \in Nat /\ q.told \in Nat /\ q.qty \in Nat /\ q.buy \in BOOLEAN
            BY <1>2, <2>1, <2>2, Fields
        <3>2. Sane(q) /\ q.live
            BY <1>2, <2>1, <2>2 DEF LiveExits
        <3> QED
            BY <3>1, <3>2 DEF Sane
    <2>4. Open /\ q.buy # pos.long /\ q.qty - q.told <= pos.qty
        BY <1>1, <2>1, <2>2 DEF ExitsClose
    <2>5. PICK w, S, T : w = WayOf /\ S = Placed /\ T = Placed \ {e}
        OBVIOUS
    <2>6. \A i \in S : w[i] \in Int
        BY <2>5, InFlightIs
    <2>7. IsFiniteSet(S) /\ IsFiniteSet(T) /\ (\A i \in T : w[i] \in Int)
        BY <1>2, <2>5, <2>6, FS_Subset
    <2>8. SumOf(w, S) = w[e] + SumOf(w, T)
        BY <2>1, <2>5, <2>6, <2>7, SumWithout
    <2>9. w[e] = Signed(q.buy, q.done - q.told)
        BY <2>1, <2>2, <2>5 DEF WayOf, Undelivered
    <2>10. ASSUME NEW i \in T PROVE \E n \in Nat : w[i] = Signed(pos.long, n)
        <3>1. i \in Placed /\ i # e
            BY <2>5, <2>10
        <3>2. /\ ord[i].done \in Nat /\ ord[i].told \in Nat /\ ord[i].qty \in Nat
              /\ ord[i].st \in Statuses
            BY <1>2, <3>1, Fields DEF Statuses, ActiveStatus
        <3>3. ord[i].told <= ord[i].done /\ ord[i].done <= ord[i].qty
            BY <1>2, <3>1 DEF Sane
        <3>4. PICK n \in Nat : n = ord[i].done - ord[i].told
            BY <3>2, <3>3
        <3>5. w[i] = Signed(ord[i].buy, n)
            BY <2>5, <3>1, <3>4 DEF WayOf, Undelivered
        <3>6. CASE n = 0
            BY <3>5, <3>6, SignedZero
        <3>7. CASE n # 0
            <4>1. ord[i].st # "over"
                BY <1>1, <3>1, <3>2, <3>4, <3>7 DEF OverIsTold
            <4>2. ord[i].st # "gap"
                BY <3>1 DEF IInv, InPlaceOnly, Smooth
            <4>3. Active(i)
                BY <3>2, <4>1, <4>2 DEF Active, Statuses
            <4>4. i \notin Unfinished
                BY <1>1, <2>1, <3>1 DEF ExitsClose
            <4>5. ord[i].told < ord[i].qty
                BY <3>2, <3>3, <3>4, <3>7
            <4>6. i \in Entries
                BY <3>1, <4>3, <4>4, <4>5 DEF Unfinished, Exits
            <4>7. ord[i].buy = pos.long
                BY <1>1, <2>4, <4>3, <4>6 DEF EntriesOpen
            <4> QED
                BY <3>5, <4>7
        <3> QED
            BY <3>6, <3>7
    <2>11. MapThenSumSet(Remaining, LiveExits) = q.qty - q.done
        <3>1. MapThenSumSet(Remaining, LiveExits) = SumOf(LeftOf, LiveExits)
            BY <1>4, LeftIs
        <3>2. LeftOf[e] = q.qty - q.done
            BY <2>1, <2>2 DEF LeftOf, Remaining
        <3>3. IsFiniteSet({e}) /\ \A i \in {e} : LeftOf[i] \in Int
            <4>1. \A i \in LiveExits : LeftOf[i] \in Int
                BY <1>4, LeftIs
            <4>2. IsFiniteSet(LiveExits)
                BY <1>2, <1>4, FS_Subset
            <4> QED
                BY <2>1, <4>1, <4>2
        <3>4. SumOf(LeftOf, {e}) = LeftOf[e] + SumOf(LeftOf, {e} \ {e})
            BY <3>3, SumWithout
        <3>5. {e} \ {e} = {}
            OBVIOUS
        <3>6. SumOf(LeftOf, {e} \ {e}) = 0
            BY <3>5, SumEmpty
        <3> QED
            BY <2>1, <2>3, <3>1, <3>2, <3>4, <3>6
    <2>12. CASE pos.long
        <3>1. \A i \in T : w[i] >= 0
            BY <2>10, <2>12 DEF Signed
        <3>2. SumOf(w, T) \in Int /\ SumOf(w, T) >= 0
            BY <2>7, <3>1, SumNonneg
        <3>3. w[e] = -(q.done - q.told) /\ Book = pos.qty /\ ~q.buy
            BY <2>3, <2>4, <2>9, <2>12 DEF Signed, Book
        <3>4. Net = pos.qty - (q.done - q.told) + SumOf(w, T)
            BY <1>2, <1>3, <2>3, <2>5, <2>8, <3>2, <3>3
        <3>5. Net >= q.qty - q.done /\ Net > 0
            BY <1>2, <2>3, <2>4, <3>2, <3>4
        <3>6. \A i \in LiveExits : ord[i].buy = (Net < 0)
            <4>1. ~(Net < 0)
                BY <1>3, <3>5
            <4> QED
                BY <2>1, <2>2, <2>3, <3>3, <4>1
        <3> QED
            BY <1>3, <2>3, <2>11, <3>5, <3>6 DEF ExitsOnlyReduce
    <2>13. CASE ~pos.long
        <3>1. \A i \in T : w[i] <= 0
            BY <2>10, <2>13 DEF Signed
        <3>2. SumOf(w, T) \in Int /\ SumOf(w, T) <= 0
            BY <2>7, <3>1, SumNonpos
        <3>3. w[e] = q.done - q.told /\ Book = -pos.qty /\ q.buy
            <4>1. q.buy
                BY <1>2, <2>3, <2>4, <2>13
            <4> QED
                BY <2>3, <2>9, <2>13, <4>1 DEF Signed, Book
        <3>4. Net = (q.done - q.told) + SumOf(w, T) - pos.qty
            BY <1>2, <1>3, <2>3, <2>5, <2>8, <3>2, <3>3
        <3>5. -Net >= q.qty - q.done /\ Net < 0
            BY <1>2, <2>3, <2>4, <3>2, <3>4
        <3>6. \A i \in LiveExits : ord[i].buy = (Net < 0)
            BY <2>1, <2>2, <2>3, <3>3, <3>5
        <3> QED
            BY <1>3, <2>3, <2>11, <3>5, <3>6 DEF ExitsOnlyReduce
    <2> QED
        BY <2>12, <2>13
<1> QED
    BY <1>6, <1>7

\* What can fill against an exit that can is not working, or is an exit that the first
\* makes way for.
LEMMA SidesWithdrawn == TypeOK /\ IInv => BothSidesWithdrawn
<1> SUFFICES ASSUME TypeOK, IInv, ~mode.replaces, NEW i \in LiveExits, NEW j \in Placed,
                    ord[j].live, ord[j].buy # ord[i].buy, ord[j].st = "working"
             PROVE  j \in Exits /\ ord[i].st # "working"
    BY DEF BothSidesWithdrawn
<1>1. i \in Exits /\ i \in Placed /\ ord[i].live
    BY DEF LiveExits, Exits
<1>2. Active(i)
    BY <1>1, Sanity DEF Sane, Active
<1>3. /\ \A k, l \in Placed : ord[k].st = "working" /\ ord[l].st = "working" => ord[k].buy = ord[l].buy
      /\ \A k \in Exits, l \in Entries : Active(k) /\ ord[l].st = "working" => ord[k].buy = ord[l].buy
    BY DEF IInv, OneSide
<1>4. j \in Exits
    BY <1>1, <1>2, <1>3 DEF Exits
<1>5. ord[i].st # "working"
    BY <1>1, <1>3
<1> QED
    BY <1>4, <1>5

\* Position updates driven by fills alone keep the book equal to the broker's position,
\* up to what is in flight, if executions are reported first and orders are modified in
\* place: handle_fill cuts nothing off and opens nothing the broker does not have.
THEOREM TheBookIsTheBrokers == Spec => []BookIsBroker
BY InvHolds, BooksBalance, PTL

\* Under the same conditions, the exits _check_exits has submitted never turn the
\* broker's position around, whatever remainders of entries still fill.
THEOREM ExitsNeverTurnIt == Spec => []ExitsAreCovered
BY InvHolds, ExitsCovered, PTL

\* When orders are modified in place, nothing works on the other side of an exit that can
\* fill, unless that exit is being cancelled in favour of another: _check_exits withdraws
\* opposite orders before it submits.
THEOREM NothingWorksAgainstAnExit == Spec => []BothSidesWithdrawn
BY InvHolds, SidesWithdrawn, PTL
=============================================================================
