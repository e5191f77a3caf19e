-------------------------- MODULE AttributionProofs --------------------------
(***************************************************************************)
(* Theorems about position_attribution, for any number of strategies,      *)
(* contracts, orders and processes.                                        *)
(*                                                                         *)
(* OneTradePerDay follows from OnceInv: as long as nothing was lost, a     *)
(* strategy that has opened a position is named by an execution still to   *)
(* be reported, by a background upsert or by a row, and what survives the  *)
(* process is a row; unless the process knows nobody who traded, no entry  *)
(* that had to be the strategy's first is then at work. OwnerNeverChanges  *)
(* follows from RowsInv: a position in the book, what a worker has read of *)
(* it and its row name the same strategy and the same contract.            *)
(* CloseReasonKept follows from ReasonInv, and this from SidesInv: what    *)
(* closes a position is its own exit.                                      *)
(*                                                                         *)
(* SeededLikeBroker follows from TodoInv: nothing is in the book of a      *)
(* contract still to be seeded.  SeedingRestoresOwners follows from        *)
(* KeptInv: what a process left behind that agreed with broker and rows    *)
(* agrees with them until somebody trades, and seeding a contract makes of *)
(* the rows the positions they were written for.  That the broker's        *)
(* position has their side, and the size of a single one, is about sums.   *)
(***************************************************************************)
EXTENDS Attribution, SumProofs, SequenceTheorems, TLAPS

Order == [strat : Owners, con : Contracts, buy : BOOLEAN, left : Nat, ours : BOOLEAN, pid : Nat, once : BOOLEAN]
Position == [strat : Owners, con : Contracts, long : BOOLEAN, qty : Nat]
Reasons == {"exit", "none"}
RowOf == [strat : Owners, con : Contracts, long : BOOLEAN, qty : Nat, status : {"open", "closed"}, why : Reasons]
Upsert == [pid : DOMAIN book, why : Reasons, read : Position \cup {NoRead}]

AttTypes ==
    /\ orders \in Seq(Order) /\ wire \in Seq(Nat \X (Nat \ {0}))
    /\ \A k \in DOMAIN wire : wire[k][1] \in DOMAIN orders
    /\ \A p \in DOMAIN book : book[p] \in Position
    /\ \A r \in DOMAIN rows : rows[r] \in RowOf
    /\ \A k \in DOMAIN writers : writers[k] \in Upsert
    /\ next \in Nat \ {0} /\ DOMAIN book \cup DOMAIN rows \subseteq 1 .. next - 1
    /\ fees \cup why \subseteq DOMAIN book
    /\ conf \subseteq Strats
    /\ net \in [Contracts -> Int] /\ \A c \in DOMAIN held : held[c] \in Int \ {0}
    /\ DOMAIN held \subseteq Contracts /\ todo \subseteq DOMAIN held
    /\ opened \in [Strats -> Nat] /\ lost \in BOOLEAN
    /\ phase \in {"run", "stopping", "down", "seed", "start"}
    /\ phase \in {"down", "seed", "start"} =>
          DOMAIN writers = {} /\ fees = {} /\ why = {} /\ wire = <<>>
    /\ phase = "down" => DOMAIN book = {}

\* An entry that may still fill, or has fills to be reported.
Entry(i) == ActiveOrder(i) /\ orders[i].pid = Nobody

OrdersInv ==
    /\ phase # "run" => \A i \in DOMAIN orders : ~orders[i].ours
    /\ phase = "run" => \A k \in DOMAIN wire : orders[wire[k][1]].ours
    /\ \A i, j \in DOMAIN orders :
          Entry(i) /\ Entry(j) /\ orders[i].strat = orders[j].strat => i = j
    /\ \A i \in DOMAIN orders : orders[i].pid = Nobody => orders[i].left <= Qty /\ orders[i].strat \in Strats

RowsInv ==
    /\ \A p \in DOMAIN book \cap DOMAIN rows : book[p].strat = rows[p].strat /\ book[p].con = rows[p].con
    /\ \A k \in DOMAIN writers : writers[k].read # NoRead =>
          LET mine == book[writers[k].pid] IN writers[k].read.strat = mine.strat /\ writers[k].read.con = mine.con
    /\ phase = "run" /\ ~blind => TradedInRows \subseteq traded
    /\ phase = "run" => \A k \in DOMAIN writers : book[writers[k].pid].strat \in traded
    /\ phase = "run" => \A p \in fees : book[p].strat \in traded

\* Something says that s has traded.
Said(s) == \/ \E k \in DOMAIN wire : orders[wire[k][1]].strat = s
           \/ \E k \in DOMAIN writers : book[writers[k].pid].strat = s
           \/ s \in TradedInRows

\* ... and no entry of s at work supposes that it has not.
Heard(s) == Said(s) /\ (blind \/ \A i \in DOMAIN orders : FirstOfDay(i) => orders[i].strat # s)

OnceInv == ~lost =>
    /\ phase # "run" => wire = <<>>
    /\ \A s \in Strats : opened[s] = 0 \/ Heard(s)

Alone(p) == \A q \in DOMAIN book \ {p} : <<book[q].strat, book[q].con>> # <<book[p].strat, book[p].con>>

SidesInv ==
    /\ \A i \in DOMAIN orders : orders[i].ours /\ orders[i].pid # Nobody =>
         /\ orders[i].pid \in DOMAIN book
         /\ LET pos == book[orders[i].pid] IN
            /\ pos.strat = orders[i].strat /\ pos.con = orders[i].con /\ pos.long # orders[i].buy
            /\ pos.qty > 0 => orders[i].pid \in why
    /\ \A i \in DOMAIN orders, p \in DOMAIN book :
         Entry(i) /\ Alone(p) /\ book[p].qty > 0
         /\ book[p].strat = orders[i].strat /\ book[p].con = orders[i].con => book[p].long = orders[i].buy

ReasonInv ==
    /\ \A r \in OpenRows : rows[r].qty > 0
    /\ phase \in {"seed", "start"} => \A p \in DOMAIN book : book[p].qty > 0
    /\ ~lost /\ phase = "run" => \A p \in DOMAIN book :
          Alone(p) /\ book[p].qty = 0 =>
             \/ \E k \in DOMAIN writers : writers[k].pid = p /\ writers[k].why = "exit"
             \/ p \in DOMAIN rows /\ rows[p].why = "exit"

-----------------------------------------------------------------------------
(* The operators *)

\* A function with one more value.
LEMMA WithIs ==
    ASSUME NEW f, NEW p, NEW v, NEW g, g = With(f, p, v)
    PROVE  /\ \A q : q \in DOMAIN g <=> q \in DOMAIN f \/ q = p
           /\ g[p] = v
           /\ \A q \in (DOMAIN f) \ {p} : g[q] = f[q]
BY DEF With, Over, Only

\* A sequence with one more element, and without its first.
LEMMA AppendIs ==
    ASSUME NEW S, NEW seq \in Seq(S), NEW x \in S, NEW new, new = Append(seq, x)
    PROVE  /\ new \in Seq(S)
           /\ \A k : k \in DOMAIN new <=> k \in DOMAIN seq \/ k = Len(seq) + 1
           /\ \A k \in DOMAIN seq : new[k] = seq[k]
           /\ new[Len(seq) + 1] = x /\ Len(seq) + 1 \notin DOMAIN seq
<1>1. Len(seq) \in Nat /\ DOMAIN seq = 1 .. Len(seq)
    BY LenProperties
<1>2. new \in Seq(S) /\ Len(new) = Len(seq) + 1 /\ new[Len(seq) + 1] = x
      /\ \A k \in 1 .. Len(seq) : new[k] = seq[k]
    BY AppendProperties
<1>3. DOMAIN new = 1 .. Len(seq) + 1
    BY <1>2, LenProperties
<1> QED
    BY <1>1, <1>2, <1>3

\* The rest of a sequence is the sequence one place further on.
LEMMA TailIs ==
    ASSUME NEW S, NEW seq \in Seq(S), seq # <<>>, NEW new, new = Tail(seq)
    PROVE  /\ new \in Seq(S) /\ 1 \in DOMAIN seq /\ Head(seq) = seq[1] /\ seq[1] \in S
           /\ \A k \in DOMAIN new : k + 1 \in DOMAIN seq /\ new[k] = seq[k + 1]
           /\ \A k \in DOMAIN seq : k = 1 \/ (k - 1 \in DOMAIN new /\ new[k - 1] = seq[k])
<1>1. Len(seq) \in Nat /\ DOMAIN seq = 1 .. Len(seq) /\ Len(seq) # 0
    BY LenProperties, EmptySeq
<1>2. new \in Seq(S) /\ Len(new) = Len(seq) - 1 /\ \A k \in 1 .. Len(new) : new[k] = seq[k + 1]
    BY HeadTailProperties
<1>3. DOMAIN new = 1 .. Len(seq) - 1
    BY <1>2, LenProperties
<1>4. Head(seq) = seq[1] /\ seq[1] \in S
    BY <1>1, HeadTailProperties, ElementOfSeq
<1> QED
    BY <1>1, <1>2, <1>3, <1>4

\* What an upsert leaves in the table.
LEMMA UpsertedIs ==
    ASSUME NEW table, \A q \in DOMAIN table : table[q] \in RowOf, NEW p, NEW pos \in Position, NEW reason \in Reasons,
           NEW new, new = Upserted(table, p, pos, reason)
    PROVE  /\ \A q : q \in DOMAIN new <=> q \in DOMAIN table \/ q = p
           /\ new[p] \in RowOf
           /\ \A q \in (DOMAIN table) \ {p} : new[q] = table[q]
           /\ new[p].strat = pos.strat /\ new[p].qty = pos.qty
           /\ new[p].con = IF p \in DOMAIN table THEN table[p].con ELSE pos.con
           /\ new[p].long = IF p \in DOMAIN table THEN table[p].long ELSE pos.long
           /\ new[p].status = "open" <=> pos.qty > 0
           /\ reason = "none" /\ p \in DOMAIN table => new[p].why = table[p].why
           /\ ~(reason = "none" /\ p \in DOMAIN table) => new[p].why = reason
<1> DEFINE row == IF p \in DOMAIN table THEN Overwritten(table[p], pos, reason) ELSE RowFor(pos, reason)
<1>1. ASSUME NEW w \in Reasons
      PROVE  /\ RowFor(pos, w) \in RowOf /\ RowFor(pos, w).strat = pos.strat /\ RowFor(pos, w).qty = pos.qty
             /\ RowFor(pos, w).con = pos.con /\ RowFor(pos, w).long = pos.long
             /\ (RowFor(pos, w).status = "open" <=> pos.qty > 0) /\ RowFor(pos, w).why = w
    BY DEF RowFor, RowOf, Position
<1>2. /\ row \in RowOf /\ row.strat = pos.strat /\ row.qty = pos.qty /\ (row.status = "open" <=> pos.qty > 0)
      /\ row.why = IF reason = "none" /\ p \in DOMAIN table THEN table[p].why ELSE reason
      /\ row.con = IF p \in DOMAIN table THEN table[p].con ELSE pos.con
      /\ row.long = IF p \in DOMAIN table THEN table[p].long ELSE pos.long
    <2>1. CASE p \in DOMAIN table
        <3>1. table[p] \in RowOf
            BY <2>1
        <3> DEFINE w == IF reason = "none" THEN table[p].why ELSE reason
        <3>2. table[p].con \in Contracts /\ table[p].long \in BOOLEAN /\ w \in Reasons
            BY <3>1 DEF RowOf, Reasons
        <3> HIDE DEF w
        <3> DEFINE made == RowFor(pos, w)
        <3>3. /\ made \in RowOf /\ made.strat = pos.strat /\ made.qty = pos.qty
              /\ (made.status = "open" <=> pos.qty > 0) /\ made.why = w
            BY <1>1, <3>2
        <3> HIDE DEF made
        <3>4. row = [made EXCEPT !.con = table[p].con, !.long = table[p].long]
            BY <2>1 DEF Overwritten, made, w
        <3>5. /\ row \in RowOf /\ row.strat = pos.strat /\ row.qty = pos.qty /\ row.status = made.status /\ row.why = w
              /\ row.con = table[p].con /\ row.long = table[p].long
            <4> HIDE DEF row
            <4> QED
                BY <3>2, <3>3, <3>4 DEF RowOf
        <3> HIDE DEF row
        <3> QED
            BY <2>1, <3>3, <3>5 DEF w
    <2>2. CASE p \notin DOMAIN table
        BY <1>1, <2>2
    <2> QED
        BY <2>1, <2>2
<1>3. new = With(table, p, row)
    BY DEF Upserted
<1> HIDE DEF row
<1> QED
    BY <1>2, <1>3, WithIs

\* Each of several.
LEMMA UpsertedAllIs ==
    ASSUME \A r \in DOMAIN rows : rows[r] \in RowOf, NEW seeded, \A r \in DOMAIN seeded : seeded[r] \in Position,
           NEW new, new = UpsertedAll(seeded)
    PROVE  /\ \A r : r \in DOMAIN new <=> r \in DOMAIN rows \/ r \in DOMAIN seeded
           /\ \A r \in DOMAIN seeded : new[r] \in RowOf
           /\ \A r \in (DOMAIN rows) \ DOMAIN seeded : new[r] = rows[r]
           /\ \A r \in DOMAIN seeded : /\ new[r].strat = seeded[r].strat
                                       /\ new[r].qty = seeded[r].qty
                                       /\ new[r].con = IF r \in DOMAIN rows THEN rows[r].con ELSE seeded[r].con
                                       /\ new[r].long = IF r \in DOMAIN rows THEN rows[r].long ELSE seeded[r].long
                                       /\ new[r].status = "open" <=> seeded[r].qty > 0
<1>1. ASSUME NEW r \in DOMAIN seeded
      PROVE  /\ Upserted(rows, r, seeded[r], "none")[r] \in RowOf
             /\ Upserted(rows, r, seeded[r], "none")[r].strat = seeded[r].strat
             /\ Upserted(rows, r, seeded[r], "none")[r].qty = seeded[r].qty
             /\ Upserted(rows, r, seeded[r], "none")[r].con = IF r \in DOMAIN rows THEN rows[r].con ELSE seeded[r].con
             /\ Upserted(rows, r, seeded[r], "none")[r].long = IF r \in DOMAIN rows THEN rows[r].long ELSE seeded[r].long
             /\ Upserted(rows, r, seeded[r], "none")[r].status = "open" <=> seeded[r].qty > 0
    <2>1. PICK pos \in Position, reason \in Reasons : pos = seeded[r] /\ reason = "none"
        BY <1>1 DEF Reasons
    <2>2. PICK upserted : upserted = Upserted(rows, r, pos, reason)
        OBVIOUS
    <2>3. /\ upserted[r] \in RowOf /\ upserted[r].strat = pos.strat /\ upserted[r].qty = pos.qty
          /\ upserted[r].con = IF r \in DOMAIN rows THEN rows[r].con ELSE pos.con
          /\ upserted[r].long = IF r \in DOMAIN rows THEN rows[r].long ELSE pos.long
          /\ upserted[r].status = "open" <=> pos.qty > 0
        BY <2>1, <2>2, UpsertedIs DEF Reasons
    <2> QED
        BY <2>1, <2>2, <2>3
<1> QED
    BY <1>1 DEF UpsertedAll

\* An order with another remainder.
LEMMA OtherRemainder ==
    ASSUME orders \in Seq(Order), NEW i \in DOMAIN orders, NEW n \in Nat
    PROVE  LET changed == [orders EXCEPT ![i].left = n] IN
           /\ changed \in Seq(Order) /\ DOMAIN changed = DOMAIN orders
           /\ changed[i].left = n
           /\ \A j \in DOMAIN orders :
                 /\ j # i => changed[j] = orders[j]
                 /\ changed[j].strat = orders[j].strat /\ changed[j].con = orders[j].con
                 /\ changed[j].buy = orders[j].buy /\ changed[j].ours = orders[j].ours
                 /\ changed[j].pid = orders[j].pid /\ changed[j].once = orders[j].once
<1> DEFINE new == [orders[i] EXCEPT !.left = n]
           changed == [orders EXCEPT ![i] = new]
<1>1. Len(orders) \in Nat /\ DOMAIN orders = 1 .. Len(orders) /\ orders \in [1 .. Len(orders) -> Order]
    BY LenProperties
<1>2. orders[i] \in Order
    BY <1>1
<1>3. /\ new \in Order /\ new.left = n /\ new.strat = orders[i].strat /\ new.con = orders[i].con
      /\ new.buy = orders[i].buy /\ new.ours = orders[i].ours /\ new.pid = orders[i].pid
      /\ new.once = orders[i].once
    BY <1>2 DEF Order
<1>4. [orders EXCEPT ![i].left = n] = changed
    OBVIOUS
<1> HIDE DEF new
<1>5. changed \in Seq(Order) /\ DOMAIN changed = DOMAIN orders
    BY <1>1, <1>3, ExceptSeq
<1>6. changed[i] = new /\ \A j \in DOMAIN orders : j # i => changed[j] = orders[j]
    BY <1>1
<1> HIDE DEF changed
<1> QED
    BY <1>3, <1>4, <1>5, <1>6

\* Orders that are nobody's any more.
LEMMA Forgotten ==
    ASSUME orders \in Seq(Order), NEW new, new \in {AllForgotten, AllWithdrawn}
    PROVE  /\ new \in Seq(Order) /\ DOMAIN new = DOMAIN orders
           /\ \A i \in DOMAIN orders : /\ ~new[i].ours /\ new[i].strat = orders[i].strat
                                       /\ new[i].pid = orders[i].pid /\ new[i].con = orders[i].con
                                       /\ new[i].buy = orders[i].buy /\ new[i].left <= orders[i].left
                                       /\ new[i].once = orders[i].once
<1>1. Len(orders) \in Nat /\ DOMAIN orders = 1 .. Len(orders) /\ orders \in [1 .. Len(orders) -> Order]
    BY LenProperties
<1>2. /\ new \in [1 .. Len(orders) -> Order]
      /\ \A i \in DOMAIN orders : /\ ~new[i].ours /\ new[i].strat = orders[i].strat
                                  /\ new[i].pid = orders[i].pid /\ new[i].con = orders[i].con
                                  /\ new[i].buy = orders[i].buy /\ new[i].left <= orders[i].left
                                  /\ new[i].once = orders[i].once
    <2>1. ASSUME NEW i \in DOMAIN orders
          PROVE  /\ new[i] \in Order /\ ~new[i].ours /\ new[i].strat = orders[i].strat
                 /\ new[i].pid = orders[i].pid /\ new[i].con = orders[i].con
                 /\ new[i].buy = orders[i].buy /\ new[i].left <= orders[i].left
                 /\ new[i].once = orders[i].once
        <3>1. orders[i] \in Order /\ orders[i].left \in Nat
            BY <1>1 DEF Order
        <3> DEFINE order == orders[i]
        <3>2. \/ new[i] = [order EXCEPT !.ours = FALSE]
              \/ new[i] = [order EXCEPT !.ours = FALSE, !.left = 0]
            BY DEF AllForgotten, AllWithdrawn
        <3> HIDE DEF order
        <3>3. order \in Order /\ order.left \in Nat
            BY <3>1 DEF order
        <3>4. [order EXCEPT !.ours = FALSE] \in Order
            BY <3>3 DEF Order
        <3>5. [order EXCEPT !.ours = FALSE, !.left = 0] \in Order
            BY <3>3 DEF Order
        <3>6. /\ new[i].ours = FALSE /\ new[i].strat = order.strat /\ new[i].pid = order.pid
             /\ new[i].con = order.con /\ new[i].buy = order.buy /\ new[i].once = order.once
            BY <3>2, <3>3 DEF Order
        <3>7. new[i].left = order.left \/ new[i].left = 0
            BY <3>2, <3>3 DEF Order
        <3>8. new[i].left <= order.left
            BY <3>3, <3>7
        <3> QED
            BY <3>2, <3>4, <3>5, <3>6, <3>8 DEF order
    <2>2. new = [i \in DOMAIN orders |-> new[i]]
        BY DEF AllForgotten, AllWithdrawn
    <2>3. new \in [DOMAIN orders -> Order]
        BY <2>1, <2>2
    <2> QED
        BY <1>1, <2>1, <2>3
<1> QED
    BY <1>1, <1>2, SeqDef
-----------------------------------------------------------------------------
(* What the steps do *)

\* A reported execution of an order has been booked on position p, and upsert k will write it.
Booked(order, p, pos, k, w) ==
    /\ wire # <<>> /\ order = orders[wire[1][1]] /\ order \in Order /\ wire' = Tail(wire)
    /\ \/ p = next /\ p \notin DOMAIN book /\ p \notin DOMAIN rows /\ Matching(order) = {}
       \/ p \in Matching(order)
    /\ pos \in Position /\ pos.strat = order.strat /\ pos.con = order.con
    /\ pos.long = IF p \in DOMAIN book THEN book[p].long ELSE order.buy
    /\ pos.qty = 0 => p \in DOMAIN book /\ book[p].long # order.buy
    /\ \A q : q \in DOMAIN book' <=> q \in DOMAIN book \/ q = p
    /\ book'[p] = pos /\ \A q \in (DOMAIN book) \ {p} : book'[q] = book[q]
    /\ k \notin DOMAIN writers /\ w \in Reasons
    /\ \A q : q \in DOMAIN writers' <=> q \in DOMAIN writers \/ q = k
    /\ writers'[k] = [pid |-> p, why |-> w, read |-> NoRead]
    /\ \A q \in DOMAIN writers : writers'[q] = writers[q]
    /\ traded' = traded \cup {pos.strat} /\ fees' = fees \cup {p}
    /\ why' = (IF pos.qty = 0 THEN why \ {p} ELSE why)
    /\ pos.qty = 0 /\ p \in why => w = "exit"
    /\ next' = (IF p = next THEN next + 1 ELSE next)

\* A fill is booked on one position, by one order, with one write to follow (handle_fill).
LEMMA FillIs ==
    ASSUME AttTypes, HandleFill
    PROVE  \E order, p, pos, k, w : Booked(order, p, pos, k, w)
<1> DEFINE order == orders[Head(wire)[1]]
           n == Head(wire)[2]
<1>1. /\ wire # <<>> /\ 1 \in DOMAIN wire /\ Head(wire) = wire[1] /\ wire[1] \in Nat \X (Nat \ {0})
    BY TailIs DEF AttTypes, HandleFill
<1>2. order = orders[wire[1][1]] /\ order \in Order /\ n \in Nat \ {0}
    <2>1. wire[1][1] \in DOMAIN orders
        BY <1>1 DEF AttTypes
    <2>2. orders[wire[1][1]] \in Order
        BY <2>1, LenProperties, ElementOfSeq DEF AttTypes
    <2> QED
        BY <1>1, <2>2
<1> HIDE DEF order, n
<1>3. PICK p \in (IF Matching(order) = {} THEN {next} ELSE Matching(order)),
           k \in 1 .. Cardinality(DOMAIN writers) + 1 :
          /\ book' = With(book, p, After(p, order, n))
          /\ traded' = traded \cup {After(p, order, n).strat}
          /\ IsNext(k)
          /\ writers' = With(writers, k, [pid |-> p, why |-> IF After(p, order, n).qty = 0 /\ p \in why THEN "exit" ELSE "none",
                                          read |-> NoRead])
          /\ why' = IF After(p, order, n).qty = 0 THEN why \ {p} ELSE why
          /\ fees' = fees \cup {p}
          /\ next' = IF p = next THEN next + 1 ELSE next
          /\ wire' = Tail(wire)
    BY DEF HandleFill, order, n
<1> DEFINE pos == After(p, order, n)
           w == IF pos.qty = 0 /\ p \in why THEN "exit" ELSE "none"
<1>4. \/ p = next /\ p \notin DOMAIN book /\ p \notin DOMAIN rows /\ Matching(order) = {}
      \/ p \in Matching(order) /\ p \in DOMAIN book
    BY <1>3 DEF AttTypes, Matching, Opened
<1>5. /\ pos \in Position /\ pos.strat = order.strat /\ pos.con = order.con
      /\ pos.long = IF p \in DOMAIN book THEN book[p].long ELSE order.buy
      /\ pos.qty = 0 => p \in DOMAIN book /\ book[p].long # order.buy
    <2>1. CASE p \notin DOMAIN book
        <3>1. pos = [strat |-> order.strat, con |-> order.con, long |-> order.buy, qty |-> n]
            BY <2>1 DEF After
        <3> HIDE DEF pos
        <3> QED
            BY <1>2, <2>1, <3>1 DEF Order, Position
    <2>2. CASE p \in DOMAIN book
        <3> DEFINE old == book[p]
                   left == IF old.long = order.buy THEN old.qty + n ELSE IF n < old.qty THEN old.qty - n ELSE 0
        <3>1. old \in Position /\ old.strat = order.strat /\ old.con = order.con /\ old.qty > 0
            BY <1>4, <2>2 DEF AttTypes, Matching, Opened
        <3>2. pos = [old EXCEPT !.qty = left]
            BY <2>2 DEF After
        <3> HIDE DEF pos, old
        <3>3. left \in Nat /\ (left = 0 => old.long # order.buy)
            BY <1>2, <3>1 DEF Position
        <3> HIDE DEF left
        <3>4. pos \in Position /\ pos.strat = old.strat /\ pos.con = old.con /\ pos.long = old.long /\ pos.qty = left
            BY <3>1, <3>2, <3>3 DEF Position
        <3> QED
            BY <2>2, <3>1, <3>3, <3>4 DEF old
    <2> QED
        BY <2>1, <2>2
<1> HIDE DEF pos
<1>6. /\ \A q : q \in DOMAIN book' <=> q \in DOMAIN book \/ q = p
      /\ book'[p] = pos /\ \A q \in (DOMAIN book) \ {p} : book'[q] = book[q]
    BY <1>3, WithIs DEF pos
<1>7. w \in Reasons /\ (pos.qty = 0 /\ p \in why => w = "exit")
    BY DEF Reasons
<1>8. /\ \A q : q \in DOMAIN writers' <=> q \in DOMAIN writers \/ q = k
      /\ writers'[k] = [pid |-> p, why |-> w, read |-> NoRead]
      /\ k \notin DOMAIN writers /\ \A q \in DOMAIN writers : writers'[q] = writers[q]
    <2>1. k \notin DOMAIN writers /\ writers' = With(writers, k, [pid |-> p, why |-> w, read |-> NoRead])
        BY <1>3 DEF pos, IsNext
    <2> HIDE DEF w
    <2> QED
        BY <2>1, WithIs
<1>9. /\ traded' = traded \cup {pos.strat} /\ fees' = fees \cup {p} /\ wire' = Tail(wire)
      /\ why' = (IF pos.qty = 0 THEN why \ {p} ELSE why)
      /\ next' = (IF p = next THEN next + 1 ELSE next)
    BY <1>3 DEF pos
<1> HIDE DEF w
<1>10. Booked(order, p, pos, k, w)
    BY <1>1, <1>2, <1>4, <1>5, <1>6, <1>7, <1>8, <1>9 DEF Booked
<1> QED
    BY <1>10

\* The row q holds the position seeded; one that was there keeps its contract and side.
RowOfSeeded(q, seeded) ==
    /\ rows'[q] \in RowOf
    /\ rows'[q].strat = seeded[q].strat
    /\ rows'[q].qty = seeded[q].qty
    /\ rows'[q].con = IF q \in DOMAIN rows THEN rows[q].con ELSE seeded[q].con
    /\ rows'[q].long = IF q \in DOMAIN rows THEN rows[q].long ELSE seeded[q].long
    /\ rows'[q].status = "open" <=> seeded[q].qty > 0

\* A position seeded under the id r has the strategy and the contract of the row r.
OfItsRow(r, seeded) ==
    r = next \/ (r \in OpenRows /\ seeded[r].strat = rows[r].strat /\ seeded[r].con = rows[r].con)

\* Positions seeded have been put into the book, and those written into the rows.
Adopted(seeded, written) ==
    /\ written \subseteq DOMAIN seeded
    /\ \A r \in DOMAIN seeded : seeded[r] \in Position /\ OfItsRow(r, seeded)
    /\ (\A r \in OpenRows : rows[r].qty > 0) => \A r \in DOMAIN seeded : seeded[r].qty > 0
    /\ \A q : q \in DOMAIN book' <=> q \in DOMAIN book \/ q \in DOMAIN seeded
    /\ \A q \in DOMAIN seeded : book'[q] = seeded[q]
    /\ \A q \in (DOMAIN book) \ DOMAIN seeded : book'[q] = book[q]
    /\ \A q : q \in DOMAIN rows' <=> q \in DOMAIN rows \/ q \in written
    /\ \A q \in written : RowOfSeeded(q, seeded)
    /\ \A q \in (DOMAIN rows) \ written : rows'[q] = rows[q]
    /\ next' = (IF next \in DOMAIN seeded THEN next + 1 ELSE next)

\* Seeding a contract adopts one number of positions and writes their rows.
LEMMA SeedIs ==
    ASSUME AttTypes, NEW c \in todo, SeedContract(c)
    PROVE  \E found \in {Attrs(c), {}} : \E seeded \in SeededAs(c, found) : \E written :
              /\ Adopted(seeded, written) /\ \A r \in DOMAIN seeded : seeded[r].con = c
              /\ (kept' = kept /\ found = Attrs(c) /\ written = DOMAIN seeded) \/ kept' = {}
<1>1. PICK found \in {Attrs(c), {}} : \E seeded \in SeededAs(c, found) : \E written \in SUBSET DOMAIN seeded :
          /\ (kept' = kept /\ found = Attrs(c) /\ written = DOMAIN seeded) \/ kept' = {}
          /\ book' = Over(seeded, book)
          /\ next' = IF next \in DOMAIN seeded THEN next + 1 ELSE next
          /\ rows' = UpsertedAll(Restrict(seeded, written))
    BY DEF SeedContract
<1>2. PICK seeded \in SeededAs(c, found) : \E written \in SUBSET DOMAIN seeded :
          /\ (kept' = kept /\ found = Attrs(c) /\ written = DOMAIN seeded) \/ kept' = {}
          /\ book' = Over(seeded, book)
          /\ next' = IF next \in DOMAIN seeded THEN next + 1 ELSE next
          /\ rows' = UpsertedAll(Restrict(seeded, written))
    BY <1>1
<1>3. PICK written \in SUBSET DOMAIN seeded :
          /\ (kept' = kept /\ found = Attrs(c) /\ written = DOMAIN seeded) \/ kept' = {}
          /\ book' = Over(seeded, book)
          /\ next' = IF next \in DOMAIN seeded THEN next + 1 ELSE next
          /\ rows' = UpsertedAll(Restrict(seeded, written))
    BY <1>2
<1>4. found \subseteq Attrs(c)
    BY <1>1
<1> DEFINE Sized(n) == n \in Nat /\ ((\A r \in OpenRows : rows[r].qty > 0) => n > 0)
           Fits(r, pos) == /\ pos \in Position /\ Sized(pos.qty) /\ pos.con = c
                           /\ r = next \/ (r \in OpenRows /\ pos.strat = rows[r].strat /\ pos.con = rows[r].con)
<1>5. Sized(Size(held[c]))
    BY DEF AttTypes, Size
<1>6. ASSUME NEW r \in Attrs(c)
      PROVE  r \in OpenRows /\ rows[r] \in RowOf /\ Sized(rows[r].qty) /\ rows[r].con = c
    BY DEF Attrs, OpenRows, RowOf, AttTypes
<1> HIDE DEF Sized
<1>7. ASSUME NEW s \in Owners, NEW n, Sized(n)
      PROVE  /\ Seeded(s, c, n) \in Position /\ Seeded(s, c, n).strat = s /\ Seeded(s, c, n).qty = n
             /\ Seeded(s, c, n).con = c
    <2>1. n \in Nat /\ c \in Contracts /\ held[c] \in Int
        BY <1>7 DEF AttTypes, Sized
    <2>2. (held[c] > 0) \in BOOLEAN
        OBVIOUS
    <2> DEFINE long == held[c] > 0
    <2>3. Seeded(s, c, n) = [strat |-> s, con |-> c, long |-> long, qty |-> n]
        BY DEF Seeded
    <2> HIDE DEF long
    <2> QED
        BY <2>1, <2>2, <2>3 DEF Position, long
<1>8. Guess \in Owners
    BY DEF Guess, Owners, AttTypes
<1>9. \A n : Sized(n) => Fits(next, Seeded(Guess, c, n))
    BY <1>7, <1>8
<1>10. ASSUME NEW r \in Attrs(c), rows[r].strat \in conf, NEW n, Sized(n)
      PROVE  Fits(r, Seeded(rows[r].strat, c, n))
    BY <1>6, <1>7, <1>10 DEF Owners, AttTypes
<1> HIDE DEF Fits
<1>11. \A r \in DOMAIN seeded : Fits(r, seeded[r])
    <2> DEFINE Share(r) == IF Cardinality(found) > 1 THEN rows[r].qty ELSE Size(held[c])
               Owned    == {r \in found : rows[r].strat \in conf}
               Mine     == [r \in Owned |-> Seeded(rows[r].strat, c, Share(r))]
    <2>1. \A r \in found : Sized(Share(r))
        BY <1>5, <1>4, <1>6
    <2>2. \/ seeded = Only(next, Seeded(Guess, c, Size(held[c])))
          \/ seeded = Mine
          \/ \E r \in found : seeded = With(Mine, next, Seeded(Guess, c, Share(r)))
        BY <1>2 DEF SeededAs
    <2> HIDE DEF Share
    <2>3. \A r \in Owned : Fits(r, Mine[r])
        BY <1>4, <1>10, <2>1
    <2>4. CASE seeded = Only(next, Seeded(Guess, c, Size(held[c])))
        BY <1>5, <1>9, <2>4 DEF Only
    <2>5. CASE seeded = Mine
        BY <2>3, <2>5
    <2>6. ASSUME NEW r \in found, seeded = With(Mine, next, Seeded(Guess, c, Share(r)))
          PROVE  \A q \in DOMAIN seeded : Fits(q, seeded[q])
        <3>1. DOMAIN Mine = Owned
            OBVIOUS
        <3> HIDE DEF Mine, Owned
        <3>2. Fits(next, Seeded(Guess, c, Share(r)))
            BY <1>9, <2>1
        <3> QED
            BY <2>3, <2>6, <3>1, <3>2, WithIs
    <2> QED
        BY <2>2, <2>4, <2>5, <2>6
<1>12. \A r \in DOMAIN seeded :
          /\ seeded[r] \in Position /\ seeded[r].con = c
          /\ r = next \/ (r \in OpenRows /\ seeded[r].strat = rows[r].strat /\ seeded[r].con = rows[r].con)
    BY <1>11 DEF Fits
<1>13. (\A r \in OpenRows : rows[r].qty > 0) => \A r \in DOMAIN seeded : seeded[r].qty > 0
    BY <1>11 DEF Fits, Sized
<1>14. /\ \A q : q \in DOMAIN book' <=> q \in DOMAIN book \/ q \in DOMAIN seeded
       /\ \A q \in DOMAIN seeded : book'[q] = seeded[q]
       /\ \A q \in (DOMAIN book) \ DOMAIN seeded : book'[q] = book[q]
    BY <1>3 DEF Over
<1>15. /\ \A q : q \in DOMAIN rows' <=> q \in DOMAIN rows \/ q \in written
       /\ \A q \in (DOMAIN rows) \ written : rows'[q] = rows[q]
       /\ \A q \in written : RowOfSeeded(q, seeded)
    <2>1. \A r \in DOMAIN rows : rows[r] \in RowOf
        BY DEF AttTypes
    <2>2. PICK some : some = Restrict(seeded, written)
        OBVIOUS
    <2>3. DOMAIN some = written /\ \A r \in written : some[r] = seeded[r]
        BY <2>2 DEF Restrict
    <2>4. \A r \in DOMAIN some : some[r] \in Position
        BY <1>12, <2>3
    <2>5. rows' = UpsertedAll(some)
        BY <1>3, <2>2
    <2> QED
        BY <2>1, <2>3, <2>4, <2>5, UpsertedAllIs DEF RowOfSeeded
<1>16. Adopted(seeded, written)
    <2>1. \A r \in DOMAIN seeded : OfItsRow(r, seeded)
        BY <1>12 DEF OfItsRow
    <2> QED
        BY <1>3, <1>12, <1>13, <1>14, <1>15, <2>1 DEF Adopted
<1> QED
    BY <1>3, <1>12, <1>16
\* A row has been written.
Written(p, pos, reason) ==
    /\ \A q : q \in DOMAIN rows' <=> q \in DOMAIN rows \/ q = p
    /\ rows'[p] \in RowOf
    /\ \A q \in (DOMAIN rows) \ {p} : rows'[q] = rows[q]
    /\ rows'[p].strat = pos.strat /\ rows'[p].qty = pos.qty
    /\ rows'[p].con = IF p \in DOMAIN rows THEN rows[p].con ELSE pos.con
    /\ rows'[p].long = IF p \in DOMAIN rows THEN rows[p].long ELSE pos.long
    /\ rows'[p].status = "open" <=> pos.qty > 0
    /\ reason = "none" /\ p \in DOMAIN rows => rows'[p].why = rows[p].why
    /\ ~(reason = "none" /\ p \in DOMAIN rows) => rows'[p].why = reason

\* A write that succeeds puts the position it read into its row (upsert_position).
LEMMA WriteIs ==
    ASSUME AttTypes, NEW k \in DOMAIN writers, WriteRow(k)
    PROVE  /\ writers[k].read \in Position /\ writers[k].pid \in DOMAIN book
           /\ Written(writers[k].pid, writers[k].read, writers[k].why)
           /\ \A q : q \in DOMAIN writers' <=> q \in DOMAIN writers /\ q # k
           /\ \A q \in DOMAIN writers' : writers'[q] = writers[q]
<1> DEFINE pos == writers[k].read
           p == writers[k].pid
           reason == writers[k].why
<1>1. pos \in Position /\ p \in DOMAIN book /\ reason \in Reasons
    BY DEF AttTypes, Upsert, WriteRow
<1>2. rows' = Upserted(rows, p, pos, reason) /\ writers' = Without(k)
    BY DEF WriteRow
<1>3. \A r \in DOMAIN rows : rows[r] \in RowOf
    BY DEF AttTypes
<1> HIDE DEF pos, p, reason
<1>4. Written(p, pos, reason)
    BY <1>1, <1>2, <1>3, UpsertedIs DEF Written, Reasons
<1>5. /\ \A q : q \in DOMAIN writers' <=> q \in DOMAIN writers /\ q # k
      /\ \A q \in DOMAIN writers' : writers'[q] = writers[q]
    BY <1>2 DEF Without, Restrict
<1> QED
    BY <1>1, <1>4, <1>5 DEF pos, p, reason

\* A commission writes the row of its position again, or nothing.
LEMMA CommissionIs ==
    ASSUME AttTypes, NEW p \in fees, Commission(p)
    PROVE  p \in DOMAIN book /\ book[p] \in Position /\ (Written(p, book[p], "none") \/ rows' = rows)
<1>1. p \in DOMAIN book /\ book[p] \in Position /\ \A r \in DOMAIN rows : rows[r] \in RowOf
    BY DEF AttTypes
<1>2. rows' = rows \/ rows' = Upserted(rows, p, book[p], "none")
    BY DEF Commission
<1>3. ASSUME rows' = Upserted(rows, p, book[p], "none")
      PROVE  Written(p, book[p], "none")
    <2> DEFINE pos == book[p]
    <2>1. pos \in Position /\ rows' = Upserted(rows, p, pos, "none")
        BY <1>1, <1>3
    <2> HIDE DEF pos
    <2>2. PICK reason \in Reasons : reason = "none"
        BY DEF Reasons
    <2>3. Written(p, pos, reason)
        BY <1>1, <2>1, <2>2, UpsertedIs DEF Written, Reasons
    <2> QED
        BY <2>2, <2>3 DEF pos
<1> QED
    BY <1>1, <1>2, <1>3
\* An order stays what it is; there is less and less of it.
OrdersOnlyShrink ==
    /\ orders' \in Seq(Order)
    /\ \A i \in DOMAIN orders :
          /\ i \in DOMAIN orders' /\ orders'[i].left <= orders[i].left
          /\ orders'[i].strat = orders[i].strat /\ orders'[i].con = orders[i].con
          /\ orders'[i].buy = orders[i].buy /\ orders'[i].pid = orders[i].pid
          /\ orders'[i].once = orders[i].once
          /\ orders'[i].ours => orders[i].ours

\* An order has its fields.
LEMMA OrderIs ==
    ASSUME AttTypes, NEW i \in DOMAIN orders
    PROVE  /\ orders[i] \in Order
           /\ orders[i].strat \in Owners /\ orders[i].con \in Contracts /\ orders[i].buy \in BOOLEAN
           /\ orders[i].left \in Nat /\ orders[i].ours \in BOOLEAN /\ orders[i].pid \in Nat
<1>1. orders[i] \in Order
    BY LenProperties, ElementOfSeq DEF AttTypes
<1> QED
    BY <1>1 DEF Order

\* A submission appends one order.
LEMMA SubmitIs ==
    ASSUME AttTypes, NEW order \in Order, Submit(order)
    PROVE  /\ OrdersOnlyShrink
           /\ \A i \in DOMAIN orders : orders'[i] = orders[i]
           /\ \E k : /\ \A i : i \in DOMAIN orders' <=> i \in DOMAIN orders \/ i = k
                     /\ k \notin DOMAIN orders /\ orders'[k] = order
<1>1. orders \in Seq(Order) /\ orders' = Append(orders, order)
    BY DEF AttTypes, Submit
<1> DEFINE k == Len(orders) + 1
<1>2. /\ orders' \in Seq(Order)
      /\ \A i : i \in DOMAIN orders' <=> i \in DOMAIN orders \/ i = k
      /\ \A i \in DOMAIN orders : orders'[i] = orders[i]
      /\ orders'[k] = order /\ k \notin DOMAIN orders
    BY <1>1, AppendIs
<1>3. \A i \in DOMAIN orders : orders[i].left \in Nat
    BY OrderIs
<1> HIDE DEF k
<1> QED
    BY <1>2, <1>3 DEF OrdersOnlyShrink

\* An entry is an order of its strategy, for no position.
LEMMA EntryIs ==
    ASSUME AttTypes, NEW s \in Strats, SubmitEntry(s)
    PROVE  \E order \in Order : /\ Submit(order) /\ order.strat = s /\ order.pid = Nobody
                                /\ order.left = Qty /\ order.ours /\ Flat(s) /\ why' = why
                                /\ order.once => s \notin traded
<1>1. PICK c \in Contracts, buy \in Sides[s], manual \in BOOLEAN :
          /\ MayEnter(s, manual)
          /\ Submit([strat |-> s, con |-> c, buy |-> buy, left |-> Qty, ours |-> TRUE, pid |-> Nobody,
                     once |-> ~manual /\ s \notin Reentrant])
    BY DEF SubmitEntry
<1>2. PICK once \in BOOLEAN : once = (~manual /\ s \notin Reentrant)
    OBVIOUS
<1> DEFINE order == [strat |-> s, con |-> c, buy |-> buy, left |-> Qty, ours |-> TRUE, pid |-> Nobody, once |-> once]
<1>3. buy \in BOOLEAN
    BY AttributionAssumption
<1>4. order \in Order
    BY <1>3, AttributionAssumption DEF Order, Owners, Nobody
<1>5. Submit(order) /\ why' = why
    BY <1>1, <1>2 DEF SubmitEntry
<1>6. Flat(s) /\ (once => s \notin traded)
    BY <1>1, <1>2 DEF MayEnter
<1> QED
    BY <1>4, <1>5, <1>6

\* An exit is an order of the position's own strategy, against its side.
LEMMA ExitIs ==
    ASSUME AttTypes, NEW p \in Opened(book), SubmitExit(p)
    PROVE  \E order \in Order : /\ Submit(order) /\ order.strat = book[p].strat /\ order.con = book[p].con
                                /\ order.buy = ~book[p].long /\ order.pid = p /\ p # Nobody /\ order.ours
                                /\ why' = why \cup {p}
<1> DEFINE pos == book[p]
<1>1. pos \in Position /\ p \in Nat \ {0}
    BY DEF AttTypes, Opened
<1> HIDE DEF pos
<1> DEFINE order == [strat |-> pos.strat, con |-> pos.con, buy |-> ~pos.long,
                     left |-> pos.qty, ours |-> TRUE, pid |-> p, once |-> FALSE]
<1>2. order \in Order
    BY <1>1 DEF Order, Position
<1>3. Submit(order) /\ why' = why \cup {p}
    BY DEF SubmitExit, pos
<1> QED
    BY <1>1, <1>2, <1>3 DEF Nobody, pos

\* A withdrawn order has nothing left.
LEMMA WithdrawIs ==
    ASSUME AttTypes, NEW i \in DOMAIN orders, Withdraw(i)
    PROVE  /\ OrdersOnlyShrink /\ DOMAIN orders' = DOMAIN orders /\ orders'[i].left = 0
           /\ \A j \in DOMAIN orders : j # i => orders'[j] = orders[j]
<1>1. PICK n \in Nat : n = 0
    OBVIOUS
<1>2. orders \in Seq(Order) /\ orders' = [orders EXCEPT ![i].left = n]
    BY <1>1 DEF AttTypes, Withdraw
<1>3. /\ orders' \in Seq(Order) /\ DOMAIN orders' = DOMAIN orders
      /\ orders'[i].left = n
      /\ \A j \in DOMAIN orders :
             /\ j # i => orders'[j] = orders[j]
             /\ orders'[j].strat = orders[j].strat /\ orders'[j].con = orders[j].con
             /\ orders'[j].buy = orders[j].buy /\ orders'[j].ours = orders[j].ours
             /\ orders'[j].pid = orders[j].pid /\ orders'[j].once = orders[j].once
    BY <1>2, OtherRemainder
<1>4. \A j \in DOMAIN orders : orders[j].left \in Nat
    BY OrderIs
<1> QED
    BY <1>1, <1>3, <1>4 DEF OrdersOnlyShrink

\* An execution takes from what one order has left; a report follows if the process hears it.
LEMMA ExecuteIs ==
    ASSUME AttTypes, NEW i \in DOMAIN orders, Execute(i)
    PROVE  \E n \in Nat \ {0} :
              /\ OrdersOnlyShrink /\ DOMAIN orders' = DOMAIN orders
              /\ n <= orders[i].left /\ orders'[i].left = orders[i].left - n
              /\ \A j \in DOMAIN orders : orders'[j].ours = orders[j].ours
              /\ \A j \in DOMAIN orders : j # i => orders'[j] = orders[j]
              /\ net' \in [Contracts -> Int]
              /\ opened' = IF orders[i].pid = Nobody /\ orders[i].left = Qty
                           THEN [opened EXCEPT ![orders[i].strat] = @ + 1] ELSE opened
              /\ orders[i].ours => wire' = Append(wire, <<i, n>>) /\ lost' = lost
              /\ ~orders[i].ours => wire' = wire /\ lost' = TRUE
<1>1. orders \in Seq(Order)
    BY DEF AttTypes
<1> DEFINE order == orders[i]
<1>2. order \in Order /\ order.left \in Nat /\ order.con \in Contracts /\ order.buy \in BOOLEAN
    BY OrderIs
<1>3. PICK n \in 1 .. order.left :
          /\ net' = [net EXCEPT ![order.con] = @ + Signed(order.buy, n)]
          /\ orders' = [orders EXCEPT ![i].left = @ - n]
          /\ opened' = IF order.pid = Nobody /\ order.left = Qty
                       THEN [opened EXCEPT ![order.strat] = @ + 1] ELSE opened
          /\ IF order.ours
             THEN wire' = Append(wire, <<i, n>>) /\ UNCHANGED <<lost, sound, kept>>
             ELSE lost' = TRUE /\ sound' = FALSE /\ kept' = {} /\ UNCHANGED wire
    BY DEF Execute
<1>4. n \in Nat \ {0} /\ n <= order.left /\ order.left - n \in Nat
    BY <1>2
<1>5. net' \in [Contracts -> Int]
    <2>1. Signed(order.buy, n) \in Int
        BY <1>4 DEF Signed
    <2> HIDE DEF order
    <2> QED
        BY <1>2, <1>3, <2>1 DEF AttTypes
<1> DEFINE rest == order.left - n
<1>6. orders' = [orders EXCEPT ![i].left = rest]
    BY <1>3
<1>7. rest \in Nat /\ rest <= order.left
    BY <1>2, <1>4
<1>8. \A j \in DOMAIN orders : orders[j].left \in Nat
    BY OrderIs
<1>9. /\ OrdersOnlyShrink /\ DOMAIN orders' = DOMAIN orders /\ orders'[i].left = rest
      /\ \A j \in DOMAIN orders : orders'[j].ours = orders[j].ours
      /\ \A j \in DOMAIN orders : j # i => orders'[j] = orders[j]
    <2> HIDE DEF rest
    <2>1. /\ orders' \in Seq(Order) /\ DOMAIN orders' = DOMAIN orders
          /\ orders'[i].left = rest
          /\ \A j \in DOMAIN orders :
                 /\ j # i => orders'[j] = orders[j]
                 /\ orders'[j].strat = orders[j].strat /\ orders'[j].con = orders[j].con
                 /\ orders'[j].buy = orders[j].buy /\ orders'[j].ours = orders[j].ours
                 /\ orders'[j].pid = orders[j].pid /\ orders'[j].once = orders[j].once
        BY <1>1, <1>6, <1>7, OtherRemainder
    <2> QED
        BY <1>7, <1>8, <2>1 DEF OrdersOnlyShrink
<1> QED
    BY <1>3, <1>4, <1>5, <1>9

-----------------------------------------------------------------------------
(* Types *)

\* The program starts with values of the types.
LEMMA TypesInit == Init => AttTypes
<1> SUFFICES ASSUME Init PROVE AttTypes
    OBVIOUS
<1>1. orders \in Seq(Order) /\ wire \in Seq(Nat \X (Nat \ {0})) /\ DOMAIN wire = {}
    BY EmptySeq DEF Init
<1>2. DOMAIN book = {} /\ DOMAIN rows = {} /\ DOMAIN writers = {} /\ DOMAIN held = {} /\ todo = {}
    BY DEF Init
<1>3. fees = {} /\ why = {} /\ next = 1 /\ phase = "run" /\ lost = FALSE
    BY DEF Init
<1>4. conf \subseteq Strats
    BY AttributionAssumption DEF Init
<1>5. net \in [Contracts -> Int] /\ opened \in [Strats -> Nat]
    BY DEF Init
<1>6. /\ \A k \in DOMAIN wire : wire[k][1] \in DOMAIN orders
      /\ \A p \in DOMAIN book : book[p] \in Position
      /\ \A r \in DOMAIN rows : rows[r] \in RowOf
      /\ \A k \in DOMAIN writers : writers[k] \in Upsert
      /\ \A c \in DOMAIN held : held[c] \in Int \ {0}
    BY <1>1, <1>2
<1>7. next \in Nat \ {0} /\ DOMAIN book \cup DOMAIN rows \subseteq 1 .. next - 1
    BY <1>2, <1>3
<1> QED
    BY <1>1, <1>2, <1>3, <1>4, <1>5, <1>6, <1>7 DEF AttTypes

\* Nothing but orders changes when one is submitted or withdrawn.
LEMMA TypesOrders ==
    ASSUME AttTypes, OrdersOnlyShrink, why' \subseteq DOMAIN book, phase = "run",
           UNCHANGED <<net, rows, phase, conf, wire, book, writers, fees, seeding, next, lost, opened>>
    PROVE  AttTypes'
BY DEF AttTypes, OrdersOnlyShrink, Upsert, seeding

\* An execution keeps the types.
LEMMA TypesExecute ==
    ASSUME AttTypes, OrdersInv, NEW i \in DOMAIN orders, Execute(i)
    PROVE  AttTypes'
<1>1. PICK n \in Nat \ {0} :
          /\ OrdersOnlyShrink
          /\ net' \in [Contracts -> Int]
          /\ opened' = IF orders[i].pid = Nobody /\ orders[i].left = Qty
                       THEN [opened EXCEPT ![orders[i].strat] = @ + 1] ELSE opened
          /\ orders[i].ours => wire' = Append(wire, <<i, n>>) /\ lost' = lost
          /\ ~orders[i].ours => wire' = wire /\ lost' = TRUE
    BY ExecuteIs
<1>2. UNCHANGED <<rows, phase, conf, book, why, traded, writers, fees, seeding, next, budget>>
    BY DEF Execute
<1>3. opened' \in [Strats -> Nat] /\ lost' \in BOOLEAN
    <2>1. opened \in [Strats -> Nat] /\ lost \in BOOLEAN /\ orders[i].ours \in BOOLEAN
        BY OrderIs DEF AttTypes
    <2>2. [opened EXCEPT ![orders[i].strat] = @ + 1] \in [Strats -> Nat]
        <3> DEFINE s == orders[i].strat
                   count == opened[s] + 1
        <3>1. s \in Strats => count \in Nat
            BY <2>1
        <3> HIDE DEF s, count
        <3>2. [opened EXCEPT ![s] = count] \in [Strats -> Nat]
            BY <2>1, <3>1
        <3> QED
            BY <3>2 DEF s, count
    <2>3. lost' \in BOOLEAN
        BY <1>1, <2>1
    <2> QED
        BY <1>1, <2>1, <2>2, <2>3
<1>4. orders' \in Seq(Order) /\ \A j \in DOMAIN orders : j \in DOMAIN orders'
    BY <1>1 DEF OrdersOnlyShrink
<1>5. /\ wire' \in Seq(Nat \X (Nat \ {0}))
      /\ \A k \in DOMAIN wire' : wire'[k][1] \in DOMAIN orders'
      /\ wire' = wire \/ phase = "run"
    <2>1. CASE wire' = wire
        BY <1>4, <2>1 DEF AttTypes
    <2>2. CASE orders[i].ours /\ wire' = Append(wire, <<i, n>>)
        <3>1. i \in Nat /\ wire \in Seq(Nat \X (Nat \ {0}))
            BY LenProperties DEF AttTypes
        <3>2. PICK x \in Nat \X (Nat \ {0}) : x = <<i, n>>
            BY <3>1
        <3>3. /\ wire' \in Seq(Nat \X (Nat \ {0}))
              /\ \A k : k \in DOMAIN wire' <=> k \in DOMAIN wire \/ k = Len(wire) + 1
              /\ \A k \in DOMAIN wire : wire'[k] = wire[k]
              /\ wire'[Len(wire) + 1] = x
            BY <2>2, <3>1, <3>2, AppendIs
        <3>4. x[1] = i
            BY <3>2
        <3>5. phase = "run"
            BY <2>2 DEF OrdersInv
        <3> QED
            BY <1>4, <3>3, <3>4, <3>5 DEF AttTypes
    <2>3. orders[i].ours \in BOOLEAN
        BY OrderIs
    <2> QED
        BY <1>1, <2>1, <2>2, <2>3
<1> QED
    BY <1>1, <1>2, <1>3, <1>4, <1>5 DEF AttTypes, Upsert, seeding

\* A fill keeps the types.
LEMMA TypesFill ==
    ASSUME AttTypes, HandleFill
    PROVE  AttTypes'
<1>1. PICK order, p, pos, k, w : Booked(order, p, pos, k, w)
    BY FillIs
<1>2. UNCHANGED <<net, orders, rows, phase, conf, seeding, budget, unlost>> /\ phase = "run"
    BY DEF HandleFill
<1>3. /\ wire' \in Seq(Nat \X (Nat \ {0}))
      /\ \A j \in DOMAIN wire' : wire'[j][1] \in DOMAIN orders
    <2>1. wire \in Seq(Nat \X (Nat \ {0})) /\ wire # <<>> /\ wire' = Tail(wire)
        BY <1>1 DEF Booked, AttTypes
    <2>2. wire' \in Seq(Nat \X (Nat \ {0})) /\ \A j \in DOMAIN wire' : j + 1 \in DOMAIN wire /\ wire'[j] = wire[j + 1]
        BY <2>1, TailIs
    <2> QED
        BY <2>2 DEF AttTypes
<1>4. (\A q \in DOMAIN book' : book'[q] \in Position) /\ DOMAIN book \subseteq DOMAIN book' /\ p \in DOMAIN book'
    BY <1>1 DEF Booked, AttTypes
<1>5. \A q \in DOMAIN writers' : writers'[q] \in Upsert'
    <2>1. [pid |-> p, why |-> w, read |-> NoRead] \in Upsert'
        BY <1>1, <1>4 DEF Booked, Upsert
    <2>2. \A q \in DOMAIN writers : writers[q] \in Upsert'
        BY <1>4 DEF AttTypes, Upsert
    <2> QED
        BY <1>1, <2>1, <2>2 DEF Booked
<1>6. next' \in Nat \ {0} /\ DOMAIN book' \cup DOMAIN rows \subseteq 1 .. next' - 1
    <2>1. next \in Nat \ {0} /\ DOMAIN book \cup DOMAIN rows \subseteq 1 .. next - 1
        BY DEF AttTypes
    <2>2. next' = (IF p = next THEN next + 1 ELSE next) /\ (p = next \/ p \in DOMAIN book)
          /\ \A q : q \in DOMAIN book' <=> q \in DOMAIN book \/ q = p
        BY <1>1 DEF Booked, Matching, Opened
    <2> QED
        BY <2>1, <2>2
<1>7. fees' \cup why' \subseteq DOMAIN book'
    BY <1>1, <1>4 DEF Booked, AttTypes
<1> QED
    BY <1>2, <1>3, <1>4, <1>5, <1>6, <1>7 DEF AttTypes, seeding, unlost, history

\* The steps of a write keep the types.
LEMMA TypesWrites ==
    ASSUME AttTypes, NEW k \in DOMAIN writers, ReadPosition(k) \/ WriteRow(k) \/ WriteFails(k)
    PROVE  AttTypes'
<1>1. /\ UNCHANGED <<net, orders, phase, conf, wire, book, why, traded, fees, seeding, next, opened>>
      /\ Upsert' = Upsert
    BY DEF ReadPosition, WriteRow, WriteFails, Upsert, unlost, history
<1>2. writers[k] \in Upsert
    BY DEF AttTypes
<1>3. /\ \A q \in DOMAIN writers' : writers'[q] \in Upsert
      /\ DOMAIN writers' \subseteq DOMAIN writers
    <2>1. CASE ReadPosition(k)
        <3> DEFINE pos == book[writers[k].pid]
                   upsert == [writers[k] EXCEPT !.read = pos]
        <3>1. pos \in Position
            BY <1>2 DEF AttTypes, Upsert
        <3>2. writers' = [writers EXCEPT ![k] = upsert]
            BY <2>1 DEF ReadPosition
        <3>3. upsert \in Upsert
            <4> HIDE DEF pos
            <4> QED
                BY <1>2, <3>1 DEF Upsert
        <3> HIDE DEF upsert
        <3> QED
            BY <3>2, <3>3 DEF AttTypes
    <2>2. CASE WriteRow(k)
        BY <2>2, WriteIs DEF AttTypes
    <2>3. CASE WriteFails(k)
        <3> DEFINE upsert == [writers[k] EXCEPT !.read = NoRead]
        <3>1. writers' = [writers EXCEPT ![k] = upsert] \/ writers' = Without(k)
            BY <2>3 DEF WriteFails
        <3>2. upsert \in Upsert
            BY <1>2 DEF Upsert
        <3> HIDE DEF upsert
        <3> QED
            BY <3>1, <3>2 DEF AttTypes, Without, Restrict
    <2> QED
        BY <2>1, <2>2, <2>3
<1>4. /\ \A r \in DOMAIN rows' : rows'[r] \in RowOf
      /\ DOMAIN rows' \subseteq DOMAIN rows \cup DOMAIN book
    <2>1. CASE WriteRow(k)
        BY <2>1, WriteIs DEF Written, AttTypes
    <2>2. CASE ~WriteRow(k)
        BY <2>2 DEF ReadPosition, WriteFails, AttTypes
    <2> QED
        BY <2>1, <2>2
<1>5. lost' \in BOOLEAN
    BY DEF ReadPosition, WriteRow, WriteFails, unlost, AttTypes
<1> QED
    BY <1>1, <1>3, <1>4, <1>5 DEF AttTypes, seeding
\* A commission keeps the types.
LEMMA TypesCommission ==
    ASSUME AttTypes, NEW p \in fees, Commission(p)
    PROVE  AttTypes'
<1>1. UNCHANGED <<net, orders, phase, conf, wire, book, why, traded, writers, seeding, next, lost, opened>>
      /\ fees' = fees \ {p}
    BY DEF Commission, unlost, history
<1>2. /\ \A r \in DOMAIN rows' : rows'[r] \in RowOf
      /\ DOMAIN rows' \subseteq DOMAIN rows \cup DOMAIN book
    BY CommissionIs DEF Written, AttTypes
<1> QED
    BY <1>1, <1>2 DEF AttTypes, Upsert, seeding

\* Where a process has ended nothing is in its memory.
LEMMA DownIs ==
    ASSUME GoDown
    PROVE  /\ phase' = "down" /\ wire' = <<>> /\ DOMAIN wire' = {} /\ DOMAIN book' = {} /\ why' = {}
           /\ DOMAIN writers' = {} /\ fees' = {} /\ DOMAIN held' = {} /\ todo' = {}
BY DEF GoDown

\* The end of a process keeps the types.
LEMMA TypesDeath ==
    ASSUME AttTypes, Crash \/ Stop \/ Stopped
    PROVE  AttTypes'
<1>1. /\ orders' \in Seq(Order) /\ DOMAIN orders' = DOMAIN orders
    <2>1. orders' \in {AllForgotten, AllWithdrawn, orders}
        BY DEF Crash, Stop, Stopped
    <2> QED
        BY <2>1, Forgotten DEF AttTypes
<1>2. UNCHANGED <<net, rows, conf, next, opened>>
    BY DEF Crash, Stop, Stopped
<1>3. lost' \in BOOLEAN
    BY DEF Crash, Stop, Stopped, AttTypes
<1>4. CASE GoDown
    <2>1. wire' \in Seq(Nat \X (Nat \ {0}))
        BY <1>4, DownIs, EmptySeq
    <2> QED
        BY <1>1, <1>2, <1>3, <1>4, <2>1, DownIs DEF AttTypes
<1>5. CASE Stop
    <2>1. UNCHANGED <<wire, book, why, fees, seeding>> /\ phase' = "stopping" /\ Upsert' = Upsert
        BY <1>5 DEF Stop, Upsert
    <2>2. \A k \in DOMAIN writers' : writers'[k] \in Upsert
        BY <1>5 DEF Stop, Restrict, AttTypes
    <2> QED
        BY <1>1, <1>2, <1>3, <2>1, <2>2 DEF AttTypes, seeding
<1> QED
    BY <1>4, <1>5 DEF Crash, Stopped

\* The sweep only closes rows (mark_closed_if_absent).
LEMMA SweptIs ==
    ASSUME AttTypes, NEW keys, NEW new, new = Swept(keys)
    PROVE  /\ DOMAIN new = DOMAIN rows
           /\ \A r \in DOMAIN rows : /\ new[r] \in RowOf /\ new[r].strat = rows[r].strat
                                     /\ new[r].con = rows[r].con /\ new[r].long = rows[r].long
                                     /\ new[r].qty = rows[r].qty /\ new[r].why = rows[r].why
                                     /\ new[r].status = "open" => rows[r].status = "open"
<1>1. DOMAIN new = DOMAIN rows
    BY DEF Swept
<1>2. ASSUME NEW r \in DOMAIN rows
      PROVE  /\ new[r] \in RowOf /\ new[r].strat = rows[r].strat
             /\ new[r].con = rows[r].con /\ new[r].long = rows[r].long
             /\ new[r].qty = rows[r].qty /\ new[r].why = rows[r].why
             /\ new[r].status = "open" => rows[r].status = "open"
    <2> DEFINE row == rows[r]
    <2>1. row \in RowOf
        BY DEF AttTypes
    <2>2. new[r] = row \/ new[r] = [row EXCEPT !.status = "closed"]
        BY DEF Swept
    <2> HIDE DEF row
    <2>3. /\ new[r] \in RowOf /\ new[r].strat = row.strat /\ new[r].con = row.con /\ new[r].long = row.long
          /\ new[r].qty = row.qty /\ new[r].why = row.why
          /\ new[r].status = "open" => row.status = "open"
        BY <2>1, <2>2 DEF RowOf
    <2> QED
        BY <2>3 DEF row
<1> QED
    BY <1>1, <1>2

\* The steps of a start keep the types.
LEMMA TypesStart ==
    ASSUME AttTypes, Restart \/ Sweep \/ Begin \/ \E c \in todo : SeedContract(c)
    PROVE  AttTypes'
<1>1. CASE Restart
    <2>1. UNCHANGED <<net, orders, wire, book, why, writers, fees, next, lost, opened>> /\ rows' = rows /\ phase = "down"
        BY <1>1 DEF Restart, memory
    <2>2. conf' \subseteq Strats
        BY <1>1, AttributionAssumption DEF Restart
    <2>3. /\ \A c \in DOMAIN held' : held'[c] \in Int \ {0}
          /\ DOMAIN held' \subseteq Contracts /\ todo' \subseteq DOMAIN held'
          /\ phase' \in {"start", "seed"}
        <3>1. net \in [Contracts -> Int]
            BY DEF AttTypes
        <3>2. CASE phase' = "start" /\ UNCHANGED seeding
            BY <3>2 DEF seeding, AttTypes
        <3> DEFINE nonzero == {c \in Contracts : net[c] # 0}
        <3>3. CASE phase' = "seed" /\ held' = [c \in nonzero |-> net[c]] /\ todo' = nonzero
            BY <3>1, <3>3
        <3> QED
            BY <1>1, <3>2, <3>3 DEF Restart
    <2> QED
        BY <2>1, <2>2, <2>3 DEF AttTypes, Upsert
<1>2. CASE Sweep
    <2>1. UNCHANGED <<net, orders, conf, wire, book, why, writers, fees, todo, next, lost, opened>>
          /\ rows' \in {Swept(DOMAIN held), rows} /\ phase = "seed" /\ phase' = "start" /\ DOMAIN held' = {} /\ todo = {}
        BY <1>2 DEF Sweep, memory, unlost, history
    <2>2. DOMAIN rows' = DOMAIN rows /\ \A r \in DOMAIN rows' : rows'[r] \in RowOf
        BY <2>1, SweptIs DEF AttTypes
    <2> QED
        BY <2>1, <2>2 DEF AttTypes, Upsert
<1>3. ASSUME NEW c \in todo, SeedContract(c) PROVE AttTypes'
    <2>1. PICK seeded, written : Adopted(seeded, written)
        BY <1>3, SeedIs
    <2>2. UNCHANGED <<net, orders, phase, conf, wire, why, traded, writers, fees, held, lost, opened>>
          /\ todo' \subseteq todo /\ phase = "seed"
        BY <1>3 DEF SeedContract
    <2>3. (\A p \in DOMAIN book' : book'[p] \in Position) /\ \A r \in DOMAIN rows' : rows'[r] \in RowOf
        BY <2>1 DEF Adopted, OfItsRow, RowOfSeeded, AttTypes
    <2>4. next' \in Nat \ {0} /\ DOMAIN book' \cup DOMAIN rows' \subseteq 1 .. next' - 1
        <3>1. next \in Nat \ {0} /\ DOMAIN book \cup DOMAIN rows \subseteq 1 .. next - 1
            BY DEF AttTypes
        <3>2. \A r \in DOMAIN seeded : r = next \/ r \in DOMAIN rows
            BY <2>1 DEF Adopted, OfItsRow, RowOfSeeded, OpenRows
        <3>3. next' = (IF next \in DOMAIN seeded THEN next + 1 ELSE next)
              /\ (\A q : q \in DOMAIN book' <=> q \in DOMAIN book \/ q \in DOMAIN seeded)
              /\ (written \subseteq DOMAIN seeded)
              /\ \A q : q \in DOMAIN rows' <=> q \in DOMAIN rows \/ q \in written
            BY <2>1 DEF Adopted, OfItsRow, RowOfSeeded
        <3> QED
            BY <3>1, <3>2, <3>3
    <2> QED
        BY <2>2, <2>3, <2>4 DEF AttTypes
<1>4. CASE Begin
    BY <1>4 DEF Begin, AttTypes, Upsert, seeding
<1> QED
    BY <1>1, <1>2, <1>3, <1>4

\* Every step keeps the types.
LEMMA TypesStep ==
    ASSUME AttTypes, OrdersInv, [Next]_vars
    PROVE  AttTypes'
<1>1. ASSUME NEW s \in Strats, SubmitEntry(s) PROVE AttTypes'
    <2>1. PICK order \in Order : Submit(order) /\ why' = why
        BY <1>1, EntryIs
    <2>2. OrdersOnlyShrink
        BY <2>1, SubmitIs
    <2> QED
        BY <2>1, <2>2, TypesOrders DEF Submit, unlost, history, AttTypes
<1>2. ASSUME NEW p \in Opened(book), SubmitExit(p) PROVE AttTypes'
    <2>1. PICK order \in Order : Submit(order) /\ why' = why \cup {p}
        BY <1>2, ExitIs
    <2>2. OrdersOnlyShrink
        BY <2>1, SubmitIs
    <2> QED
        BY <2>1, <2>2, TypesOrders DEF Submit, unlost, history, AttTypes, Opened
<1>3. ASSUME NEW i \in DOMAIN orders, Withdraw(i) PROVE AttTypes'
    BY <1>3, WithdrawIs, TypesOrders DEF Withdraw, memory, unlost, history, AttTypes
<1>4. ASSUME NEW i \in DOMAIN orders, Execute(i) PROVE AttTypes'
    BY <1>4, TypesExecute
<1>5. CASE HandleFill
    BY <1>5, TypesFill
<1>6. ASSUME NEW k \in DOMAIN writers, ReadPosition(k) \/ WriteRow(k) \/ WriteFails(k) PROVE AttTypes'
    BY <1>6, TypesWrites
<1>7. ASSUME NEW p \in fees, Commission(p) PROVE AttTypes'
    BY <1>7, TypesCommission
<1>8. CASE Crash \/ Stop \/ Stopped
    BY <1>8, TypesDeath
<1>9. CASE Restart \/ Sweep \/ Begin \/ \E c \in todo : SeedContract(c)
    BY <1>9, TypesStart
<1>10. CASE UNCHANGED vars
    BY <1>10 DEF AttTypes, Upsert, vars, memory, seeding, unlost, history
<1> QED
    BY <1>1, <1>2, <1>3, <1>4, <1>5, <1>6, <1>7, <1>8, <1>9, <1>10 DEF Next
-----------------------------------------------------------------------------
(* Orders and reports *)

\* What becomes of the orders there are, and whose they are.
OrdersFollow ==
    /\ OrdersOnlyShrink
    /\ phase' # "run" => \A i \in DOMAIN orders : ~orders'[i].ours
    /\ phase' = "run" => \A i \in DOMAIN orders : orders'[i].ours = orders[i].ours

\* In every step the orders there were shrink, and those of a process that died stay its own.
LEMMA OrdersStep ==
    ASSUME AttTypes, OrdersInv, [Next]_vars
    PROVE  OrdersFollow
<1>1. \A i \in DOMAIN orders : orders[i].left \in Nat /\ orders[i].ours \in BOOLEAN
    BY OrderIs
<1>2. ASSUME orders' = orders, phase' = phase \/ (phase # "run") PROVE OrdersFollow
    BY <1>1, <1>2 DEF OrdersFollow, OrdersOnlyShrink, AttTypes, OrdersInv
<1>3. ASSUME NEW s \in Strats, SubmitEntry(s) PROVE OrdersFollow
    BY <1>3, EntryIs, SubmitIs DEF Submit, OrdersFollow
<1>4. ASSUME NEW p \in Opened(book), SubmitExit(p) PROVE OrdersFollow
    BY <1>4, ExitIs, SubmitIs DEF Submit, OrdersFollow
<1>5. ASSUME NEW i \in DOMAIN orders, Withdraw(i) PROVE OrdersFollow
    <2>1. orders' = [orders EXCEPT ![i].left = 0] /\ phase = "run" /\ phase' = "run"
        BY <1>5 DEF Withdraw
    <2>2. \A j \in DOMAIN orders : orders'[j].ours = orders[j].ours
        <3>1. orders[i] \in Order
            BY OrderIs
        <3> QED
            BY <2>1, <3>1 DEF Order
    <2> QED
        BY <1>5, <2>1, <2>2, WithdrawIs DEF OrdersFollow
<1>6. ASSUME NEW i \in DOMAIN orders, Execute(i) PROVE OrdersFollow
    <2>1. phase' = phase
        BY <1>6 DEF Execute
    <2> QED
        BY <1>6, <2>1, ExecuteIs DEF OrdersInv, OrdersFollow
<1>7. CASE Crash \/ Stop
    <2>1. orders' \in {AllForgotten, AllWithdrawn} /\ phase' # "run"
        BY <1>7 DEF Crash, Stop, GoDown
    <2> QED
        BY <1>1, <2>1, Forgotten DEF AttTypes, OrdersOnlyShrink, OrdersFollow
<1>8. CASE HandleFill \/ (\E k \in DOMAIN writers : ReadPosition(k) \/ WriteRow(k) \/ WriteFails(k))
           \/ (\E p \in fees : Commission(p)) \/ (\E c \in todo : SeedContract(c)) \/ UNCHANGED vars
    BY <1>2, <1>8 DEF HandleFill, ReadPosition, WriteRow, WriteFails, Commission, SeedContract, vars
<1>9. CASE Stopped \/ Restart \/ Sweep \/ Begin
    BY <1>2, <1>9 DEF Stopped, Restart, Sweep, Begin
<1> QED
    BY <1>3, <1>4, <1>5, <1>6, <1>7, <1>8, <1>9 DEF Next

\* A new order is submitted on a position of the book, or by a strategy that may enter.
NewOrder(i) ==
    /\ phase = "run" /\ phase' = "run" /\ orders'[i].ours /\ orders'[i] \in Order
    /\ \A j \in DOMAIN orders : orders'[j] = orders[j]
    /\ \A j \in DOMAIN orders' : j \in DOMAIN orders \/ j = i
    /\ UNCHANGED <<rows, wire, book, traded, writers, next, lost, blind, opened>>
    /\ \/ /\ orders'[i].pid = Nobody /\ orders'[i].left = Qty
          /\ orders'[i].strat \in Strats /\ Flat(orders'[i].strat)
          /\ orders'[i].once => orders'[i].strat \notin traded
       \/ \E p \in Opened(book) :
             /\ orders'[i].pid = p /\ p # Nobody /\ p \in why'
             /\ orders'[i].strat = book[p].strat /\ orders'[i].con = book[p].con
             /\ orders'[i].buy = ~book[p].long

\* An order that is new is an entry that was allowed or an exit.
LEMMA NewOrderIs ==
    ASSUME AttTypes, OrdersInv, [Next]_vars, NEW i \in (DOMAIN orders') \ DOMAIN orders
    PROVE  NewOrder(i)
<1>1. ASSUME NEW s \in Strats, SubmitEntry(s) PROVE NewOrder(i)
    <2>1. PICK order \in Order : /\ Submit(order) /\ order.strat = s /\ order.pid = Nobody
                                 /\ order.left = Qty /\ order.ours /\ Flat(s) /\ why' = why
                                 /\ order.once => s \notin traded
        BY <1>1, EntryIs
    <2>2. /\ \A j \in DOMAIN orders : orders'[j] = orders[j]
          /\ \A j \in DOMAIN orders' : j \in DOMAIN orders \/ j = i
          /\ orders'[i] = order
        BY <2>1, SubmitIs
    <2>3. /\ phase = "run" /\ phase' = "run"
          /\ UNCHANGED <<rows, wire, book, traded, writers, next, lost, blind, opened>>
        BY <2>1 DEF Submit, unlost, history
    <2> QED
        BY <2>1, <2>2, <2>3 DEF NewOrder
<1>2. ASSUME NEW p \in Opened(book), SubmitExit(p) PROVE NewOrder(i)
    <2>1. PICK order \in Order : /\ Submit(order) /\ order.strat = book[p].strat /\ order.con = book[p].con
                                 /\ order.buy = ~book[p].long /\ order.pid = p /\ p # Nobody /\ order.ours
                                 /\ why' = why \cup {p}
        BY <1>2, ExitIs
    <2>2. /\ \A j \in DOMAIN orders : orders'[j] = orders[j]
          /\ \A j \in DOMAIN orders' : j \in DOMAIN orders \/ j = i
          /\ orders'[i] = order
        BY <2>1, SubmitIs
    <2>3. /\ phase = "run" /\ phase' = "run"
          /\ UNCHANGED <<rows, wire, book, traded, writers, next, lost, blind, opened>>
        BY <2>1 DEF Submit, unlost, history
    <2> QED
        BY <2>1, <2>2, <2>3 DEF NewOrder
<1>3. CASE UNCHANGED orders
    BY <1>3
<1>4. ASSUME NEW j \in DOMAIN orders, Withdraw(j) \/ Execute(j) PROVE FALSE
    BY <1>4, WithdrawIs, ExecuteIs
<1>5. CASE Crash \/ Stop
    BY <1>5, Forgotten DEF AttTypes, Crash, Stop
<1>6. CASE HandleFill \/ (\E k \in DOMAIN writers : ReadPosition(k) \/ WriteRow(k) \/ WriteFails(k))
           \/ (\E p \in fees : Commission(p)) \/ (\E c \in todo : SeedContract(c)) \/ UNCHANGED vars
           \/ Stopped \/ Restart \/ Sweep \/ Begin
    BY <1>3, <1>6 DEF HandleFill, ReadPosition, WriteRow, WriteFails, Commission, SeedContract, vars,
       Stopped, Restart, Sweep, Begin
<1> QED
    BY <1>1, <1>2, <1>4, <1>5, <1>6 DEF Next

\* Every report is one that was due before, or of what has just been executed.
LEMMA ReportsStep ==
    ASSUME AttTypes, OrdersInv, [Next]_vars, NEW k \in DOMAIN wire'
    PROVE  \/ \E j \in DOMAIN wire : wire'[k] = wire[j]
           \/ /\ wire'[k][1] \in DOMAIN orders /\ orders[wire'[k][1]].left > 0
              /\ orders[wire'[k][1]].ours /\ phase = "run"
<1>1. CASE wire' = wire
    BY <1>1
<1>2. CASE wire' = <<>>
    BY <1>2
<1>3. CASE HandleFill
    <2>1. wire \in Seq(Nat \X (Nat \ {0})) /\ wire # <<>> /\ wire' = Tail(wire)
        BY <1>3 DEF HandleFill, AttTypes
    <2>2. k + 1 \in DOMAIN wire /\ wire'[k] = wire[k + 1]
        BY <2>1, TailIs
    <2> QED
        BY <2>2
<1>4. ASSUME NEW i \in DOMAIN orders, Execute(i)
      PROVE  \/ \E j \in DOMAIN wire : wire'[k] = wire[j]
             \/ wire'[k][1] = i /\ orders[i].left > 0 /\ orders[i].ours /\ phase = "run"
    <2>1. PICK n \in Nat \ {0} : /\ n <= orders[i].left
                                 /\ orders[i].ours => wire' = Append(wire, <<i, n>>)
                                 /\ ~orders[i].ours => wire' = wire
        BY <1>4, ExecuteIs
    <2>2. orders[i].ours \in BOOLEAN /\ orders[i].left \in Nat
        BY OrderIs
    <2>3. CASE orders[i].ours
        <3>1. i \in Nat /\ wire \in Seq(Nat \X (Nat \ {0}))
            BY LenProperties DEF AttTypes
        <3>2. PICK x \in Nat \X (Nat \ {0}) : x = <<i, n>> /\ wire' = Append(wire, x)
            BY <2>1, <2>3, <3>1
        <3>3. /\ wire' \in Seq(Nat \X (Nat \ {0}))
              /\ \A q : q \in DOMAIN wire' <=> q \in DOMAIN wire \/ q = Len(wire) + 1
              /\ \A q \in DOMAIN wire : wire'[q] = wire[q]
              /\ wire'[Len(wire) + 1] = x
            BY <3>1, <3>2, AppendIs
        <3>4. x[1] = i
            BY <3>2
        <3>5. phase = "run"
            BY <2>3 DEF OrdersInv
        <3>6. orders[i].left > 0
            BY <2>1, <2>2
        <3> QED
            BY <2>3, <3>3, <3>4, <3>5, <3>6
    <2> QED
        BY <2>1, <2>2, <2>3, <1>1
<1>5. wire' = wire \/ wire' = <<>> \/ HandleFill \/ \E i \in DOMAIN orders : Execute(i)
    BY DEF Next, vars, memory, SubmitEntry, SubmitExit, Submit, Withdraw, ReadPosition, WriteRow,
       WriteFails, Commission, Crash, GoDown, Stop, Stopped, Restart, Sweep, Begin, SeedContract
<1> QED
    BY <1>1, <1>2, <1>3, <1>4, <1>5
\* An entry that can still fill could already do so before.
LEMMA EntriesStep ==
    ASSUME AttTypes, OrdersInv, [Next]_vars, NEW i \in DOMAIN orders, Entry(i)'
    PROVE  Entry(i)
<1>1. /\ orders[i].ours /\ orders[i].pid = Nobody /\ orders'[i].left <= orders[i].left
      /\ orders'[i].left > 0 \/ ~Reported(i)'
    BY OrdersStep DEF OrdersFollow, OrdersOnlyShrink, Entry, ActiveOrder
<1>2. orders[i].left \in Nat /\ orders'[i].left \in Nat
    <2>1. orders' \in Seq(Order) /\ i \in DOMAIN orders'
        BY OrdersStep DEF OrdersFollow, OrdersOnlyShrink
    <2>2. orders'[i] \in Order
        BY <2>1, LenProperties, ElementOfSeq
    <2> QED
        BY <2>2, OrderIs DEF Order
<1>3. CASE orders'[i].left > 0
    BY <1>1, <1>2, <1>3 DEF Entry, ActiveOrder
<1>4. CASE ~Reported(i)'
    <2>1. PICK k \in DOMAIN wire' : wire'[k][1] = i
        BY <1>4 DEF Reported
    <2>2. (\E j \in DOMAIN wire : wire'[k] = wire[j]) \/ orders[i].left > 0
        BY <2>1, ReportsStep
    <2> QED
        BY <1>1, <2>1, <2>2 DEF Entry, ActiveOrder, Reported
<1> QED
    BY <1>1, <1>3, <1>4

\* The only ways into a running process, and out of it.
LEMMA PhaseStep ==
    ASSUME AttTypes, [Next]_vars
    PROVE  /\ phase' = "run" => phase = "run" \/ Begin
           /\ phase = "run" => phase' = "run" \/ Crash \/ Stop
           /\ Restart \/ Sweep \/ Begin => wire = <<>>
<1>1. /\ Restart \/ Sweep \/ Begin => phase \in {"down", "seed", "start"}
      /\ Restart \/ Sweep => phase' # "run"
    BY DEF Restart, Sweep, Begin
<1>2. phase' = phase \/ Crash \/ Stop \/ Stopped \/ Restart \/ Sweep \/ Begin
    BY DEF Next, vars, SubmitEntry, SubmitExit, Submit, Withdraw, Execute, HandleFill, ReadPosition,
       WriteRow, WriteFails, Commission, SeedContract
<1>3. Crash \/ Stop \/ Stopped => phase' # "run"
    BY DEF Crash, Stop, Stopped, GoDown
<1>4. Stopped => phase # "run"
    BY DEF Stopped
<1> QED
    BY <1>1, <1>2, <1>3, <1>4 DEF AttTypes

\* There are no orders at first.
LEMMA OrdersInit == Init => OrdersInv
BY DEF Init, OrdersInv

\* Every step keeps the invariant on orders.
LEMMA OrdersInvStep ==
    ASSUME AttTypes, OrdersInv, [Next]_vars
    PROVE  OrdersInv'
<1>1. ASSUME phase' # "run", NEW i \in DOMAIN orders' PROVE ~orders'[i].ours
    BY <1>1, OrdersStep, NewOrderIs DEF OrdersFollow, NewOrder
<1>2. ASSUME phase' = "run", NEW k \in DOMAIN wire' PROVE orders'[wire'[k][1]].ours
    <2>1. CASE \E j \in DOMAIN wire : wire'[k] = wire[j]
        <3>1. PICK j \in DOMAIN wire : wire'[k] = wire[j]
            BY <2>1
        <3>2. phase = "run"
            BY <1>2, <3>1, PhaseStep
        <3>3. orders[wire[j][1]].ours /\ wire[j][1] \in DOMAIN orders
            BY <3>2 DEF OrdersInv, AttTypes
        <3> QED
            BY <1>2, <3>1, <3>3, OrdersStep DEF OrdersFollow
    <2>2. CASE wire'[k][1] \in DOMAIN orders /\ orders[wire'[k][1]].ours
        BY <1>2, <2>2, OrdersStep DEF OrdersFollow
    <2> QED
        BY <2>1, <2>2, ReportsStep
<1>3. ASSUME NEW i \in DOMAIN orders', NEW j \in DOMAIN orders', i \notin DOMAIN orders,
             Entry(i)', Entry(j)', orders'[i].strat = orders'[j].strat
      PROVE  i = j
    <2>1. NewOrder(i)
        BY <1>3, NewOrderIs
    <2>2. Flat(orders'[i].strat)
        BY <1>3, <2>1 DEF NewOrder, Entry
    <2>3. j \in DOMAIN orders => orders[j].strat # orders'[i].strat
        BY <1>3, <2>2, EntriesStep DEF Entry, Flat
    <2> QED
        BY <1>3, <2>1, <2>3 DEF NewOrder
<1>4. ASSUME NEW i \in DOMAIN orders, NEW j \in DOMAIN orders,
             Entry(i)', Entry(j)', orders'[i].strat = orders'[j].strat
      PROVE  i = j
    <2>1. Entry(i) /\ Entry(j)
        BY <1>4, EntriesStep
    <2>2. orders[i].strat = orders[j].strat
        BY <1>4, OrdersStep DEF OrdersFollow, OrdersOnlyShrink
    <2> QED
        BY <2>1, <2>2 DEF OrdersInv
<1>5. ASSUME NEW i \in DOMAIN orders', orders'[i].pid = Nobody PROVE orders'[i].left <= Qty /\ orders'[i].strat \in Strats
    <2>1. CASE i \notin DOMAIN orders
        BY <1>5, <2>1, NewOrderIs, AttributionAssumption DEF NewOrder
    <2>2. CASE i \in DOMAIN orders
        <3>1. orders'[i].left <= orders[i].left /\ orders[i].left <= Qty /\ orders'[i].strat \in Strats
            BY <1>5, <2>2, OrdersStep DEF OrdersFollow, OrdersOnlyShrink, OrdersInv
        <3>2. orders' \in Seq(Order)
            BY OrdersStep DEF OrdersFollow, OrdersOnlyShrink
        <3>3. orders'[i] \in Order
            BY <3>2, LenProperties, ElementOfSeq
        <3>4. orders'[i].left \in Nat /\ orders[i].left \in Nat /\ Qty \in Nat
            BY <2>2, <3>3, OrderIs, AttributionAssumption DEF Order
        <3> QED
            BY <3>1, <3>4
    <2> QED
        BY <2>1, <2>2
<1> QED
    BY <1>1, <1>2, <1>3, <1>4, <1>5 DEF OrdersInv
-----------------------------------------------------------------------------
(* Rows *)

\* Rows are not removed, and each remains its strategy's.
RowsStay == \A r \in DOMAIN rows : r \in DOMAIN rows' /\ rows'[r].strat = rows[r].strat

\* There are no rows at first.
LEMMA RowsInit == Init => RowsInv
<1> SUFFICES ASSUME Init PROVE RowsInv
    OBVIOUS
<1>1. DOMAIN book = {} /\ DOMAIN rows = {} /\ DOMAIN writers = {} /\ phase = "run"
    BY DEF Init
<1> QED
    BY <1>1 DEF Init, RowsInv, TradedInRows

\* A step that leaves rows, book and writes alone keeps the invariant on rows.
LEMMA RowsUnchanged ==
    ASSUME RowsInv, UNCHANGED <<rows, phase, book, traded, writers, fees, blind>>
    PROVE  RowsInv' /\ RowsStay
BY DEF RowsInv, RowsStay, TradedInRows

\* A fill keeps the invariant on rows.
LEMMA RowsFill ==
    ASSUME AttTypes, RowsInv, HandleFill
    PROVE  RowsInv' /\ RowsStay
<1>1. PICK order, p, pos, k, w : Booked(order, p, pos, k, w)
    BY FillIs
<1>2. UNCHANGED <<rows, phase, blind>> /\ phase = "run"
    BY DEF HandleFill, unlost, history
<1>3. \A q \in DOMAIN book : q \in DOMAIN book' /\ book'[q].strat = book[q].strat /\ book'[q].con = book[q].con
    BY <1>1 DEF Booked, Matching
<1>4. \A q \in DOMAIN book' \cap DOMAIN rows : book'[q].strat = rows[q].strat /\ book'[q].con = rows[q].con
    <2>1. \A q \in DOMAIN book' \cap DOMAIN rows : q \in DOMAIN book
        BY <1>1 DEF Booked, Matching, Opened
    <2> QED
        BY <1>3, <2>1 DEF RowsInv
<1>5. \A q \in DOMAIN writers' : writers'[q].read # NoRead =>
         LET mine == book'[writers'[q].pid] IN writers'[q].read.strat = mine.strat /\ writers'[q].read.con = mine.con
    <2>1. \A q \in DOMAIN writers : writers[q].pid \in DOMAIN book
        BY DEF AttTypes, Upsert
    <2>2. writers'[k].read = NoRead
        BY <1>1 DEF Booked
    <2> QED
        BY <1>1, <1>3, <2>1, <2>2 DEF Booked, RowsInv
<1>6. ~blind' => TradedInRows' \subseteq traded'
    BY <1>1, <1>2 DEF Booked, RowsInv, TradedInRows
<1>7. \A q \in DOMAIN writers' : book'[writers'[q].pid].strat \in traded'
    <2>1. \A q \in DOMAIN writers : writers[q].pid \in DOMAIN book
        BY DEF AttTypes, Upsert
    <2>2. writers'[k].pid = p
        BY <1>1 DEF Booked
    <2> QED
        BY <1>1, <1>2, <1>3, <2>1, <2>2 DEF Booked, RowsInv
<1>8. \A q \in fees' : book'[q].strat \in traded'
    <2>1. fees \subseteq DOMAIN book
        BY DEF AttTypes
    <2> QED
        BY <1>1, <1>2, <1>3, <2>1 DEF Booked, RowsInv
<1> QED
    BY <1>2, <1>4, <1>5, <1>6, <1>7, <1>8 DEF RowsInv, RowsStay

\* A row written from the book, or from what has been read of it.
LEMMA RowsWritten ==
    ASSUME AttTypes, RowsInv, NEW p \in DOMAIN book, NEW reason,
           NEW pos \in Position, pos.strat = book[p].strat, pos.con = book[p].con,
           Written(p, pos, reason), UNCHANGED <<phase, book, traded, blind>>, fees' \subseteq fees,
           phase = "run" => pos.strat \in traded,
           DOMAIN writers' \subseteq DOMAIN writers, \A q \in DOMAIN writers' : writers'[q] = writers[q]
    PROVE  RowsInv' /\ RowsStay
<1>1. \A r \in DOMAIN rows : r \in DOMAIN rows' /\ rows'[r].strat = rows[r].strat
    BY DEF Written, RowsInv
<1>2. \A q \in DOMAIN book' \cap DOMAIN rows' : book'[q].strat = rows'[q].strat /\ book'[q].con = rows'[q].con
    BY DEF Written, RowsInv
<1>3. \A q \in DOMAIN writers' : writers'[q].read # NoRead =>
         LET mine == book'[writers'[q].pid] IN writers'[q].read.strat = mine.strat /\ writers'[q].read.con = mine.con
    BY DEF RowsInv
<1>4. phase' = "run" /\ ~blind' => TradedInRows' \subseteq traded'
    BY DEF Written, RowsInv, TradedInRows
<1>5. /\ phase' = "run" => \A q \in DOMAIN writers' : book'[writers'[q].pid].strat \in traded'
      /\ phase' = "run" => \A q \in fees' : book'[q].strat \in traded'
    BY DEF RowsInv
<1> QED
    BY <1>1, <1>2, <1>3, <1>4, <1>5 DEF RowsInv, RowsStay

\* A write leaves its row with the strategy it had.
LEMMA RowsWrites ==
    ASSUME AttTypes, RowsInv, NEW k \in DOMAIN writers, ReadPosition(k) \/ WriteRow(k) \/ WriteFails(k)
    PROVE  RowsInv' /\ RowsStay
<1>1. CASE WriteRow(k)
    <2>1. UNCHANGED <<phase, book, traded, fees, blind>> /\ writers[k].read # NoRead
        BY <1>1 DEF WriteRow, unlost, history
    <2>2. phase = "run" => book[writers[k].pid].strat \in traded
        BY DEF RowsInv
    <2>3. /\ writers[k].read.strat = book[writers[k].pid].strat
          /\ writers[k].read.con = book[writers[k].pid].con
        BY <2>1 DEF RowsInv
    <2>4. /\ writers[k].read \in Position /\ writers[k].pid \in DOMAIN book
          /\ Written(writers[k].pid, writers[k].read, writers[k].why)
          /\ DOMAIN writers' \subseteq DOMAIN writers
          /\ \A q \in DOMAIN writers' : writers'[q] = writers[q]
        BY <1>1, WriteIs
    <2> QED
        BY <2>1, <2>2, <2>3, <2>4, RowsWritten DEF RowsInv
<1>2. CASE ReadPosition(k) \/ WriteFails(k)
    <2>1. UNCHANGED <<rows, phase, book, traded, fees, blind>>
        BY <1>2 DEF ReadPosition, WriteFails, unlost, history
    <2>2. writers[k] \in Upsert
        BY DEF AttTypes
    <2>3. DOMAIN writers' \subseteq DOMAIN writers
          /\ \A q \in DOMAIN writers' : /\ writers'[q].pid = writers[q].pid
                                        /\ \/ writers'[q].read = writers[q].read
                                           \/ writers'[q].read = NoRead
                                           \/ writers'[q].read = book[writers[q].pid]
        <3>1. \/ writers' = [writers EXCEPT ![k].read = book[writers[k].pid]]
              \/ writers' = [writers EXCEPT ![k].read = NoRead]
              \/ writers' = Without(k)
            BY <1>2 DEF ReadPosition, WriteFails
        <3>2. PICK read : \/ writers' = [writers EXCEPT ![k].read = read] /\ (read = NoRead \/ read = book[writers[k].pid])
                          \/ writers' = Without(k)
            BY <3>1
        <3> DEFINE upsert == [writers[k] EXCEPT !.read = read]
        <3>3. upsert.pid = writers[k].pid /\ upsert.read = read
            BY <2>2 DEF Upsert
        <3>4. writers' = [writers EXCEPT ![k] = upsert] \/ writers' = Without(k)
            BY <3>2
        <3> HIDE DEF upsert
        <3> QED
            BY <3>2, <3>3, <3>4 DEF Without, Restrict
    <2>4. \A q \in DOMAIN writers' : writers'[q].read # NoRead =>
             LET mine == book[writers'[q].pid] IN writers'[q].read.strat = mine.strat /\ writers'[q].read.con = mine.con
        BY <2>3 DEF RowsInv
    <2>5. phase' = "run" => \A q \in DOMAIN writers' : book'[writers'[q].pid].strat \in traded'
        BY <2>1, <2>3 DEF RowsInv
    <2>6. RowsStay /\ TradedInRows' = TradedInRows
        BY <2>1 DEF RowsStay, TradedInRows
    <2> QED
        BY <2>1, <2>4, <2>5, <2>6 DEF RowsInv
<1> QED
    BY <1>1, <1>2

\* A commission leaves the row with the strategy it had.
LEMMA RowsCommission ==
    ASSUME AttTypes, RowsInv, NEW p \in fees, Commission(p)
    PROVE  RowsInv' /\ RowsStay
<1>1. /\ UNCHANGED <<phase, book, traded, writers, blind>> /\ phase = "run" /\ fees' \subseteq fees
      /\ book[p].strat \in traded
    BY DEF Commission, unlost, history, RowsInv
<1>2. p \in DOMAIN book /\ book[p] \in Position /\ (Written(p, book[p], "none") \/ rows' = rows)
    BY CommissionIs
<1>3. CASE rows' = rows
    BY <1>1, <1>3 DEF RowsInv, RowsStay, TradedInRows
<1>4. CASE Written(p, book[p], "none")
    <2>1. PICK pos \in Position, reason \in {"none"} : pos = book[p] /\ reason = "none"
        BY <1>2
    <2>2. Written(p, pos, reason)
        BY <1>4, <2>1
    <2> QED
        BY <1>1, <1>2, <2>1, <2>2, RowsWritten
<1> QED
    BY <1>2, <1>3, <1>4

\* The end of a process leaves the rows alone.
LEMMA RowsDeath ==
    ASSUME AttTypes, RowsInv, Crash \/ Stop \/ Stopped
    PROVE  RowsInv' /\ RowsStay
<1>1. CASE GoDown
    <2>1. rows' = rows
        BY DEF Crash, Stop, Stopped
    <2> QED
        BY <1>1, <2>1, DownIs DEF RowsInv, RowsStay
<1>2. CASE Stop
    <2>1. UNCHANGED <<rows, book>> /\ phase' = "stopping"
        BY <1>2 DEF Stop
    <2>2. DOMAIN writers' \subseteq DOMAIN writers /\ \A q \in DOMAIN writers' : writers'[q] = writers[q]
        BY <1>2 DEF Stop, Restrict
    <2> QED
        BY <2>1, <2>2 DEF RowsInv, RowsStay
<1> QED
    BY <1>1, <1>2 DEF Crash, Stopped

\* A start reads the rows it adopts from and those of the strategies that traded.
LEMMA RowsStart ==
    ASSUME AttTypes, RowsInv, Restart \/ Sweep \/ Begin \/ \E c \in todo : SeedContract(c)
    PROVE  RowsInv' /\ RowsStay
<1>1. CASE Restart
    <2>1. UNCHANGED <<rows, book, writers>> /\ phase = "down" /\ phase' # "run"
        BY <1>1 DEF Restart, memory
    <2>2. DOMAIN book = {} /\ DOMAIN writers = {}
        BY <2>1 DEF AttTypes
    <2> QED
        BY <2>1, <2>2 DEF RowsInv, RowsStay
<1>2. CASE Sweep
    <2>1. UNCHANGED <<book, writers>> /\ phase = "seed" /\ phase' # "run" /\ rows' \in {Swept(DOMAIN held), rows}
        BY <1>2 DEF Sweep, memory
    <2>2. DOMAIN rows' = DOMAIN rows /\ \A r \in DOMAIN rows : rows'[r].strat = rows[r].strat /\ rows'[r].con = rows[r].con
        BY <2>1, SweptIs
    <2>3. DOMAIN writers = {}
        BY <2>1 DEF AttTypes
    <2> QED
        BY <2>1, <2>2, <2>3 DEF RowsInv, RowsStay
<1>3. ASSUME NEW c \in todo, SeedContract(c) PROVE RowsInv' /\ RowsStay
    <2>1. PICK seeded, written : Adopted(seeded, written)
        BY <1>3, SeedIs
    <2>2. UNCHANGED writers /\ DOMAIN writers = {} /\ phase' = "seed"
        BY <1>3 DEF SeedContract, AttTypes
    <2>3. \A r \in DOMAIN seeded : r \in DOMAIN rows => seeded[r].strat = rows[r].strat /\ seeded[r].con = rows[r].con
        <3>1. next \notin DOMAIN rows
            BY DEF AttTypes
        <3>2. \A r \in DOMAIN seeded : r = next \/ (seeded[r].strat = rows[r].strat /\ seeded[r].con = rows[r].con)
            BY <2>1 DEF Adopted, OfItsRow, RowOfSeeded
        <3> QED
            BY <3>1, <3>2
    <2>4. RowsStay
        BY <2>1, <2>3 DEF RowsStay, Adopted, OfItsRow, RowOfSeeded
    <2>5. \A p \in DOMAIN book' \cap DOMAIN rows' : book'[p].strat = rows'[p].strat /\ book'[p].con = rows'[p].con
        <3>1. next \notin DOMAIN book
            BY DEF AttTypes
        <3> SUFFICES ASSUME NEW p \in DOMAIN book', p \in DOMAIN rows'
                     PROVE  book'[p].strat = rows'[p].strat /\ book'[p].con = rows'[p].con
            OBVIOUS
        <3>2. CASE p \in written
            <4>1. p \in DOMAIN seeded /\ book'[p] = seeded[p] /\ rows'[p].strat = seeded[p].strat
                  /\ rows'[p].con = IF p \in DOMAIN rows THEN rows[p].con ELSE seeded[p].con
                BY <2>1, <3>2 DEF Adopted, OfItsRow, RowOfSeeded
            <4> QED
                BY <2>3, <4>1
        <3>3. CASE p \notin written
            <4>1. p \in DOMAIN rows /\ rows'[p] = rows[p]
                BY <2>1, <3>3 DEF Adopted, OfItsRow, RowOfSeeded
            <4>2. CASE p \in DOMAIN seeded
                BY <2>1, <2>3, <4>1, <4>2 DEF Adopted, OfItsRow, RowOfSeeded
            <4>3. CASE p \notin DOMAIN seeded
                <5>1. p \in DOMAIN book /\ book'[p] = book[p]
                    BY <2>1, <4>3 DEF Adopted, OfItsRow, RowOfSeeded
                <5> QED
                    BY <4>1, <5>1 DEF RowsInv
            <4> QED
                BY <4>2, <4>3
        <3> QED
            BY <3>2, <3>3
    <2> QED
        BY <2>2, <2>4, <2>5 DEF RowsInv
<1>4. CASE Begin
    <2>1. UNCHANGED <<rows, book, writers, fees>> /\ phase = "start"
          /\ (traded' = TradedInRows \/ blind' = TRUE)
        BY <1>4 DEF Begin
    <2>2. DOMAIN writers = {} /\ fees = {}
        BY <2>1 DEF AttTypes
    <2> QED
        BY <2>1, <2>2 DEF RowsInv, RowsStay, TradedInRows
<1> QED
    BY <1>1, <1>2, <1>3, <1>4

\* Every step keeps the invariant on rows, and rows stay with their strategies.
LEMMA RowsStep ==
    ASSUME AttTypes, RowsInv, [Next]_vars
    PROVE  RowsInv' /\ RowsStay
<1>1. CASE UNCHANGED <<rows, phase, book, traded, writers, fees, blind>>
    BY <1>1, RowsUnchanged
<1>2. CASE HandleFill
    BY <1>2, RowsFill
<1>3. ASSUME NEW k \in DOMAIN writers, ReadPosition(k) \/ WriteRow(k) \/ WriteFails(k) PROVE RowsInv' /\ RowsStay
    BY <1>3, RowsWrites
<1>4. ASSUME NEW p \in fees, Commission(p) PROVE RowsInv' /\ RowsStay
    BY <1>4, RowsCommission
<1>5. CASE Crash \/ Stop \/ Stopped
    BY <1>5, RowsDeath
<1>6. CASE Restart \/ Sweep \/ Begin \/ \E c \in todo : SeedContract(c)
    BY <1>6, RowsStart
<1>7. \/ UNCHANGED <<rows, phase, book, traded, writers, fees, blind>>
      \/ HandleFill
      \/ \E k \in DOMAIN writers : ReadPosition(k) \/ WriteRow(k) \/ WriteFails(k)
      \/ \E p \in fees : Commission(p)
      \/ Crash \/ Stop \/ Stopped \/ Restart \/ Sweep \/ Begin
      \/ \E c \in todo : SeedContract(c)
    BY DEF Next, vars, memory, unlost, history, SubmitEntry, SubmitExit, Submit, Withdraw, Execute
<1> QED
    BY <1>1, <1>2, <1>3, <1>4, <1>5, <1>6, <1>7

\* A position is the same strategy's in every row ever written about it.
THEOREM OwnersStand == Spec => OwnerNeverChanges
<1> DEFINE Inv == AttTypes /\ OrdersInv /\ RowsInv
           Stays == \A r \in DOMAIN rows : r \in DOMAIN rows' /\ rows'[r].strat = rows[r].strat
<1>1. Init => Inv
    BY TypesInit, OrdersInit, RowsInit
<1>2. Inv /\ [Next]_vars => Inv'
    BY TypesStep, OrdersInvStep, RowsStep
<1>3. Inv /\ [Next]_vars => [Stays]_vars
    BY RowsStep DEF RowsStay
<1> QED
    BY <1>1, <1>2, <1>3, PTL DEF Spec, OwnerNeverChanges
-----------------------------------------------------------------------------
(* One trade per day *)

\* A report that was lost stays lost.
LEMMA LossStays ==
    ASSUME AttTypes, OrdersInv, [Next]_vars, ~lost'
    PROVE  ~lost
<1>1. ASSUME NEW i \in DOMAIN orders, Execute(i) PROVE ~lost
    BY <1>1, ExecuteIs, OrderIs
<1>2. CASE ~\E i \in DOMAIN orders : Execute(i)
    BY <1>2 DEF Next, vars, memory, unlost, history, SubmitEntry, SubmitExit, Submit, Withdraw,
       HandleFill, ReadPosition, WriteRow, WriteFails, Commission, Crash, Stop, Stopped, Restart, Sweep,
       Begin, SeedContract
<1> QED
    BY <1>1, <1>2

\* A sequence without places is empty.
LEMMA NoReport ==
    ASSUME NEW S, NEW seq \in Seq(S), DOMAIN seq = {}
    PROVE  seq = <<>>
<1>1. seq # <<>> => 1 \in DOMAIN seq
    BY TailIs
<1> QED
    BY <1>1

\* What says that a strategy has traded is not forgotten, unless something is lost.
LEMMA SaidSame ==
    ASSUME AttTypes, OrdersInv, RowsInv, [Next]_vars, NEW s, Said(s), UNCHANGED book,
           \A k \in DOMAIN wire : \E j \in DOMAIN wire' : wire'[j] = wire[k],
           \A k \in DOMAIN writers : k \in DOMAIN writers' /\ writers'[k].pid = writers[k].pid
    PROVE  Said(s)'
<1>1. CASE \E k \in DOMAIN wire : orders[wire[k][1]].strat = s
    <2>1. PICK k \in DOMAIN wire, j \in DOMAIN wire' : orders[wire[k][1]].strat = s /\ wire'[j] = wire[k]
        BY <1>1
    <2>2. wire[k][1] \in DOMAIN orders
        BY DEF AttTypes
    <2>3. orders'[wire[k][1]].strat = s
        BY <2>1, <2>2, OrdersStep DEF OrdersFollow, OrdersOnlyShrink
    <2> QED
        BY <2>1, <2>3 DEF Said
<1>2. CASE \E k \in DOMAIN writers : book[writers[k].pid].strat = s
    BY <1>2 DEF Said
<1>3. CASE s \in TradedInRows
    BY <1>3, RowsStep DEF RowsStay, Said, TradedInRows
<1> QED
    BY <1>1, <1>2, <1>3 DEF Said

\* A fill that is booked passes the strategy's name from the report to the write.
LEMMA SaidFill ==
    ASSUME AttTypes, OrdersInv, RowsInv, HandleFill, NEW s, Said(s)
    PROVE  Said(s)'
<1>1. PICK order, p, pos, k, w : Booked(order, p, pos, k, w)
    BY FillIs
<1>2. UNCHANGED <<orders, rows>>
    BY DEF HandleFill
<1>3. \A q \in DOMAIN book : q \in DOMAIN book' /\ book'[q].strat = book[q].strat
    BY <1>1 DEF Booked, Matching
<1>4. CASE \E j \in DOMAIN wire : orders[wire[j][1]].strat = s
    <2>1. PICK j \in DOMAIN wire : orders[wire[j][1]].strat = s
        BY <1>4
    <2>2. CASE j = 1
        <3>1. k \in DOMAIN writers' /\ book'[writers'[k].pid].strat = s
            BY <1>1, <2>1, <2>2 DEF Booked
        <3> QED
            BY <3>1 DEF Said
    <2>3. CASE j # 1
        <3>1. wire \in Seq(Nat \X (Nat \ {0})) /\ wire # <<>> /\ wire' = Tail(wire)
            BY <1>1 DEF Booked, AttTypes
        <3>2. j - 1 \in DOMAIN wire' /\ wire'[j - 1] = wire[j]
            BY <2>3, <3>1, TailIs
        <3> QED
            BY <1>2, <2>1, <3>2 DEF Said
    <2> QED
        BY <2>2, <2>3
<1>5. CASE \E j \in DOMAIN writers : book[writers[j].pid].strat = s
    <2>1. PICK j \in DOMAIN writers : book[writers[j].pid].strat = s
        BY <1>5
    <2>2. writers[j].pid \in DOMAIN book
        BY DEF AttTypes, Upsert
    <2>3. j \in DOMAIN writers' /\ writers'[j] = writers[j]
        BY <1>1 DEF Booked
    <2> QED
        BY <1>3, <2>1, <2>2, <2>3 DEF Said
<1>6. CASE s \in TradedInRows
    BY <1>2, <1>6 DEF Said, TradedInRows
<1> QED
    BY <1>4, <1>5, <1>6 DEF Said

\* A write that is done passes it to the row.
LEMMA SaidWrites ==
    ASSUME AttTypes, OrdersInv, RowsInv, ~lost', [Next]_vars, NEW s, Said(s),
           NEW k \in DOMAIN writers, ReadPosition(k) \/ WriteRow(k) \/ WriteFails(k)
    PROVE  Said(s)'
<1>1. UNCHANGED <<book, orders, wire>>
    BY DEF ReadPosition, WriteRow, WriteFails
<1>2. CASE WriteRow(k)
    <2>1. CASE \E j \in DOMAIN wire : orders[wire[j][1]].strat = s
        BY <1>1, <2>1 DEF Said
    <2>2. ASSUME NEW j \in DOMAIN writers, j # k, book[writers[j].pid].strat = s PROVE Said(s)'
        <3>1. j \in DOMAIN writers' /\ writers'[j] = writers[j]
            BY <1>2, <2>2, WriteIs
        <3> QED
            BY <1>1, <2>2, <3>1 DEF Said
    <2>3. CASE book[writers[k].pid].strat = s
        <3>1. writers[k].read.strat = s
            BY <1>2, <2>3 DEF WriteRow, RowsInv
        <3>2. Written(writers[k].pid, writers[k].read, writers[k].why)
            BY <1>2, WriteIs
        <3>3. writers[k].pid \in DOMAIN rows' /\ rows'[writers[k].pid].strat = s
            BY <3>1, <3>2 DEF Written
        <3> QED
            BY <3>3 DEF Said, TradedInRows
    <2>4. CASE s \in TradedInRows
        BY <2>4, RowsStep DEF RowsStay, Said, TradedInRows
    <2> QED
        BY <2>1, <2>2, <2>3, <2>4 DEF Said
<1>3. CASE ReadPosition(k) \/ WriteFails(k)
    <2>1. PICK read : writers' = [writers EXCEPT ![k].read = read]
        BY <1>3 DEF ReadPosition, WriteFails
    <2>2. writers[k] \in Upsert
        BY DEF AttTypes
    <2> DEFINE upsert == [writers[k] EXCEPT !.read = read]
    <2>3. upsert.pid = writers[k].pid
        BY <2>2 DEF Upsert
    <2>4. writers' = [writers EXCEPT ![k] = upsert]
        BY <2>1
    <2> HIDE DEF upsert
    <2>5. \A q \in DOMAIN writers : q \in DOMAIN writers' /\ writers'[q].pid = writers[q].pid
        BY <2>3, <2>4
    <2> QED
        BY <1>1, <2>5, SaidSame
<1> QED
    BY <1>2, <1>3
\* A process that loses nothing by its end has no report and no upsert under way.
LEMMA NothingUnderWay ==
    ASSUME AttTypes, OrdersInv, OnceInv, ~lost', Crash \/ Stop \/ Stopped
    PROVE  /\ DOMAIN wire = {} /\ wire' = <<>>
           /\ \A k \in DOMAIN writers : k \in DOMAIN writers' /\ writers'[k].pid = writers[k].pid
<1>1. CASE Crash
    <2>1. lost' = (lost \/ wire # <<>> \/ writers # <<>>)
        BY <1>1 DEF Crash
    <2>2. wire = <<>> /\ writers = <<>>
        BY <2>1, Zenon
    <2> QED
        BY <1>1, <2>2, DownIs DEF Crash
<1>2. CASE Stop
    <2>1. lost' = (lost \/ (wire # <<>> \/ \E k \in DOMAIN writers : writers[k].read = NoRead))
          /\ writers' = Restrict(writers, {k \in DOMAIN writers : writers[k].read # NoRead}) /\ wire' = wire
        BY <1>2 DEF Stop
    <2>2. wire = <<>> /\ \A k \in DOMAIN writers : writers[k].read # NoRead
        BY <2>1, Zenon
    <2> QED
        BY <2>1, <2>2 DEF Restrict
<1>3. CASE Stopped
    <2>1. ~lost /\ writers = <<>> /\ phase = "stopping"
        BY <1>3 DEF Stopped
    <2> QED
        BY <1>3, <2>1, DownIs DEF Stopped, OnceInv
<1> QED
    BY <1>1, <1>2, <1>3

\* Once said, that a strategy has traded is never unsaid.
LEMMA SaidStep ==
    ASSUME AttTypes, OrdersInv, RowsInv, OnceInv, ~lost', [Next]_vars, NEW s, Said(s)
    PROVE  Said(s)'
<1>1. CASE UNCHANGED <<wire, book, writers>>
    BY <1>1, SaidSame
<1>2. ASSUME NEW i \in DOMAIN orders, Execute(i) PROVE Said(s)'
    <2>1. PICK n \in Nat \ {0} : orders[i].ours => wire' = Append(wire, <<i, n>>)
        BY <1>2, ExecuteIs
    <2>2. orders[i].ours
        BY <1>2, ExecuteIs, OrderIs
    <2>3. i \in Nat /\ wire \in Seq(Nat \X (Nat \ {0}))
        BY LenProperties DEF AttTypes
    <2>4. PICK x \in Nat \X (Nat \ {0}) : wire' = Append(wire, x)
        BY <2>1, <2>2, <2>3
    <2>5. \A k \in DOMAIN wire : k \in DOMAIN wire' /\ wire'[k] = wire[k]
        BY <2>3, <2>4, AppendIs
    <2>6. UNCHANGED <<book, writers>>
        BY <1>2 DEF Execute
    <2> QED
        BY <2>5, <2>6, SaidSame
<1>3. CASE HandleFill
    BY <1>3, SaidFill
<1>4. ASSUME NEW k \in DOMAIN writers, ReadPosition(k) \/ WriteRow(k) \/ WriteFails(k) PROVE Said(s)'
    BY <1>4, SaidWrites
<1>5. CASE Crash \/ Stop \/ Stopped
    <2>1. DOMAIN wire = {} /\ \A k \in DOMAIN writers : k \in DOMAIN writers' /\ writers'[k].pid = writers[k].pid
        BY <1>5, NothingUnderWay
    <2>2. CASE GoDown
        <3>1. DOMAIN writers = {}
            BY <2>1, <2>2, DownIs
        <3> QED
            BY <2>1, <3>1, RowsStep DEF Said, RowsStay, TradedInRows
    <2>3. CASE Stop
        BY <2>1, <2>3, SaidSame DEF Stop
    <2> QED
        BY <1>5, <2>2, <2>3 DEF Crash, Stopped
<1>6. ASSUME NEW c \in todo, SeedContract(c) PROVE Said(s)'
    <2>1. DOMAIN wire = {} /\ DOMAIN writers = {}
        BY <1>6 DEF SeedContract, AttTypes
    <2> QED
        BY <2>1, RowsStep DEF Said, RowsStay, TradedInRows
<1>7. \/ UNCHANGED <<wire, book, writers>>
      \/ HandleFill
      \/ \E i \in DOMAIN orders : Execute(i)
      \/ \E k \in DOMAIN writers : ReadPosition(k) \/ WriteRow(k) \/ WriteFails(k)
      \/ Crash \/ Stop \/ Stopped
      \/ \E c \in todo : SeedContract(c)
    BY DEF Next, vars, memory, SubmitEntry, SubmitExit, Submit, Withdraw, Commission, Restart, Sweep,
       Begin
<1> QED
    BY <1>1, <1>2, <1>3, <1>4, <1>5, <1>6, <1>7

\* An entry that must be the first was one before, or its strategy is one of which
\* nothing is said, if the process could load who has traded.
LEMMA FreshStep ==
    ASSUME AttTypes, OrdersInv, RowsInv, [Next]_vars, ~blind, NEW i \in DOMAIN orders', FirstOfDay(i)'
    PROVE  (i \in DOMAIN orders /\ FirstOfDay(i)) \/ ~Said(orders'[i].strat)
<1>1. CASE i \in DOMAIN orders
    <2>1. /\ orders[i].ours /\ orders[i].pid = Nobody /\ orders[i].once /\ orders'[i].left = Qty
          /\ orders'[i].left <= orders[i].left /\ orders[i].left <= Qty
        BY <1>1, OrdersStep DEF OrdersFollow, OrdersOnlyShrink, FirstOfDay, OrdersInv
    <2>2. orders[i].left \in Nat /\ Qty \in Nat
        BY <1>1, OrderIs, AttributionAssumption
    <2> QED
        BY <1>1, <2>1, <2>2 DEF FirstOfDay
<1>2. CASE i \notin DOMAIN orders
    <2> DEFINE s == orders'[i].strat
    <2>1. NewOrder(i)
        BY <1>2, NewOrderIs
    <2>2. phase = "run" /\ Flat(s) /\ s \notin traded
        BY <2>1 DEF NewOrder, FirstOfDay
    <2> HIDE DEF s
    <2>3. s \notin TradedInRows
        BY <2>2 DEF RowsInv
    <2>4. \A k \in DOMAIN writers : book[writers[k].pid].strat # s
        BY <2>2 DEF RowsInv
    <2>5. \A k \in DOMAIN wire : orders[wire[k][1]].strat # s
        <3>1. TAKE k \in DOMAIN wire
        <3>2. wire[k][1] \in DOMAIN orders /\ orders[wire[k][1]].ours
            BY <2>2 DEF AttTypes, OrdersInv
        <3>3. ActiveOrder(wire[k][1])
            BY <3>2 DEF ActiveOrder, Reported
        <3> QED
            BY <2>2, <3>2, <3>3 DEF Flat
    <2>6. ~Said(s)
        BY <2>3, <2>4, <2>5 DEF Said
    <2> QED
        BY <2>6 DEF s
<1> QED
    BY <1>1, <1>2

\* A process that has not loaded who has traded has no order at work.
LEMMA BlindStep ==
    ASSUME AttTypes, OrdersInv, [Next]_vars, blind' # blind
    PROVE  \A i \in DOMAIN orders' : ~FirstOfDay(i)'
<1>1. Begin
    BY DEF Next, vars, unlost, history, SubmitEntry, SubmitExit, Submit, Withdraw, Execute, HandleFill,
       ReadPosition, WriteRow, WriteFails, Commission, Crash, Stop, Stopped, Restart, Sweep,
       SeedContract
<1>2. orders' = orders /\ phase # "run"
    BY <1>1 DEF Begin
<1> QED
    BY <1>2 DEF OrdersInv, FirstOfDay

\* Nothing is opened at first.
LEMMA OnceInit == Init => OnceInv
<1> SUFFICES ASSUME Init PROVE OnceInv
    OBVIOUS
<1>1. phase = "run" /\ \A s \in Strats : opened[s] = 0
    BY DEF Init
<1> QED
    BY <1>1 DEF OnceInv

\* Of a strategy that has traded everything at work goes on to know.
LEMMA HeardStep ==
    ASSUME AttTypes, OrdersInv, RowsInv, OnceInv, [Next]_vars, ~lost', NEW s, Heard(s)
    PROVE  Heard(s)'
<1>1. Said(s)'
    BY SaidStep DEF Heard
<1>2. ASSUME ~blind', NEW i \in DOMAIN orders', FirstOfDay(i)' PROVE orders'[i].strat # s
    <2>1. blind' = blind
        BY <1>2, BlindStep
    <2>2. CASE i \in DOMAIN orders /\ FirstOfDay(i)
        BY <1>2, <2>1, <2>2, OrdersStep DEF OrdersFollow, OrdersOnlyShrink, Heard
    <2>3. CASE ~Said(orders'[i].strat)
        BY <2>3 DEF Heard
    <2> QED
        BY <1>2, <2>1, <2>2, <2>3, FreshStep
<1> QED
    BY <1>1, <1>2 DEF Heard

\* A strategy whose entry opens a position has no other entry at work.
LEMMA OnceExecute ==
    ASSUME AttTypes, OrdersInv, ~lost', NEW i \in DOMAIN orders, Execute(i), NEW s \in Strats, opened'[s] # opened[s]
    PROVE  Heard(s)'
<1>1. PICK n \in Nat \ {0} :
          /\ OrdersOnlyShrink /\ DOMAIN orders' = DOMAIN orders
          /\ orders'[i].left = orders[i].left - n
          /\ \A j \in DOMAIN orders : j # i => orders'[j] = orders[j]
          /\ opened' = IF orders[i].pid = Nobody /\ orders[i].left = Qty
                       THEN [opened EXCEPT ![orders[i].strat] = @ + 1] ELSE opened
          /\ orders[i].ours => wire' = Append(wire, <<i, n>>)
          /\ ~orders[i].ours => lost' = TRUE
    BY ExecuteIs
<1>2. orders[i].ours /\ orders[i].pid = Nobody /\ orders[i].left = Qty /\ orders[i].strat = s
    <2>1. opened \in [Strats -> Nat]
        BY DEF AttTypes
    <2>2. orders[i].pid = Nobody /\ orders[i].left = Qty /\ opened' = [opened EXCEPT ![orders[i].strat] = @ + 1]
        BY <1>1
    <2>3. orders[i].strat = s
        BY <2>1, <2>2
    <2> QED
        BY <1>1, <2>2, <2>3
<1>3. Said(s)'
    <2>1. i \in Nat /\ wire \in Seq(Nat \X (Nat \ {0}))
        BY LenProperties DEF AttTypes
    <2>2. PICK x \in Nat \X (Nat \ {0}) : x = <<i, n>> /\ wire' = Append(wire, x)
        BY <1>1, <1>2, <2>1
    <2>3. Len(wire) + 1 \in DOMAIN wire' /\ wire'[Len(wire) + 1] = x
        BY <2>1, <2>2, AppendIs
    <2>4. x[1] = i /\ orders'[i].strat = s
        BY <1>1, <1>2, <2>2 DEF OrdersOnlyShrink
    <2> QED
        BY <2>3, <2>4 DEF Said
<1>4. ASSUME NEW j \in DOMAIN orders', FirstOfDay(j)' PROVE orders'[j].strat # s
    <2>1. CASE j = i
        <3>1. orders'[i].left # Qty
            BY <1>1, <1>2, AttributionAssumption
        <3> QED
            BY <1>4, <2>1, <3>1 DEF FirstOfDay
    <2>2. CASE j # i
        <3>1. j \in DOMAIN orders /\ orders'[j] = orders[j] /\ FirstOfDay(j)
            BY <1>1, <1>4, <2>2 DEF FirstOfDay
        <3>2. Entry(i) /\ Entry(j)
            BY <1>2, <3>1, AttributionAssumption DEF Entry, FirstOfDay, ActiveOrder
        <3> QED
            BY <1>2, <2>2, <3>1, <3>2 DEF OrdersInv
    <2> QED
        BY <2>1, <2>2
<1> QED
    BY <1>3, <1>4 DEF Heard

\* Every step keeps the invariant of one trade per day.
LEMMA OnceStep ==
    ASSUME AttTypes, OrdersInv, RowsInv, OnceInv, [Next]_vars
    PROVE  OnceInv'
<1> SUFFICES ASSUME ~lost'
             PROVE  /\ phase' # "run" => wire' = <<>>
                    /\ \A s \in Strats : opened'[s] = 0 \/ Heard(s)'
    BY DEF OnceInv
<1>1. ~lost
    BY LossStays
<1>2. ASSUME phase' # "run" PROVE wire' = <<>>
    <2>1. CASE phase = "run"
        BY <1>2, <2>1, PhaseStep, NothingUnderWay
    <2>2. CASE phase # "run"
        <3>1. DOMAIN wire = {}
            BY <1>1, <2>2 DEF OnceInv
        <3>2. DOMAIN wire' = {}
            BY <2>2, <3>1, ReportsStep
        <3>3. wire' \in Seq(Nat \X (Nat \ {0}))
            BY TypesStep DEF AttTypes
        <3> QED
            BY <3>2, <3>3, NoReport
    <2> QED
        BY <2>1, <2>2
<1>3. ASSUME NEW s \in Strats PROVE opened'[s] = 0 \/ Heard(s)'
    <2>1. CASE opened'[s] = opened[s]
        BY <1>1, <2>1, HeardStep DEF OnceInv
    <2>2. CASE opened'[s] # opened[s]
        <3>1. PICK i \in DOMAIN orders : Execute(i)
            BY <2>2 DEF Next, vars, unlost, history, SubmitEntry, SubmitExit, Submit, Withdraw,
               HandleFill, ReadPosition, WriteRow, WriteFails, Commission, Crash, Stop, Stopped,
               Restart, Sweep, SeedContract, Begin
        <3> QED
            BY <2>2, <3>1, OnceExecute
    <2> QED
        BY <2>1, <2>2
<1> QED
    BY <1>2, <1>3

\* One trade per day survives restarts: however many processes there are, and whoever
\* enters by hand or again, an entry on schedule is never at the exchange when its
\* strategy has opened a position; unless an execution or a write was lost, or this
\* process could not load who has traded.
THEOREM OnceADay == Spec => []OneTradePerDay
<1> DEFINE Inv == AttTypes /\ OrdersInv /\ RowsInv /\ OnceInv
<1>1. Init => Inv
    BY TypesInit, OrdersInit, RowsInit, OnceInit
<1>2. Inv /\ [Next]_vars => Inv'
    BY TypesStep, OrdersInvStep, RowsStep, OnceStep
<1>3. Inv => OneTradePerDay
    BY DEF OnceInv, Heard, OrdersInv, FirstOfDay, OneTradePerDay
<1> QED
    BY <1>1, <1>2, <1>3, PTL DEF Spec
-----------------------------------------------------------------------------
(* Why a position was closed *)

\* A fill leaves the positions there are whose they are, and alone only who was.
LEMMA BookFill ==
    ASSUME AttTypes, NEW order, NEW p, NEW pos, NEW k, NEW w, Booked(order, p, pos, k, w)
    PROVE  /\ \A q \in DOMAIN book : /\ q \in DOMAIN book' /\ book'[q].long = book[q].long
                                     /\ book'[q].strat = book[q].strat /\ book'[q].con = book[q].con
           /\ \A q \in DOMAIN book : Alone(q)' => Alone(q)
           /\ \A q \in DOMAIN book : book'[q].qty > 0 => book[q].qty > 0
<1>1. p \in DOMAIN book => /\ pos.long = book[p].long /\ pos.strat = book[p].strat /\ pos.con = book[p].con
                           /\ book[p].qty > 0
    BY DEF Booked, Matching, Opened, AttTypes
<1>2. \A q \in DOMAIN book : /\ q \in DOMAIN book' /\ book'[q].long = book[q].long
                             /\ book'[q].strat = book[q].strat /\ book'[q].con = book[q].con
    BY <1>1 DEF Booked
<1>3. \A q \in DOMAIN book : Alone(q)' => Alone(q)
    BY <1>2 DEF Alone
<1>4. \A q \in DOMAIN book : book'[q].qty > 0 => book[q].qty > 0
    BY <1>1 DEF Booked
<1> QED
    BY <1>2, <1>3, <1>4

\* The order whose execution is booked.
LEMMA ReportedOrder ==
    ASSUME AttTypes, OrdersInv, phase = "run", NEW order, NEW p, NEW pos, NEW k, NEW w, Booked(order, p, pos, k, w)
    PROVE  \E i \in DOMAIN orders : order = orders[i] /\ orders[i].ours /\ (order.pid = Nobody => Entry(i))
<1> DEFINE i == wire[1][1]
<1>1. wire \in Seq(Nat \X (Nat \ {0})) /\ wire # <<>> /\ order = orders[i]
    BY DEF Booked, AttTypes
<1>2. 1 \in DOMAIN wire
    BY <1>1, TailIs
<1>3. i \in DOMAIN orders /\ orders[i].ours /\ ~Reported(i)
    BY <1>2 DEF AttTypes, OrdersInv, Reported
<1> HIDE DEF i
<1> QED
    BY <1>1, <1>3 DEF Entry, ActiveOrder

\* There is no position at first.
LEMMA SidesInit == Init => SidesInv
BY DEF Init, SidesInv

\* A fill keeps the sides of orders and positions in agreement.
LEMMA SidesFill ==
    ASSUME AttTypes, OrdersInv, RowsInv, SidesInv, HandleFill
    PROVE  SidesInv'
<1>1. PICK order, p, pos, k, w : Booked(order, p, pos, k, w)
    BY FillIs
<1>2. orders' = orders /\ phase = "run" /\ [Next]_vars
    BY DEF HandleFill, Next
<1>3. /\ \A q \in DOMAIN book : /\ q \in DOMAIN book' /\ book'[q].long = book[q].long
                                /\ book'[q].strat = book[q].strat /\ book'[q].con = book[q].con
      /\ \A q \in DOMAIN book : Alone(q)' => Alone(q)
      /\ \A q \in DOMAIN book : book'[q].qty > 0 => book[q].qty > 0
    BY <1>1, BookFill
<1>4. ASSUME NEW i \in DOMAIN orders, orders[i].ours, orders[i].pid # Nobody
      PROVE  /\ orders[i].pid \in DOMAIN book'
             /\ book'[orders[i].pid].strat = orders[i].strat /\ book'[orders[i].pid].con = orders[i].con
             /\ book'[orders[i].pid].long # orders[i].buy
             /\ book'[orders[i].pid].qty > 0 => orders[i].pid \in why'
    <2> DEFINE q == orders[i].pid
    <2>1. /\ q \in DOMAIN book /\ book[q].strat = orders[i].strat /\ book[q].con = orders[i].con
          /\ book[q].long # orders[i].buy /\ (book[q].qty > 0 => q \in why)
        BY <1>4 DEF SidesInv
    <2> HIDE DEF q
    <2>2. book'[q].qty > 0 => q \in why'
        <3>1. CASE q = p
            BY <1>1, <1>3, <2>1, <3>1 DEF Booked, Position
        <3>2. CASE q # p
            BY <1>1, <1>3, <2>1, <3>2 DEF Booked
        <3> QED
            BY <3>1, <3>2
    <2>3. /\ q \in DOMAIN book' /\ book'[q].strat = orders[i].strat /\ book'[q].con = orders[i].con
          /\ book'[q].long # orders[i].buy
        BY <1>3, <2>1
    <2> QED
        BY <2>2, <2>3 DEF q
<1>5. ASSUME NEW i \in DOMAIN orders, NEW q \in DOMAIN book', Entry(i)', Alone(q)',
             book'[q].qty > 0, book'[q].strat = orders[i].strat, book'[q].con = orders[i].con
      PROVE  book'[q].long = orders[i].buy
    <2>1. Entry(i)
        BY <1>2, <1>5, EntriesStep
    <2>2. CASE q \in DOMAIN book
        BY <1>3, <1>5, <2>1, <2>2 DEF SidesInv
    <2>3. CASE q \notin DOMAIN book
        <3>1. /\ q = p /\ book'[q].strat = order.strat /\ book'[q].con = order.con /\ book'[q].long = order.buy
            BY <1>1, <2>3 DEF Booked
        <3>2. PICK j \in DOMAIN orders : order = orders[j] /\ orders[j].ours /\ (order.pid = Nobody => Entry(j))
            BY <1>1, <1>2, ReportedOrder
        <3>3. order.pid = Nobody
            <4>1. ASSUME order.pid # Nobody PROVE FALSE
                <5>1. order.pid \in DOMAIN book /\ book[order.pid].strat = order.strat /\ book[order.pid].con = order.con
                    BY <3>2, <4>1 DEF SidesInv
                <5>2. order.pid \in DOMAIN book' /\ order.pid # q
                      /\ book'[order.pid].strat = order.strat /\ book'[order.pid].con = order.con
                    BY <1>3, <2>3, <5>1
                <5> QED
                    BY <1>5, <3>1, <5>2 DEF Alone
            <4> QED
                BY <4>1
        <3>4. i = j
            BY <1>5, <2>1, <3>1, <3>2, <3>3 DEF OrdersInv
        <3> QED
            BY <3>1, <3>2, <3>4
    <2> QED
        BY <2>2, <2>3
<1> QED
    BY <1>2, <1>4, <1>5 DEF SidesInv

\* So does every step.
LEMMA SidesStep ==
    ASSUME AttTypes, OrdersInv, RowsInv, SidesInv, [Next]_vars
    PROVE  SidesInv'
<1>1. CASE HandleFill
    BY <1>1, SidesFill
<1>2. CASE phase' # "run" \/ phase # "run"
    <2>1. \A i \in DOMAIN orders' : ~orders'[i].ours
        BY <1>2, OrdersStep, NewOrderIs, OrdersInvStep DEF OrdersInv, OrdersFollow, NewOrder
    <2> QED
        BY <2>1 DEF SidesInv, Entry, ActiveOrder
<1>3. CASE phase = "run" /\ phase' = "run" /\ ~HandleFill
    <2>1. book' = book /\ why \subseteq why'
        BY <1>3 DEF Next, vars, memory, SubmitEntry, SubmitExit, Submit, Withdraw, Execute,
           ReadPosition, WriteRow, WriteFails, Commission, Crash, GoDown, Stop, Stopped, Restart, Sweep,
           Begin, SeedContract
    <2>2. ASSUME NEW i \in DOMAIN orders', orders'[i].ours, orders'[i].pid # Nobody
          PROVE  /\ orders'[i].pid \in DOMAIN book
                 /\ book[orders'[i].pid].strat = orders'[i].strat /\ book[orders'[i].pid].con = orders'[i].con
                 /\ book[orders'[i].pid].long # orders'[i].buy
                 /\ book[orders'[i].pid].qty > 0 => orders'[i].pid \in why'
        <3>1. CASE i \in DOMAIN orders
            <4>1. /\ orders[i].ours /\ orders'[i].pid = orders[i].pid /\ orders'[i].strat = orders[i].strat
                  /\ orders'[i].con = orders[i].con /\ orders'[i].buy = orders[i].buy
                BY <2>2, <3>1, OrdersStep DEF OrdersFollow, OrdersOnlyShrink
            <4>2. /\ orders[i].pid \in DOMAIN book
                  /\ book[orders[i].pid].strat = orders[i].strat /\ book[orders[i].pid].con = orders[i].con
                  /\ book[orders[i].pid].long # orders[i].buy
                  /\ book[orders[i].pid].qty > 0 => orders[i].pid \in why
                BY <2>2, <3>1, <4>1 DEF SidesInv
            <4> QED
                BY <2>1, <4>1, <4>2
        <3>2. CASE i \notin DOMAIN orders
            <4>1. PICK p \in Opened(book) :
                     /\ orders'[i].pid = p /\ p # Nobody /\ p \in why'
                     /\ orders'[i].strat = book[p].strat /\ orders'[i].con = book[p].con
                     /\ orders'[i].buy = ~book[p].long
                BY <2>2, <3>2, NewOrderIs DEF NewOrder
            <4>2. p \in DOMAIN book /\ book[p].long # orders'[i].buy
                <5>1. p \in DOMAIN book
                    BY DEF Opened
                <5>2. book[p].long \in BOOLEAN
                    BY <5>1 DEF AttTypes, Position
                <5> QED
                    BY <4>1, <5>1, <5>2
            <4> QED
                BY <4>1, <4>2
        <3> QED
            BY <3>1, <3>2
    <2>3. ASSUME NEW i \in DOMAIN orders', NEW p \in DOMAIN book, Entry(i)', Alone(p),
                 book[p].qty > 0, book[p].strat = orders'[i].strat, book[p].con = orders'[i].con
          PROVE  book[p].long = orders'[i].buy
        <3>1. CASE i \in DOMAIN orders
            <4>1. Entry(i)
                BY <2>3, <3>1, EntriesStep
            <4>2. orders'[i].strat = orders[i].strat /\ orders'[i].con = orders[i].con /\ orders'[i].buy = orders[i].buy
                BY <3>1, OrdersStep DEF OrdersFollow, OrdersOnlyShrink
            <4> QED
                BY <2>3, <3>1, <4>1, <4>2 DEF SidesInv
        <3>2. CASE i \notin DOMAIN orders
            <4>1. Flat(orders'[i].strat)
                BY <2>3, <3>2, NewOrderIs DEF NewOrder, Entry
            <4> QED
                BY <2>3, <4>1 DEF Flat, Opened
        <3> QED
            BY <3>1, <3>2
    <2>4. \A p \in DOMAIN book : Alone(p)' <=> Alone(p)
        BY <2>1 DEF Alone
    <2> QED
        BY <2>1, <2>2, <2>3, <2>4 DEF SidesInv
<1> QED
    BY <1>1, <1>2, <1>3
\* No exit has been asked for at first.
LEMMA ReasonInit == Init => ReasonInv
<1> SUFFICES ASSUME Init PROVE ReasonInv
    OBVIOUS
<1>1. DOMAIN book = {} /\ DOMAIN rows = {} /\ phase = "run"
    BY DEF Init
<1> QED
    BY <1>1 DEF ReasonInv, OpenRows

\* It is known why p was closed, or being written.
Known(p) == \/ \E k \in DOMAIN writers : writers[k].pid = p /\ writers[k].why = "exit"
            \/ p \in DOMAIN rows /\ rows[p].why = "exit"

\* What closes a position nobody else's orders are taken for is its own exit.
LEMMA ReasonFill ==
    ASSUME AttTypes, OrdersInv, RowsInv, SidesInv, ReasonInv, ~lost, HandleFill,
           NEW q \in DOMAIN book', Alone(q)', book'[q].qty = 0
    PROVE  Known(q)'
<1>1. PICK order, p, pos, k, w : Booked(order, p, pos, k, w)
    BY FillIs
<1>2. phase = "run" /\ rows' = rows
    BY DEF HandleFill
<1>3. /\ \A r \in DOMAIN book : /\ r \in DOMAIN book' /\ book'[r].long = book[r].long
                                /\ book'[r].strat = book[r].strat /\ book'[r].con = book[r].con
      /\ \A r \in DOMAIN book : Alone(r)' => Alone(r)
    BY <1>1, BookFill
<1>4. CASE q # p
    <2>1. q \in DOMAIN book /\ Alone(q) /\ book[q].qty = 0
        BY <1>1, <1>3, <1>4 DEF Booked
    <2>2. Known(q)
        BY <1>2, <2>1 DEF ReasonInv, Known
    <2> QED
        BY <1>1, <1>2, <2>2 DEF Booked, Known
<1>5. CASE q = p
    <2>1. /\ p \in DOMAIN book /\ book[p].long # order.buy /\ Alone(p) /\ pos.qty = 0
          /\ p \in Matching(order)
        BY <1>1, <1>3, <1>5 DEF Booked
    <2>2. book[p].strat = order.strat /\ book[p].con = order.con /\ book[p].qty > 0
        BY <2>1 DEF Matching, Opened
    <2>3. PICK j \in DOMAIN orders : order = orders[j] /\ orders[j].ours /\ (order.pid = Nobody => Entry(j))
        BY <1>1, <1>2, ReportedOrder
    <2>4. order.pid # Nobody
        BY <2>1, <2>2, <2>3 DEF SidesInv
    <2>5. /\ order.pid \in DOMAIN book /\ book[order.pid].strat = order.strat /\ book[order.pid].con = order.con
          /\ book[order.pid].qty > 0 => order.pid \in why
        BY <2>3, <2>4 DEF SidesInv
    <2>6. order.pid = p
        BY <2>1, <2>2, <2>5 DEF Alone
    <2>7. w = "exit"
        BY <1>1, <2>1, <2>2, <2>5, <2>6 DEF Booked
    <2>8. k \in DOMAIN writers' /\ writers'[k].pid = p /\ writers'[k].why = w
        BY <1>1 DEF Booked
    <2> QED
        BY <1>5, <2>7, <2>8 DEF Known
<1> QED
    BY <1>4, <1>5

\* The reason of a close outlives every step of a write, unless a write is lost.
LEMMA ReasonWrites ==
    ASSUME AttTypes, ~lost', NEW p, Known(p),
           NEW k \in DOMAIN writers, ReadPosition(k) \/ WriteRow(k) \/ WriteFails(k)
    PROVE  Known(p)'
<1>1. CASE WriteRow(k)
    <2> DEFINE q == writers[k].pid
               reason == writers[k].why
    <2>1. /\ Written(q, writers[k].read, reason)
          /\ \A j \in DOMAIN writers : j # k => j \in DOMAIN writers' /\ writers'[j] = writers[j]
        BY <1>1, WriteIs
    <2>2. reason \in Reasons
        BY DEF AttTypes, Upsert
    <2>3. CASE q = p /\ reason = "exit"
        <3>1. p \in DOMAIN rows' /\ rows'[p].why = "exit"
            BY <2>1, <2>3 DEF Written
        <3> QED
            BY <3>1 DEF Known
    <2>4. ASSUME NEW j \in DOMAIN writers, j # k, writers[j].pid = p, writers[j].why = "exit" PROVE Known(p)'
        BY <2>1, <2>4 DEF Known
    <2>5. CASE p \in DOMAIN rows /\ rows[p].why = "exit"
        <3>1. p \in DOMAIN rows' /\ rows'[p].why = "exit"
            BY <2>1, <2>2, <2>5 DEF Written, Reasons
        <3> QED
            BY <3>1 DEF Known
    <2> QED
        BY <2>3, <2>4, <2>5 DEF Known
<1>2. CASE ReadPosition(k) \/ WriteFails(k)
    <2>1. PICK read : writers' = [writers EXCEPT ![k].read = read]
        BY <1>2 DEF ReadPosition, WriteFails
    <2>2. writers[k] \in Upsert
        BY DEF AttTypes
    <2> DEFINE upsert == [writers[k] EXCEPT !.read = read]
    <2>3. upsert.pid = writers[k].pid /\ upsert.why = writers[k].why
        BY <2>2 DEF Upsert
    <2>4. writers' = [writers EXCEPT ![k] = upsert]
        BY <2>1
    <2> HIDE DEF upsert
    <2>5. \A q \in DOMAIN writers : /\ q \in DOMAIN writers'
                                    /\ writers'[q].pid = writers[q].pid /\ writers'[q].why = writers[q].why
        BY <2>3, <2>4
    <2>6. rows' = rows
        BY <1>2 DEF ReadPosition, WriteFails
    <2> QED
        BY <2>5, <2>6 DEF Known
<1> QED
    BY <1>1, <1>2

\* An open row is of a position that is not closed.
LEMMA OpenRowsStep ==
    ASSUME AttTypes, [Next]_vars, \A r \in OpenRows : rows[r].qty > 0
    PROVE  \A r \in OpenRows' : rows'[r].qty > 0
<1>1. CASE rows' = rows
    BY <1>1 DEF OpenRows
<1>2. ASSUME NEW p, NEW pos, NEW reason, Written(p, pos, reason) PROVE \A r \in OpenRows' : rows'[r].qty > 0
    BY <1>2 DEF Written, OpenRows
<1>3. ASSUME NEW k \in DOMAIN writers, WriteRow(k) PROVE \A r \in OpenRows' : rows'[r].qty > 0
    BY <1>2, <1>3, WriteIs
<1>4. ASSUME NEW p \in fees, Commission(p) PROVE \A r \in OpenRows' : rows'[r].qty > 0
    BY <1>1, <1>2, <1>4, CommissionIs
<1>5. ASSUME NEW c \in todo, SeedContract(c) PROVE \A r \in OpenRows' : rows'[r].qty > 0
    <2>1. PICK seeded, written : Adopted(seeded, written)
        BY <1>5, SeedIs
    <2> QED
        BY <2>1 DEF Adopted, OfItsRow, RowOfSeeded, OpenRows
<1>6. CASE Sweep
    <2>1. rows' = Swept(DOMAIN held) \/ rows' = rows
        BY <1>6 DEF Sweep
    <2> QED
        BY <1>1, <2>1, SweptIs DEF OpenRows
<1>7. \/ rows' = rows \/ Sweep
      \/ \E k \in DOMAIN writers : WriteRow(k)
      \/ \E p \in fees : Commission(p)
      \/ \E c \in todo : SeedContract(c)
    BY DEF Next, vars, SubmitEntry, SubmitExit, Submit, Withdraw, Execute, HandleFill, ReadPosition,
       WriteFails, Crash, Stop, Stopped, Restart, Begin
<1> QED
    BY <1>1, <1>3, <1>4, <1>5, <1>6, <1>7

\* Every step keeps the reasons of the closes that are known.
LEMMA ReasonStep ==
    ASSUME AttTypes, OrdersInv, RowsInv, SidesInv, ReasonInv, [Next]_vars
    PROVE  ReasonInv'
<1>1. \A r \in OpenRows' : rows'[r].qty > 0
    BY OpenRowsStep DEF ReasonInv
<1>2. ASSUME phase' \in {"seed", "start"} PROVE \A p \in DOMAIN book' : book'[p].qty > 0
    <2>1. ASSUME NEW c \in todo, SeedContract(c) PROVE \A p \in DOMAIN book' : book'[p].qty > 0
        <3>1. PICK seeded, written : Adopted(seeded, written)
            BY <2>1, SeedIs
        <3>2. phase = "seed"
            BY <2>1 DEF SeedContract
        <3> QED
            BY <3>1, <3>2 DEF Adopted, OfItsRow, RowOfSeeded, ReasonInv
    <2>2. CASE Restart
        <3>1. DOMAIN book = {} /\ book' = book
            BY <2>2 DEF Restart, memory, AttTypes
        <3> QED
            BY <3>1
    <2>3. (phase \in {"seed", "start"} /\ book' = book) \/ Restart \/ \E c \in todo : SeedContract(c)
        BY <1>2 DEF Next, vars, memory, SubmitEntry, SubmitExit, Submit, Withdraw, Execute, HandleFill,
           ReadPosition, WriteRow, WriteFails, Commission, Crash, GoDown, Stop, Stopped, Sweep, Begin
    <2> QED
        BY <2>1, <2>2, <2>3 DEF ReasonInv
<1>3. ASSUME ~lost', phase' = "run", NEW p \in DOMAIN book', Alone(p)', book'[p].qty = 0
      PROVE  Known(p)'
    <2>1. ~lost
        BY <1>3, LossStays
    <2>2. CASE phase # "run"
        <3>1. book' = book /\ phase = "start"
            BY <1>3, <2>2, PhaseStep DEF Begin
        <3>2. p \in DOMAIN book /\ book[p].qty = 0
            BY <1>3, <3>1
        <3> QED
            BY <3>1, <3>2 DEF AttTypes, ReasonInv
    <2>3. CASE phase = "run" /\ HandleFill
        BY <1>3, <2>1, <2>3, ReasonFill
    <2>4. CASE phase = "run" /\ ~HandleFill
        <3>1. book' = book
            BY <1>3, <2>4 DEF Next, vars, memory, SubmitEntry, SubmitExit, Submit, Withdraw, Execute,
               ReadPosition, WriteRow, WriteFails, Commission, Crash, GoDown, Stop, Stopped, Restart,
               Sweep, Begin, SeedContract
        <3>2. p \in DOMAIN book /\ Alone(p) /\ book[p].qty = 0
            BY <1>3, <3>1 DEF Alone
        <3>3. Known(p)
            BY <2>1, <2>4, <3>2 DEF ReasonInv, Known
        <3>4. ASSUME NEW k \in DOMAIN writers, ReadPosition(k) \/ WriteRow(k) \/ WriteFails(k) PROVE Known(p)'
            BY <1>3, <3>3, <3>4, ReasonWrites
        <3>5. ASSUME NEW q \in fees, Commission(q) PROVE Known(p)'
            <4>1. writers' = writers /\ (rows' = rows \/ Written(q, book[q], "none"))
                BY <3>5, CommissionIs DEF Commission
            <4>2. p \in DOMAIN rows /\ rows[p].why = "exit" => p \in DOMAIN rows' /\ rows'[p].why = "exit"
                BY <4>1 DEF Written
            <4> QED
                BY <3>3, <4>1, <4>2 DEF Known
        <3>6. CASE UNCHANGED <<rows, writers>>
            BY <3>3, <3>6 DEF Known
        <3>7. \/ \E k \in DOMAIN writers : ReadPosition(k) \/ WriteRow(k) \/ WriteFails(k)
              \/ \E q \in fees : Commission(q)
              \/ UNCHANGED <<rows, writers>>
            BY <1>3, <2>4 DEF Next, vars, memory, SubmitEntry, SubmitExit, Submit, Withdraw, Execute,
               Crash, GoDown, Stop, Stopped, Restart, Sweep, Begin, SeedContract
        <3> QED
            BY <3>4, <3>5, <3>6, <3>7
    <2> QED
        BY <2>2, <2>3, <2>4
<1> QED
    BY <1>1, <1>2, <1>3 DEF ReasonInv, Known

\* Once its writes are done, the row of a closed position says why it was closed, in
\* whatever order the writes were done and the processes ended.
THEOREM ReasonsKept == Spec => []CloseReasonKept
<1> DEFINE Inv == AttTypes /\ OrdersInv /\ RowsInv /\ SidesInv /\ ReasonInv
<1>1. Init => Inv
    BY TypesInit, OrdersInit, RowsInit, SidesInit, ReasonInit
<1>2. Inv /\ [Next]_vars => Inv'
    BY TypesStep, OrdersInvStep, RowsStep, SidesStep, ReasonStep
<1>3. Inv => CloseReasonKept
    BY DEF ReasonInv, CloseReasonKept, Alone
<1> QED
    BY <1>1, <1>2, <1>3, PTL DEF Spec
-----------------------------------------------------------------------------
(* The book after a restart *)

\* Contracts are left to seed only while seeding, and nothing is in the book of those.
TodoInv ==
    /\ phase # "seed" => todo = {}
    /\ \A p \in DOMAIN book : book[p].con \notin todo

\* There is nothing to seed at first.
LEMMA TodoInit == Init => TodoInv
BY DEF Init, TodoInv

\* What is seeded is taken off the list (_seed_one_position).
LEMMA TodoStep ==
    ASSUME AttTypes, TodoInv, [Next]_vars
    PROVE  TodoInv'
<1>1. CASE UNCHANGED <<phase, book, todo>>
    BY <1>1 DEF TodoInv
<1>2. CASE HandleFill
    BY <1>2 DEF HandleFill, seeding, TodoInv
<1>3. CASE Crash \/ Stop \/ Stopped
    <2>1. CASE GoDown
        BY <2>1, DownIs DEF TodoInv
    <2>2. CASE Stop
        BY <2>2 DEF Stop, seeding, TodoInv
    <2> QED
        BY <1>3, <2>1, <2>2 DEF Crash, Stopped
<1>4. CASE Restart
    <2>1. book' = book /\ DOMAIN book = {} /\ (phase' # "seed" => todo' = {})
        <3>1. phase = "down" /\ book' = book /\ (phase' # "seed" => todo' = todo)
            BY <1>4 DEF Restart, memory, seeding
        <3> QED
            BY <3>1 DEF AttTypes, TodoInv
    <2> QED
        BY <2>1 DEF TodoInv
<1>5. CASE Sweep \/ Begin
    BY <1>5 DEF Sweep, Begin, memory, seeding, TodoInv
<1>6. ASSUME NEW c \in todo, SeedContract(c) PROVE TodoInv'
    <2>1. PICK seeded, written : Adopted(seeded, written) /\ \A r \in DOMAIN seeded : seeded[r].con = c
        BY <1>6, SeedIs
    <2>2. phase' = "seed" /\ todo' = todo \ {c}
        BY <1>6 DEF SeedContract
    <2>3. \A p \in DOMAIN book' : book'[p].con = c \/ (p \in DOMAIN book /\ book'[p] = book[p])
        BY <2>1 DEF Adopted, OfItsRow, RowOfSeeded
    <2> QED
        BY <2>2, <2>3 DEF TodoInv
<1>7. \/ UNCHANGED <<phase, book, todo>> \/ HandleFill
      \/ Crash \/ Stop \/ Stopped \/ Restart \/ Sweep \/ Begin
      \/ \E c \in todo : SeedContract(c)
    BY DEF Next, vars, memory, seeding, SubmitEntry, SubmitExit, Submit, Withdraw, Execute,
           ReadPosition, WriteRow, WriteFails, Commission
<1> QED
    BY <1>1, <1>2, <1>3, <1>4, <1>5, <1>6, <1>7

\* The positions of a book in a contract.
In(B, c) == {p \in DOMAIN B : B[p].con = c}

\* What a book holds of a contract is the sum of its positions in it.
LEMMA NetIs ==
    ASSUME NEW B, IsFiniteSet(DOMAIN B), \A p \in DOMAIN B : B[p] \in Position, NEW c,
           NEW f, \A p \in In(B, c) : f[p] = Signed(B[p].long, B[p].qty)
    PROVE  /\ IsFiniteSet(In(B, c)) /\ \A p \in In(B, c) : f[p] \in Int
           /\ NetOf(B, c) = SumOf(f, In(B, c))
<1>1. PICK S : S = In(B, c)
    OBVIOUS
<1>2. IsFiniteSet(S)
    BY <1>1, FS_Subset DEF In
<1>3. \A p \in S : f[p] \in Int
    BY <1>1 DEF In, Position, Signed
<1> DEFINE Folded(it) == it = [s \in SUBSET S |-> IF s = {} THEN 0
                                 ELSE it[s \ {Pick(s)}] + Signed(B[Pick(s)].long, B[Pick(s)].qty)]
           chosen == CHOOSE it : Folded(it)
<1>4. NetOf(B, c) = chosen[S]
    BY <1>1, Zenon DEF In, NetOf, FoldSet, MapThenFoldSet, Pick
<1>5. ASSUME NEW it
      PROVE  [s \in SUBSET S |-> IF s = {} THEN 0 ELSE it[s \ {Pick(s)}] + f[Pick(s)]]
               = [s \in SUBSET S |-> IF s = {} THEN 0
                                 ELSE it[s \ {Pick(s)}] + Signed(B[Pick(s)].long, B[Pick(s)].qty)]
    BY <1>1, PickIn
<1>6. PICK jt : FoldsBack(jt, f, S)
    BY <1>2, <1>3, FoldedSum
<1>7. Folded(jt)
    BY <1>5, <1>6 DEF FoldsBack
<1> HIDE DEF Folded
<1>8. Folded(chosen)
    BY <1>7, Zenon
<1> USE DEF Folded
<1> HIDE DEF chosen
<1>9. FoldsBack(chosen, f, S)
    BY <1>5, <1>8 DEF FoldsBack
<1>10. chosen[S] = SumOf(f, S)
    BY <1>2, <1>3, <1>9, FoldedSum
<1> QED
    BY <1>1, <1>2, <1>3, <1>4, <1>10

\* One position is what the book holds ...
LEMMA NetOfOne ==
    ASSUME NEW B, IsFiniteSet(DOMAIN B), \A p \in DOMAIN B : B[p] \in Position, NEW c,
           NEW r \in DOMAIN B, \A p \in DOMAIN B : B[p].con = c <=> p = r
    PROVE  NetOf(B, c) = Signed(B[r].long, B[r].qty)
<1>1. PICK S : S = In(B, c)
    OBVIOUS
<1>2. PICK f : f = [p \in S |-> Signed(B[p].long, B[p].qty)]
    OBVIOUS
<1>3. S = {r} /\ S \ {r} = {}
    BY <1>1 DEF In
<1>4. \A p \in S : f[p] = Signed(B[p].long, B[p].qty)
    BY <1>2
<1>5. IsFiniteSet(S) /\ (\A p \in S : f[p] \in Int) /\ NetOf(B, c) = SumOf(f, S)
    BY <1>1, <1>4, NetIs
<1>6. SumOf(f, S) = f[r] + SumOf(f, S \ {r})
    BY <1>3, <1>5, SumWithout
<1>7. SumOf(f, S \ {r}) = 0 /\ f[r] \in Int
    BY <1>3, <1>5, SumEmpty
<1> QED
    BY <1>3, <1>4, <1>5, <1>6, <1>7

\* Ids are numbers below next, so there are finitely many.
LEMMA FinitelyMany ==
    ASSUME AttTypes
    PROVE  IsFiniteSet(DOMAIN book) /\ IsFiniteSet(DOMAIN rows)
<1>1. IsFiniteSet(1 .. next - 1)
    BY FS_Interval DEF AttTypes
<1> QED
    BY <1>1, FS_Subset DEF AttTypes

\* A contract with at most one open row is seeded as one position.
LEMMA SeedsOne ==
    ASSUME AttTypes, NEW c \in todo, Cardinality(Attrs(c)) <= 1,
           NEW found \in {Attrs(c), {}}, NEW seeded \in SeededAs(c, found)
    PROVE  \E r, s : DOMAIN seeded = {r} /\ seeded[r] = Seeded(s, c, Size(held[c]))
<1>1. IsFiniteSet(found)
    <2>1. found \subseteq DOMAIN rows
        BY DEF Attrs, OpenRows
    <2> QED
        BY <2>1, FinitelyMany, FS_Subset
<1>2. Cardinality(found) \in Nat /\ Cardinality(found) <= 1 /\ ~(Cardinality(found) > 1)
    BY <1>1, FS_CardinalityType, FS_EmptySet
<1>3. found = {} \/ \E a : found = {a}
    <2>1. Cardinality(found) = 0 \/ Cardinality(found) = 1
        BY <1>2
    <2> QED
        BY <1>1, <2>1, FS_EmptySet, FS_Singleton
<1> DEFINE Owned == {r \in found : rows[r].strat \in conf}
           Mine  == [r \in Owned |-> Seeded(rows[r].strat, c, Size(held[c]))]
<1>4. \/ seeded = Only(next, Seeded(Guess, c, Size(held[c])))
      \/ seeded = Mine /\ found # {} /\ Owned = found
      \/ seeded = With(Mine, next, Seeded(Guess, c, Size(held[c]))) /\ found # {} /\ Owned # found
    BY <1>2 DEF SeededAs
<1>5. CASE seeded = Only(next, Seeded(Guess, c, Size(held[c])))
    BY <1>5 DEF Only
<1>6. CASE seeded = Mine /\ found # {} /\ Owned = found
    <2>1. PICK a : Owned = {a}
        BY <1>3, <1>6
    <2>2. DOMAIN seeded = {a} /\ seeded[a] = Seeded(rows[a].strat, c, Size(held[c]))
        BY <1>6, <2>1
    <2> QED
        BY <2>2
<1>7. CASE seeded = With(Mine, next, Seeded(Guess, c, Size(held[c]))) /\ found # {} /\ Owned # found
    <2>1. Owned = {}
        BY <1>3, <1>7
    <2>2. DOMAIN Mine = {}
        BY <2>1
    <2>3. PICK mine, v : mine = Mine /\ v = Seeded(Guess, c, Size(held[c]))
        OBVIOUS
    <2>4. seeded = With(mine, next, v) /\ DOMAIN mine = {}
        BY <1>7, <2>2, <2>3
    <2>5. DOMAIN seeded = {next} /\ seeded[next] = v
        <3>1. (\A q : q \in DOMAIN seeded <=> q \in DOMAIN mine \/ q = next) /\ seeded[next] = v
            BY <2>4, WithIs
        <3> QED
            BY <2>4, <3>1
    <2> QED
        BY <2>3, <2>5
<1> QED
    BY <1>4, <1>5, <1>6, <1>7

\* That position is as large as the broker's, and on its side.
LEMMA LikeBroker ==
    ASSUME AttTypes, AttTypes', TodoInv, [Next]_vars,
           NEW c \in todo, c \notin todo', phase' = "seed", Cardinality(Attrs(c)) <= 1
    PROVE  NetOf(book', c) = held[c]
<1>1. SeedContract(c)
    <2>1. phase = "seed"
        BY DEF TodoInv
    <2>2. \E d \in todo : SeedContract(d)
        BY <2>1 DEF Next, vars, memory, seeding, SubmitEntry, SubmitExit, Submit, Withdraw, Execute,
           HandleFill, ReadPosition, WriteRow, WriteFails, Commission, Crash, GoDown, Stop, Stopped,
           Restart, Sweep, Begin
    <2>3. PICK d \in todo : SeedContract(d)
        BY <2>2
    <2>4. d = c
        BY <2>3 DEF SeedContract
    <2> QED
        BY <2>3, <2>4
<1>2. PICK found, seeded, written :
          /\ found \in {Attrs(c), {}} /\ seeded \in SeededAs(c, found) /\ Adopted(seeded, written)
          /\ \A r \in DOMAIN seeded : seeded[r].con = c
    BY <1>1, SeedIs
<1>3. PICK r, s : DOMAIN seeded = {r} /\ seeded[r] = Seeded(s, c, Size(held[c]))
    BY <1>2, SeedsOne
<1>4. PICK B : B = book'
    OBVIOUS
<1>5. IsFiniteSet(DOMAIN B) /\ \A p \in DOMAIN B : B[p] \in Position
    <2>1. next' \in Nat \ {0} /\ DOMAIN book' \subseteq 1 .. next' - 1 /\ \A p \in DOMAIN book' : book'[p] \in Position
        BY DEF AttTypes
    <2>2. IsFiniteSet(1 .. next' - 1)
        BY <2>1, FS_Interval
    <2> QED
        BY <1>4, <2>1, <2>2, FS_Subset
<1>6. r \in DOMAIN B /\ B[r] = seeded[r]
    BY <1>2, <1>3, <1>4 DEF Adopted, OfItsRow, RowOfSeeded
<1>7. \A p \in DOMAIN B : B[p].con = c <=> p = r
    <2>1. \A p \in DOMAIN B : p = r \/ (p \in DOMAIN book /\ B[p] = book[p])
        BY <1>2, <1>3, <1>4 DEF Adopted, OfItsRow, RowOfSeeded
    <2> QED
        BY <1>2, <1>3, <1>6, <2>1 DEF TodoInv
<1>8. NetOf(B, c) = Signed(B[r].long, B[r].qty)
    BY <1>5, <1>6, <1>7, NetOfOne
<1>9. PICK n \in Int : n = held[c]
    BY DEF AttTypes
<1>10. B[r].long = (n > 0) /\ B[r].qty = Size(n)
    BY <1>3, <1>6, <1>9 DEF Seeded
<1>11. Signed(B[r].long, B[r].qty) = n
    <2>1. CASE n > 0
        <3>1. B[r].long = TRUE
            BY <1>10, <2>1, Zenon
        <3>2. B[r].qty = n
            BY <1>10, <2>1 DEF Size
        <3> QED
            BY <3>1, <3>2 DEF Signed
    <2>2. CASE ~(n > 0)
        <3>1. B[r].long = FALSE
            <4>1. (n > 0) = FALSE
                BY <2>2
            <4> QED
                BY <1>10, <4>1, Zenon
        <3>2. B[r].qty = -n
            BY <1>10, <2>2 DEF Size
        <3> QED
            BY <3>1, <3>2 DEF Signed
    <2> QED
        BY <2>1, <2>2
<1> QED
    BY <1>4, <1>8, <1>9, <1>11

\* A contract with at most one open row is seeded as the broker has it, whatever was lost
\* before (_seed_positions_from_broker, _seed_one_position).
THEOREM SeededAsHeld == Spec => SeededLikeBroker
<1> DEFINE Inv == AttTypes /\ OrdersInv /\ TodoInv
           Like == \A c \in todo : c \notin todo' /\ phase' = "seed" /\ Cardinality(Attrs(c)) <= 1
                      => NetOf(book', c) = held[c]
<1>1. Init => Inv
    BY TypesInit, OrdersInit, TodoInit
<1>2. Inv /\ [Next]_vars => Inv'
    BY TypesStep, OrdersInvStep, TodoStep
<1>3. Inv /\ [Next]_vars => [Like]_vars
    BY <1>2, LikeBroker
<1> QED
    BY <1>1, <1>2, <1>3, PTL DEF Spec, SeededLikeBroker
-----------------------------------------------------------------------------
(* The owners after a restart *)

\* The book B is what the open rows say, no contract is held on both sides, and it is
\* what the broker holds.
Agrees(B) ==
    /\ B = [p \in DOMAIN B |-> B[p]] /\ DOMAIN B = OpenRows
    /\ \A p \in DOMAIN B :
          /\ B[p] \in Position /\ B[p].qty > 0 /\ B[p].strat \in conf
          /\ rows[p].strat = B[p].strat /\ rows[p].con = B[p].con
          /\ rows[p].long = B[p].long /\ rows[p].qty = B[p].qty
          /\ \A q \in DOMAIN B : B[p].con = B[q].con => B[p].long = B[q].long
    /\ \A c \in Contracts : net[c] = NetOf(B, c)

\* Seeding has restored of B what is in the contracts done.
Restored(B) ==
    /\ \A c \in Contracts : c \in DOMAIN held <=> net[c] # 0
    /\ \A c \in DOMAIN held : held[c] = net[c]
    /\ \A p : p \in DOMAIN book <=> p \in DOMAIN B /\ B[p].con \notin todo
    /\ \A p \in DOMAIN book : book[p] = B[p]

KeptInv == \A k \in kept : k.stale = {} =>
    /\ phase \in {"down", "seed"} => Agrees(k.book)
    /\ phase = "seed" => Restored(k.book)

\* Nothing is kept at first.
LEMMA KeptInit == Init => KeptInv
BY DEF Init, KeptInv

\* A book holds nothing of a contract none of its positions is in, ...
LEMMA NetOfNone ==
    ASSUME NEW B, IsFiniteSet(DOMAIN B), \A p \in DOMAIN B : B[p] \in Position, NEW c,
           \A p \in DOMAIN B : B[p].con # c
    PROVE  NetOf(B, c) = 0
<1>1. PICK S, f : S = In(B, c) /\ f = [p \in S |-> Signed(B[p].long, B[p].qty)]
    OBVIOUS
<1>2. S = {} /\ \A p \in S : f[p] = Signed(B[p].long, B[p].qty)
    BY <1>1 DEF In
<1>3. NetOf(B, c) = SumOf(f, S)
    BY <1>1, <1>2, NetIs
<1> QED
    BY <1>2, <1>3, SumEmpty

\* ... and is on the side of its positions when these are on one.
LEMMA NetSide ==
    ASSUME NEW B, IsFiniteSet(DOMAIN B), \A p \in DOMAIN B : B[p] \in Position /\ B[p].qty > 0,
           NEW r \in DOMAIN B, NEW c, c = B[r].con,
           \A p \in DOMAIN B : B[p].con = c => B[p].long = B[r].long
    PROVE  NetOf(B, c) \in Int /\ B[r].long = (NetOf(B, c) > 0) /\ NetOf(B, c) # 0
<1>1. PICK S, f : S = In(B, c) /\ f = [p \in S |-> Signed(B[p].long, B[p].qty)]
    OBVIOUS
<1>2. PICK T : T = S \ {r}
    OBVIOUS
<1>3. r \in S /\ (\A p \in S : f[p] = Signed(B[p].long, B[p].qty)) /\ T \in SUBSET S
    BY <1>1, <1>2 DEF In
<1>4. IsFiniteSet(S) /\ (\A p \in S : f[p] \in Int) /\ NetOf(B, c) = SumOf(f, S)
    BY <1>1, <1>3, NetIs
<1>5. IsFiniteSet(T) /\ \A p \in T : f[p] \in Int
    BY <1>3, <1>4, FS_Subset
<1>6. NetOf(B, c) = f[r] + SumOf(f, T)
    BY <1>2, <1>3, <1>4, SumWithout
<1>7. PICK long \in BOOLEAN : long = B[r].long
    BY DEF Position
<1>8. \A p \in S : f[p] = Signed(long, B[p].qty) /\ B[p].qty \in Nat /\ B[p].qty > 0
    BY <1>1, <1>3, <1>7 DEF In, Position
<1>9. CASE long
    <2>1. \A p \in S : f[p] > 0
        BY <1>8, <1>9 DEF Signed
    <2>2. SumOf(f, T) \in Int /\ SumOf(f, T) >= 0
        <3>1. \A p \in T : f[p] >= 0
            BY <1>3, <1>5, <2>1
        <3> QED
            BY <1>5, <3>1, SumNonneg
    <2>3. NetOf(B, c) \in Int /\ NetOf(B, c) > 0
        BY <1>3, <1>4, <1>6, <2>1, <2>2
    <2>4. (NetOf(B, c) > 0) = TRUE
        BY <2>3
    <2>5. long = TRUE
        BY <1>9
    <2>6. B[r].long = (NetOf(B, c) > 0)
        BY <1>7, <2>4, <2>5, Zenon
    <2>7. NetOf(B, c) # 0
        BY <2>3
    <2> QED
        BY <2>3, <2>6, <2>7, Zenon
<1>10. CASE ~long
    <2>1. \A p \in S : f[p] < 0
        BY <1>8, <1>10 DEF Signed
    <2>2. SumOf(f, T) \in Int /\ SumOf(f, T) <= 0
        <3>1. \A p \in T : f[p] <= 0
            BY <1>3, <1>5, <2>1
        <3> QED
            BY <1>5, <3>1, SumNonpos
    <2>3. NetOf(B, c) \in Int /\ NetOf(B, c) < 0
        BY <1>3, <1>4, <1>6, <2>1, <2>2
    <2>4. (NetOf(B, c) > 0) = FALSE /\ NetOf(B, c) # 0
        BY <2>3
    <2>5. long = FALSE
        BY <1>10
    <2>6. B[r].long = (NetOf(B, c) > 0)
        BY <1>7, <2>4, <2>5, Zenon
    <2> QED
        BY <2>3, <2>4, <2>6, Zenon
<1> QED
    BY <1>9, <1>10

\* Closed positions count for nothing.
LEMMA NetOfOpen ==
    ASSUME NEW B, IsFiniteSet(DOMAIN B), \A p \in DOMAIN B : B[p] \in Position,
           NEW open, open = Restrict(B, Opened(B)), NEW c
    PROVE  NetOf(open, c) = NetOf(B, c)
<1>1. PICK S, f, T : S = In(B, c) /\ f = [p \in S |-> Signed(B[p].long, B[p].qty)] /\ T = In(open, c)
    OBVIOUS
<1>2. DOMAIN open = Opened(B) /\ \A p \in DOMAIN open : open[p] = B[p]
    BY DEF Restrict
<1>3. \A p : p \in T <=> p \in S /\ B[p].qty > 0
    BY <1>1, <1>2 DEF In, Opened
<1>4. \A p \in S : f[p] = Signed(B[p].long, B[p].qty)
    BY <1>1
<1>5. IsFiniteSet(S) /\ (\A p \in S : f[p] \in Int) /\ NetOf(B, c) = SumOf(f, S)
    BY <1>1, <1>4, NetIs
<1>6. \A p \in T : f[p] = Signed(open[p].long, open[p].qty)
    BY <1>1, <1>2, <1>3, <1>4 DEF In
<1>7. IsFiniteSet(DOMAIN open) /\ \A p \in DOMAIN open : open[p] \in Position
    <2>1. DOMAIN open \subseteq DOMAIN B
        BY <1>2 DEF Opened
    <2> QED
        BY <1>2, <2>1, FS_Subset
<1>8. NetOf(open, c) = SumOf(f, T)
    BY <1>1, <1>6, <1>7, NetIs
<1>9. ASSUME NEW p \in S \ T PROVE f[p] = 0
    <2>1. B[p].qty \in Nat /\ ~(B[p].qty > 0)
        BY <1>1, <1>3, <1>9 DEF In, Position
    <2>2. B[p].qty = 0
        BY <2>1
    <2> QED
        BY <1>4, <1>9, <2>2 DEF Signed
<1>10. T \in SUBSET S
    BY <1>3
<1> QED
    BY <1>5, <1>8, <1>9, <1>10, SumSupport
\* What a process leaves behind that agreed with broker and rows (Agreed).
LEMMA KeptAtDeath ==
    ASSUME AttTypes, RowsInv, NEW k \in Remembered, k.stale = {}
    PROVE  Agrees(k.book)
<1>1. Agreed /\ k = [book |-> OpenBook, stale |-> OpenRows \ Opened(book)]
    BY DEF Remembered
<1>2. PICK B : B = OpenBook
    OBVIOUS
<1>3. k.book = B /\ OpenRows \ Opened(book) = {}
    BY <1>1, <1>2
<1>4. B = Restrict(book, Opened(book)) /\ B = [p \in Opened(book) |-> book[p]]
    BY <1>2 DEF OpenBook, Restrict
<1>5. DOMAIN B = Opened(book) /\ (\A p \in DOMAIN B : B[p] = book[p]) /\ B = [p \in DOMAIN B |-> B[p]]
    BY <1>4
<1>6. DOMAIN B = OpenRows
    BY <1>1, <1>3, <1>5 DEF Agreed
<1>7. ASSUME NEW p \in DOMAIN B
      PROVE  /\ B[p] \in Position /\ B[p].qty > 0 /\ B[p].strat \in conf
             /\ rows[p].strat = B[p].strat /\ rows[p].con = B[p].con
             /\ rows[p].long = B[p].long /\ rows[p].qty = B[p].qty
             /\ \A q \in DOMAIN B : B[p].con = B[q].con => B[p].long = B[q].long
    <2>1. p \in DOMAIN book /\ p \in DOMAIN rows /\ B[p] = book[p]
        BY <1>5, <1>6, <1>7 DEF Opened, OpenRows
    <2>2. B[p] \in Position /\ B[p].qty > 0
        BY <1>5, <1>7, <2>1 DEF Opened, AttTypes
    <2>3. rows[p].strat = B[p].strat /\ rows[p].con = B[p].con
        BY <2>1 DEF RowsInv
    <2>4. /\ rows[p].long = B[p].long /\ rows[p].qty = B[p].qty /\ rows[p].strat \in conf
          /\ \A q \in DOMAIN B : B[p].con = B[q].con => B[p].long = B[q].long
        BY <1>1, <1>5, <1>7 DEF Agreed
    <2> QED
        BY <2>2, <2>3, <2>4
<1>8. ASSUME NEW c \in Contracts PROVE net[c] = NetOf(B, c)
    <2>1. PICK all : all = book
        OBVIOUS
    <2>2. IsFiniteSet(DOMAIN all) /\ \A p \in DOMAIN all : all[p] \in Position
        BY <2>1, FinitelyMany DEF AttTypes
    <2>3. NetOf(B, c) = NetOf(all, c)
        BY <1>4, <2>1, <2>2, NetOfOpen
    <2>4. net[c] = NetOf(book, c)
        BY <1>1 DEF Agreed
    <2> QED
        BY <2>1, <2>3, <2>4
<1> QED
    BY <1>3, <1>5, <1>6, <1>7, <1>8 DEF Agrees

\* What seeding works with as long as broker and rows agree.
LEMMA AgreedBook ==
    ASSUME AttTypes, NEW B, Agrees(B)
    PROVE  /\ IsFiniteSet(DOMAIN B) /\ \A p \in DOMAIN B : B[p] \in Position /\ B[p].qty > 0
           /\ \A p \in DOMAIN B : net[B[p].con] # 0 /\ B[p].long = (net[B[p].con] > 0)
           /\ \A c \in Contracts : net[c] # 0 => \E p \in DOMAIN B : B[p].con = c
<1>1. IsFiniteSet(DOMAIN B) /\ \A p \in DOMAIN B : B[p] \in Position /\ B[p].qty > 0
    <2>1. DOMAIN B \subseteq DOMAIN rows
        BY DEF Agrees, OpenRows
    <2> QED
        BY <2>1, FinitelyMany, FS_Subset DEF Agrees
<1>2. ASSUME NEW p \in DOMAIN B
      PROVE  net[B[p].con] # 0 /\ B[p].long = (net[B[p].con] > 0)
    <2>1. PICK c \in Contracts : c = B[p].con
        BY <1>1 DEF Position
    <2>2. \A q \in DOMAIN B : B[q].con = c => B[q].long = B[p].long
        BY <2>1 DEF Agrees
    <2>3. NetOf(B, c) \in Int /\ B[p].long = (NetOf(B, c) > 0) /\ NetOf(B, c) # 0
        BY <1>1, <2>1, <2>2, NetSide
    <2>4. net[c] = NetOf(B, c)
        BY DEF Agrees
    <2> QED
        BY <2>1, <2>3, <2>4, Zenon
<1>3. ASSUME NEW c \in Contracts, net[c] # 0 PROVE \E p \in DOMAIN B : B[p].con = c
    <2>1. NetOf(B, c) # 0
        BY <1>3 DEF Agrees
    <2> QED
        BY <1>1, <2>1, NetOfNone
<1> QED
    BY <1>1, <1>2, <1>3

\* The whole position of the broker is what the only row says.
LEMMA OnlyRow ==
    ASSUME AttTypes, NEW B, Agrees(B), NEW r \in DOMAIN B, \A p \in DOMAIN B : B[p].con = B[r].con => p = r
    PROVE  Size(net[B[r].con]) = B[r].qty
<1>1. PICK c \in Contracts : c = B[r].con
    BY AgreedBook DEF Position
<1>2. IsFiniteSet(DOMAIN B) /\ \A p \in DOMAIN B : B[p] \in Position
    BY AgreedBook
<1>3. \A p \in DOMAIN B : B[p].con = c <=> p = r
    BY <1>1
<1>4. NetOf(B, c) = Signed(B[r].long, B[r].qty)
    BY <1>2, <1>3, NetOfOne
<1>5. PICK n \in Nat : n = B[r].qty
    BY <1>2 DEF Position
<1>6. net[c] = n \/ net[c] = -n
    BY <1>4, <1>5 DEF Agrees, Signed
<1> QED
    BY <1>1, <1>5, <1>6 DEF Size

\* A position is its four fields.
LEMMA PositionIs ==
    ASSUME NEW pos \in Position, NEW s, s = pos.strat, NEW c, c = pos.con,
           NEW long, long = pos.long, NEW n, n = pos.qty
    PROVE  pos = [strat |-> s, con |-> c, long |-> long, qty |-> n]
BY DEF Position

\* Seeding a contract of such a book makes its positions again (_seed_one_position).
LEMMA SeedsAgain ==
    ASSUME AttTypes, NEW B, Agrees(B), NEW c \in DOMAIN held, held[c] = net[c],
           NEW seeded \in SeededAs(c, Attrs(c))
    PROVE  /\ \A r : r \in DOMAIN seeded <=> r \in DOMAIN B /\ B[r].con = c
           /\ \A r \in DOMAIN seeded : seeded[r] = B[r]
<1>1. c \in Contracts /\ net[c] # 0 /\ net[c] \in Int
    BY DEF AttTypes
<1>2. \A r : r \in Attrs(c) <=> r \in DOMAIN B /\ B[r].con = c
    BY DEF Attrs, Agrees
<1>3. Attrs(c) # {}
    BY <1>1, <1>2, AgreedBook
<1> DEFINE Owned == {r \in Attrs(c) : rows[r].strat \in conf}
           Share(r) == IF Cardinality(Attrs(c)) > 1 THEN rows[r].qty ELSE Size(held[c])
           Mine == [r \in Owned |-> Seeded(rows[r].strat, c, Share(r))]
<1>4. Owned = Attrs(c)
    BY <1>2 DEF Agrees
<1>5. seeded = Mine
    BY <1>3, <1>4 DEF SeededAs
<1>6. ASSUME NEW r \in Attrs(c) PROVE Seeded(rows[r].strat, c, Share(r)) = B[r]
    <2>1. r \in DOMAIN B /\ B[r].con = c /\ B[r] \in Position
        BY <1>2, AgreedBook
    <2>2. rows[r].strat = B[r].strat /\ rows[r].qty = B[r].qty
        BY <2>1 DEF Agrees
    <2>3. Share(r) = B[r].qty
        <3>1. CASE Cardinality(Attrs(c)) > 1
            BY <2>2, <3>1
        <3>2. CASE ~(Cardinality(Attrs(c)) > 1)
            <4>1. IsFiniteSet(Attrs(c))
                <5>1. Attrs(c) \subseteq DOMAIN rows
                    BY DEF Attrs, OpenRows
                <5> QED
                    BY <5>1, FinitelyMany, FS_Subset
            <4>2. Cardinality(Attrs(c)) \in Nat /\ Cardinality(Attrs(c)) # 0
                BY <1>3, <4>1, FS_CardinalityType, FS_EmptySet
            <4>3. Cardinality(Attrs(c)) = 1
                BY <3>2, <4>2
            <4>4. \E a : Attrs(c) = {a}
                BY <4>1, <4>3, FS_Singleton
            <4>5. \A p \in DOMAIN B : B[p].con = B[r].con => p = r
                BY <1>2, <2>1, <4>4
            <4>6. Size(net[B[r].con]) = B[r].qty
                BY <2>1, <4>5, OnlyRow
            <4> QED
                BY <2>1, <3>2, <4>6
        <3> QED
            BY <3>1, <3>2
    <2>4. B[r].long = (net[c] > 0)
        BY <2>1, AgreedBook
    <2>5. PICK long : long = (held[c] > 0)
        OBVIOUS
    <2>6. long = B[r].long
        BY <2>4, <2>5, Zenon
    <2> HIDE DEF Share
    <2>7. Seeded(rows[r].strat, c, Share(r)) = [strat |-> B[r].strat, con |-> c, long |-> long, qty |-> B[r].qty]
        BY <2>2, <2>3, <2>5, Zenon DEF Seeded
    <2>8. B[r] = [strat |-> B[r].strat, con |-> c, long |-> long, qty |-> B[r].qty]
        BY <2>1, <2>6, PositionIs
    <2> QED
        BY <2>7, <2>8
<1>7. DOMAIN seeded = Attrs(c) /\ \A r \in Attrs(c) : seeded[r] = Seeded(rows[r].strat, c, Share(r))
    BY <1>4, <1>5
<1> HIDE DEF Share
<1> QED
    BY <1>2, <1>6, <1>7
\* As long as broker, rows and configuration stay as they are, they agree.
LEMMA AgreesSame ==
    ASSUME NEW B, Agrees(B), UNCHANGED <<net, rows, conf>>
    PROVE  Agrees(B)'
BY DEF Agrees, OpenRows

\* A process that ends leaves what it agreed on, and one that ends while seeding what it found.
LEMMA KeptDeath ==
    ASSUME AttTypes, RowsInv, KeptInv, Crash \/ Stopped
    PROVE  KeptInv'
<1>1. GoDown /\ UNCHANGED <<net, rows, conf>> /\ phase # "down"
    BY DEF Crash, Stopped
<1>2. ASSUME NEW k \in kept', k.stale = {} PROVE Agrees(k.book)'
    <2>1. Agrees(k.book)
        <3>1. CASE phase = "seed"
            BY <1>1, <1>2, <3>1 DEF GoDown, KeptInv
        <3>2. CASE phase # "seed"
            <4>1. k \in Remembered
                BY <1>1, <1>2, <3>2 DEF GoDown
            <4> QED
                BY <1>2, <4>1, KeptAtDeath
        <3> QED
            BY <3>1, <3>2
    <2>2. PICK B : B = k.book
        OBVIOUS
    <2>3. Agrees(B)'
        BY <1>1, <2>1, <2>2, AgreesSame
    <2> QED
        BY <2>2, <2>3
<1>3. phase' = "down"
    BY <1>1, DownIs
<1> QED
    BY <1>2, <1>3 DEF KeptInv

\* A start that fetches the broker's positions has still all of them to seed.
LEMMA KeptRestart ==
    ASSUME AttTypes, KeptInv, Restart
    PROVE  KeptInv'
<1>1. phase = "down" /\ UNCHANGED <<net, rows, book>> /\ DOMAIN book = {}
    BY DEF Restart, memory, AttTypes
<1>2. ASSUME NEW k \in kept', k.stale = {}
      PROVE  Agrees(k.book)' /\ (phase' = "seed" => Restored(k.book)')
    <2>1. k \in kept /\ conf' = conf /\ phase' = "seed"
        BY <1>2 DEF Restart
    <2>2. PICK B : B = k.book
        OBVIOUS
    <2>3. Agrees(B)
        BY <1>1, <1>2, <2>1, <2>2 DEF KeptInv
    <2>4. Agrees(B)'
        BY <1>1, <2>1, <2>3, AgreesSame
    <2>5. PICK nonzero : nonzero = {c \in Contracts : net[c] # 0}
        OBVIOUS
    <2>6. held' = [c \in nonzero |-> net[c]] /\ todo' = nonzero
        BY <2>1, <2>5 DEF Restart
    <2>7. (\A c \in Contracts : c \in DOMAIN held' <=> net'[c] # 0) /\ \A c \in DOMAIN held' : held'[c] = net'[c]
        BY <1>1, <2>5, <2>6
    <2>8. \A p \in DOMAIN B : B[p].con \in todo'
        <3>1. \A p \in DOMAIN B : B[p].con \in Contracts /\ net[B[p].con] # 0
            BY <2>3, AgreedBook DEF Position
        <3> QED
            BY <2>5, <2>6, <3>1
    <2>9. Restored(B)'
        BY <1>1, <2>7, <2>8 DEF Restored
    <2> QED
        BY <2>2, <2>4, <2>9
<1> QED
    BY <1>2 DEF KeptInv

\* Seeding a contract restores what is in it, and writes what the rows say already.
LEMMA KeptSeed ==
    ASSUME AttTypes, KeptInv, NEW c \in todo, SeedContract(c)
    PROVE  KeptInv'
<1>1. /\ phase = "seed" /\ phase' = "seed" /\ UNCHANGED <<net, conf, held>>
      /\ todo' = todo \ {c} /\ c \in DOMAIN held
    BY DEF SeedContract, AttTypes
<1> SUFFICES ASSUME kept' # {} PROVE KeptInv'
    BY DEF KeptInv
<1>2. PICK seeded \in SeededAs(c, Attrs(c)) : kept' = kept /\ Adopted(seeded, DOMAIN seeded)
    BY SeedIs
<1>3. ASSUME NEW k \in kept, k.stale = {} PROVE Agrees(k.book)' /\ Restored(k.book)'
    <2>1. PICK B : B = k.book
        OBVIOUS
    <2>2. Agrees(B) /\ Restored(B)
        BY <1>1, <1>3, <2>1 DEF KeptInv
    <2>3. held[c] = net[c]
        BY <1>1, <2>2 DEF Restored
    <2>4. /\ \A r : r \in DOMAIN seeded <=> r \in DOMAIN B /\ B[r].con = c
          /\ \A r \in DOMAIN seeded : seeded[r] = B[r]
        BY <1>1, <1>2, <2>2, <2>3, SeedsAgain
    <2>5. \A r \in DOMAIN seeded : r \in DOMAIN rows /\ rows[r].status = "open"
        BY <2>2, <2>4 DEF Agrees, OpenRows
    <2>6. DOMAIN rows' = DOMAIN rows
        BY <1>2, <2>5 DEF Adopted, OfItsRow, RowOfSeeded
    <2>7. ASSUME NEW r \in DOMAIN rows
          PROVE  /\ rows'[r].status = "open" <=> rows[r].status = "open"
                 /\ r \in DOMAIN B => /\ rows'[r].strat = B[r].strat /\ rows'[r].con = B[r].con
                                      /\ rows'[r].long = B[r].long /\ rows'[r].qty = B[r].qty
        <3>1. r \in DOMAIN B => /\ rows[r].strat = B[r].strat /\ rows[r].con = B[r].con
                                /\ rows[r].long = B[r].long /\ rows[r].qty = B[r].qty /\ B[r].qty > 0
            BY <2>2 DEF Agrees
        <3>2. CASE r \in DOMAIN seeded
            <4>1. r \in DOMAIN B /\ seeded[r] = B[r] /\ rows[r].status = "open"
                BY <2>4, <2>5, <3>2
            <4>2. /\ rows'[r].strat = B[r].strat /\ rows'[r].qty = B[r].qty /\ rows'[r].status = "open"
                  /\ rows'[r].con = rows[r].con /\ rows'[r].long = rows[r].long
                BY <1>2, <3>1, <3>2, <4>1 DEF Adopted, OfItsRow, RowOfSeeded
            <4> QED
                BY <3>1, <4>1, <4>2
        <3>3. CASE r \notin DOMAIN seeded
            BY <1>2, <3>1, <3>3 DEF Adopted, OfItsRow, RowOfSeeded
        <3> QED
            BY <3>2, <3>3
    <2>8. OpenRows' = OpenRows
        BY <2>6, <2>7 DEF OpenRows
    <2>9. Agrees(B)'
        <3>1. DOMAIN B \subseteq DOMAIN rows
            BY <2>2 DEF Agrees, OpenRows
        <3> QED
            BY <1>1, <2>2, <2>7, <2>8, <3>1 DEF Agrees
    <2>10. Restored(B)'
        <3>1. \A p : p \in DOMAIN book' <=> p \in DOMAIN B /\ B[p].con \notin todo'
            <4>1. \A p : p \in DOMAIN book' <=> p \in DOMAIN book \/ p \in DOMAIN seeded
                BY <1>2 DEF Adopted, OfItsRow, RowOfSeeded
            <4>2. \A p : p \in DOMAIN book <=> p \in DOMAIN B /\ B[p].con \notin todo
                BY <2>2 DEF Restored
            <4> QED
                BY <1>1, <2>4, <4>1, <4>2
        <3>2. \A p \in DOMAIN book' : book'[p] = B[p]
            BY <1>2, <2>2, <2>4 DEF Adopted, OfItsRow, RowOfSeeded, Restored
        <3>3. (\A d \in Contracts : d \in DOMAIN held <=> net[d] # 0) /\ \A d \in DOMAIN held : held[d] = net[d]
            BY <2>2 DEF Restored
        <3> QED
            BY <1>1, <3>1, <3>2, <3>3 DEF Restored
    <2> QED
        BY <2>1, <2>9, <2>10
<1> QED
    BY <1>1, <1>2, <1>3 DEF KeptInv

\* Where no process runs or one is seeding there is little that can happen.
LEMMA Meanwhile ==
    ASSUME AttTypes, [Next]_vars, phase' \in {"down", "seed"}
    PROVE  \/ UNCHANGED <<net, rows, conf, phase, book, held, todo, kept>>
           \/ (\E i \in DOMAIN orders : Execute(i)) \/ Crash \/ Stopped \/ Restart
           \/ \E c \in todo : SeedContract(c)
<1>1. phase \in {"down", "seed"} => DOMAIN writers = {}
    BY DEF AttTypes
<1>2. CASE UNCHANGED vars
    BY <1>2 DEF vars, memory, seeding, unlost, history
<1>3. CASE Next
    BY <1>1, <1>3 DEF Next, SubmitEntry, SubmitExit, Submit, Withdraw, HandleFill,
           ReadPosition, WriteRow, WriteFails, Commission, Stop, Sweep, Begin
<1> QED
    BY <1>2, <1>3

\* Every step keeps it.
LEMMA KeptStep ==
    ASSUME AttTypes, OrdersInv, RowsInv, KeptInv, [Next]_vars
    PROVE  KeptInv'
<1> SUFFICES ASSUME phase' \in {"down", "seed"} PROVE KeptInv'
    BY DEF KeptInv
<1>1. CASE UNCHANGED <<net, rows, conf, phase, book, held, todo, kept>>
    <2>1. \A B : Agrees(B) => Agrees(B)'
        BY <1>1, AgreesSame
    <2>2. \A B : Restored(B) => Restored(B)'
        BY <1>1 DEF Restored
    <2> QED
        BY <1>1, <2>1, <2>2 DEF KeptInv
<1>2. ASSUME NEW i \in DOMAIN orders, Execute(i) PROVE KeptInv'
    <2>1. phase' = phase
        BY <1>2 DEF Execute
    <2>2. ~orders[i].ours
        BY <2>1 DEF OrdersInv
    <2>3. kept' = {}
        BY <1>2, <2>2 DEF Execute
    <2> QED
        BY <2>3 DEF KeptInv
<1>3. CASE Crash \/ Stopped
    BY <1>3, KeptDeath
<1>4. CASE Restart
    BY <1>4, KeptRestart
<1>5. ASSUME NEW c \in todo, SeedContract(c) PROVE KeptInv'
    BY <1>5, KeptSeed
<1> QED
    BY <1>1, <1>2, <1>3, <1>4, <1>5, Meanwhile

\* When the seeding is over everything has been restored.
LEMMA AllRestored ==
    ASSUME AttTypes, TodoInv, KeptInv, [Next]_vars, phase = "seed", phase' = "start", NEW k \in kept, k.stale = {}
    PROVE  OpenBook' = k.book
<1>1. Sweep
    BY DEF Next, vars, memory, SubmitEntry, SubmitExit, Submit, Withdraw, Execute, HandleFill, ReadPosition,
       WriteRow, WriteFails, Commission, Crash, GoDown, Stop, Stopped, Restart, SeedContract, Begin
<1>2. todo = {} /\ book' = book
    BY <1>1 DEF Sweep, memory
<1>3. PICK B : B = k.book
    OBVIOUS
<1>4. Agrees(B) /\ Restored(B)
    BY <1>3 DEF KeptInv
<1>5. \A p : p \in DOMAIN book' <=> p \in DOMAIN B
    BY <1>2, <1>4 DEF Restored
<1>6. \A p \in DOMAIN book' : book'[p] = B[p] /\ B[p].qty > 0
    BY <1>2, <1>4, <1>5 DEF Restored, Agrees
<1>7. Opened(book') = DOMAIN B
    BY <1>5, <1>6 DEF Opened
<1>8. OpenBook' = [p \in DOMAIN B |-> book'[p]]
    BY <1>7 DEF OpenBook, Restrict
<1>9. B = [p \in DOMAIN B |-> B[p]]
    BY <1>4 DEF Agrees
<1> QED
    BY <1>3, <1>5, <1>6, <1>8, <1>9

\* When broker, book and rows agreed at the end of one process, the next starts with the same
\* positions, of the same strategies, also when several hold the same contract and when
\* seeding itself is cut short; unless the database failed while it seeded
\* (_seed_positions_from_broker, find_all_open_attributions).
THEOREM OwnersRestored == Spec => SeedingRestoresOwners
<1> DEFINE Inv == AttTypes /\ OrdersInv /\ RowsInv /\ TodoInv /\ KeptInv
           Restores == phase = "seed" /\ phase' = "start" => \A k \in kept : k.stale = {} => OpenBook' = k.book
<1>1. Init => Inv
    BY TypesInit, OrdersInit, RowsInit, TodoInit, KeptInit
<1>2. Inv /\ [Next]_vars => Inv'
    BY TypesStep, OrdersInvStep, RowsStep, TodoStep, KeptStep
<1>3. Inv /\ [Next]_vars => [Restores]_vars
    BY AllRestored
<1> QED
    BY <1>1, <1>2, <1>3, PTL DEF Spec, SeedingRestoresOwners
=============================================================================
