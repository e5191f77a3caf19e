--------------------------- MODULE EventLogProofs ---------------------------
(***************************************************************************)
(* Theorems about the audit log, for any number of events, any cap on a    *)
(* batch and any number of writes that fail.                               *)
(*                                                                         *)
(* StopFlushes and NoGaps follow from FlowInv: as long as no write fails,  *)
(* the events that are committed, inserted, in the writer's hands and      *)
(* queued are four intervals, one behind the other, and together all that  *)
(* was logged.  LossIsBounded follows from LossInv, which counts the       *)
(* events that are none of the four but the inserted ones.                 *)
(***************************************************************************)
EXTENDS EventLog, SequenceTheorems, FiniteSetTheorems, WellFoundedInduction, TLAPS

\* The events among the items of a queue, and that they come in the order they were logged.
Events(q) == ToSet(q) \ {Sentinel}
Ascending(q) == \A i, j \in DOMAIN q : i < j /\ q[i] # Sentinel /\ q[j] # Sentinel => q[i] < q[j]

\* A queue that holds, in order, the events after the first a.
Holds(q, a) == Ascending(q) /\ Events(q) = (a + 1) .. logged

\* What is known of the writer and of stop, whatever fails.
EndInv ==
    /\ stop = "closed" => writer = "done"
    /\ stop # "no" => ~cancelled
    /\ writer = "commit" => ToSet(batch) \subseteq tx
    /\ writer = "done" => \A e \in Events(queue) : heard < e

\* Committed up to d, inserted up to t, in the writer's hands up to w, and the rest queued.
Flows(d, t, w) ==
    /\ d <= t /\ t <= w /\ w <= logged
    /\ db = 1 .. d /\ tx = (d + 1) .. t
    /\ writer = "execute" => ToSet(batch) = (t + 1) .. w
    /\ writer # "execute" => w = t
    /\ writer = "done" => heard = w
    /\ tx # {} => cancelled \/ writer = "commit"
    /\ Holds(queue, w)

FlowInv == fails = 0 => \E d, t, w \in 0 .. logged : Flows(d, t, w)

\* Events that may be lost: not committed, in hand or queued.
Missing == (1 .. logged) \ (db \cup Events(queue) \cup ToSet(batch))
Incidents == fails + IF cancelled THEN 1 ELSE 0
LossInv == Cardinality(Missing) <= Cap * Incidents

-----------------------------------------------------------------------------
(* Queues *)

Item == 0 .. MaxEvents
Event == 1 .. MaxEvents

\* The least of a set of numbers.
LEMMA Least == ASSUME NEW S \in SUBSET Nat, S # {} PROVE \E x \in S : \A y \in S : x <= y
<1>1. PICK x \in S : \A y \in S : <<y, x>> \notin OpToRel(<, Nat)
    BY WFMin, NatLessThanWellFounded, Zenon
<1>2. \A y \in S : ~(y < x)
    BY <1>1 DEF OpToRel
<1> QED
    BY <1>2

\* Where q goes on after its first n items, and its first n items.
Behind(q, n, rest) ==
    /\ rest \in Seq(Item)
    /\ \A k \in DOMAIN rest : k + n \in DOMAIN q /\ rest[k] = q[k + n]
    /\ \A k \in DOMAIN q : k > n => k - n \in DOMAIN rest /\ rest[k - n] = q[k]
Upto(q, n, first) ==
    /\ first \in Seq(Item) /\ Len(first) = n
    /\ \A k \in 1 .. n : k \in DOMAIN first /\ first[k] = q[k]
    /\ \A k \in DOMAIN first : k \in 1 .. n

\* What SubSeq cuts off.
LEMMA BehindIs ==
    ASSUME NEW q \in Seq(Item), NEW n \in 0 .. Len(q), NEW rest, rest = SubSeq(q, n + 1, Len(q))
    PROVE  Behind(q, n, rest)
<1>1. Len(q) \in Nat /\ DOMAIN q = 1 .. Len(q) /\ \A i \in n + 1 .. Len(q) : q[i] \in Item
    BY LenProperties, ElementOfSeq
<1>2. /\ rest \in Seq(Item) /\ Len(rest) = Len(q) - n
      /\ \A i \in 1 .. Len(q) - n : rest[i] = q[i + n]
    <2>1. n + 1 \in Int /\ Len(q) \in Int
        BY <1>1
    <2>2. /\ rest \in Seq(Item) /\ Len(rest) = IF n + 1 <= Len(q) THEN Len(q) - (n + 1) + 1 ELSE 0
          /\ \A i \in 1 .. Len(q) - (n + 1) + 1 : rest[i] = q[n + 1 + i - 1]
        BY <1>1, <2>1, SubSeqProperties
    <2>3. PICK l \in Nat : l = Len(q)
        BY <1>1
    <2>4. (IF n + 1 <= l THEN l - (n + 1) + 1 ELSE 0) = l - n /\ l - (n + 1) + 1 = l - n
        BY <2>3
    <2>5. \A i \in 1 .. l - n : n + 1 + i - 1 = i + n
        BY <2>3
    <2> QED
        BY <2>2, <2>3, <2>4, <2>5
<1>3. DOMAIN rest = 1 .. Len(q) - n
    BY <1>2, LenProperties
<1>4. PICK l \in Nat : l = Len(q)
    BY <1>1
<1>5. /\ \A k \in 1 .. l - n : k + n \in 1 .. l
      /\ \A k \in 1 .. l : k > n => k - n \in 1 .. l - n /\ (k - n) + n = k
    BY <1>4
<1> QED
    BY <1>1, <1>2, <1>3, <1>4, <1>5 DEF Behind

\* What SubSeq keeps.
LEMMA UptoIs ==
    ASSUME NEW q \in Seq(Item), NEW n \in 0 .. Len(q), NEW first, first = SubSeq(q, 1, n)
    PROVE  Upto(q, n, first)
<1>1. Len(q) \in Nat /\ n \in Int /\ \A i \in 1 .. n : q[i] \in Item
    BY LenProperties, ElementOfSeq
<1>2. /\ first \in Seq(Item) /\ Len(first) = IF 1 <= n THEN n - 1 + 1 ELSE 0
      /\ \A i \in 1 .. n - 1 + 1 : first[i] = q[1 + i - 1]
    BY <1>1, SubSeqProperties
<1>3. DOMAIN first = 1 .. Len(first) /\ Len(first) = n
    BY <1>1, <1>2, LenProperties
<1> QED
    BY <1>1, <1>2, <1>3 DEF Upto

\* The rest of a queue without its first item.
LEMMA TailIs ==
    ASSUME NEW q \in Seq(Item), q # <<>>
    PROVE  Behind(q, 1, Tail(q)) /\ 1 \in DOMAIN q
<1>1. Len(q) \in Nat /\ DOMAIN q = 1 .. Len(q) /\ Len(q) # 0
    BY LenProperties, EmptySeq
<1>2. Tail(q) \in Seq(Item) /\ Len(Tail(q)) = Len(q) - 1
      /\ \A k \in 1 .. Len(Tail(q)) : Tail(q)[k] = q[k + 1]
    BY HeadTailProperties
<1>3. DOMAIN Tail(q) = 1 .. Len(q) - 1
    BY <1>2, LenProperties
<1> QED
    BY <1>1, <1>2, <1>3 DEF Behind

\* A batch goes up to the cap, the end of the queue or the sentinel.
LEMMA BatchSizeIs ==
    ASSUME NEW q \in Seq(Item)
    PROVE  /\ BatchSize(q) \in 0 .. Len(q) /\ BatchSize(q) <= Cap
           /\ \A i \in 1 .. BatchSize(q) : q[i] # Sentinel
           /\ BatchSize(q) = Cap \/ BatchSize(q) = Len(q) \/ q[BatchSize(q) + 1] = Sentinel
<1>1. Len(q) \in Nat /\ Cap \in Nat
    BY LenProperties, LogAssumption
<1> DEFINE S == {k \in Nat : k = Cap \/ k = Len(q) \/ q[k + 1] = Sentinel}
<1>2. PICK n \in S : \A k \in S : n <= k
    <2>1. S \in SUBSET Nat /\ Cap \in S
        BY <1>1
    <2> HIDE DEF S
    <2> QED
        BY <2>1, Least
<1>3. Cap \in S /\ Len(q) \in S
    BY <1>1
<1>4. n \in Nat /\ n <= Cap /\ n <= Len(q)
    BY <1>2, <1>3
<1>5. ASSUME NEW i \in 1 .. n PROVE q[i] # Sentinel
    <2>1. i - 1 \in Nat /\ i - 1 < n /\ (i - 1) + 1 = i
        BY <1>4
    <2>2. i - 1 \notin S
        BY <1>2, <1>4, <2>1
    <2> QED
        BY <2>1, <2>2
<1>6. \E k \in {k \in 0 .. Len(q) : k <= Cap} :
         /\ \A i \in 1 .. k : q[i] # Sentinel
         /\ k = Cap \/ k = Len(q) \/ q[k + 1] = Sentinel
    BY <1>1, <1>2, <1>4, <1>5
<1> QED
    BY <1>6 DEF BatchSize

\* The next event of a queue that holds one.
LEMMA NextEventIs ==
    ASSUME NEW q \in Seq(Item), NEW m \in DOMAIN q, q[m] # Sentinel
    PROVE  /\ NextEvent(q) \in DOMAIN q /\ q[NextEvent(q)] # Sentinel
           /\ \A i \in 1 .. NextEvent(q) - 1 : q[i] = Sentinel
<1>1. Len(q) \in Nat /\ DOMAIN q = 1 .. Len(q)
    BY LenProperties
<1> DEFINE S == {k \in DOMAIN q : q[k] # Sentinel}
<1>2. PICK n \in S : \A k \in S : n <= k
    <2>1. S \in SUBSET Nat /\ m \in S
        BY <1>1
    <2> HIDE DEF S
    <2> QED
        BY <2>1, Least
<1>3. \A i \in 1 .. n - 1 : q[i] = Sentinel
    BY <1>1, <1>2
<1>4. \E k \in DOMAIN q : q[k] # Sentinel /\ \A i \in 1 .. k - 1 : q[i] = Sentinel
    BY <1>2, <1>3
<1> QED
    BY <1>4 DEF NextEvent

-----------------------------------------------------------------------------
(* What the writer takes *)

\* The events of queue q are divided into those of S and those of rest, which are later.
Divided(q, S, rest) ==
    /\ rest \in Seq(Item) /\ S \subseteq Event /\ Events(q) = S \cup Events(rest)
    /\ Ascending(q) =>
          /\ Ascending(rest)
          /\ \E last \in S : (\A e \in S : e <= last) /\ \A e \in Events(rest) : last < e

\* The writer has taken events of q in order, or has found none and is done.
HandedOver(q) ==
    \/ /\ Events(q) = {} /\ queue' = <<>> /\ batch' = <<>>
       /\ writer' = "done" /\ heard' = logged
    \/ /\ batch' \in Seq(Event) /\ batch' # <<>> /\ Len(batch') <= Cap
       /\ Divided(q, ToSet(batch'), queue')
       /\ writer' = "execute" /\ heard' = heard

\* The items of a queue.
LEMMA ItemsIn ==
    ASSUME NEW q \in Seq(Item)
    PROVE  /\ Len(q) \in Nat /\ DOMAIN q = 1 .. Len(q)
           /\ \A i \in DOMAIN q : q[i] \in Item /\ (q[i] # Sentinel => q[i] \in Event)
           /\ \A e : e \in Events(q) <=> \E i \in DOMAIN q : e = q[i] /\ q[i] # Sentinel
<1>1. /\ Len(q) \in Nat /\ DOMAIN q = 1 .. Len(q)
      /\ \A i \in DOMAIN q : q[i] \in Item
    BY LenProperties, ElementOfSeq
<1>2. \A i \in DOMAIN q : q[i] # Sentinel => q[i] \in Event
    BY <1>1, LogAssumption DEF Item, Event, Sentinel
<1> QED
    BY <1>1, <1>2 DEF Events, ToSet

\* The items up to an event m, and those behind the sentinels that follow it.
LEMMA Parted ==
    ASSUME NEW q \in Seq(Item), NEW m \in DOMAIN q, NEW k \in DOMAIN q, m <= k, q[m] # Sentinel,
           \A i \in m + 1 .. k : q[i] = Sentinel,
           NEW rest, Behind(q, k, rest),
           NEW S, \A e : e \in S <=> \E i \in 1 .. m : e = q[i] /\ q[i] # Sentinel
    PROVE  Divided(q, S, rest)
<1>1. /\ Len(q) \in Nat /\ DOMAIN q = 1 .. Len(q)
      /\ \A i \in DOMAIN q : q[i] \in Item /\ (q[i] # Sentinel => q[i] \in Event)
      /\ \A e : e \in Events(q) <=> \E i \in DOMAIN q : e = q[i] /\ q[i] # Sentinel
    BY ItemsIn
<1>2. /\ rest \in Seq(Item)
      /\ \A i \in DOMAIN rest : i + k \in DOMAIN q /\ rest[i] = q[i + k]
      /\ \A i \in DOMAIN q : i > k => i - k \in DOMAIN rest /\ rest[i - k] = q[i]
    BY DEF Behind
<1>3. /\ Len(rest) \in Nat /\ DOMAIN rest = 1 .. Len(rest)
      /\ \A e : e \in Events(rest) <=> \E i \in DOMAIN rest : e = rest[i] /\ rest[i] # Sentinel
    BY <1>2, ItemsIn
<1>4. S \subseteq Event
    BY <1>1
<1>5. \A e : e \in Events(rest) <=> \E i \in DOMAIN q : i > k /\ e = q[i] /\ q[i] # Sentinel
    <2>1. ASSUME NEW e, e \in Events(rest)
          PROVE  \E i \in DOMAIN q : i > k /\ e = q[i] /\ q[i] # Sentinel
        <3>1. PICK i \in DOMAIN rest : e = rest[i] /\ rest[i] # Sentinel
            BY <1>3, <2>1
        <3>2. i + k \in DOMAIN q /\ i + k > k /\ rest[i] = q[i + k]
            BY <1>1, <1>2, <1>3
        <3> QED
            BY <3>1, <3>2
    <2>2. ASSUME NEW e, NEW i \in DOMAIN q, i > k, e = q[i], q[i] # Sentinel
          PROVE  e \in Events(rest)
        BY <1>2, <1>3, <2>2
    <2> QED
        BY <2>1, <2>2
<1>6. \A i \in DOMAIN q : q[i] # Sentinel => i \in 1 .. m \/ i > k
    BY <1>1
<1>7. Events(q) = S \cup Events(rest)
    <2>1. \A e : e \in Events(q) => e \in S \cup Events(rest)
        BY <1>1, <1>5, <1>6
    <2>2. \A i \in 1 .. m : i \in DOMAIN q
        BY <1>1
    <2>3. \A e : e \in S \cup Events(rest) => e \in Events(q)
        BY <1>1, <1>5, <2>2
    <2> QED
        BY <2>1, <2>3
<1>8. ASSUME Ascending(q)
      PROVE  /\ Ascending(rest)
             /\ \E last \in S : (\A e \in S : e <= last) /\ \A e \in Events(rest) : last < e
    <2>1. \A i, j \in DOMAIN q : i < j /\ q[i] # Sentinel /\ q[j] # Sentinel => q[i] < q[j]
        BY <1>8 DEF Ascending
    <2>2. Ascending(rest)
        <3> SUFFICES ASSUME NEW i \in DOMAIN rest, NEW j \in DOMAIN rest, i < j,
                            rest[i] # Sentinel, rest[j] # Sentinel
                     PROVE  rest[i] < rest[j]
            BY DEF Ascending
        <3>1. i + k \in DOMAIN q /\ j + k \in DOMAIN q /\ i + k < j + k
            BY <1>1, <1>2, <1>3
        <3> QED
            BY <1>2, <2>1, <3>1
    <2>3. q[m] \in S
        BY <1>1
    <2>4. \A e \in S : e <= q[m]
        <3> SUFFICES ASSUME NEW i \in 1 .. m, q[i] # Sentinel PROVE q[i] <= q[m]
            OBVIOUS
        <3>1. i \in DOMAIN q /\ q[i] \in Event /\ q[m] \in Event /\ (i = m \/ i < m)
            BY <1>1
        <3> QED
            BY <2>1, <3>1 DEF Event
    <2>5. \A e \in Events(rest) : q[m] < e
        BY <1>1, <1>5, <2>1
    <2> QED
        BY <2>2, <2>3, <2>4, <2>5
<1> QED
    BY <1>2, <1>4, <1>7, <1>8 DEF Divided

\* Draining takes the next event, or ends.
LEMMA DrainIs ==
    ASSUME NEW q \in Seq(Item), DrainFrom(q)
    PROVE  HandedOver(q)
<1>1. /\ Len(q) \in Nat /\ DOMAIN q = 1 .. Len(q)
      /\ \A i \in DOMAIN q : q[i] \in Item /\ (q[i] # Sentinel => q[i] \in Event)
      /\ \A e : e \in Events(q) <=> \E i \in DOMAIN q : e = q[i] /\ q[i] # Sentinel
    BY ItemsIn
<1>2. CASE \A i \in DOMAIN q : q[i] = Sentinel
    <2>1. Events(q) = {}
        BY <1>1, <1>2
    <2> QED
        BY <1>2, <2>1 DEF DrainFrom, HandedOver, Finished
<1>3. CASE ~ \A i \in DOMAIN q : q[i] = Sentinel
    <2>1. PICK n : n = NextEvent(q)
        OBVIOUS
    <2>2. n \in DOMAIN q /\ q[n] # Sentinel /\ \A i \in 1 .. n - 1 : q[i] = Sentinel
        BY <1>3, <2>1, NextEventIs
    <2>3. /\ queue' = SubSeq(q, n + 1, Len(q)) /\ batch' = <<q[n]>>
          /\ writer' = "execute" /\ heard' = heard
        BY <1>3, <2>1 DEF DrainFrom, Writing
    <2>4. Behind(q, n, queue')
        <3>1. n \in 0 .. Len(q)
            BY <1>1, <2>2
        <3> QED
            BY <2>3, <3>1, BehindIs
    <2>5. q[n] \in Event
        BY <1>1, <2>2
    <2>6. batch' \in Seq(Event) /\ batch' # <<>> /\ Len(batch') = 1 /\ ToSet(batch') = {q[n]}
        BY <2>3, <2>5 DEF ToSet
    <2>7. \A e : e \in {q[n]} <=> \E i \in 1 .. n : e = q[i] /\ q[i] # Sentinel
        BY <1>1, <2>2
    <2>8. Divided(q, {q[n]}, queue')
        BY <1>1, <2>2, <2>4, <2>7, Parted
    <2>9. 1 <= Cap
        BY LogAssumption
    <2> QED
        BY <2>3, <2>6, <2>8, <2>9 DEF HandedOver
<1> QED
    BY <1>2, <1>3

\* get() and the get_nowait() loop take a batch, or go on to drain.
LEMMA TakeIs ==
    ASSUME NEW q \in Seq(Item), q # <<>>, Take(q)
    PROVE  HandedOver(q) /\ ending' \in BOOLEAN
<1>1. /\ Len(q) \in Nat /\ DOMAIN q = 1 .. Len(q)
      /\ \A i \in DOMAIN q : q[i] \in Item /\ (q[i] # Sentinel => q[i] \in Event)
      /\ \A e : e \in Events(q) <=> \E i \in DOMAIN q : e = q[i] /\ q[i] # Sentinel
    BY ItemsIn
<1>2. PICK n : n = BatchSize(q)
    OBVIOUS
<1>3. /\ n \in 0 .. Len(q) /\ n <= Cap /\ \A i \in 1 .. n : q[i] # Sentinel
      /\ n = Cap \/ n = Len(q) \/ q[n + 1] = Sentinel
    BY <1>2, BatchSizeIs
<1>4. CASE n = 0
    <2>1. Behind(q, 1, Tail(q)) /\ 1 \in DOMAIN q /\ Tail(q) \in Seq(Item)
        BY TailIs DEF Behind
    <2>2. q[1] = Sentinel
        BY <1>1, <1>3, <1>4, <2>1, LogAssumption
    <2>3. DrainFrom(Tail(q)) /\ ending' = TRUE
        BY <1>2, <1>4 DEF Take
    <2>4. HandedOver(Tail(q))
        BY <2>1, <2>3, DrainIs
    <2>5. Events(q) = Events(Tail(q)) /\ (Ascending(q) => Ascending(Tail(q)))
        <3>1. PICK r \in Seq(Item) : r = Tail(q)
            BY <2>1
        <3>2. /\ \A k \in DOMAIN r : k + 1 \in DOMAIN q /\ r[k] = q[k + 1]
              /\ \A k \in DOMAIN q : k > 1 => k - 1 \in DOMAIN r /\ r[k - 1] = q[k]
            BY <2>1, <3>1 DEF Behind
        <3>3. /\ Len(r) \in Nat /\ DOMAIN r = 1 .. Len(r)
              /\ \A e : e \in Events(r) <=> \E i \in DOMAIN r : e = r[i] /\ r[i] # Sentinel
            BY ItemsIn
        <3>4. ASSUME NEW e, e \in Events(q) PROVE e \in Events(r)
            <4>1. PICK i \in DOMAIN q : e = q[i] /\ q[i] # Sentinel
                BY <1>1, <3>4
            <4>2. i > 1
                BY <1>1, <2>2, <4>1
            <4> QED
                BY <3>2, <3>3, <4>1, <4>2
        <3>5. ASSUME NEW e, e \in Events(r) PROVE e \in Events(q)
            <4>1. PICK i \in DOMAIN r : e = r[i] /\ r[i] # Sentinel
                BY <3>3, <3>5
            <4> QED
                BY <1>1, <3>2, <4>1
        <3>6. ASSUME Ascending(q) PROVE Ascending(r)
            <4> SUFFICES ASSUME NEW i \in DOMAIN r, NEW j \in DOMAIN r, i < j,
                                r[i] # Sentinel, r[j] # Sentinel
                         PROVE  r[i] < r[j]
                BY DEF Ascending
            <4>1. i + 1 \in DOMAIN q /\ j + 1 \in DOMAIN q /\ i + 1 < j + 1
                BY <3>2, <3>3
            <4> QED
                BY <3>2, <3>6, <4>1 DEF Ascending
        <3> QED
            BY <3>1, <3>4, <3>5, <3>6
    <2> QED
        BY <2>3, <2>4, <2>5 DEF HandedOver, Divided
<1>5. CASE n # 0
    <2>1. n \in 1 .. Len(q) /\ n \in DOMAIN q /\ n \in Nat
        <3>1. PICK l \in Nat : l = Len(q) /\ DOMAIN q = 1 .. l
            BY <1>1
        <3>2. n \in 0 .. l
            BY <1>3, <3>1
        <3>3. n \in 1 .. l /\ n \in Nat
            BY <1>5, <3>2
        <3> QED
            BY <3>1, <3>3
    <2>2. PICK k \in DOMAIN q :
              /\ k = n \/ (k = n + 1 /\ q[k] = Sentinel)
              /\ queue' = SubSeq(q, k + 1, Len(q))
        <3>1. CASE n < Len(q) /\ n < Cap
            <4>1. n + 1 \in DOMAIN q /\ q[n + 1] = Sentinel
                BY <1>1, <1>3, <2>1, <3>1, LogAssumption
            <4>2. queue' = SubSeq(q, n + 2, Len(q)) /\ n + 2 = (n + 1) + 1
                BY <1>2, <1>5, <2>1, <3>1 DEF Take
            <4> QED
                BY <4>1, <4>2
        <3>2. CASE ~(n < Len(q) /\ n < Cap)
            BY <1>2, <1>5, <2>1, <3>2 DEF Take
        <3> QED
            BY <3>1, <3>2
    <2>3. batch' = SubSeq(q, 1, n) /\ writer' = "execute" /\ heard' = heard /\ ending' \in BOOLEAN
        BY <1>2, <1>5 DEF Take, Writing
    <2>4. Behind(q, k, queue')
        <3>1. k \in 0 .. Len(q)
            BY <1>1
        <3> QED
            BY <2>2, <3>1, BehindIs
    <2>5. Upto(q, n, batch')
        BY <1>3, <2>3, UptoIs
    <2>6. PICK b \in Seq(Item) : b = batch'
        BY <2>5 DEF Upto
    <2>7. /\ Len(b) = n /\ DOMAIN b = 1 .. n
          /\ \A i \in 1 .. n : b[i] = q[i] /\ b[i] \in Event
        BY <1>1, <1>3, <2>1, <2>5, <2>6, LenProperties DEF Upto
    <2>8. b \in Seq(Event) /\ b # <<>>
        <3>1. b \in [1 .. n -> Event]
            BY <2>6, <2>7, LenProperties
        <3>2. b \in Seq(Event)
            BY <2>1, <3>1, SeqDef
        <3> QED
            BY <2>1, <2>7, <3>2, EmptySeq
    <2>9. \A e : e \in ToSet(b) <=> \E i \in 1 .. n : e = q[i] /\ q[i] # Sentinel
        BY <1>3, <2>7 DEF ToSet
    <2>10. n <= k /\ \A i \in n + 1 .. k : q[i] = Sentinel
        BY <1>1, <2>1, <2>2
    <2>11. Divided(q, ToSet(b), queue')
        <3>1. q[n] # Sentinel
            BY <1>3, <2>1
        <3> QED
            BY <2>1, <2>4, <2>9, <2>10, <3>1, Parted
    <2> QED
        BY <1>3, <2>3, <2>6, <2>7, <2>8, <2>11 DEF HandedOver
<1> QED
    BY <1>4, <1>5, <1>3

-----------------------------------------------------------------------------
(* Types *)

\* After a write, or cancelled: the writer takes what comes next or waits for it.
Resumed == writer' = "get" /\ batch' = <<>> /\ queue' = queue /\ heard' = heard
Moved == HandedOver(queue) \/ Resumed

\* Every step that moves the writer on leaves it so.
LEMMA MovedIs ==
    ASSUME TypeOK, Get \/ Commit \/ WriteFails \/ Cancel
    PROVE  /\ Moved /\ logged' = logged /\ ending' \in BOOLEAN
           /\ Get \/ Cancel => HandedOver(queue)
<1>1. queue \in Seq(Item) /\ ending \in BOOLEAN
    BY DEF TypeOK, Item
<1>2. Onward => Moved
    BY <1>1, DrainIs DEF Onward, Moved, Resumed
<1>3. CASE Get
    BY <1>1, <1>3, TakeIs DEF Get, Moved
<1>4. CASE Commit \/ WriteFails
    <2>1. Moved /\ logged' = logged /\ ending' \in BOOLEAN
        BY <1>1, <1>2, <1>4 DEF Commit, WriteFails
    <2>2. writer \in {"execute", "commit"}
        BY <1>4 DEF Commit, WriteFails
    <2>3. Cancel => HandedOver(queue)
        BY <1>1, DrainIs DEF Cancel
    <2> QED
        BY <2>1, <2>2, <2>3 DEF Get
<1>5. CASE Cancel
    BY <1>1, <1>3, <1>5, DrainIs DEF Cancel, Moved
<1> QED
    BY <1>3, <1>4, <1>5

\* And keeps the types of what it touches.
LEMMA MovedTypes ==
    ASSUME TypeOK, Moved
    PROVE  /\ queue' \in Seq(Item) /\ batch' \in Seq(Event) /\ Len(batch') <= Cap
           /\ writer' \in Awaits /\ (writer' \in {"execute", "commit"} <=> batch' # <<>>)
           /\ heard' \in 0 .. logged
<1>1. /\ <<>> \in Seq(Item) /\ <<>> \in Seq(Event) /\ Len(<<>>) = 0 /\ 0 <= Cap
      /\ logged \in Nat /\ heard \in 0 .. logged /\ queue \in Seq(Item)
    BY EmptySeq, LogAssumption DEF TypeOK, Item
<1>2. CASE HandedOver(queue)
    <2>1. CASE writer' = "done"
        BY <1>1, <1>2, <2>1 DEF HandedOver, Awaits
    <2>2. CASE writer' # "done"
        BY <1>1, <1>2, <2>2 DEF HandedOver, Divided, Awaits
    <2> QED
        BY <2>1, <2>2
<1>3. CASE Resumed
    BY <1>1, <1>3 DEF Resumed, Awaits
<1> QED
    BY <1>2, <1>3 DEF Moved

\* It starts with values of the types.
LEMMA TypesInit == Init => TypeOK
<1> SUFFICES ASSUME Init PROVE TypeOK
    OBVIOUS
<1>1. queue \in Seq(0 .. MaxEvents) /\ batch \in Seq(1 .. MaxEvents) /\ Len(batch) <= Cap
    BY EmptySeq, LogAssumption DEF Init
<1>2. logged \in 0 .. MaxEvents /\ heard \in 0 .. logged /\ fails \in 0 .. MaxFails
    BY LogAssumption DEF Init
<1> QED
    BY <1>1, <1>2 DEF Init, TypeOK, Awaits

\* Every step keeps the types.
LEMMA TypesStep == TypeOK /\ [Next]_vars => TypeOK'
<1> SUFFICES ASSUME TypeOK, [Next]_vars PROVE TypeOK'
    OBVIOUS
<1>1. /\ MaxEvents \in Nat /\ MaxFails \in Nat /\ logged \in Nat /\ fails \in Nat
      /\ ToSet(batch) \subseteq Event
    <2>1. batch \in Seq(Event)
        BY DEF TypeOK, Event
    <2>2. ToSet(batch) \subseteq Event
        BY <2>1, LenProperties, ElementOfSeq DEF ToSet
    <2> QED
        BY <2>2, LogAssumption DEF TypeOK
<1>2. CASE Log
    <2>1. logged' \in 0 .. MaxEvents /\ heard \in 0 .. logged'
        BY <1>1, <1>2 DEF Log, TypeOK
    <2>2. queue' \in Seq(0 .. MaxEvents)
        BY <1>2, <2>1, AppendProperties DEF Log, TypeOK
    <2> QED
        BY <1>2, <2>1, <2>2 DEF Log, TypeOK
<1>3. CASE Start
    BY <1>3 DEF Start, TypeOK, Awaits
<1>4. CASE Execute
    <2>1. tx' \subseteq 1 .. MaxEvents
        BY <1>1, <1>4 DEF Execute, TypeOK, Event
    <2> QED
        BY <1>4, <2>1 DEF Execute, TypeOK, Awaits
<1>5. CASE Stop
    <2>1. 0 \in 0 .. MaxEvents
        BY <1>1
    <2>2. queue' \in Seq(0 .. MaxEvents)
        BY <1>5, <2>1, AppendProperties DEF Stop, Sentinel, TypeOK
    <2> QED
        BY <1>5, <2>2 DEF Stop, TypeOK
<1>6. CASE Close
    BY <1>6 DEF Close, TypeOK
<1>7. CASE Get \/ Commit \/ WriteFails \/ Cancel
    <2>1. Moved /\ logged' = logged /\ ending' \in BOOLEAN
        BY <1>7, MovedIs
    <2>2. /\ queue' \in Seq(Item) /\ batch' \in Seq(Event) /\ Len(batch') <= Cap
          /\ writer' \in Awaits /\ (writer' \in {"execute", "commit"} <=> batch' # <<>>)
          /\ heard' \in 0 .. logged
        BY <2>1, MovedTypes
    <2>3. tx' \subseteq Event /\ db' \subseteq Event
        <3>1. tx \subseteq Event /\ db \subseteq Event
            BY DEF TypeOK, Event
        <3> QED
            BY <1>1, <1>7, <3>1 DEF Get, Commit, Committed, WriteFails, Cancel
    <2>4. fails' \in 0 .. MaxFails
        <3>1. fails' = fails \/ (fails < MaxFails /\ fails' = fails + 1)
            BY <1>7 DEF Get, Commit, WriteFails, Cancel
        <3>2. fails \in 0 .. MaxFails
            BY DEF TypeOK
        <3> QED
            BY <1>1, <3>1, <3>2
    <2>5. stop' \in {"no", "awaits", "closed"}
        BY <1>7 DEF Get, Commit, WriteFails, Cancel, TypeOK
    <2>6. cancelled' \in BOOLEAN
        BY <1>7 DEF Get, Commit, WriteFails, Cancel, TypeOK
    <2> QED
        BY <2>1, <2>2, <2>3, <2>4, <2>5, <2>6 DEF TypeOK, Item, Event
<1>8. CASE UNCHANGED vars
    BY <1>8 DEF vars, TypeOK
<1> QED
    BY <1>2, <1>3, <1>4, <1>5, <1>6, <1>7, <1>8 DEF Next, Write

-----------------------------------------------------------------------------
(* The writer and stop *)

\* An item added to a queue is its last event, or the sentinel.
LEMMA Appended ==
    ASSUME NEW q \in Seq(Item), NEW x \in Item, NEW r, r = Append(q, x)
    PROVE  /\ \A e : e \in Events(r) <=> e \in Events(q) \/ (e = x /\ x # Sentinel)
           /\ Ascending(q) /\ (x = Sentinel \/ \A e \in Events(q) : e < x) => Ascending(r)
<1>1. /\ Len(q) \in Nat /\ DOMAIN q = 1 .. Len(q)
      /\ \A e : e \in Events(q) <=> \E i \in DOMAIN q : e = q[i] /\ q[i] # Sentinel
    BY ItemsIn
<1>2. PICK l \in Nat : l = Len(q)
    BY <1>1
<1>3. /\ r \in Seq(Item) /\ Len(r) = l + 1 /\ r[l + 1] = x
      /\ \A i \in 1 .. l : r[i] = q[i]
    BY <1>2, AppendProperties
<1>4. /\ DOMAIN r = 1 .. l + 1 /\ DOMAIN q = 1 .. l
      /\ \A e : e \in Events(r) <=> \E i \in DOMAIN r : e = r[i] /\ r[i] # Sentinel
    BY <1>1, <1>2, <1>3, ItemsIn
<1>5. \A e : e \in Events(r) <=> e \in Events(q) \/ (e = x /\ x # Sentinel)
    <2>1. \A i : i \in 1 .. l + 1 <=> i \in 1 .. l \/ i = l + 1
        OBVIOUS
    <2> QED
        BY <1>1, <1>3, <1>4, <2>1
<1>6. ASSUME Ascending(q), x = Sentinel \/ \A e \in Events(q) : e < x PROVE Ascending(r)
    <2> SUFFICES ASSUME NEW i \in 1 .. l + 1, NEW j \in 1 .. l + 1, i < j,
                        r[i] # Sentinel, r[j] # Sentinel
                 PROVE  r[i] < r[j]
        BY <1>4 DEF Ascending
    <2>1. i \in 1 .. l /\ r[i] = q[i] /\ q[i] \in Events(q)
        BY <1>1, <1>3, <1>4
    <2>2. CASE j = l + 1
        <3>1. r[j] = x
            BY <1>3, <2>2
        <3>2. \A e \in Events(q) : e < x
            BY <1>6, <3>1
        <3>3. q[i] < x
            BY <2>1, <3>2, Zenon
        <3> QED
            BY <2>1, <3>1, <3>3
    <2>3. CASE j \in 1 .. l
        BY <1>3, <1>4, <1>6, <2>1, <2>3 DEF Ascending
    <2>4. j = l + 1 \/ j \in 1 .. l
        OBVIOUS
    <2> QED
        BY <2>2, <2>3, <2>4, Zenon
<1> QED
    BY <1>5, <1>6

\* Every step keeps what is known of the writer and of stop.
LEMMA EndStep == TypeOK /\ EndInv /\ [Next]_vars => EndInv'
<1> SUFFICES ASSUME TypeOK, EndInv, [Next]_vars PROVE EndInv'
    OBVIOUS
<1>1. /\ queue \in Seq(Item) /\ MaxEvents \in Nat /\ logged \in 0 .. MaxEvents /\ heard \in 0 .. logged
    BY LogAssumption DEF TypeOK, Item
<1>2. CASE Log
    <2>1. logged + 1 \in Item /\ logged + 1 # Sentinel /\ heard < logged + 1
        BY <1>1, <1>2 DEF Log, Item, Sentinel
    <2>2. \A e \in Events(queue') : e \in Events(queue) \/ e = logged + 1
        <3>1. queue' = Append(queue, logged + 1)
            BY <1>2 DEF Log
        <3>2. PICK x \in Item : x = logged + 1
            BY <2>1
        <3>3. queue' = Append(queue, x)
            BY <3>1, <3>2
        <3>4. \A e : e \in Events(queue') <=> e \in Events(queue) \/ (e = x /\ x # Sentinel)
            BY <1>1, <3>3, Appended
        <3> QED
            BY <3>2, <3>4
    <2> QED
        BY <1>2, <2>1, <2>2 DEF Log, EndInv
<1>3. CASE Stop
    <2>1. 0 \in Item
        BY <1>1 DEF Item
    <2>2. \A e \in Events(queue') : e \in Events(queue)
        BY <1>1, <1>3, <2>1, Appended DEF Stop, Sentinel
    <2> QED
        BY <1>3, <2>2 DEF Stop, EndInv
<1>4. CASE Start \/ Execute \/ Close
    BY <1>4 DEF Start, Execute, Close, EndInv
<1>5. CASE Get \/ Commit \/ WriteFails \/ Cancel
    <2>1. Moved /\ writer # "done"
        BY <1>5, MovedIs DEF Get, Commit, WriteFails, Cancel
    <2>2. /\ writer' \in {"get", "execute", "done"}
          /\ writer' = "done" => queue' = <<>>
        BY <2>1 DEF Moved, HandedOver, Resumed
    <2>3. Events(<<>>) = {}
        BY DEF Events, ToSet
    <2>4. stop' = stop /\ (cancelled' = cancelled \/ stop = "no")
        BY <1>5 DEF Get, Commit, WriteFails, Cancel
    <2> QED
        BY <2>1, <2>2, <2>3, <2>4 DEF EndInv
<1>6. CASE UNCHANGED vars
    BY <1>6 DEF vars, EndInv
<1> QED
    BY <1>2, <1>3, <1>4, <1>5, <1>6 DEF Next, Write

-----------------------------------------------------------------------------
(* The flow of events *)

\* Intervals one behind the other.
LEMMA Joined ==
    ASSUME NEW a \in Nat, NEW b \in Nat, NEW c \in Nat, a <= b, b <= c
    PROVE  ((a + 1) .. b) \cup ((b + 1) .. c) = (a + 1) .. c
OBVIOUS

\* An interval divided into earlier and later events.
LEMMA Split ==
    ASSUME NEW a \in Nat, NEW b \in Nat, NEW S, NEW T, S \cup T = (a + 1) .. b,
           NEW m \in S, \A e \in S : e <= m, \A e \in T : m < e
    PROVE  m \in (a + 1) .. b /\ S = (a + 1) .. m /\ T = (m + 1) .. b
<1>1. m \in (a + 1) .. b
    OBVIOUS
<1>2. \A e : e \in S => e \in (a + 1) .. m
    <2> SUFFICES ASSUME NEW e \in S PROVE e \in (a + 1) .. m
        OBVIOUS
    <2>1. e \in (a + 1) .. b /\ e <= m
        OBVIOUS
    <2> QED
        BY <1>1, <2>1
<1>3. \A e : e \in T => e \in (m + 1) .. b
    <2> SUFFICES ASSUME NEW e \in T PROVE e \in (m + 1) .. b
        OBVIOUS
    <2>1. e \in (a + 1) .. b /\ m < e
        OBVIOUS
    <2> QED
        BY <1>1, <2>1
<1>4. \A e \in (a + 1) .. m : e \in (a + 1) .. b /\ e \notin T
    BY <1>1, <1>3
<1>5. \A e \in (m + 1) .. b : e \in (a + 1) .. b /\ e \notin S
    BY <1>1, <1>2
<1>6. \A e \in (a + 1) .. b : e \in S \/ e \in T
    OBVIOUS
<1>7. S = (a + 1) .. m
    BY <1>2, <1>4, <1>6
<1>8. T = (m + 1) .. b
    BY <1>3, <1>5, <1>6
<1> QED
    BY <1>1, <1>7, <1>8

\* What the writer takes from a queue in order is the next interval.
LEMMA HandedFlow ==
    ASSUME logged \in Nat, HandedOver(queue), logged' = logged, NEW a \in 0 .. logged, Holds(queue, a)
    PROVE  \E w \in a .. logged :
              /\ Holds(queue, w)'
              /\ \/ writer' = "execute" /\ ToSet(batch') = (a + 1) .. w
                 \/ writer' = "done" /\ heard' = w /\ w = a
<1>1. CASE writer' = "done"
    <2>1. Events(queue) = {} /\ queue' = <<>> /\ heard' = logged
        BY <1>1 DEF HandedOver
    <2>2. a = logged
        BY <2>1 DEF Holds
    <2>3. Ascending(queue') /\ Events(queue') = {}
        BY <2>1 DEF Ascending, Events, ToSet
    <2>4. Holds(queue, a)'
        BY <2>2, <2>3 DEF Holds
    <2> QED
        BY <1>1, <2>1, <2>2, <2>4
<1>2. CASE writer' # "done"
    <2>1. writer' = "execute" /\ Divided(queue, ToSet(batch'), queue')
        BY <1>2 DEF HandedOver
    <2>2. PICK w \in ToSet(batch') : /\ \A e \in ToSet(batch') : e <= w
                                    /\ \A e \in Events(queue') : w < e
        BY <2>1 DEF Divided, Holds
    <2>3. Ascending(queue') /\ ToSet(batch') \cup Events(queue') = (a + 1) .. logged
        BY <2>1 DEF Divided, Holds
    <2>4. /\ w \in (a + 1) .. logged /\ ToSet(batch') = (a + 1) .. w
          /\ Events(queue') = (w + 1) .. logged
        <3>1. PICK b \in Nat : b = logged
            OBVIOUS
        <3>2. a \in Nat
            BY <3>1
        <3>3. PICK S, T : S = ToSet(batch') /\ T = Events(queue')
            OBVIOUS
        <3>4. /\ S \cup T = (a + 1) .. b /\ w \in S
              /\ \A e \in S : e <= w
              /\ \A e \in T : w < e
            BY <2>2, <2>3, <3>1, <3>3
        <3>5. w \in (a + 1) .. b /\ S = (a + 1) .. w /\ T = (w + 1) .. b
            BY <3>2, <3>4, Split
        <3> QED
            BY <3>1, <3>3, <3>5
    <2>5. w \in a .. logged
        BY <2>4
    <2>6. Holds(queue, w)'
        BY <2>3, <2>4 DEF Holds
    <2> QED
        BY <2>1, <2>4, <2>5, <2>6
<1> QED
    BY <1>1, <1>2

\* However the writer moves on, the intervals stay one behind the other.
LEMMA MovedFlow ==
    ASSUME TypeOK, Moved, logged' = logged, NEW d \in 0 .. logged, NEW t \in 0 .. logged, d <= t,
           Holds(queue, t), db' = 1 .. d, tx' = (d + 1) .. t, tx' # {} => cancelled'
    PROVE  \E w \in 0 .. logged : Flows(d, t, w)'
<1>1. logged \in Nat
    BY LogAssumption DEF TypeOK
<1>2. CASE HandedOver(queue)
    <2>1. PICK w \in t .. logged :
              /\ Holds(queue, w)'
              /\ \/ writer' = "execute" /\ ToSet(batch') = (t + 1) .. w
                 \/ writer' = "done" /\ heard' = w /\ w = t
        BY <1>1, <1>2, HandedFlow
    <2>2. w \in 0 .. logged /\ t <= w /\ w <= logged
        BY <1>1
    <2>3. Flows(d, t, w)'
        BY <2>1, <2>2 DEF Flows
    <2> QED
        BY <2>2, <2>3
<1>3. CASE Resumed
    <2>1. Flows(d, t, t)'
        BY <1>1, <1>3 DEF Resumed, Flows, Holds
    <2> QED
        BY <2>1
<1> QED
    BY <1>2, <1>3 DEF Moved

\* Every step keeps the flow, as long as no write fails.
LEMMA FlowStep == TypeOK /\ EndInv /\ FlowInv /\ [Next]_vars => FlowInv'
<1> SUFFICES ASSUME TypeOK, EndInv, FlowInv, [Next]_vars, fails' = 0
             PROVE  \E d, t, w \in 0 .. logged' : Flows(d, t, w)'
    BY DEF FlowInv
<1>1. /\ logged \in Nat /\ fails \in Nat /\ MaxEvents \in Nat /\ logged <= MaxEvents
      /\ queue \in Seq(Item)
    BY LogAssumption DEF TypeOK, Item
<1>2. fails = 0 /\ ~WriteFails
    <2>1. ~WriteFails
        BY <1>1 DEF WriteFails
    <2>2. fails' = fails
        BY <2>1 DEF Next, Write, Log, Start, Get, Execute, Commit, Stop, Close, Cancel, vars
    <2> QED
        BY <2>1, <2>2
<1>3. PICK d \in 0 .. logged, t \in 0 .. logged, w \in 0 .. logged : Flows(d, t, w)
    BY <1>2 DEF FlowInv
<1>4. /\ d \in Nat /\ t \in Nat /\ w \in Nat /\ d <= t /\ t <= w /\ w <= logged
      /\ db = 1 .. d /\ tx = (d + 1) .. t
      /\ writer = "execute" => ToSet(batch) = (t + 1) .. w
      /\ writer # "execute" => w = t
      /\ writer = "done" => heard = w
      /\ tx # {} => cancelled \/ writer = "commit"
      /\ Ascending(queue) /\ Events(queue) = (w + 1) .. logged /\ Holds(queue, w)
    BY <1>1, <1>3 DEF Flows, Holds
<1>5. CASE Log
    <2>1. logged' = logged + 1 /\ queue' = Append(queue, logged + 1) /\ logged < MaxEvents
        BY <1>5 DEF Log
    <2>2. logged + 1 \in Item /\ logged + 1 # Sentinel /\ \A e \in Events(queue) : e < logged + 1
        BY <1>1, <1>4, <2>1 DEF Item, Sentinel
    <2>3. /\ \A e : e \in Events(queue') <=> e \in Events(queue) \/ e = logged + 1
          /\ Ascending(queue')
        <3>1. PICK x \in Item : x = logged + 1
            BY <2>2
        <3>2. queue' = Append(queue, x) /\ x # Sentinel /\ \A e \in Events(queue) : e < x
            BY <2>1, <2>2, <3>1
        <3>3. /\ \A e : e \in Events(queue') <=> e \in Events(queue) \/ (e = x /\ x # Sentinel)
              /\ Ascending(queue')
            BY <1>1, <1>4, <3>2, Appended
        <3> QED
            BY <3>1, <3>2, <3>3
    <2>4. Events(queue') = (w + 1) .. logged + 1
        <3>1. \A e : e \in (w + 1) .. logged + 1 <=> e \in (w + 1) .. logged \/ e = logged + 1
            BY <1>1, <1>4
        <3> QED
            BY <1>4, <2>3, <3>1
    <2>5. Flows(d, t, w)'
        BY <1>1, <1>4, <1>5, <2>1, <2>3, <2>4 DEF Log, Flows, Holds
    <2>6. d \in 0 .. logged' /\ t \in 0 .. logged' /\ w \in 0 .. logged'
        BY <1>1, <1>4, <2>1
    <2> QED
        BY <2>5, <2>6
<1>6. CASE Stop
    <2>1. logged' = logged /\ queue' = Append(queue, 0)
        BY <1>6 DEF Stop, Sentinel
    <2>2. 0 \in Item
        BY <1>1 DEF Item
    <2>3. /\ \A e : e \in Events(queue') <=> e \in Events(queue)
          /\ Ascending(queue')
        BY <1>1, <1>4, <2>1, <2>2, Appended DEF Sentinel
    <2>4. Holds(queue, w)'
        BY <1>4, <2>1, <2>3 DEF Holds
    <2>5. Flows(d, t, w)'
        BY <1>4, <1>6, <2>1, <2>4 DEF Stop, Flows
    <2> QED
        BY <1>3, <2>1, <2>5
<1>7. CASE Start
    <2>1. Flows(d, t, w)' /\ logged' = logged
        BY <1>4, <1>7 DEF Start, Flows, Holds
    <2> QED
        BY <1>3, <2>1
<1>8. CASE Execute
    <2>1. tx' = (d + 1) .. w
        BY <1>4, <1>8, Joined DEF Execute
    <2>2. Flows(d, w, w)' /\ logged' = logged
        BY <1>4, <1>8, <2>1 DEF Execute, Flows, Holds
    <2> QED
        BY <1>3, <2>2
<1>9. CASE Close
    <2>1. tx = {} /\ d = t
        <3>1. stop = "awaits" /\ writer = "done"
            BY <1>9 DEF Close
        <3>2. ~cancelled
            BY <3>1 DEF EndInv
        <3>3. tx = {}
            BY <1>4, <3>1, <3>2
        <3> QED
            BY <1>4, <3>3
    <2>2. Flows(d, t, w)' /\ logged' = logged
        BY <1>4, <1>9, <2>1 DEF Close, Flows, Holds
    <2> QED
        BY <1>3, <2>2
<1>10. CASE Get
    <2>1. Moved /\ logged' = logged
        BY <1>10, MovedIs
    <2>2. w = t /\ db' = 1 .. d /\ tx' = (d + 1) .. t /\ (tx' # {} => cancelled')
        BY <1>4, <1>10 DEF Get
    <2> QED
        BY <1>3, <1>4, <2>1, <2>2, MovedFlow
<1>11. CASE Commit \/ (Cancel /\ writer = "commit")
    <2>1. Moved /\ logged' = logged /\ writer = "commit"
        BY <1>11, MovedIs DEF Commit
    <2>2. w = t /\ db' = db \cup tx /\ tx' = {}
        BY <1>4, <1>11, <2>1 DEF Commit, Committed, Cancel
    <2>3. db' = 1 .. t
        <3>1. db = (0 + 1) .. d /\ (0 + 1) .. t = 1 .. t
            BY <1>4
        <3> QED
            BY <1>4, <2>2, <3>1, Joined
    <2>4. tx' = (t + 1) .. t
        BY <1>4, <2>2
    <2> QED
        BY <1>3, <1>4, <2>1, <2>2, <2>3, <2>4, MovedFlow
<1>12. CASE Cancel /\ writer = "get"
    <2>1. Moved /\ logged' = logged
        BY <1>12, MovedIs
    <2>2. w = t /\ db' = 1 .. d /\ tx' = (d + 1) .. t /\ cancelled'
        BY <1>4, <1>12 DEF Cancel
    <2> QED
        BY <1>3, <1>4, <2>1, <2>2, MovedFlow
<1>13. CASE Cancel /\ writer = "execute"
    <2>1. Moved /\ logged' = logged
        BY <1>13, MovedIs
    <2>2. db' = 1 .. d /\ tx' = tx \cup ToSet(batch) /\ cancelled'
        BY <1>4, <1>13 DEF Cancel
    <2>3. tx' = (d + 1) .. w
        BY <1>4, <1>13, <2>2, Joined
    <2> QED
        BY <1>3, <1>4, <2>1, <2>2, <2>3, MovedFlow
<1>14. CASE UNCHANGED vars
    <2>1. Flows(d, t, w)' /\ logged' = logged
        BY <1>4, <1>14 DEF vars, Flows, Holds
    <2> QED
        BY <1>3, <2>1
<1>15. Cancel => writer \in {"get", "execute", "commit"}
    BY DEF Cancel
<1> QED
    BY <1>2, <1>5, <1>6, <1>7, <1>8, <1>9, <1>10, <1>11, <1>12, <1>13, <1>14, <1>15 DEF Next, Write

-----------------------------------------------------------------------------
(* What is lost *)

\* The events of a batch are no more than the cap.
LEMMA BatchIsSmall ==
    ASSUME NEW b \in Seq(Event), Len(b) <= Cap
    PROVE  IsFiniteSet(ToSet(b)) /\ Cardinality(ToSet(b)) <= Cap
<1>1. Len(b) \in Nat /\ DOMAIN b = 1 .. Len(b) /\ Cap \in Nat
    BY LenProperties, LogAssumption
<1>2. IsFiniteSet(1 .. Len(b)) /\ Cardinality(1 .. Len(b)) = Len(b)
    <2>1. PICK l \in Nat : l = Len(b)
        BY <1>1
    <2>2. IsFiniteSet(1 .. l) /\ Cardinality(1 .. l) = IF 1 > l THEN 0 ELSE l - 1 + 1
        BY FS_Interval
    <2>3. Cardinality(1 .. l) = l
        BY <2>2
    <2> QED
        BY <2>1, <2>2, <2>3
<1>3. b \in Surjection(1 .. Len(b), ToSet(b))
    <2>1. b \in [1 .. Len(b) -> ToSet(b)]
        BY <1>1, LenProperties DEF ToSet
    <2>2. \A e \in ToSet(b) : \E i \in 1 .. Len(b) : b[i] = e
        BY <1>1 DEF ToSet
    <2> QED
        BY <2>1, <2>2 DEF Surjection
<1>4. IsFiniteSet(ToSet(b)) /\ Cardinality(ToSet(b)) <= Len(b)
    BY <1>2, <1>3, FS_Surjection
<1>5. Cardinality(ToSet(b)) \in Nat
    BY <1>4, FS_CardinalityType
<1> QED
    BY <1>1, <1>4, <1>5

\* A set that has grown by no more than a batch.
LEMMA NoMoreThan ==
    ASSUME NEW S, IsFiniteSet(S), NEW T, IsFiniteSet(T), NEW U \in SUBSET (S \cup T)
    PROVE  /\ IsFiniteSet(U) /\ Cardinality(U) \in Nat /\ Cardinality(S) \in Nat /\ Cardinality(T) \in Nat
           /\ Cardinality(U) <= Cardinality(S) + Cardinality(T)
<1>1. IsFiniteSet(S \cup T) /\ IsFiniteSet(S \cap T)
      /\ Cardinality(S \cup T) = Cardinality(S) + Cardinality(T) - Cardinality(S \cap T)
    <2>1. S \cap T \in SUBSET S
        OBVIOUS
    <2> QED
        BY <2>1, FS_Union, FS_Subset
<1>2. IsFiniteSet(U) /\ Cardinality(U) <= Cardinality(S \cup T)
    BY <1>1, FS_Subset
<1>3. /\ Cardinality(S) \in Nat /\ Cardinality(T) \in Nat /\ Cardinality(S \cap T) \in Nat
      /\ Cardinality(S \cup T) \in Nat /\ Cardinality(U) \in Nat
    BY <1>1, <1>2, FS_CardinalityType
<1> QED
    BY <1>1, <1>2, <1>3

\* What the writer takes stays in hand or queued.
LEMMA NothingDropped ==
    ASSUME TypeOK, Moved, logged' = logged
    PROVE  Events(queue) \subseteq Events(queue') \cup ToSet(batch')
BY DEF Moved, HandedOver, Divided, Resumed

\* The events that may be lost are among the logged ones.
LEMMA MissingIs ==
    ASSUME TypeOK
    PROVE  IsFiniteSet(Missing) /\ Cardinality(Missing) \in Nat
<1>1. IsFiniteSet(1 .. logged)
    BY LogAssumption, FS_Interval DEF TypeOK
<1>2. Missing \in SUBSET (1 .. logged)
    BY DEF Missing
<1>3. IsFiniteSet(Missing)
    BY <1>1, <1>2, FS_Subset
<1> QED
    BY <1>3, FS_CardinalityType

\* Every step keeps the count of what may be lost.
LEMMA LossStep == TypeOK /\ EndInv /\ LossInv /\ [Next]_vars => LossInv'
<1> SUFFICES ASSUME TypeOK, EndInv, LossInv, [Next]_vars PROVE LossInv'
    OBVIOUS
<1>1. /\ logged \in Nat /\ MaxEvents \in Nat /\ logged <= MaxEvents /\ fails \in Nat /\ Cap \in Nat
      /\ cancelled \in BOOLEAN /\ queue \in Seq(Item) /\ batch \in Seq(Event) /\ Len(batch) <= Cap
    BY LogAssumption DEF TypeOK, Item, Event
<1>2. IsFiniteSet(Missing) /\ Cardinality(Missing) \in Nat
    BY MissingIs
<1>3. IsFiniteSet(ToSet(batch)) /\ Cardinality(ToSet(batch)) <= Cap
    BY <1>1, BatchIsSmall
<1>4. Incidents \in Nat
    BY <1>1 DEF Incidents
<1>5. ASSUME Missing' \subseteq Missing, Incidents' = Incidents PROVE LossInv'
    <2>1. Cardinality(Missing') <= Cardinality(Missing) /\ Cardinality(Missing') \in Nat
        BY <1>2, <1>5, FS_Subset, FS_CardinalityType
    <2>2. PICK k \in Nat, m \in Nat, n \in Nat :
              k = Cardinality(Missing) /\ m = Cardinality(Missing') /\ n = Cap * Incidents
        BY <1>1, <1>2, <1>4, <2>1
    <2>3. m <= k /\ k <= n
        BY <2>1, <2>2 DEF LossInv
    <2>4. m <= n
        BY <2>3
    <2> QED
        BY <1>5, <2>2, <2>4 DEF LossInv
<1>6. ASSUME Missing' \subseteq Missing \cup ToSet(batch), Incidents' = Incidents + 1 PROVE LossInv'
    <2>1. /\ Cardinality(Missing') \in Nat /\ Cardinality(ToSet(batch)) \in Nat
          /\ Cardinality(Missing') <= Cardinality(Missing) + Cardinality(ToSet(batch))
        BY <1>2, <1>3, <1>6, NoMoreThan
    <2>2. PICK k \in Nat, m \in Nat, b \in Nat :
              k = Cardinality(Missing) /\ m = Cardinality(Missing') /\ b = Cardinality(ToSet(batch))
        BY <1>2, <2>1
    <2>3. PICK i \in Nat : i = Incidents
        BY <1>4
    <2>4. Cap * (i + 1) = Cap * i + Cap /\ Cap * i \in Nat
        BY <1>1, <2>3
    <2>5. m <= k + b /\ b <= Cap /\ k <= Cap * i
        BY <1>3, <2>1, <2>2, <2>3 DEF LossInv
    <2>6. m <= Cap * (i + 1)
        BY <1>1, <2>4, <2>5
    <2> QED
        BY <1>6, <2>2, <2>3, <2>6 DEF LossInv
<1>7. CASE Log
    <2>1. logged' = logged + 1 /\ queue' = Append(queue, logged + 1) /\ logged < MaxEvents
        BY <1>7 DEF Log
    <2>2. PICK x \in Item : x = logged + 1 /\ x # Sentinel
        BY <1>1, <2>1 DEF Item, Sentinel
    <2>3. queue' = Append(queue, x)
        BY <2>1, <2>2
    <2>4. \A e : e \in Events(queue') <=> e \in Events(queue) \/ (e = x /\ x # Sentinel)
        BY <1>1, <2>3, Appended
    <2>5. \A e \in 1 .. logged' : e \in 1 .. logged \/ e = x
        BY <1>1, <2>1, <2>2
    <2>6. Missing' \subseteq Missing
        BY <1>7, <2>2, <2>4, <2>5 DEF Missing, Log
    <2> QED
        BY <1>5, <1>7, <2>6 DEF Log, Incidents
<1>8. CASE Stop
    <2>1. 0 \in Item /\ queue' = Append(queue, 0)
        BY <1>1, <1>8 DEF Item, Stop, Sentinel
    <2>2. \A e \in Events(queue) : e \in Events(queue')
        BY <1>1, <2>1, Appended
    <2>3. Missing' \subseteq Missing
        BY <1>8, <2>2 DEF Missing, Stop
    <2> QED
        BY <1>5, <1>8, <2>3 DEF Stop, Incidents
<1>9. CASE Start \/ Execute \/ Close \/ UNCHANGED vars
    <2>1. Missing' \subseteq Missing /\ Incidents' = Incidents
        BY <1>9 DEF Missing, Incidents, Start, Execute, Close, vars
    <2> QED
        BY <1>5, <2>1
<1>10. CASE Get
    <2>1. Events(queue) \subseteq Events(queue') \cup ToSet(batch') /\ logged' = logged
        BY <1>10, MovedIs, NothingDropped
    <2>2. ToSet(batch) = {}
        BY <1>10 DEF Get, TypeOK, ToSet
    <2>3. Missing' \subseteq Missing /\ Incidents' = Incidents
        BY <1>10, <2>1, <2>2 DEF Missing, Incidents, Get
    <2> QED
        BY <1>5, <2>3
<1>11. CASE Commit
    <2>1. Events(queue) \subseteq Events(queue') \cup ToSet(batch') /\ logged' = logged
        BY <1>11, MovedIs, NothingDropped
    <2>2. ToSet(batch) \subseteq db' /\ db \subseteq db'
        BY <1>11 DEF Commit, Committed, EndInv
    <2>3. Missing' \subseteq Missing /\ Incidents' = Incidents
        BY <1>11, <2>1, <2>2 DEF Missing, Incidents, Commit
    <2> QED
        BY <1>5, <2>3
<1>12. CASE WriteFails
    <2>1. Events(queue) \subseteq Events(queue') \cup ToSet(batch') /\ logged' = logged
        BY <1>12, MovedIs, NothingDropped
    <2>2. Missing' \subseteq Missing \cup ToSet(batch)
        BY <1>12, <2>1 DEF Missing, WriteFails
    <2>3. Incidents' = Incidents + 1
        BY <1>1, <1>12 DEF Incidents, WriteFails
    <2> QED
        BY <1>6, <2>2, <2>3
<1>13. CASE Cancel
    <2>1. Events(queue) \subseteq Events(queue') \cup ToSet(batch') /\ logged' = logged
        BY <1>13, MovedIs, NothingDropped
    <2>2. db \subseteq db'
        BY <1>13 DEF Cancel, Committed
    <2>3. Missing' \subseteq Missing \cup ToSet(batch)
        BY <2>1, <2>2 DEF Missing
    <2>4. Incidents' = Incidents + 1
        BY <1>1, <1>13 DEF Incidents, Cancel
    <2> QED
        BY <1>6, <2>3, <2>4
<1> QED
    BY <1>7, <1>8, <1>9, <1>10, <1>11, <1>12, <1>13 DEF Next, Write

-----------------------------------------------------------------------------
(* The theorems *)

LogInv == TypeOK /\ EndInv /\ FlowInv /\ LossInv

\* Before the first event nothing is queued, written or lost.
LEMMA LogInit == Init => LogInv
<1> SUFFICES ASSUME Init PROVE LogInv
    OBVIOUS
<1>1. TypeOK
    BY TypesInit
<1>2. Events(queue) = {} /\ Ascending(queue) /\ ToSet(batch) = {}
    BY DEF Init, Events, Ascending, ToSet
<1>3. EndInv
    BY DEF Init, EndInv
<1>4. FlowInv
    <2>1. Flows(0, 0, 0) /\ 0 \in 0 .. logged
        BY <1>2 DEF Init, Flows, Holds
    <2> QED
        BY <2>1 DEF FlowInv
<1>5. LossInv
    <2>1. Missing = {}
        BY <1>2 DEF Init, Missing
    <2>2. Cardinality(Missing) = 0 /\ Incidents = 0 /\ Cap * 0 = 0
        BY <2>1, FS_EmptySet, LogAssumption DEF Init, Incidents
    <2> QED
        BY <2>2 DEF LossInv
<1> QED
    BY <1>1, <1>3, <1>4, <1>5 DEF LogInv

\* The invariant on which the theorems rest.
LEMMA LogInvariant == Spec => []LogInv
<1>1. LogInv /\ [Next]_vars => LogInv'
    BY TypesStep, EndStep, FlowStep, LossStep DEF LogInv
<1> QED
    BY <1>1, LogInit, PTL DEF Spec

\* Every variable keeps to its type; in particular no batch exceeds the cap and the writer has one in
\* hand exactly while it writes.
THEOREM TypesHold == Spec => []TypeOK
BY LogInvariant, PTL DEF LogInv

\* stop() flushes all that was logged by the time the writer had finished, however events, batches and
\* the sentinel fell together (EventStore.stop).
THEOREM Flushed == Spec => []StopFlushes
<1>1. LogInv => StopFlushes
    <2> SUFFICES ASSUME LogInv, stop = "closed", fails = 0 PROVE 1 .. heard \subseteq db
        BY DEF StopFlushes
    <2>1. writer = "done" /\ ~cancelled /\ logged \in Nat
        BY LogAssumption DEF LogInv, EndInv, TypeOK
    <2>2. PICK d \in 0 .. logged, t \in 0 .. logged, w \in 0 .. logged : Flows(d, t, w)
        BY DEF LogInv, FlowInv
    <2>3. tx = {} /\ tx = (d + 1) .. t /\ d <= t /\ w = t /\ heard = w /\ db = 1 .. d
        BY <2>1, <2>2 DEF Flows
    <2>4. d = t
        BY <2>1, <2>3
    <2> QED
        BY <2>3, <2>4
<1> QED
    BY <1>1, LogInvariant, PTL

\* The database has no gap while no write has failed, the rows a cancelled batch left on the connection
\* included (_drain_queue and insert_many).
THEOREM WithoutGaps == Spec => []NoGaps
<1>1. LogInv => NoGaps
    <2> SUFFICES ASSUME LogInv, fails = 0 PROVE db = 1 .. Cardinality(db)
        BY DEF NoGaps
    <2>1. logged \in Nat
        BY LogAssumption DEF LogInv, TypeOK
    <2>2. PICK d \in 0 .. logged, t \in 0 .. logged, w \in 0 .. logged : Flows(d, t, w)
        BY DEF LogInv, FlowInv
    <2>3. d \in Nat /\ db = 1 .. d
        BY <2>1, <2>2 DEF Flows
    <2>4. Cardinality(1 .. d) = IF 1 > d THEN 0 ELSE d - 1 + 1
        BY <2>3, FS_Interval
    <2>5. Cardinality(1 .. d) = d
        BY <2>3, <2>4
    <2> QED
        BY <2>3, <2>5
<1> QED
    BY <1>1, LogInvariant, PTL

\* A failed write or a cancellation costs no more than one batch, whatever the connection still held
\* (_write_batch, _drain_remaining).
THEOREM BoundedLoss == Spec => []LossIsBounded
<1>1. LogInv => LossIsBounded
    <2> SUFFICES ASSUME LogInv, writer = "done"
                 PROVE  Cardinality((1 .. heard) \ db) <= Cap * (fails + IF cancelled THEN 1 ELSE 0)
        BY DEF LossIsBounded
    <2>1. TypeOK /\ logged \in Nat /\ heard \in 0 .. logged /\ Cap \in Nat /\ fails \in Nat
        BY LogAssumption DEF LogInv, TypeOK
    <2>2. ToSet(batch) = {}
        BY <2>1 DEF TypeOK, ToSet
    <2>3. \A e \in Events(queue) : heard < e
        BY DEF LogInv, EndInv
    <2>4. (1 .. heard) \ db \subseteq Missing
        BY <2>1, <2>2, <2>3 DEF Missing
    <2>5. IsFiniteSet(Missing) /\ Cardinality(Missing) \in Nat
        BY <2>1, MissingIs
    <2>6. PICK U : U = (1 .. heard) \ db
        OBVIOUS
    <2>7. Cardinality(U) <= Cardinality(Missing) /\ Cardinality(U) \in Nat
        BY <2>4, <2>5, <2>6, FS_Subset, FS_CardinalityType
    <2>8. PICK i \in Nat : i = Incidents
        BY <2>1 DEF Incidents
    <2>9. Cardinality(Missing) <= Cap * i /\ Cap * i \in Nat
        BY <2>1, <2>8 DEF LogInv, LossInv
    <2>10. Cardinality(U) <= Cap * i
        BY <2>5, <2>7, <2>9
    <2> QED
        BY <2>6, <2>8, <2>10 DEF Incidents
<1> QED
    BY <1>1, LogInvariant, PTL
=============================================================================
