----------------------------- MODULE Attribution -----------------------------
(***************************************************************************)
(* Whose position is it, after a restart?  The table position_attribution  *)
(* (src/src/storage/position_store.py) and its users in                    *)
(* src/src/app/runner.py: the fill handler, which hands every write to a   *)
(* worker thread, the commission callback, and the seeding of the position *)
(* book at startup from the broker's net positions.                        *)
(*                                                                         *)
(* Several strategies and contracts, several processes one after the       *)
(* other.  A process ends by a crash or by stop(); the exchange goes on.   *)
(* A single trading day.                                                   *)
(***************************************************************************)
EXTENDS Integers, SequencesExt

CONSTANTS
    Strats, Contracts,
    Configs,     \* the sets of strategies a configuration may list
    Reentrant,   \* the strategies with allow_reentry
    Fired,       \* the strategies an operator may fire by hand
    Unknown,     \* the owner of a position nothing can be said about
    Sides,       \* the sides each strategy's entries are made on; TRUE is buy
    Qty,         \* quantity of an entry
    MaxOrders,   \* bound: orders submitted
    MaxDeaths,   \* bound: processes that end
    MaxFails     \* bound: steps in which the database fails for good

ASSUME AttributionAssumption ==
    /\ Unknown \notin Strats /\ Configs \subseteq SUBSET Strats /\ Configs # {}
    /\ Reentrant \cup Fired \subseteq Strats
    /\ Sides \in [Strats -> SUBSET BOOLEAN] /\ Qty \in Nat \ {0}
    /\ {MaxOrders, MaxDeaths, MaxFails} \subseteq Nat

VARIABLES
    net,      \* what the broker holds per contract, and
    orders,   \* the orders it knows, a sequence by number
    rows,     \* the table: position ids to rows
    phase,    \* "run", "stopping", "down", "seed" or "start"
    conf,     \* _strategy_configs
    wire,     \* executions of this process's orders not yet reported: <<order, quantity>>
    book,     \* PositionManager.positions; closed when qty is 0
    why,      \* _exit_reasons: positions an exit was submitted for
    traded,   \* _persisted_traded_today
    writers,  \* background upserts under way, by number: a position, its close reason, what was read of it
    fees,     \* positions a commission report is due for
    held,     \* while seeding: the broker's positions as fetched
    todo,     \* ... and the contracts not yet seeded
    next,     \* position ids are numbers
    budget,   \* [deaths, fails], for the bounds
    blind,    \* history: this process could not load who has traded
    opened,   \* history: positions opened at the exchange by each strategy
    lost,     \* history: something happened at the broker that no row says, and
    sound,    \* ... nothing of the kind since this process runs
    kept      \* history: if broker and rows agreed with the book at death: the open
              \* positions, and the open rows that are of none of them

history == <<blind, opened, sound, kept>>
memory == <<wire, book, why, traded, writers, fees>>
seeding == <<held, todo>>
unlost == <<lost, history>>
vars == <<net, orders, rows, phase, conf, memory, seeding, next, budget, unlost>>

NoRead == [none |-> TRUE]
Nobody == 0

\* The number of the next upsert: the least not in use.
IsNext(k) == k \notin DOMAIN writers /\ 1 .. k - 1 \subseteq DOMAIN writers

Signed(buy, n) == IF buy THEN n ELSE -n
Size(n) == IF n < 0 THEN -n ELSE n
Opened(positions) == {p \in DOMAIN positions : positions[p].qty > 0}
OpenRows == {r \in DOMAIN rows : rows[r].status = "open"}
Over(g, f) == [q \in DOMAIN g \cup DOMAIN f |-> IF q \in DOMAIN g THEN g[q] ELSE f[q]]
Only(p, v) == [q \in {p} |-> v]
With(f, p, v) == Over(Only(p, v), f)
OpenBook == Restrict(book, Opened(book))
NetOf(positions, c) ==
    FoldSet(LAMBDA p, s : s + Signed(positions[p].long, positions[p].qty), 0,
            {p \in DOMAIN positions : positions[p].con = c})

Init ==
    /\ net = [c \in Contracts |-> 0] /\ orders = <<>> /\ rows = <<>>
    /\ phase = "run" /\ conf \in Configs
    /\ wire = <<>> /\ book = <<>> /\ why = {} /\ traded = {} /\ writers = <<>> /\ fees = {}
    /\ held = <<>> /\ todo = {} /\ next = 1
    /\ budget = [deaths |-> 0, fails |-> 0]
    /\ blind = FALSE /\ opened = [s \in Strats |-> 0] /\ lost = FALSE /\ sound = TRUE /\ kept = {}

-----------------------------------------------------------------------------
(* PositionStore *)

\* An exception is logged, and the caller goes on without a result.
GivesUp == budget.fails < MaxFails /\ budget' = [budget EXCEPT !.fails = @ + 1]

RowFor(pos, reason) == [strat |-> pos.strat, con |-> pos.con, long |-> pos.long, qty |-> pos.qty,
                        status |-> IF pos.qty > 0 THEN "open" ELSE "closed", why |-> reason]

\* Mutant: the latest write's reason counts, also when it has none.
UpsertedPlain(table, p, pos, reason) ==
    With(table, p, RowFor(pos, reason))

\* upsert_position.  A conflict leaves contract and side alone, and a close reason
\* once written.
Overwritten(row, pos, reason) ==
    [RowFor(pos, IF reason = "none" THEN row.why ELSE reason) EXCEPT !.con = row.con, !.long = row.long]

Upserted(table, p, pos, reason) ==
    With(table, p, IF p \in DOMAIN table THEN Overwritten(table[p], pos, reason) ELSE RowFor(pos, reason))

\* find_all_open_attributions, if it works.
Attrs(c) == {r \in OpenRows : rows[r].con = c}

\* Mutant: only what is still open counts.
TradedInOpenRows == {rows[r].strat : r \in OpenRows}

\* strategies_traded_on, if it works: rows of any status.
TradedInRows == {rows[r].strat : r \in DOMAIN rows}

\* mark_closed_if_absent, if it works.
Swept(keys) == [r \in DOMAIN rows |->
                   IF rows[r].con \in keys THEN rows[r] ELSE [rows[r] EXCEPT !.status = "closed"]]

-----------------------------------------------------------------------------
(* Orders and the exchange *)

Reported(i) == \A k \in DOMAIN wire : wire[k][1] # i
ActiveOrder(i) == orders[i].ours /\ (orders[i].left > 0 \/ ~Reported(i))

\* "Always wait until flat".
Flat(s) ==
    /\ \A p \in Opened(book) : book[p].strat # s
    /\ \A i \in DOMAIN orders : ActiveOrder(i) => orders[i].strat # s

\* One trade per day, unless the entry is fired by hand or the strategy may re-enter.
MayEnter(s, manual) ==
    s \in conf /\ (manual \/ s \in Reentrant \/ s \notin traded) /\ Flat(s)

Submit(order) ==
    /\ phase = "run" /\ Len(orders) < MaxOrders
    /\ orders' = Append(orders, order)
    /\ UNCHANGED <<net, rows, phase, conf, wire, book, traded, writers, fees, seeding, next, budget, unlost>>

\* Of an entry is remembered whether it had to be the first of the day.
SubmitEntry(s) ==
    /\ \E c \in Contracts, buy \in Sides[s], manual \in BOOLEAN :
          /\ manual => s \in Fired
          /\ MayEnter(s, manual)
          /\ Submit([strat |-> s, con |-> c, buy |-> buy, left |-> Qty, ours |-> TRUE, pid |-> Nobody,
                     once |-> ~manual /\ s \notin Reentrant])
    /\ UNCHANGED why

\* An exit for the whole position; why it is closed is remembered.
SubmitExit(p) ==
    /\ \A i \in DOMAIN orders : ActiveOrder(i) => orders[i].pid # p
    /\ Submit([strat |-> book[p].strat, con |-> book[p].con, buy |-> ~book[p].long,
               left |-> book[p].qty, ours |-> TRUE, pid |-> p, once |-> FALSE])
    /\ why' = why \cup {p}

Withdraw(i) ==
    /\ phase = "run" /\ orders[i].ours /\ orders[i].left > 0
    /\ orders' = [orders EXCEPT ![i].left = 0]
    /\ UNCHANGED <<net, rows, phase, conf, memory, seeding, next, budget, unlost>>

\* The exchange executes (part of) an order.  A process that did not submit the
\* order ignores the report.
Execute(i) ==
    /\ \E n \in 1 .. orders[i].left :
          /\ net' = [net EXCEPT ![orders[i].con] = @ + Signed(orders[i].buy, n)]
          /\ orders' = [orders EXCEPT ![i].left = @ - n]
          /\ opened' = IF orders[i].pid = Nobody /\ orders[i].left = Qty
                       THEN [opened EXCEPT ![orders[i].strat] = @ + 1] ELSE opened
          /\ IF orders[i].ours
             THEN wire' = Append(wire, <<i, n>>) /\ UNCHANGED <<lost, sound, kept>>
             ELSE lost' = TRUE /\ sound' = FALSE /\ kept' = {} /\ UNCHANGED wire
    /\ UNCHANGED <<rows, phase, conf, book, why, traded, writers, fees, seeding, next, budget, blind>>

-----------------------------------------------------------------------------
(* The fill handler and its writes *)

Matching(order) == {p \in Opened(book) : book[p].strat = order.strat /\ book[p].con = order.con}

\* handle_fill on position p, new or matching.
After(p, order, n) ==
    IF p \notin DOMAIN book
    THEN [strat |-> order.strat, con |-> order.con, long |-> order.buy, qty |-> n]
    ELSE [book[p] EXCEPT !.qty = IF book[p].long = order.buy THEN @ + n
                                 ELSE IF n < @ THEN @ - n ELSE 0]

\* _fill_and_position: one background write per fill, with the close reason if
\* this fill closed the position.
HandleFill ==
    /\ phase = "run" /\ wire # <<>>
    /\ LET order == orders[Head(wire)[1]] IN
       \E p \in IF Matching(order) = {} THEN {next} ELSE Matching(order),
          k \in 1 .. Cardinality(DOMAIN writers) + 1 :
          LET pos == After(p, order, Head(wire)[2]) IN
          /\ book' = With(book, p, pos)
          /\ traded' = traded \cup {pos.strat}
          /\ IsNext(k)
          /\ writers' = With(writers, k, [pid |-> p, why |-> IF pos.qty = 0 /\ p \in why THEN "exit" ELSE "none",
                                          read |-> NoRead])
          /\ why' = IF pos.qty = 0 THEN why \ {p} ELSE why
          /\ fees' = fees \cup {p}
          /\ next' = IF p = next THEN next + 1 ELSE next
    /\ wire' = Tail(wire)
    /\ UNCHANGED <<net, orders, rows, phase, conf, seeding, budget, unlost>>

Without(k) == Restrict(writers, DOMAIN writers \ {k})

\* A worker thread reads the position's fields, ...
ReadPosition(k) ==
    /\ phase \in {"run", "stopping"} /\ writers[k].read = NoRead
    /\ writers' = [writers EXCEPT ![k].read = book[writers[k].pid]]
    /\ UNCHANGED <<net, orders, rows, phase, conf, wire, book, why, traded, fees, seeding, next, budget, unlost>>

\* ... waits for the database and writes them, ...
WriteRow(k) ==
    /\ writers[k].read # NoRead
    /\ rows' = Upserted(rows, writers[k].pid, writers[k].read, writers[k].why)
    /\ writers' = Without(k)
    /\ UNCHANGED <<net, orders, phase, conf, wire, book, why, traded, fees, seeding, next, budget, unlost>>

\* ... finds it locked and starts over, or gives up.
WriteFails(k) ==
    /\ writers[k].read # NoRead
    /\ \/ writers' = [writers EXCEPT ![k].read = NoRead] /\ UNCHANGED <<budget, lost, sound>>
       \/ /\ GivesUp
          /\ writers' = Without(k)
          /\ lost' = TRUE /\ sound' = FALSE
    /\ UNCHANGED <<net, orders, rows, phase, conf, wire, book, why, traded, fees, seeding, next, blind, opened, kept>>

\* _on_commission: written at once, on the event loop; a failure is logged.
Commission(p) ==
    /\ phase = "run"
    /\ \/ rows' = Upserted(rows, p, book[p], "none") /\ UNCHANGED budget
       \/ GivesUp /\ UNCHANGED rows
    /\ fees' = fees \ {p}
    /\ UNCHANGED <<net, orders, phase, conf, wire, book, why, traded, writers, seeding, next, unlost>>

-----------------------------------------------------------------------------
(* Death and restart *)

\* The book is what is at the broker, and its rows say so; nobody holds a contract
\* against somebody else.
Agreed ==
    /\ sound /\ wire = <<>> /\ writers = <<>> /\ Opened(book) \subseteq OpenRows
    /\ \A p \in Opened(book) :
          /\ rows[p].qty = book[p].qty /\ rows[p].long = book[p].long /\ rows[p].strat \in conf
          /\ \A q \in Opened(book) : book[p].con = book[q].con => book[p].long = book[q].long
    /\ \A c \in Contracts : net[c] = NetOf(book, c)

Remembered == IF Agreed THEN {[book |-> OpenBook, stale |-> OpenRows \ Opened(book)]} ELSE {}

AllForgotten == [i \in DOMAIN orders |-> [orders[i] EXCEPT !.ours = FALSE]]
AllWithdrawn == [i \in DOMAIN orders |-> [orders[i] EXCEPT !.ours = FALSE, !.left = 0]]

GoDown ==
    /\ phase' = "down"
    /\ kept' = IF phase = "seed" THEN kept ELSE Remembered
    /\ wire' = <<>> /\ book' = <<>> /\ why' = {} /\ traded' = {} /\ writers' = <<>> /\ fees' = {}
    /\ held' = <<>> /\ todo' = {}

Crash ==
    /\ phase # "down" /\ budget.deaths < MaxDeaths
    /\ budget' = [budget EXCEPT !.deaths = @ + 1]
    /\ orders' = AllForgotten
    /\ lost' = (lost \/ wire # <<>> \/ writers # <<>>)
    /\ GoDown
    /\ UNCHANGED <<net, rows, conf, next, blind, opened, sound>>

\* _shutdown: cancels the working orders and waits, not for ever; what worker
\* threads have begun they finish, what they have not is cancelled.
Stop ==
    /\ phase = "run" /\ budget.deaths < MaxDeaths
    /\ budget' = [budget EXCEPT !.deaths = @ + 1]
    /\ orders' \in {AllWithdrawn, AllForgotten}
    /\ phase' = "stopping"
    /\ writers' = Restrict(writers, {k \in DOMAIN writers : writers[k].read # NoRead})
    /\ LET losing == wire # <<>> \/ \E k \in DOMAIN writers : writers[k].read = NoRead IN
       lost' = (lost \/ losing) /\ sound' = (sound /\ ~losing)
    /\ UNCHANGED <<net, rows, conf, wire, book, why, traded, fees, seeding, next, blind, opened, kept>>

Stopped ==
    /\ phase = "stopping" /\ writers = <<>>
    /\ GoDown
    /\ UNCHANGED <<net, orders, rows, conf, next, budget, lost, blind, opened, sound>>

\* start: fetch the broker's positions.  Flat rows, which it may list or not, are
\* skipped; an error or an empty answer ends the seeding.
Restart ==
    /\ phase = "down"
    /\ LET nonzero == {c \in Contracts : net[c] # 0} IN
       \/ phase' = "start" /\ UNCHANGED seeding
       \/ phase' = "seed" /\ held' = [c \in nonzero |-> net[c]] /\ todo' = nonzero
    /\ conf' \in Configs /\ sound' = TRUE
    /\ kept' = IF conf' = conf /\ phase' = "seed" THEN kept ELSE {}
    /\ UNCHANGED <<net, orders, rows, memory, next, budget, lost, blind, opened>>

\* The first enabled strategy on the underlying, if any.
Guess == IF conf = {} THEN Unknown ELSE CHOOSE s \in conf : TRUE

Seeded(s, c, n) == [strat |-> s, con |-> c, long |-> held[c] > 0, qty |-> n]

\* Mutants: every row gets the broker's whole quantity; a single row gets its own.
SeededDouble(c, found) ==
    IF found = {} THEN {Only(next, Seeded(Guess, c, Size(held[c])))}
    ELSE {[r \in found |-> Seeded(rows[r].strat, c, Size(held[c]))]}
SeededFromRow(c, found) ==
    IF found = {} THEN {Only(next, Seeded(Guess, c, Size(held[c])))}
    ELSE {[r \in found |-> Seeded(rows[r].strat, c, rows[r].qty)]}

\* _seed_one_position for each part of the broker's position in contract c: the
\* positions that come of it, by id, given the rows found.  The parts nobody listed
\* owns have one id, so one of them remains.
SeededAs(c, found) ==
    LET Share(r) == IF Cardinality(found) > 1 THEN rows[r].qty ELSE Size(held[c])
        Owned    == {r \in found : rows[r].strat \in conf}
        Adopted  == [r \in Owned |-> Seeded(rows[r].strat, c, Share(r))]
    IN  IF found = {} THEN {Only(next, Seeded(Guess, c, Size(held[c])))}
        ELSE IF Owned = found THEN {Adopted}
        ELSE {With(Adopted, next, Seeded(Guess, c, Share(r))) : r \in found \ Owned}

\* Each is written as it is seeded.
UpsertedAll(seeded) ==
    [r \in DOMAIN rows \cup DOMAIN seeded |->
        IF r \in DOMAIN seeded THEN Upserted(rows, r, seeded[r], "none")[r] ELSE rows[r]]

\* When the rows cannot be looked up there are none; what cannot be written is not.
SeedContract(c) ==
    /\ phase = "seed"
    /\ \E found \in {Attrs(c), {}} : \E seeded \in SeededAs(c, found) : \E written \in SUBSET DOMAIN seeded :
          /\ IF found = Attrs(c) /\ written = DOMAIN seeded
             THEN UNCHANGED <<budget, kept>> ELSE GivesUp /\ kept' = {}
          /\ book' = Over(seeded, book)
          /\ next' = IF next \in DOMAIN seeded THEN next + 1 ELSE next
          /\ rows' = UpsertedAll(Restrict(seeded, written))
    /\ todo' = todo \ {c}
    /\ UNCHANGED <<net, orders, phase, conf, wire, why, traded, writers, fees, held, lost, blind, opened, sound>>

\* Rows of contracts the broker did not list are closed.
Sweep ==
    /\ phase = "seed" /\ todo = {}
    /\ \/ rows' = Swept(DOMAIN held) /\ UNCHANGED budget
       \/ GivesUp /\ UNCHANGED rows
    /\ phase' = "start" /\ held' = <<>>
    /\ UNCHANGED <<net, orders, conf, memory, todo, next, unlost>>

\* _refresh_traded_today in the first tick: the strategies that have traded, or, when
\* they cannot be loaded, nobody, for the rest of the day.
Begin ==
    /\ phase = "start" /\ phase' = "run"
    /\ \/ traded' = TradedInRows /\ blind' = FALSE /\ UNCHANGED budget
       \/ GivesUp /\ traded' = {} /\ blind' = TRUE
    /\ UNCHANGED <<net, orders, rows, conf, wire, book, why, writers, fees, seeding, next, lost, opened, sound, kept>>

-----------------------------------------------------------------------------

Next ==
    \/ \E s \in Strats : SubmitEntry(s)
    \/ \E p \in Opened(book) : SubmitExit(p)
    \/ \E i \in DOMAIN orders : Withdraw(i) \/ Execute(i)
    \/ HandleFill
    \/ \E k \in DOMAIN writers : ReadPosition(k) \/ WriteRow(k) \/ WriteFails(k)
    \/ \E p \in fees : Commission(p)
    \/ Crash \/ Stop \/ Stopped \/ Restart \/ Sweep \/ Begin
    \/ \E c \in todo : SeedContract(c)

Spec == Init /\ [][Next]_vars

-----------------------------------------------------------------------------
(* Properties *)

Owners == Strats \cup {Unknown}
Ids == 1 .. next - 1
Amounts == 0 .. MaxOrders * Qty

\* Shape of the table, of the book and of the writes under way; ids are unique.
TypeOK ==
    /\ \A p \in DOMAIN book :
          p \in Ids /\ book[p].strat \in Owners /\ book[p].con \in Contracts /\ book[p].qty \in Amounts
    /\ \A r \in DOMAIN rows :
          r \in Ids /\ rows[r].strat \in Owners /\ rows[r].con \in Contracts /\ rows[r].qty \in Amounts
    /\ \A k \in DOMAIN writers : writers[k].pid \in DOMAIN book
    /\ fees \cup why \subseteq DOMAIN book /\ todo \subseteq DOMAIN held
    /\ phase \in {"run", "stopping", "down", "seed", "start"}
    /\ phase = "down" => book = <<>> /\ writers = <<>>

\* What persisted attribution is for: when broker, book and rows agreed at the end
\* of one process, the next starts with the same positions, of the same strategies,
\* also when several hold the same contract and when seeding itself is cut short;
\* unless the database fails while it seeds.
SeedingRestoresOwners ==
    [][phase = "seed" /\ phase' = "start" => \A k \in kept : k.stale = {} => OpenBook' = k.book]_vars

\* Whatever was lost or failed, and whatever was changed in the configuration, a
\* contract with at most one open row is seeded as the broker has it.
SeededLikeBroker ==
    [][\A c \in todo : c \notin todo' /\ phase' = "seed" /\ Cardinality(Attrs(c)) <= 1
          => NetOf(book', c) = held[c]]_vars

\* An entry that must be the first of its day, with nothing executed yet.
FirstOfDay(i) == orders[i].ours /\ orders[i].pid = Nobody /\ orders[i].left = Qty /\ orders[i].once

\* One trade per day survives restarts: in whichever order processes end and begin,
\* an entry on schedule, of a strategy without allow_reentry, is never at the exchange
\* when its strategy has opened a position before, by hand or on schedule; unless an
\* execution or a write was lost, or this process could not load who has traded.
OneTradePerDay ==
    lost \/ blind \/ \A i \in DOMAIN orders : FirstOfDay(i) => opened[orders[i].strat] = 0

\* A position is the same strategy's in every row ever written about it.
OwnerNeverChanges ==
    [][\A r \in DOMAIN rows : r \in DOMAIN rows' /\ rows'[r].strat = rows[r].strat]_vars

\* The dashboard shows why a position was closed: once its writes are done, in
\* whatever order, and whatever commissions were written meanwhile, the row says so.
\* (The fills of two positions of one strategy in one contract, which a changed
\* configuration may leave behind, are taken for each other's.)
CloseReasonKept ==
    \A p \in DOMAIN book :
        /\ phase = "run" /\ ~lost /\ book[p].qty = 0
        /\ \A q \in DOMAIN book \ {p} : <<book[q].strat, book[q].con>> # <<book[p].strat, book[p].con>>
        /\ \A k \in DOMAIN writers : writers[k].pid # p
        => p \in DOMAIN rows /\ rows[p].why = "exit"

\* When all writes are done, the open rows are the open positions.
RowsCatchUp == phase = "run" /\ ~lost /\ writers = <<>> => OpenRows = Opened(book)

\* "Rows for positions the broker no longer holds must not shadow future lookups":
\* after a process that lost nothing, what is seeded is what the broker holds.
NothingShadows ==
    [][phase = "seed" /\ phase' = "start" /\ kept # {} => \A c \in Contracts :
          NetOf(book, c) = IF c \in DOMAIN held THEN held[c] ELSE 0]_vars

\* "One trade per day, restart-proof (position_store backed)", also when the store
\* could not be read.
RestartProof == lost \/ \A i \in DOMAIN orders : FirstOfDay(i) => opened[orders[i].strat] = 0

\* "AUTHORITATIVE attribution": the open row of a listed strategy is adopted, also when
\* the store could not be read.
RowsAreAuthoritative ==
    [][\A c \in todo : c \notin todo' /\ phase' = "seed" =>
          \A r \in Attrs(c) : rows[r].strat \in conf => r \in DOMAIN book']_vars
=============================================================================
