------------------------------- MODULE EventLog -------------------------------
(***************************************************************************)
(* The audit log (src/src/storage/event_log.py): log_callback puts events   *)
(* on a queue without waiting, one task writes them to SQLite in batches,   *)
(* stop() sends it a sentinel and waits, and a process that ends without    *)
(* stop() cancels it.                                                       *)
(*                                                                         *)
(* Events are numbered as they are logged.  A write is two awaits, the      *)
(* statements and the commit, both carried out by aiosqlite's thread even   *)
(* when the task that waits for them is cancelled.                          *)
(***************************************************************************)
EXTENDS Integers, SequencesExt

CONSTANTS
    Cap,       \* most events in one batch
    MaxEvents, \* bound: events logged
    MaxFails   \* bound: writes that fail (database is locked)

ASSUME LogAssumption == {Cap, MaxEvents, MaxFails} \subseteq Nat /\ Cap > 0

Sentinel == 0

VARIABLES
    logged,   \* number of events logged so far
    queue,    \* _queue
    writer,   \* the task _drain_queue: its await
    batch,    \* the events it is writing
    ending,   \* it has seen the sentinel or been cancelled, and drains what is left
    tx,       \* rows inserted on the connection and not committed
    db,       \* rows committed
    stop,     \* stop(): "no", "awaits" the writer, "closed"
    cancelled,
    fails,    \* number of writes that failed
    heard     \* history: events logged by the time the writer had finished

vars == <<logged, queue, writer, batch, ending, tx, db, stop, cancelled, fails, heard>>

Awaits == {"unstarted", "get", "execute", "commit", "done"}

Init ==
    /\ logged = 0 /\ queue = <<>>
    /\ writer = "unstarted" /\ batch = <<>> /\ ending = FALSE
    /\ tx = {} /\ db = {}
    /\ stop = "no" /\ cancelled = FALSE /\ fails = 0 /\ heard = 0

\* log_callback: also before start and after stop.
Log ==
    /\ logged < MaxEvents
    /\ logged' = logged + 1 /\ queue' = Append(queue, logged')
    /\ UNCHANGED <<writer, batch, ending, tx, db, stop, cancelled, fails, heard>>

Start ==
    /\ writer = "unstarted" /\ writer' = "get"
    /\ UNCHANGED <<logged, queue, batch, ending, tx, db, stop, cancelled, fails, heard>>

-----------------------------------------------------------------------------
(* The writer *)

Finished == writer' = "done" /\ heard' = logged
Writing(b) == batch' = b /\ writer' = "execute" /\ UNCHANGED heard

\* The place of the next event: sentinels in front of it are taken and ignored.
NextEvent(q) == CHOOSE n \in DOMAIN q : q[n] # Sentinel /\ \A i \in 1 .. n - 1 : q[i] = Sentinel

\* _drain_remaining: one event at a time until the queue is empty.
DrainFrom(q) ==
    IF \A i \in DOMAIN q : q[i] = Sentinel
    THEN queue' = <<>> /\ batch' = <<>> /\ Finished
    ELSE queue' = SubSeq(q, NextEvent(q) + 1, Len(q)) /\ Writing(<<q[NextEvent(q)]>>)

\* How many of the queued items one batch takes: up to the cap, and not past
\* the sentinel.
BatchSize(q) ==
    CHOOSE n \in {k \in 0 .. Len(q) : k <= Cap} :
        /\ \A i \in 1 .. n : q[i] # Sentinel
        /\ n = Cap \/ n = Len(q) \/ q[n + 1] = Sentinel

\* Mutant: the batch at hand is dropped when the sentinel turns up.
TakeDroppingAtSentinel(q) ==
    LET n == BatchSize(q) IN
    IF n < Len(q) /\ n < Cap
    THEN ending' = TRUE /\ DrainFrom(SubSeq(q, n + 2, Len(q)))
    ELSE queue' = SubSeq(q, n + 1, Len(q)) /\ Writing(SubSeq(q, 1, n)) /\ UNCHANGED ending

\* Mutant: a sentinel found behind other events only ends the batch.
TakeLosingSentinel(q) ==
    LET n == BatchSize(q) IN
    IF n = 0
    THEN ending' = TRUE /\ DrainFrom(Tail(q))
    ELSE /\ queue' = (IF n < Len(q) /\ n < Cap THEN SubSeq(q, n + 2, Len(q)) ELSE SubSeq(q, n + 1, Len(q)))
         /\ Writing(SubSeq(q, 1, n)) /\ UNCHANGED ending

\* get() and the get_nowait() loop, which no other task can come between.
Take(q) ==
    LET n    == BatchSize(q)
        seen == n < Len(q) /\ n < Cap
    IN  IF n = 0
        THEN ending' = TRUE /\ DrainFrom(Tail(q))
        ELSE /\ queue' = IF seen THEN SubSeq(q, n + 2, Len(q)) ELSE SubSeq(q, n + 1, Len(q))
             /\ ending' = seen
             /\ Writing(SubSeq(q, 1, n))

Get ==
    /\ writer = "get" /\ queue # <<>>
    /\ Take(queue)
    /\ UNCHANGED <<logged, tx, db, stop, cancelled, fails>>

\* After a write, done or failed: the next batch, or the rest of the queue.
Onward == IF ending THEN DrainFrom(queue)
          ELSE writer' = "get" /\ batch' = <<>> /\ UNCHANGED <<queue, heard>>

Execute ==
    /\ writer = "execute"
    /\ tx' = tx \cup ToSet(batch) /\ writer' = "commit"
    /\ UNCHANGED <<logged, queue, batch, ending, db, stop, cancelled, fails, heard>>

\* Mutant: what was inserted for another batch is left to a later commit.
CommittedBatch == db' = db \cup ToSet(batch) /\ tx' = {}

\* A commit is of everything the connection has inserted.
Committed == db' = db \cup tx /\ tx' = {}

Commit ==
    /\ writer = "commit" /\ Committed /\ Onward
    /\ UNCHANGED <<logged, ending, stop, cancelled, fails>>

\* Mutant: a failed write ends the task.
WriteFailsFatally ==
    /\ writer \in {"execute", "commit"} /\ fails < MaxFails
    /\ fails' = fails + 1
    /\ tx' = {} /\ batch' = <<>> /\ Finished
    /\ UNCHANGED <<logged, queue, ending, db, stop, cancelled>>

\* The statements or the commit fail: the connection rolls back, and the batch
\* is logged as lost.
WriteFails ==
    /\ writer \in {"execute", "commit"} /\ fails < MaxFails
    /\ fails' = fails + 1
    /\ tx' = {} /\ UNCHANGED db /\ Onward
    /\ UNCHANGED <<logged, ending, stop, cancelled>>

-----------------------------------------------------------------------------
(* stop, and a process that ends without it *)

Stop ==
    /\ stop = "no" /\ ~cancelled /\ writer # "unstarted"
    /\ stop' = "awaits" /\ queue' = Append(queue, Sentinel)
    /\ UNCHANGED <<logged, writer, batch, ending, tx, db, cancelled, fails, heard>>

Close ==
    /\ stop = "awaits" /\ writer = "done"
    /\ stop' = "closed" /\ tx' = {}
    /\ UNCHANGED <<logged, queue, writer, batch, ending, db, cancelled, fails, heard>>

\* The event loop cancels the writer: its statement or commit under way is
\* carried out, what should have followed in that batch is not.
Cancel ==
    /\ ~cancelled /\ stop = "no" /\ writer \in {"get", "execute", "commit"}
    /\ cancelled' = TRUE /\ ending' = TRUE
    /\ CASE writer = "get"     -> UNCHANGED <<tx, db>>
         [] writer = "execute" -> tx' = tx \cup ToSet(batch) /\ UNCHANGED db
         [] writer = "commit"  -> Committed
    /\ DrainFrom(queue)
    /\ UNCHANGED <<logged, stop, fails>>

Write == Get \/ Execute \/ Commit \/ WriteFails

Next == Log \/ Start \/ Write \/ Stop \/ Close \/ Cancel

Spec == Init /\ [][Next]_vars

\* The event loop runs a task that can go on.
FairSpec == Spec /\ WF_vars(Write) /\ WF_vars(Close)

-----------------------------------------------------------------------------
(* Properties *)

\* The types of the variables.
TypeOK ==
    /\ logged \in 0 .. MaxEvents /\ heard \in 0 .. logged /\ fails \in 0 .. MaxFails
    /\ queue \in Seq(0 .. MaxEvents) /\ batch \in Seq(1 .. MaxEvents) /\ Len(batch) <= Cap
    /\ writer \in Awaits /\ (writer \in {"execute", "commit"} <=> batch # <<>>)
    /\ tx \subseteq 1 .. MaxEvents /\ db \subseteq 1 .. MaxEvents
    /\ stop \in {"no", "awaits", "closed"} /\ {ending, cancelled} \subseteq BOOLEAN

\* stop() flushes: what was logged by the time the writer had finished is in the
\* database, events logged after the sentinel included, if no write failed.
StopFlushes == stop = "closed" /\ fails = 0 => 1 .. heard \subseteq db

\* While no write has failed the database has no gap: an event is there only if
\* all before it are, also when the writer was cancelled between the statements
\* of a batch and their commit and the next event's commit carries them along.
NoGaps == fails = 0 => db = 1 .. Cardinality(db)

\* A failed write costs its own batch at most, and a cancellation one more.
LossIsBounded ==
    writer = "done" => Cardinality((1 .. heard) \ db) <= Cap * (fails + IF cancelled THEN 1 ELSE 0)

\* stop() returns: the sentinel reaches the writer, whatever is queued with it
\* and whatever fails.
StopReturns == (stop = "awaits") ~> (stop = "closed")

\* Not so (event_log.py:209): a writer that is cancelled drains the queue, but
\* the batch it was writing is lost when nothing is left to be written after it.
CancelLosesNothing == cancelled /\ writer = "done" /\ fails = 0 => 1 .. heard \subseteq db
=============================================================================
