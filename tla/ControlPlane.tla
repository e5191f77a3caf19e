----------------------------- MODULE ControlPlane -----------------------------
(***************************************************************************)
(* The control plane between the dashboard and the runner: the commands    *)
(* table (src/src/control/command_queue.py), _process_commands and         *)
(* _apply_strategy_update (src/src/app/runner.py), the files that carry    *)
(* overrides and parameters over a restart, and the shell scripts that     *)
(* start, supervise and stop the runner (src/scripts).                     *)
(*                                                                         *)
(* One strategy and one position.  What locking and unlocking mean is      *)
(* SystemLock's subject, how an exit is carried out is PositionBook's;     *)
(* here a command is what the queue makes of it: delivered in order,       *)
(* carried out, marked, and carried out again after a crash.               *)
(***************************************************************************)
EXTENDS Integers, Sequences, FiniteSets

CONSTANTS
    Types,       \* the commands to consider, of CommandTypes
    Limit,       \* commands fetched per tick
    MaxCommands, \* bound: commands enqueued
    MaxCrashes,  \* bound: crashes of the runner and losses of its broker connection
    MaxSlips,    \* bound: reads and writes of the table or a file that fail
    MaxScripts   \* bound: runs of start_system.sh and stop_system.sh

CommandTypes == {"exit", "flatten", "pause", "resume", "fire", "update", "mixed",
                 "restart", "shutdown"}

ASSUME ControlAssumption ==
    /\ Types \subseteq CommandTypes
    /\ {Limit, MaxCommands, MaxCrashes, MaxSlips, MaxScripts} \subseteq Nat

VARIABLES
    table,    \* the commands table: [type, status], by creation
    disk,     \* overrides.yaml and strategy_overrides.yaml: [paused, param]
    mem,      \* the process: [paused, param, exit, latch, fire]
    pc,       \* where the process is: "down", or a stage of a tick
    batch,    \* the fetched commands not yet marked; the oldest is next
    verdict,  \* what the command being carried out is to be marked
    stopping, \* _stop_event: the command that asked for it, 0 when none has
    open,     \* there is an open position
    link,     \* the broker is connected or, without a process, within reach
    sup,      \* run_supervised.sh: "off", "watch", or "nap" before a relaunch
    flag,     \* data/.shutdown_requested
    script,   \* stop_system.sh: "idle" or "waiting"
    budget,   \* [crashes, slips, scripts], for the bounds
    tries,    \* history: stops or straddles each command has brought about
    older     \* history: commands there were when start_system.sh ran, and when it started the runner

runner == <<mem, pc, batch, verdict, stopping>>
scripts == <<sup, flag, script>>
history == <<tries, older>>
vars == <<table, disk, runner, open, link, scripts, budget, history>>

Commands == DOMAIN table
Pending == {c \in Commands : table[c].status = "pending"}
Of(types) == {c \in Commands : table[c].type \in types}
NoCommand == 0
Slips(n) == /\ budget.slips + n <= MaxSlips
            /\ budget' = [budget EXCEPT !.slips = @ + n]

Blank == [paused |-> FALSE, param |-> 0, exit |-> FALSE, latch |-> FALSE, fire |-> NoCommand]
Booted == [Blank EXCEPT !.paused = disk.paused, !.param = disk.param]

Init ==
    /\ table = <<>> /\ disk = [paused |-> FALSE, param |-> 0]
    /\ mem = Booted /\ pc = "idle" /\ batch = {} /\ verdict = "done" /\ stopping = NoCommand
    /\ open \in BOOLEAN /\ link = TRUE
    /\ sup = "watch" /\ flag = FALSE /\ script = "idle"
    /\ budget = [crashes |-> 0, slips |-> 0, scripts |-> 0]
    /\ tries = <<>> /\ older = [ran |-> {}, started |-> {}]

-----------------------------------------------------------------------------
(* The queue *)

Row(type) == [type |-> type, status |-> "pending"]
Inserted(type) ==
    /\ Len(table) < MaxCommands
    /\ table' = Append(table, Row(type)) /\ tries' = Append(tries, 0)

Enqueue(type) ==
    /\ Inserted(type)
    /\ UNCHANGED <<disk, runner, open, link, scripts, budget, older>>

\* Mutant: the newest commands first.
NewestPending == {c \in Pending : Cardinality({d \in Pending : d > c}) < Limit}

\* fetch_pending.
OldestPending == {c \in Pending : Cardinality({d \in Pending : d < c}) < Limit}

\* The loop over the batch, in the order of the fetch: the next command, ...
Oldest(b) == CHOOSE c \in b : \A d \in b : c <= d

\* ... or the rest of the tick.
GoingOn(b) == IF b = {} THEN "poll" ELSE "effect"

\* The tick fetches, or the fetch fails and the tick goes on without commands.
\* Without a broker the tick ends before it: commands wait.
Fetch ==
    /\ pc = "idle" /\ stopping = NoCommand /\ link
    /\ \/ /\ batch' = OldestPending /\ pc' = GoingOn(batch')
          /\ UNCHANGED budget
       \/ Pending # {} /\ Slips(1) /\ pc' = "poll" /\ UNCHANGED batch
    /\ UNCHANGED <<table, disk, mem, verdict, stopping, open, link, scripts, history>>

-----------------------------------------------------------------------------
(* _process_commands: the effect of a command, then its mark *)

Done(m, d) == [mem |-> m, disk |-> d, verdict |-> "done", slips |-> 0]
Failed(m)  == [mem |-> m, disk |-> disk, verdict |-> "failed", slips |-> 0]

\* What is changed in memory is saved; a save that fails is only logged.
Saved(m, d) == {Done(m, d), [Done(m, disk) EXCEPT !.slips = 1]}

SetPaused(b) ==
    IF mem.paused = b THEN {Done(mem, disk)}
    ELSE Saved([mem EXCEPT !.paused = b], [disk EXCEPT !.paused = b])

Updated(c) == Saved([mem EXCEPT !.param = c], [disk EXCEPT !.param = c])

\* An update with a change that is refused: the changes before it stay in force.
MixedUpdate(c) == {Failed([mem EXCEPT !.param = c]), Failed(mem)}

Outcomes(c) ==
    CASE table[c].type = "exit"    -> {IF open THEN Done([mem EXCEPT !.exit = TRUE], disk) ELSE Failed(mem)}
      [] table[c].type = "flatten" -> {Done([mem EXCEPT !.latch = TRUE], disk)}
      [] table[c].type = "pause"   -> SetPaused(TRUE)
      [] table[c].type = "resume"  -> SetPaused(FALSE)
      [] table[c].type = "fire"    -> {IF mem.paused THEN Failed(mem) ELSE Done([mem EXCEPT !.fire = c], disk)}
      [] table[c].type = "update"  -> Updated(c)
      [] table[c].type = "mixed"   -> MixedUpdate(c)
      [] OTHER                     -> {Done(mem, disk)}

\* Mutant: a shutdown stops the runner and says nothing to its supervisor.
RaisedNever(c) == FALSE

\* A shutdown raises the flag before it is marked.
Raised(c) == table[c].type = "shutdown"

Effect ==
    /\ pc = "effect"
    /\ LET c == Oldest(batch) IN
       /\ \E out \in Outcomes(c) : /\ Slips(out.slips)
                                   /\ mem' = out.mem /\ disk' = out.disk /\ verdict' = out.verdict
       /\ flag' = (flag \/ Raised(c))
    /\ pc' = "mark"
    /\ UNCHANGED <<table, batch, stopping, open, link, sup, script, history>>

Stops(c) == table[c].type \in {"restart", "shutdown"}
Marked(c, status) == table' = [table EXCEPT ![c].status = status]
NoStop == UNCHANGED <<stopping, tries>>

\* Mutant: the stop is requested whether or not the mark is written.
MarkThenAnyhow(c) ==
    LET stop == IF Stops(c) THEN stopping' = c /\ tries' = [tries EXCEPT ![c] = @ + 1] ELSE NoStop IN
    \/ Slips(0) /\ Marked(c, verdict) /\ stop
    \/ Slips(2) /\ UNCHANGED table /\ stop

\* Mutant: a command that could not be carried out is left as it is.
MarkDoneOnly(c) ==
    IF verdict = "failed" THEN Slips(0) /\ UNCHANGED table /\ NoStop
    ELSE /\ Slips(0) /\ Marked(c, verdict)
         /\ IF Stops(c) THEN stopping' = c /\ tries' = [tries EXCEPT ![c] = @ + 1] ELSE NoStop

\* mark, and the stop that follows it; a mark that fails is tried once more, as
\* "failed" and without the stop.
Mark(c) ==
    \/ /\ Slips(0) /\ Marked(c, verdict)
       /\ IF Stops(c) THEN stopping' = c /\ tries' = [tries EXCEPT ![c] = @ + 1] ELSE NoStop
    \/ Slips(1) /\ Marked(c, "failed") /\ NoStop
    \/ Slips(2) /\ UNCHANGED table /\ NoStop

Conclude ==
    /\ pc = "mark" /\ Mark(Oldest(batch))
    /\ batch' = batch \ {Oldest(batch)} /\ verdict' = "done"
    /\ pc' = GoingOn(batch')
    /\ UNCHANGED <<disk, mem, open, link, scripts, older>>

-----------------------------------------------------------------------------
(* The rest of the tick *)

\* A flat book clears what was asked of it; a position goes when its exit order
\* fills, for whatever reason it was sent.
ExitsAsked(m) == IF open THEN m ELSE [m EXCEPT !.exit = FALSE, !.latch = FALSE]

\* Mutant: a request to fire is kept until a straddle has been opened.
PollKeepingRequest ==
    /\ pc = "poll" /\ pc' = "idle"
    /\ \/ (mem.paused \/ open) /\ mem' = ExitsAsked(mem) /\ open' \in {open, FALSE} /\ UNCHANGED tries
       \/ /\ ~mem.paused /\ ~open /\ open' \in BOOLEAN
          /\ mem' = ExitsAsked(IF open' THEN [mem EXCEPT !.fire = NoCommand] ELSE mem)
          /\ tries' = IF mem.fire = NoCommand THEN tries ELSE [tries EXCEPT ![mem.fire] = @ + 1]
    /\ UNCHANGED <<table, disk, batch, verdict, stopping, link, scripts, budget, older>>

\* Entries and exits.  A paused strategy is passed over; a request to fire is
\* used up, for an attempt or because the entry window is closed or the strategy
\* not flat.
Poll ==
    /\ pc = "poll" /\ pc' = "idle"
    /\ LET passed == mem.paused
           request == ~passed /\ mem.fire # NoCommand
       IN  /\ mem' = ExitsAsked(IF passed THEN mem ELSE [mem EXCEPT !.fire = NoCommand])
           /\ \/ open' \in {open, FALSE} /\ UNCHANGED tries
              \/ ~passed /\ ~open /\ ~request /\ open' = TRUE /\ UNCHANGED tries
              \/ request /\ ~open /\ open' \in BOOLEAN /\ tries' = [tries EXCEPT ![mem.fire] = @ + 1]
    /\ UNCHANGED <<table, disk, batch, verdict, stopping, link, scripts, budget, older>>

-----------------------------------------------------------------------------
(* The process and the scripts around it *)

Gone == /\ pc' = "down" /\ mem' = Blank /\ batch' = {} /\ verdict' = "done" /\ stopping' = NoCommand
Launched == /\ pc' = "idle" /\ mem' = Booted /\ UNCHANGED <<batch, verdict, stopping>>

\* The runner's process is over: its supervisor ends with the flag or waits to
\* relaunch.
Supervise ==
    /\ sup = "watch"
    /\ IF flag THEN sup' = "off" /\ flag' = FALSE ELSE sup' = "nap" /\ UNCHANGED flag

\* A stop has been requested, or the periodic reconciliation raises for want of a
\* broker, outside the tick's try.
ProcessEnds ==
    /\ pc = "idle" /\ (stopping # NoCommand \/ ~link)
    /\ Gone /\ Supervise
    /\ UNCHANGED <<table, disk, open, link, script, budget, history>>

Crash ==
    /\ pc # "down" /\ budget.crashes < MaxCrashes
    /\ budget' = [budget EXCEPT !.crashes = @ + 1]
    /\ Gone /\ Supervise
    /\ UNCHANGED <<table, disk, open, link, script, history>>

\* A process that finds no broker ends in broker.connect, and the nap goes on.
Relaunch ==
    /\ sup = "nap" /\ pc = "down" /\ link
    /\ sup' = "watch" /\ Launched
    /\ UNCHANGED <<table, disk, open, link, flag, script, budget, history>>

\* The connection is lost, and perhaps made again (_auto_reconnect gives up).
LinkChanges ==
    /\ link' = ~link
    /\ IF link THEN budget.crashes < MaxCrashes /\ budget' = [budget EXCEPT !.crashes = @ + 1]
               ELSE UNCHANGED budget
    /\ UNCHANGED <<table, disk, runner, open, scripts, history>>

Scripted == /\ budget.scripts < MaxScripts
            /\ budget' = [budget EXCEPT !.scripts = @ + 1]

\* Mutant: only what the operator asked of the process is cancelled.
ClearedStops == [c \in Commands |->
    IF c \in Pending /\ table[c].type = "restart" THEN [table[c] EXCEPT !.status = "done"] ELSE table[c]]

\* The stale commands that start_system.sh cancels.
Cleared == [c \in Commands |->
    IF c \in Pending /\ table[c].type \in {"restart", "shutdown", "fire"}
    THEN [table[c] EXCEPT !.status = "done"] ELSE table[c]]

\* start_system.sh, with TWS within reach, and not while a supervisor waits to
\* relaunch (it would start a second one): a runner of today is left alone, one
\* of an earlier day killed.
StartSystem ==
    /\ Scripted /\ sup # "nap" /\ script = "idle"
    /\ flag' = FALSE /\ table' = Cleared
    /\ \/ /\ pc # "down" /\ older' = [older EXCEPT !.ran = Commands]
          /\ UNCHANGED <<runner, link, sup>>
       \/ /\ older' = [ran |-> Commands, started |-> Commands]
          /\ sup' = "watch" /\ pc' = "idle" /\ mem' = Booted /\ link' = TRUE
          /\ batch' = {} /\ verdict' = "done" /\ stopping' = NoCommand
    /\ UNCHANGED <<disk, open, script, tries>>

\* stop_system.sh raises the flag, adds a shutdown and waits; without a runner
\* it only removes the flag.
StopSystem ==
    /\ Scripted /\ script = "idle"
    /\ \/ pc # "down" /\ flag' = TRUE /\ Inserted("shutdown") /\ script' = "waiting"
       \/ pc = "down" /\ flag' = FALSE /\ UNCHANGED <<table, tries, script>>
    /\ UNCHANGED <<disk, runner, open, link, sup, older>>

\* The runner has stopped, or it is killed and the shutdown taken back; either
\* way no supervisor is left.
StopEnds ==
    /\ script = "waiting" /\ script' = "idle"
    /\ \/ pc = "down" /\ UNCHANGED <<table, runner>>
       \/ /\ pc # "down" /\ Gone
          /\ table' = [c \in Commands |-> IF c \in Pending \cap Of({"shutdown"})
                                          THEN [table[c] EXCEPT !.status = "done"] ELSE table[c]]
    /\ sup' = "off" /\ flag' = FALSE
    /\ UNCHANGED <<disk, open, link, budget, history>>

Tick == Fetch \/ Effect \/ Conclude \/ Poll \/ ProcessEnds

Next ==
    \/ \E type \in Types : Enqueue(type)
    \/ Tick \/ Crash \/ Relaunch \/ LinkChanges
    \/ StartSystem \/ StopSystem \/ StopEnds

Spec == Init /\ [][Next]_vars

\* A live process goes on with its tick or, without a broker, meets the next
\* reconciliation; a supervisor relaunches it.  Nobody has to bring the broker back.
FairSpec == Spec /\ WF_vars(Tick) /\ WF_vars(Relaunch)

-----------------------------------------------------------------------------
(* Properties *)

\* The types of the variables.
TypeOK ==
    /\ table \in Seq([type : CommandTypes, status : {"pending", "done", "failed"}])
    /\ Len(table) <= MaxCommands /\ DOMAIN tries = Commands
    /\ disk \in [paused : BOOLEAN, param : 0 .. MaxCommands]
    /\ mem \in [paused : BOOLEAN, param : 0 .. MaxCommands, exit : BOOLEAN, latch : BOOLEAN,
                fire : 0 .. MaxCommands]
    /\ pc \in {"down", "idle", "effect", "mark", "poll"}
    /\ batch \subseteq Commands /\ stopping \in Commands \cup {NoCommand}
    /\ pc \in {"effect", "mark"} <=> batch # {}
    /\ sup \in {"off", "watch", "nap"}
    /\ pc = "down" <=> sup # "watch"
    /\ link \in BOOLEAN
    /\ older \in [ran : SUBSET Commands, started : SUBSET Commands]

Final(S) == IF S = {} THEN NoCommand ELSE CHOOSE c \in S : \A d \in S : d <= c

\* With the queue drained, whatever crashes and restarts came between, the
\* strategy is paused or not, and the overlay holds, as the last command of the
\* kind said (fetch_pending's order, the mark after each effect, the files read
\* back at a start), unless a write failed.
LastWordWins ==
    (Pending = {} /\ pc = "idle" /\ budget.slips = 0) =>
        LET pauses == Of({"pause", "resume"}) IN
        /\ mem.paused = disk.paused
        /\ mem.paused = (pauses # {} /\ table[Final(pauses)].type = "pause")
        /\ disk.param = Final(Of({"update"}))

\* A restart or a shutdown ends one process, whatever is written or lost, and a
\* request to fire makes one attempt, unless a mark failed: a command that ran
\* and is fetched again after a crash never acts a second time.
ActsOnce ==
    \A c \in Commands : Stops(c) \/ budget.slips = 0 => tries[c] <= 1

\* A process stopped by a shutdown is not relaunched (the flag is there before
\* the command is done), unless start_system.sh has run since it was asked for.
ShutdownIsFinal ==
    [][pc # "down" /\ pc' = "down" /\ stopping \in Of({"shutdown"}) \ older.ran => sup' = "off"]_vars

\* A runner that start_system.sh starts is not stopped, and fires nothing, by a
\* command older than itself.
FreshStart ==
    /\ stopping \notin older.started
    /\ mem.fire \notin older.started

\* Every command comes to an end while the system runs with a broker, past lost
\* connections, crashes, failed fetches and marks.
CommandsEnd == []<>(Pending = {} \/ sup = "off" \/ ~link)

\* Not so (DASHBOARD_API.md:380, "Runner drains this table every tick"): while the
\* broker is away a tick ends before it fetches, for shutdown and restart too.
TicksDrain == []<>(Pending = {} \/ sup = "off")

\* Not so (runner.py:506): flatten_all is latched in memory only, so a restart
\* or a crash releases it with the position still open.
LatchHolds == [][mem.latch /\ open => mem'.latch \/ ~open']_vars

\* Not so (runner.py:531): a request is used up by the next tick's entries; a
\* paused strategy keeps it until it is resumed.
FiresNextTick == pc = "idle" => mem.fire = NoCommand

\* Not so (runner.py:610): an update that is refused leaves nothing behind.
RefusedChangesNothing == pc = "idle" /\ budget.slips = 0 => mem.param = disk.param

\* Not so (stop_system.sh:2): the script leaves no supervisor; it does when it
\* runs while one waits to relaunch.
StopStops == [][StopSystem /\ pc = "down" => sup = "off"]_vars

\* Not so (stop_system.sh:27): no shutdown is left to stop a future runner; one
\* is when the runner crashed before it read it.
StopTakesItsCommandBack == [][StopEnds => ~\E c \in Of({"shutdown"}) : table'[c].status = "pending"]_vars
=============================================================================
