----------------------------- MODULE SystemLock -----------------------------
(***************************************************************************)
(* Protect mode: who locks the system, who unlocks it, and what a lock     *)
(* survives.  The lock lives in three places that are written separately:  *)
(* OverrideManager.state.system_locked (src/src/control/overrides.py), its *)
(* copy in configs/overrides.yaml, and the runner's _locked_by_disconnect  *)
(* (src/src/app/runner.py).  It is set by the operator, by a broker        *)
(* reject, by a lost connection and by reconciliation; it is cleared by    *)
(* the operator and by auto-resume, each behind a reconciliation.          *)
(*                                                                         *)
(* One tick of the main loop runs through the values of place:             *)
(*   top -> cmds -> (checked | cancelling) -> entries -> end -> top        *)
(* and suspends only between them.  A reconciliation never suspends: both  *)
(* queries it awaits are answered from the broker client's caches.         *)
(***************************************************************************)
EXTENDS Naturals

CONSTANTS
    MaxHeld,     \* bound: contracts of the one option contract traded
    MaxChanges,  \* bound: changes of the broker's side of the book
    MaxRejects,  \* bound: orders ended by the broker
    MaxDrops,    \* bound: losses of the broker connection
    MaxCrashes,  \* bound: crashes and operator restarts
    MaxSaves     \* bound: commands that save overrides.yaml for another reason

ASSUME LockBoundAssumption ==
    /\ MaxHeld \in Nat /\ MaxChanges \in Nat /\ MaxRejects \in Nat
    /\ MaxDrops \in Nat /\ MaxCrashes \in Nat /\ MaxSaves \in Nat

VARIABLES
    place,      \* where the main loop is suspended; "down": no process
    locked,     \* OverrideManager.state.system_locked
    saved,      \* system_locked in overrides.yaml
    byDisc,     \* runner._locked_by_disconnect
    rejected,   \* broker_rejected_order_ids is not empty
    open,       \* ~locked as this tick's entry gate read it
    elapsed,    \* the reconciliation interval has elapsed
    connected,  \* broker.is_connected()
    held,       \* position according to PositionManager
    atBroker,   \* position according to the broker
    stray,      \* the two lists of open orders differ
    reasons,    \* history: what the system must be locked for
    known,      \* history: the reasons at this tick's check for rejects
    used        \* how much of each bound has been used

lockVars == <<locked, saved, byDisc>>
bookVars == <<held, atBroker, stray>>
gateVars == <<open, known>>
runVars == <<place, lockVars, rejected, gateVars, elapsed, connected, bookVars, reasons, used>>

Reasons == {"operator", "mismatch", "reject", "disconnect"}

LockTypeOK ==
    /\ place \in {"down", "top", "cmds", "checked", "cancelling", "entries", "end"}
    /\ locked \in BOOLEAN /\ saved \in BOOLEAN /\ byDisc \in BOOLEAN /\ rejected \in BOOLEAN
    /\ open \in BOOLEAN /\ elapsed \in BOOLEAN /\ connected \in BOOLEAN /\ stray \in BOOLEAN
    /\ held \in 0 .. MaxHeld /\ atBroker \in 0 .. MaxHeld
    /\ reasons \subseteq Reasons /\ known \subseteq Reasons
    /\ used \in [changes : 0 .. MaxChanges, rejects : 0 .. MaxRejects, drops : 0 .. MaxDrops,
                 crashes : 0 .. MaxCrashes, saves : 0 .. MaxSaves]

LockInit ==
    /\ place = "down"
    /\ locked = FALSE /\ saved = FALSE /\ byDisc = FALSE
    /\ rejected = FALSE /\ open = FALSE /\ elapsed = FALSE /\ connected = FALSE
    /\ held = 0 /\ atBroker = 0 /\ stray = FALSE
    /\ reasons = {} /\ known = {}
    /\ used = [changes |-> 0, rejects |-> 0, drops |-> 0, crashes |-> 0, saves |-> 0]

-----------------------------------------------------------------------------
(* OverrideManager and reconciliation, as updates of the lock *)

\* lock_system and unlock_system save only what they change.
LockSystem ==
    /\ locked' = TRUE
    /\ saved' = (saved \/ ~locked)

UnlockSystem ==
    /\ locked' = FALSE
    /\ saved' = (saved /\ ~locked)

\* The discrepancies reconcile calls severe: a position that the broker does
\* not have, or has in another quantity.
Severe == held # 0 /\ held # atBroker

Clean == held = atBroker /\ ~stray

\* Mutant: discrepancies are left to the engine, which locks for severe ones.
NotCleanForgets == UNCHANGED <<locked, saved>>

\* _run_reconciliation with a report that is not clean: the engine locks (and
\* saves) for a severe discrepancy, the runner then locks for any.
NotClean ==
    /\ locked' = TRUE
    /\ saved' = (saved \/ (Severe /\ ~locked))

-----------------------------------------------------------------------------
(* The main loop *)

\* start: overrides.yaml is loaded, the positions are seeded from the broker,
\* and the first reconciliation runs.
Boot ==
    /\ place = "down"
    /\ place' = "top"
    /\ connected' = TRUE
    /\ byDisc' = FALSE /\ rejected' = FALSE /\ elapsed' = FALSE
    /\ held' = atBroker
    /\ locked' = (saved \/ stray)
    /\ reasons' = CASE stray -> reasons \cup {"mismatch"}
                    [] ~stray /\ saved -> reasons
                    [] OTHER -> reasons \ {"disconnect"}
    /\ UNCHANGED <<saved, gateVars, atBroker, stray, used>>

\* The top of _main_loop with a broker: a lock of disconnect provenance is
\* lifted by a clean reconciliation, and loses that provenance by any other.
TopAutoResume ==
    /\ place = "top" /\ connected /\ locked /\ byDisc
    /\ IF Clean THEN UnlockSystem /\ reasons' = reasons \ {"disconnect"}
                ELSE NotClean /\ reasons' = reasons \cup {"mismatch"}
    /\ byDisc' = FALSE /\ elapsed' = FALSE
    /\ place' = "cmds"
    /\ UNCHANGED <<rejected, gateVars, connected, bookVars, used>>

TopTick ==
    /\ place = "top" /\ connected /\ ~(locked /\ byDisc)
    /\ place' = "cmds"
    /\ UNCHANGED <<lockVars, rejected, gateVars, elapsed, connected, bookVars, reasons, used>>

\* Mutant: the lock is saved, its provenance is not.
TopDisconnectedSaved ==
    /\ place = "top" /\ ~connected
    /\ LockSystem /\ byDisc' = TRUE
    /\ reasons' = reasons \cup {"disconnect"}
    /\ place' = "end"
    /\ UNCHANGED <<rejected, gateVars, elapsed, connected, bookVars, used>>

\* _process_tick without a broker: lock, and nothing else this tick.
TopDisconnected ==
    /\ place = "top" /\ ~connected
    /\ locked' = TRUE /\ byDisc' = TRUE
    /\ reasons' = reasons \cup {"disconnect"}
    /\ place' = "end"
    /\ UNCHANGED <<saved, rejected, gateVars, elapsed, connected, bookVars, used>>

\* _process_commands: any commands, in any order.
CmdLock ==
    /\ place = "cmds"
    /\ LockSystem
    /\ reasons' = reasons \cup {"operator"}
    /\ UNCHANGED <<place, byDisc, rejected, gateVars, elapsed, connected, bookVars, used>>

\* A reject the runner has not seen yet is not what the operator unlocks.
Pending == IF rejected THEN {"reject"} ELSE {}

\* Mutant: what reconciliation says does not matter.
CmdUnlockUnchecked ==
    /\ place = "cmds" /\ connected
    /\ UnlockSystem /\ byDisc' = FALSE
    /\ reasons' = IF Clean THEN Pending ELSE reasons \cup {"mismatch"}
    /\ elapsed' = FALSE
    /\ UNCHANGED <<place, rejected, gateVars, connected, bookVars, used>>

\* Without a connection the reconciliation raises and the command has failed.
CmdUnlock ==
    /\ place = "cmds" /\ connected
    /\ IF Clean THEN UnlockSystem /\ byDisc' = FALSE /\ reasons' = Pending
                ELSE NotClean /\ UNCHANGED byDisc /\ reasons' = reasons \cup {"mismatch"}
    /\ elapsed' = FALSE
    /\ UNCHANGED <<place, rejected, gateVars, connected, bookVars, used>>

\* pause_strategy saves the whole override state, the lock included.
CmdSave ==
    /\ place = "cmds"
    /\ used.saves < MaxSaves
    /\ saved' = locked
    /\ used' = [used EXCEPT !.saves = @ + 1]
    /\ UNCHANGED <<place, locked, byDisc, rejected, gateVars, elapsed, connected, bookVars, reasons>>

\* Mutant: the active orders are cancelled, the system is not locked.
ManageCancelsOnly ==
    /\ place = "cmds"
    /\ place' = IF rejected THEN "cancelling" ELSE "checked"
    /\ known' = reasons
    /\ UNCHANGED <<lockVars, rejected, open, elapsed, connected, bookVars, reasons, used>>

\* _manage_active_orders, up to its check for orders the broker has ended: one
\* of them locks the system and all active orders are cancelled; without one,
\* timed-out entries and the peers of failed legs are.  Each cancel suspends.
Manage ==
    /\ place = "cmds"
    /\ IF rejected THEN place' = "cancelling" /\ LockSystem
                   ELSE place' = "checked" /\ UNCHANGED <<locked, saved>>
    /\ known' = reasons
    /\ UNCHANGED <<byDisc, rejected, open, elapsed, connected, bookVars, reasons, used>>

\* _process_tick reads the entry gate, and no reject reported since the check.
ReadGate ==
    /\ place = "checked"
    /\ open' = ~locked
    /\ place' = "entries"
    /\ UNCHANGED <<lockVars, rejected, known, elapsed, connected, bookVars, reasons, used>>

\* broker_rejected_order_ids.clear() also forgets what was added meanwhile.
ManageCancelled ==
    /\ place = "cancelling"
    /\ rejected' = FALSE
    /\ open' = ~locked
    /\ place' = "entries"
    /\ UNCHANGED <<lockVars, known, elapsed, connected, bookVars, reasons, used>>

\* The strategies have been polled and the exits checked.
EndTick ==
    /\ place = "entries"
    /\ open' = FALSE /\ known' = {}
    /\ place' = "end"
    /\ UNCHANGED <<lockVars, rejected, elapsed, connected, bookVars, reasons, used>>

\* The periodic reconciliation.  It is outside the tick's try: an exception
\* ends the loop, and with it the process.
Reconcile ==
    /\ place = "end" /\ elapsed /\ connected
    /\ IF Clean THEN UNCHANGED <<locked, saved, reasons>>
                ELSE NotClean /\ reasons' = reasons \cup {"mismatch"}
    /\ elapsed' = FALSE
    /\ place' = "top"
    /\ UNCHANGED <<byDisc, rejected, gateVars, connected, bookVars, used>>

\* The process ends; only overrides.yaml is left.  A reject that was not
\* turned into a saved lock is forgotten with the order it belonged to.
Die ==
    /\ place' = "down"
    /\ locked' = FALSE /\ byDisc' = FALSE /\ rejected' = FALSE /\ elapsed' = FALSE
    /\ open' = FALSE /\ known' = {}
    /\ reasons' = IF saved THEN reasons ELSE reasons \ {"reject"}
    /\ UNCHANGED <<saved, connected, bookVars>>

ReconcileRaises == place = "end" /\ elapsed /\ ~connected /\ Die /\ UNCHANGED used

Sleep ==
    /\ place = "end" /\ ~elapsed
    /\ place' = "top"
    /\ UNCHANGED <<lockVars, rejected, gateVars, elapsed, connected, bookVars, reasons, used>>

-----------------------------------------------------------------------------
(* What happens around it *)

Elapse ==
    /\ place # "down" /\ ~elapsed
    /\ elapsed' = TRUE
    /\ UNCHANGED <<place, lockVars, rejected, gateVars, connected, bookVars, reasons, used>>

\* _on_broker_order_update: the broker ended an order on its own.
Reject ==
    /\ place # "down" /\ connected
    /\ used.rejects < MaxRejects
    /\ rejected' = TRUE
    /\ reasons' = reasons \cup {"reject"}
    /\ used' = [used EXCEPT !.rejects = @ + 1]
    /\ UNCHANGED <<place, lockVars, gateVars, elapsed, connected, bookVars>>

\* A fill, an expiry, a trade or an order made by hand in TWS.
BrokerChanges ==
    /\ used.changes < MaxChanges
    /\ \/ atBroker' \in (0 .. MaxHeld) \ {atBroker} /\ UNCHANGED stray
       \/ stray' = ~stray /\ UNCHANGED atBroker
    /\ used' = [used EXCEPT !.changes = @ + 1]
    /\ UNCHANGED <<place, lockVars, rejected, gateVars, elapsed, connected, held, reasons>>

\* The fills that explain the broker's position are handled.
FillsHandled ==
    /\ place # "down" /\ connected
    /\ held # atBroker
    /\ held' = atBroker
    /\ UNCHANGED <<place, lockVars, rejected, gateVars, elapsed, connected, atBroker, stray, reasons, used>>

Disconnect ==
    /\ place # "down" /\ connected
    /\ used.drops < MaxDrops
    /\ connected' = FALSE
    /\ used' = [used EXCEPT !.drops = @ + 1]
    /\ UNCHANGED <<place, lockVars, rejected, gateVars, elapsed, bookVars, reasons>>

\* _auto_reconnect, until it has used up its retries.
Reconnect ==
    /\ place # "down" /\ ~connected
    /\ connected' = TRUE
    /\ UNCHANGED <<place, lockVars, rejected, gateVars, elapsed, bookVars, reasons, used>>

\* A crash, or the operator's restart_runner.
Crash ==
    /\ place # "down"
    /\ used.crashes < MaxCrashes
    /\ Die
    /\ used' = [used EXCEPT !.crashes = @ + 1]

Loop ==
    \/ TopAutoResume \/ TopTick \/ TopDisconnected
    \/ Manage \/ ReadGate \/ ManageCancelled \/ EndTick
    \/ Reconcile \/ ReconcileRaises \/ Sleep

LockNext ==
    \/ Boot \/ Loop
    \/ CmdLock \/ CmdUnlock \/ CmdSave
    \/ Elapse \/ Reject \/ BrokerChanges \/ FillsHandled
    \/ Disconnect \/ Reconnect \/ Crash

LockSpec == LockInit /\ [][LockNext]_runVars

\* The loop keeps turning, the supervisor relaunches the process, and time
\* passes.  A connection need not come back: retries are limited.
LockFairSpec == LockSpec /\ WF_runVars(Boot) /\ WF_runVars(Loop) /\ WF_runVars(Elapse)

-----------------------------------------------------------------------------
(* Properties *)

Human == {"operator", "mismatch"}

\* The connection and the process have lasted so far.
Undisturbed == place # "down" /\ used.drops = 0 /\ used.crashes = 0

\* As long as the connection and the process last, a manual or reconciliation
\* lock stays until an operator's unlock finds the book clean.
HumanLocksHold == Undisturbed /\ reasons \cap Human # {} => locked

\* What the operator has locked only the operator unlocks: "auto-resume may
\* ONLY clear locks with this provenance - manual and reconciliation locks
\* always require human action", and overrides are "persisted to
\* configs/overrides.yaml on mutation", so a restart does not unlock either.
OperatorLockHolds == place # "down" /\ "operator" \in reasons => locked

\* ... and no tick polls strategies for entries while there is an unresolved
\* reason to be locked.  The exception is a broker reject reported after the
\* tick's check for rejects, while timeouts and peer cancels are awaited: it
\* shuts the gate from the next tick on.
GateShutForReason ==
    [][Undisturbed /\ place' = "entries" /\ place # "entries" /\ open'
        => known = {} /\ reasons \subseteq {"reject"}]_runVars

\* "Hard Rule 7 fail-closed", taken at its word: a reject that has been
\* reported shuts the gate of the tick that reads it afterwards.
GateShutAtOnce ==
    [][Undisturbed /\ place' = "entries" /\ place # "entries" /\ open' => reasons = {}]_runVars

\* "Unlock from the dashboard is reconciliation-gated: it succeeds only into a
\* verified-clean state", and so is auto-resume.
UnlocksIntoCleanBook == [][locked /\ ~locked' /\ place' # "down" => Clean]_runVars

\* Fail closed: a severe discrepancy that lasts is locked, also if the
\* connection never comes back.
SevereLocks == Severe /\ place # "down" ~> locked \/ ~Severe

\* "Disconnect-provenance locks auto-resume after a clean reconciliation": a
\* lock nobody asked for ends without anybody's help, also across restarts and
\* saves, unless another reason to be locked turns up.
DisconnectLockClears == reasons = {"disconnect"} ~> reasons # {"disconnect"}

\* "The tick loop keeps running": no lock ends it.
LockedLoopRuns == [][place # "down" /\ locked /\ used'.crashes = used.crashes => place' # "down"]_runVars

\* "WARN (no lock)": only a severe discrepancy makes reconciliation lock.
WarningsDoNotLock ==
    [][~locked /\ locked' /\ "mismatch" \in reasons' \ reasons => Severe]_runVars
=============================================================================
