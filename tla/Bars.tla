--------------------------------- MODULE Bars ---------------------------------
(***************************************************************************)
(* One-minute bars of the underlying (src/src/marketdata/bars.py), fed by  *)
(* the ticker callback of the broker client and read by the strategies and *)
(* by the exit check.                                                      *)
(*                                                                         *)
(* Ticks and reads run in one event loop, so each is a single step.  A     *)
(* tick carries the time of its arrival, and time does not run back: the   *)
(* branch for a tick of an earlier minute is not reached.  The deque keeps *)
(* 480 bars, a whole session; it does not overflow here.                   *)
(***************************************************************************)
EXTENDS Integers, Sequences, SequencesExt

CONSTANT Levels   \* levels the underlying takes

ASSUME LevelsAssumption == Levels \subseteq Nat \ {0}

VARIABLES
    now,     \* the minute of the clock
    level,   \* _last_bar_tick_price, 0 before the first tick
    work,    \* _working: <<>> or <<the working bar>>
    done,    \* _completed
    ticked   \* history: the minutes this process has seen a tick in

barVars == <<level, work, done, ticked>>

Bar == [m : Nat, high : Levels, low : Levels, close : Levels]

NewBar(p) == [m |-> now, high |-> p, low |-> p, close |-> p]

Updated(b, p) ==
    [b EXCEPT !.high = IF p > @ THEN p ELSE @, !.low = IF p < @ THEN p ELSE @, !.close = p]

\* The minute of the working bar is over.
Elapsed == work # <<>> /\ work[1].m < now

\* What get_completed_bars returns.
Completed == IF Elapsed THEN done \o work ELSE done

BarsInit == level = 0 /\ work = <<>> /\ done = <<>> /\ ticked = {}

\* A new process starts with an empty builder.
Forget == level' = 0 /\ work' = <<>> /\ done' = <<>> /\ ticked' = {}

\* The ticker callback passes a price on if it differs from the last one.
OnTick(p) ==
    /\ p # level
    /\ level' = p
    /\ done' = Completed
    /\ work' = IF work = <<>> \/ Elapsed THEN <<NewBar(p)>> ELSE <<Updated(work[1], p)>>
    /\ ticked' = ticked \cup {now}

\* Mutant: the bar is completed and stays the working bar.
ReadKeepingWorking == done' = Completed /\ UNCHANGED <<level, work, ticked>>

\* A read completes a working bar whose minute is over.
Read ==
    /\ done' = Completed
    /\ work' = IF Elapsed THEN <<>> ELSE work
    /\ UNCHANGED <<level, ticked>>

-----------------------------------------------------------------------------
BarsTypeOK ==
    /\ level \in Levels \cup {0} /\ ticked \subseteq 0..now
    /\ done \in Seq(Bar) /\ work \in Seq(Bar) /\ Len(work) <= 1

\* However ticks and reads fall around the end of a minute, the bars are in order and each minute
\* that saw a tick is in exactly one of them (bars.py, _maybe_roll_stale_working and on_tick both
\* complete the working bar).
BarsInOrder ==
    LET bars == done \o work IN
        /\ \A i, j \in DOMAIN bars : i < j => bars[i].m < bars[j].m
        /\ {bars[i].m : i \in DOMAIN bars} = ticked
=============================================================================
