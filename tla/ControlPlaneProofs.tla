-------------------------- MODULE ControlPlaneProofs --------------------------
(***************************************************************************)
(* Theorems about the command queue, for any number of commands, any batch *)
(* size and any number of crashes, lost connections, failed writes and runs *)
(* of the scripts.                                                         *)
(*                                                                         *)
(* ShutdownIsFinal follows from FlagIsUp: the flag is raised before the    *)
(* mark, and only a start or a stop by script takes it down.  FreshStart   *)
(* is part of StartedClean, which also says that nothing old is left to be *)
(* fetched.  ActsOnce is part of StopsOnce and FiresOnce: what has acted   *)
(* is neither pending nor in the batch nor requested.                      *)
(*                                                                         *)
(* LastWordWins follows from WordInv.  The marks are made in the order of  *)
(* the commands (InOrder), and the files say what the marked commands say, *)
(* or these and the oldest that is not marked: it has had its effect and   *)
(* has its mark still to come, or lost it in a crash and will be carried   *)
(* out once more (DiskFollows).                                            *)
(***************************************************************************)
EXTENDS ControlPlane, SequenceTheorems, FiniteSetTheorems, WellFoundedInduction, TLAPS

\* The commands that leave something in the files.
Lasting == Of({"pause", "resume", "update"})

\* The commands A of table t leave a strategy paused, and the overlay with value v.
PausedBy(t, A) ==
    \E c \in A : /\ t[c].type = "pause"
                 /\ \A d \in A : t[d].type = "resume" => d < c
ParamBy(t, A, v) ==
    /\ v = NoCommand \/ (v \in A /\ t[v].type = "update")
    /\ \A d \in A : t[d].type = "update" => d <= v

\* Files f say what the commands A of table t say.
Says(f, t, A) == (f.paused <=> PausedBy(t, A)) /\ ParamBy(t, A, f.param)
DiskSays(A) == Says(disk, table, A)

Marking(c) == pc = "mark" /\ c = Oldest(batch)

CtlTypes ==
    /\ TypeOK
    /\ tries \in [Commands -> Nat]
    /\ budget \in [crashes : Nat, slips : Nat, scripts : Nat]
    /\ verdict \in {"done", "failed"} /\ open \in BOOLEAN /\ flag \in BOOLEAN
    /\ pc = "down" => stopping = NoCommand

\* The flag is up before a shutdown has its mark.
FlagIsUp ==
    \A c \in Of({"shutdown"}) \ older.ran : stopping = c \/ Marking(c) => flag

\* Nothing that stops or fires is left of the commands there were at a start.
StartedClean ==
    \A c \in older.started :
        /\ stopping # c /\ mem.fire # c
        /\ Stops(c) \/ table[c].type = "fire" => c \notin Pending \cup batch

\* A command that has acted is not there to act again.
StopsOnce ==
    \A c \in Commands : Stops(c) =>
        tries[c] = 0 \/ (tries[c] = 1 /\ c \notin Pending \cup batch)
FiresOnce ==
    /\ mem.fire # NoCommand => mem.fire \in Of({"fire"})
    /\ budget.slips = 0 => \A c \in Commands : ~Stops(c) =>
        /\ tries[c] = 0 \/ (tries[c] = 1 /\ c \notin Pending \cup batch /\ mem.fire # c)
        /\ mem.fire = c => c \notin Pending \cup batch \/ Marking(c)

\* Lasting commands are marked in their order.
InOrder ==
    /\ \A c \in Lasting \ Pending, d \in Lasting \cap Pending : c < d
    /\ \A b \in batch, d \in Lasting \cap Pending : d \in batch \/ b < d
    /\ batch \cap Lasting \subseteq Pending

\* The files say what the marked ones say, or these and the next, which is the case
\* from its effect to its mark and after a crash in between.
DiskFollows ==
    /\ pc # "down" => mem.paused = disk.paused
    /\ \/ DiskSays(Lasting \ Pending)
       \/ \E f \in Lasting \cap Pending :
            /\ \A d \in Lasting \cap Pending : f <= d
            /\ DiskSays((Lasting \ Pending) \cup {f})
    /\ \A c \in Lasting : Marking(c) => DiskSays((Lasting \ Pending) \cup {c})

WordInv == budget.slips = 0 => InOrder /\ DiskFollows

-----------------------------------------------------------------------------
(* Natural numbers *)

\* The least of them.
LEMMA Least == ASSUME NEW S \in SUBSET Nat, S # {} PROVE \E x \in S : \A y \in S : x <= y
<1>1. PICK x \in S : \A y \in S : <<y, x>> \notin OpToRel(<, Nat)
    BY WFMin, NatLessThanWellFounded, Zenon
<1>2. \A y \in S : ~(y < x)
    BY <1>1 DEF OpToRel
<1> QED
    BY <1>2

\* The greatest, if they are bounded.
LEMMA Greatest ==
    ASSUME NEW S \in SUBSET Nat, S # {}, NEW n \in Nat, \A y \in S : y <= n
    PROVE  \E x \in S : \A y \in S : y <= x
<1> DEFINE B == {k \in Nat : \A y \in S : y <= k}
<1>1. PICK k \in B : \A b \in B : k <= b
    <2>1. B \in SUBSET Nat /\ B # {}
        OBVIOUS
    <2> HIDE DEF B
    <2> QED
        BY <2>1, Least
<1>2. k \in S
    <2> SUFFICES ASSUME k \notin S PROVE FALSE
        OBVIOUS
    <2>1. \A y \in S : y \in Nat /\ y < k
        BY <1>1
    <2>2. k \in Nat /\ k - 1 \in Nat
        <3>1. PICK y \in S : y \in Nat /\ y < k
            BY <2>1
        <3> QED
            BY <3>1
    <2>3. k - 1 \in B
        BY <2>1, <2>2
    <2> QED
        BY <2>2, <2>3, <1>1
<1> QED
    BY <1>1, <1>2

\* The next of a batch is in it and older than the others.
LEMMA OldestIs ==
    ASSUME NEW b \in SUBSET Nat, b # {}
    PROVE  Oldest(b) \in b /\ \A d \in b : Oldest(b) <= d
BY Least DEF Oldest

-----------------------------------------------------------------------------
(* The table *)

Command == [type : CommandTypes, status : {"pending", "done", "failed"}]

\* What the type invariant says of the table.
LEMMA TableTypes ==
    ASSUME CtlTypes
    PROVE  /\ Len(table) \in Nat /\ Commands = 1 .. Len(table) /\ Commands \subseteq Nat \ {NoCommand}
           /\ \A c \in Commands : /\ table[c] \in Command
                                  /\ table[c].type \in CommandTypes
                                  /\ table[c].status \in {"pending", "done", "failed"}
           /\ table \in Seq(Command)
           /\ batch \subseteq Commands /\ older.ran \subseteq Commands /\ older.started \subseteq Commands
           /\ MaxCommands \in Nat
<1>1. table \in Seq(Command)
    BY DEF CtlTypes, TypeOK, Command
<1>2. Len(table) \in Nat /\ Commands = 1 .. Len(table)
    BY <1>1, LenProperties DEF Commands
<1>3. \A c \in Commands : table[c] \in Command
    BY <1>1, <1>2, ElementOfSeq
<1>4. /\ batch \subseteq Commands
      /\ older \in [ran : SUBSET Commands, started : SUBSET Commands]
    BY DEF CtlTypes, TypeOK
<1>5. MaxCommands \in Nat
    BY ControlAssumption
<1>6. Commands \subseteq Nat \ {NoCommand}
    BY <1>2 DEF NoCommand
<1>7. \A c \in Commands : table[c].type \in CommandTypes /\ table[c].status \in {"pending", "done", "failed"}
    BY <1>3 DEF Command
<1> QED
    BY <1>1, <1>2, <1>3, <1>4, <1>5, <1>6, <1>7

\* A command is added at the end and waits.
LEMMA Insertion ==
    ASSUME CtlTypes, NEW type \in CommandTypes, Inserted(type)
    PROVE  /\ table' \in Seq(Command) /\ Len(table') <= MaxCommands
           /\ Commands' = Commands \cup {Len(table) + 1}
           /\ \A c \in Commands : table'[c] = table[c] /\ tries'[c] = tries[c] /\ c < Len(table) + 1
           /\ table'[Len(table) + 1] = Row(type) /\ tries'[Len(table) + 1] = 0
           /\ tries' \in [Commands' -> Nat]
           /\ Pending' = Pending \cup {Len(table) + 1}
<1> DEFINE n == Len(table) + 1
<1>1. table \in Seq(Command) /\ Len(table) \in Nat /\ Commands = 1 .. Len(table) /\ Row(type) \in Command
    BY TableTypes DEF Row, Command
<1>2. /\ table' \in Seq(Command) /\ Len(table') = n /\ \A i \in 1 .. Len(table) : table'[i] = table[i]
      /\ table'[n] = Row(type)
    BY <1>1, AppendProperties DEF Inserted
<1>3. tries \in Seq(Nat) /\ Len(tries) = Len(table)
    <2>1. tries \in [1 .. Len(table) -> Nat]
        BY <1>1 DEF CtlTypes
    <2>2. tries \in Seq(Nat)
        BY <2>1, <1>1, SeqDef
    <2> QED
        BY <2>1, <2>2, <1>1, LenProperties
<1>4. /\ tries' \in Seq(Nat) /\ Len(tries') = n /\ \A i \in 1 .. Len(table) : tries'[i] = tries[i]
      /\ tries'[n] = 0
    BY <1>3, AppendProperties DEF Inserted
<1>5. Commands' = 1 .. n /\ tries' \in [1 .. n -> Nat]
    BY <1>2, <1>4, LenProperties DEF Commands
<1>6. Commands' = Commands \cup {n}
    BY <1>1, <1>5
<1>7. Len(table') <= MaxCommands
    BY <1>1, <1>2, ControlAssumption DEF Inserted
<1>8. Pending' = Pending \cup {n}
    BY <1>1, <1>2, <1>6 DEF Pending, Row
<1> QED
    BY <1>1, <1>2, <1>4, <1>5, <1>6, <1>7, <1>8

\* Commands get other marks, their number and types remain.
Remarked ==
    /\ table' \in [Commands -> Command]
    /\ \A c \in Commands : table'[c].type = table[c].type

\* Which keeps what there is to do.
LEMMA Remarking ==
    ASSUME CtlTypes, Remarked
    PROVE  /\ table' \in Seq(Command) /\ Len(table') = Len(table)
           /\ Commands' = Commands
           /\ \A types : Of(types)' = Of(types)
<1>1. Len(table) \in Nat /\ Commands = 1 .. Len(table)
    BY TableTypes
<1>2. table' \in Seq(Command)
    BY <1>1, SeqDef DEF Remarked
<1>3. Commands' = Commands
    BY DEF Commands, Remarked
<1>4. Len(table') = Len(table)
    BY <1>1, <1>2, <1>3, LenProperties DEF Commands
<1>5. \A types : Of(types)' = Of(types)
    BY <1>3 DEF Of, Remarked
<1> QED
    BY <1>2, <1>3, <1>4, <1>5

\* A mark.
LEMMA MarkedOne ==
    ASSUME CtlTypes, NEW c \in Commands, NEW status \in {"done", "failed"}, Marked(c, status)
    PROVE  Remarked /\ Pending' = Pending \ {c}
<1>1. /\ table' \in [Commands -> Command]
      /\ \A d \in Commands : /\ table'[d].type = table[d].type
                             /\ table'[d].status = IF d = c THEN status ELSE table[d].status
    BY TableTypes DEF Marked, Command, Commands
<1>2. Commands' = Commands
    BY <1>1 DEF Commands
<1> QED
    BY <1>1, <1>2 DEF Remarked, Pending

\* What the scripts take back.
LEMMA TakenBack ==
    ASSUME CtlTypes, NEW S, table' = [c \in Commands |-> IF c \in S THEN [table[c] EXCEPT !.status = "done"] ELSE table[c]]
    PROVE  Remarked /\ Pending' = Pending \ S
<1>1. /\ table' \in [Commands -> Command]
      /\ \A d \in Commands : /\ table'[d].type = table[d].type
                             /\ table'[d].status = IF d \in S THEN "done" ELSE table[d].status
    BY TableTypes DEF Command
<1>2. Commands' = Commands
    BY <1>1 DEF Commands
<1> QED
    BY <1>1, <1>2 DEF Remarked, Pending

\* What start_system.sh cancels.
LEMMA ClearedOnes ==
    ASSUME CtlTypes, table' = Cleared
    PROVE  Remarked /\ Pending' = Pending \ Of({"restart", "shutdown", "fire"})
<1> DEFINE S == Pending \cap Of({"restart", "shutdown", "fire"})
<1>1. table' = [c \in Commands |-> IF c \in S THEN [table[c] EXCEPT !.status = "done"] ELSE table[c]]
    BY DEF Cleared, Of
<1> HIDE DEF S
<1>2. Remarked /\ Pending' = Pending \ S
    BY <1>1, TakenBack
<1> QED
    BY <1>2 DEF S

\* A fetch takes the oldest.
LEMMA FetchedFirst ==
    ASSUME CtlTypes, NEW c \in OldestPending, NEW d \in Pending, d < c
    PROVE  d \in OldestPending
<1> DEFINE Before(x) == {e \in Pending : e < x}
<1>1. Pending \subseteq 1 .. Len(table) /\ Len(table) \in Nat /\ Pending \subseteq Int
    BY TableTypes DEF Pending
<1>2. IsFiniteSet(Before(c)) /\ Cardinality(Before(c)) \in Nat
    <2>1. IsFiniteSet(1 .. Len(table))
        BY <1>1, FS_Interval
    <2>2. Before(c) \in SUBSET (1 .. Len(table))
        BY <1>1
    <2> QED
        BY <2>1, <2>2, FS_Subset, FS_CardinalityType
<1>3. Before(d) \in SUBSET Before(c)
    <2>1. c \in Int /\ d \in Int /\ d < c
        BY <1>1 DEF OldestPending
    <2>2. ASSUME NEW e \in Pending, e < d PROVE e < c
        BY <1>1, <2>1, <2>2
    <2> QED
        BY <2>2
<1>4. Cardinality(Before(d)) <= Cardinality(Before(c)) /\ Cardinality(Before(d)) \in Nat
    BY <1>2, <1>3, FS_Subset, FS_CardinalityType
<1>5. Cardinality(Before(c)) < Limit /\ Limit \in Nat
    BY ControlAssumption DEF OldestPending
<1> QED
    BY <1>2, <1>4, <1>5 DEF OldestPending

-----------------------------------------------------------------------------
(* Types *)

Memory == [paused : BOOLEAN, param : 0 .. MaxCommands, exit : BOOLEAN, latch : BOOLEAN,
           fire : 0 .. MaxCommands]
Files == [paused : BOOLEAN, param : 0 .. MaxCommands]

\* A process starts with what the files say.
LEMMA Boots ==
    ASSUME disk \in Files
    PROVE  /\ Blank \in Memory /\ Blank.fire = NoCommand
           /\ Booted \in Memory /\ Booted.fire = NoCommand /\ Booted.paused = disk.paused
<1>1. disk \in Files /\ 0 \in 0 .. MaxCommands
    BY ControlAssumption
<1>2. disk.paused \in BOOLEAN /\ disk.param \in 0 .. MaxCommands
    BY <1>1 DEF Files
<1>3. Blank \in Memory /\ Blank.fire = NoCommand
    BY <1>1 DEF Blank, Memory, NoCommand
<1>4. Booted = [[Blank EXCEPT !.paused = disk.paused] EXCEPT !.param = disk.param]
    BY DEF Booted, Blank
<1>5. Booted \in Memory /\ Booted.fire = NoCommand /\ Booted.paused = disk.paused
    BY <1>1, <1>2, <1>3, <1>4 DEF Memory, NoCommand
<1> QED
    BY <1>3, <1>5

\* What a command does: to the requests, to the pause, to the overlay.
LEMMA WhatItDoes ==
    ASSUME CtlTypes, NEW c \in Commands, NEW out \in Outcomes(c)
    PROVE  /\ out.mem \in Memory /\ out.disk \in Files /\ out.verdict \in {"done", "failed"}
           /\ out.slips \in Nat
           /\ out.mem.fire = mem.fire \/ (out.mem.fire = c /\ table[c].type = "fire")
           /\ out.slips = 0 /\ mem.paused = disk.paused =>
                /\ out.mem.paused = out.disk.paused
                /\ table[c].type = "pause" => out.disk.paused
                /\ table[c].type = "resume" => ~out.disk.paused
                /\ table[c].type \notin {"pause", "resume"} => out.disk.paused = disk.paused
                /\ table[c].type = "update" => out.disk.param = c
                /\ table[c].type # "update" => out.disk.param = disk.param
<1>1. /\ mem \in Memory /\ disk \in Files /\ c \in 0 .. MaxCommands
      /\ table[c].type \in CommandTypes
    <2>1. Len(table) <= MaxCommands /\ Len(table) \in Nat /\ MaxCommands \in Nat /\ c \in 1 .. Len(table)
        BY TableTypes DEF CtlTypes, TypeOK
    <2> QED
        BY <2>1, TableTypes DEF CtlTypes, TypeOK, Memory, Files
<1> DEFINE type == table[c].type
<1>2. CASE type = "exit"
    <2>1. out = IF open THEN Done([mem EXCEPT !.exit = TRUE], disk) ELSE Failed(mem)
        BY <1>2 DEF Outcomes
    <2> QED
        BY <1>1, <1>2, <2>1 DEF Done, Failed, Memory
<1>3. CASE type = "flatten"
    <2>1. out = Done([mem EXCEPT !.latch = TRUE], disk)
        BY <1>3 DEF Outcomes
    <2> QED
        BY <1>1, <1>3, <2>1 DEF Done, Memory
<1>4. CASE type = "pause"
    <2>1. \/ out = Done(mem, disk) /\ mem.paused = TRUE
          \/ out = Done([mem EXCEPT !.paused = TRUE], [disk EXCEPT !.paused = TRUE])
          \/ out = [Done([mem EXCEPT !.paused = TRUE], disk) EXCEPT !.slips = 1]
        BY <1>4 DEF Outcomes, SetPaused, Saved
    <2>2. [mem EXCEPT !.paused = TRUE] \in Memory /\ [disk EXCEPT !.paused = TRUE] \in Files
        BY <1>1 DEF Memory, Files
    <2>3. /\ [mem EXCEPT !.paused = TRUE].fire = mem.fire
          /\ [mem EXCEPT !.paused = TRUE].paused = TRUE
          /\ [disk EXCEPT !.paused = TRUE].paused = TRUE /\ [disk EXCEPT !.paused = TRUE].param = disk.param
        BY <1>1 DEF Memory, Files
    <2>4. CASE out = Done(mem, disk) /\ mem.paused = TRUE
        <3>1. out.mem = mem /\ out.disk = disk /\ out.verdict = "done" /\ out.slips = 0
            BY <2>4 DEF Done
        <3>2. mem.paused = disk.paused => out.disk.paused /\ out.mem.paused = out.disk.paused
            BY <2>4, <3>1
        <3> QED
            BY <1>1, <1>4, <3>1, <3>2
    <2>5. CASE out = Done([mem EXCEPT !.paused = TRUE], [disk EXCEPT !.paused = TRUE])
        <3>1. /\ out.mem = [mem EXCEPT !.paused = TRUE] /\ out.disk = [disk EXCEPT !.paused = TRUE]
              /\ out.verdict = "done" /\ out.slips = 0
            BY <2>5 DEF Done
        <3>2. out.disk.paused /\ out.mem.paused = out.disk.paused
            BY <2>3, <3>1
        <3> QED
            BY <1>4, <2>2, <2>3, <3>1, <3>2
    <2>6. CASE out = [Done([mem EXCEPT !.paused = TRUE], disk) EXCEPT !.slips = 1]
        <3>1. /\ out.mem = [mem EXCEPT !.paused = TRUE] /\ out.disk = disk
              /\ out.verdict = "done" /\ out.slips = 1
            BY <2>6 DEF Done
        <3> QED
            BY <1>1, <1>4, <2>2, <2>3, <3>1
    <2> QED
        BY <2>1, <2>4, <2>5, <2>6
<1>5. CASE type = "resume"
    <2>1. \/ out = Done(mem, disk) /\ mem.paused = FALSE
          \/ out = Done([mem EXCEPT !.paused = FALSE], [disk EXCEPT !.paused = FALSE])
          \/ out = [Done([mem EXCEPT !.paused = FALSE], disk) EXCEPT !.slips = 1]
        BY <1>5 DEF Outcomes, SetPaused, Saved
    <2>2. [mem EXCEPT !.paused = FALSE] \in Memory /\ [disk EXCEPT !.paused = FALSE] \in Files
        BY <1>1 DEF Memory, Files
    <2>3. /\ [mem EXCEPT !.paused = FALSE].fire = mem.fire
          /\ [mem EXCEPT !.paused = FALSE].paused = FALSE
          /\ [disk EXCEPT !.paused = FALSE].paused = FALSE /\ [disk EXCEPT !.paused = FALSE].param = disk.param
        BY <1>1 DEF Memory, Files
    <2>4. CASE out = Done(mem, disk) /\ mem.paused = FALSE
        <3>1. out.mem = mem /\ out.disk = disk /\ out.verdict = "done" /\ out.slips = 0
            BY <2>4 DEF Done
        <3>2. mem.paused = disk.paused => ~out.disk.paused /\ out.mem.paused = out.disk.paused
            BY <2>4, <3>1
        <3> QED
            BY <1>1, <1>5, <3>1, <3>2
    <2>5. CASE out = Done([mem EXCEPT !.paused = FALSE], [disk EXCEPT !.paused = FALSE])
        <3>1. /\ out.mem = [mem EXCEPT !.paused = FALSE] /\ out.disk = [disk EXCEPT !.paused = FALSE]
              /\ out.verdict = "done" /\ out.slips = 0
            BY <2>5 DEF Done
        <3>2. ~out.disk.paused /\ out.mem.paused = out.disk.paused
            BY <2>3, <3>1
        <3> QED
            BY <1>5, <2>2, <2>3, <3>1, <3>2
    <2>6. CASE out = [Done([mem EXCEPT !.paused = FALSE], disk) EXCEPT !.slips = 1]
        <3>1. /\ out.mem = [mem EXCEPT !.paused = FALSE] /\ out.disk = disk
              /\ out.verdict = "done" /\ out.slips = 1
            BY <2>6 DEF Done
        <3> QED
            BY <1>1, <1>5, <2>2, <2>3, <3>1
    <2> QED
        BY <2>1, <2>4, <2>5, <2>6
<1>6. CASE type = "fire"
    <2>1. out = IF mem.paused THEN Failed(mem) ELSE Done([mem EXCEPT !.fire = c], disk)
        BY <1>6 DEF Outcomes
    <2> QED
        BY <1>1, <1>6, <2>1 DEF Done, Failed, Memory
<1>7. CASE type = "update"
    <2>1. \/ out = Done([mem EXCEPT !.param = c], [disk EXCEPT !.param = c])
          \/ out = [Done([mem EXCEPT !.param = c], disk) EXCEPT !.slips = 1]
        BY <1>7 DEF Outcomes, Updated, Saved
    <2> QED
        BY <1>1, <1>7, <2>1 DEF Done, Memory, Files
<1>8. CASE type = "mixed"
    <2>1. out = Failed([mem EXCEPT !.param = c]) \/ out = Failed(mem)
        BY <1>8 DEF Outcomes, MixedUpdate
    <2> QED
        BY <1>1, <1>8, <2>1 DEF Failed, Memory
<1>9. CASE type \in {"restart", "shutdown"}
    <2>1. out = Done(mem, disk)
        BY <1>9 DEF Outcomes
    <2> QED
        BY <1>1, <1>9, <2>1 DEF Done
<1> QED
    BY <1>1, <1>2, <1>3, <1>4, <1>5, <1>6, <1>7, <1>8, <1>9 DEF CommandTypes

\* The end of a process.
LEMMA Ends ==
    ASSUME CtlTypes, Gone
    PROVE  mem' \in Memory /\ mem'.fire = NoCommand /\ batch' = {} /\ stopping' = NoCommand /\ verdict' = "done"
BY Boots DEF Gone, CtlTypes, TypeOK, Files

\* Another row in the table leaves the types as they are.
LEMMA InsertionTypes ==
    ASSUME CtlTypes, NEW type \in CommandTypes, Inserted(type),
           UNCHANGED <<disk, runner, open, link, sup, older>>,
           flag' \in BOOLEAN, budget' \in [crashes : Nat, slips : Nat, scripts : Nat]
    PROVE  CtlTypes'
<1>1. /\ table' \in Seq(Command) /\ Len(table') <= MaxCommands /\ Commands \subseteq Commands'
      /\ tries' \in [Commands' -> Nat]
    BY Insertion
<1>2. DOMAIN tries' = Commands'
    BY <1>1
<1>3. older' \in [ran : SUBSET Commands', started : SUBSET Commands']
    <2>1. older \in [ran : SUBSET Commands, started : SUBSET Commands]
        BY DEF CtlTypes, TypeOK
    <2>2. SUBSET Commands \subseteq SUBSET (Commands')
        BY <1>1
    <2> HIDE DEF Commands
    <2> QED
        BY <2>1, <2>2
<1>4. batch' \subseteq Commands' /\ stopping' \in Commands' \cup {NoCommand}
    BY <1>1 DEF CtlTypes, TypeOK, runner
<1> QED
    BY <1>1, <1>2, <1>3, <1>4 DEF CtlTypes, TypeOK, Command, runner, NoCommand

\* Other marks leave the types as they are.
LEMMA RemarkingTypes ==
    ASSUME CtlTypes, Remarked,
           tries' \in [Commands -> Nat], older' \in [ran : SUBSET Commands, started : SUBSET Commands]
    PROVE  /\ table' \in Seq(Command) /\ Len(table') <= MaxCommands /\ Commands' = Commands
           /\ DOMAIN tries' = Commands' /\ tries' \in [Commands' -> Nat]
           /\ older' \in [ran : SUBSET Commands', started : SUBSET Commands']
<1>1. table' \in Seq(Command) /\ Len(table') = Len(table) /\ Commands' = Commands
    BY Remarking
<1> HIDE DEF Commands
<1> QED
    BY <1>1 DEF CtlTypes, TypeOK

\* So does the end of a process.
LEMMA EndsTypes ==
    ASSUME CtlTypes, Gone, Supervise, UNCHANGED <<table, disk, open, link, history>>,
           budget' \in [crashes : Nat, slips : Nat, scripts : Nat]
    PROVE  CtlTypes'
<1>1. Commands' = Commands
    BY DEF Commands
<1>2. /\ mem' \in Memory /\ batch' = {} /\ stopping' = NoCommand /\ verdict' = "done" /\ pc' = "down"
      /\ sup' \in {"off", "nap"} /\ flag' \in BOOLEAN
    BY Ends DEF Gone, Supervise, CtlTypes
<1> HIDE DEF Commands
<1>3. TypeOK'
    BY <1>1, <1>2 DEF CtlTypes, TypeOK, Memory, history, NoCommand
<1> QED
    BY <1>1, <1>2, <1>3 DEF CtlTypes, history, NoCommand

\* The types hold at first,
LEMMA TypesInit == Init => CtlTypes
<1> SUFFICES ASSUME Init PROVE CtlTypes
    OBVIOUS
<1>1. Commands = {} /\ Len(table) = 0 /\ table \in Seq(Command)
    BY EmptySeq DEF Init, Commands
<1>2. MaxCommands \in Nat
    BY ControlAssumption
<1>3. disk \in Files
    BY <1>2 DEF Init, Files
<1>4. Booted \in Memory
    BY <1>3, Boots
<1>5. tries \in [Commands -> Nat] /\ DOMAIN tries = Commands
    BY <1>1 DEF Init
<1>6. budget \in [crashes : Nat, slips : Nat, scripts : Nat] /\ older \in [ran : SUBSET Commands, started : SUBSET Commands]
    BY DEF Init
<1>7. mem \in Memory /\ pc = "idle" /\ batch = {} /\ stopping = NoCommand /\ sup = "watch"
      /\ verdict = "done" /\ open \in BOOLEAN /\ link = TRUE /\ flag = FALSE
    BY <1>4 DEF Init
<1> HIDE DEF Commands
<1>8. TypeOK
    BY <1>1, <1>2, <1>3, <1>5, <1>6, <1>7 DEF TypeOK, Command, Memory, Files
<1> QED
    BY <1>5, <1>6, <1>7, <1>8 DEF CtlTypes

\* and after every step.
LEMMA TypesStep == CtlTypes /\ [Next]_vars => CtlTypes'
<1> SUFFICES ASSUME CtlTypes, [Next]_vars PROVE CtlTypes'
    OBVIOUS
<1>1. ASSUME NEW type \in Types, Enqueue(type) PROVE CtlTypes'
    <2>1. type \in CommandTypes
        BY ControlAssumption
    <2> QED
        BY <1>1, <2>1, InsertionTypes DEF Enqueue, scripts, CtlTypes
<1>2. CASE Fetch
    <2>1. OldestPending \subseteq Commands
        BY DEF OldestPending, Pending
    <2>2. budget' \in [crashes : Nat, slips : Nat, scripts : Nat]
        BY <1>2 DEF Fetch, Slips, CtlTypes
    <2> QED
        BY <1>2, <2>1, <2>2 DEF Fetch, GoingOn, CtlTypes, TypeOK, Commands, history, scripts, NoCommand
<1>3. CASE Effect
    <2>1. Oldest(batch) \in Commands
        BY <1>3, OldestIs, TableTypes DEF Effect, CtlTypes, TypeOK
    <2>2. PICK out \in Outcomes(Oldest(batch)) : Slips(out.slips) /\ mem' = out.mem /\ disk' = out.disk /\ verdict' = out.verdict
        BY <1>3 DEF Effect
    <2>3. mem' \in Memory /\ disk' \in Files /\ verdict' \in {"done", "failed"} /\ out.slips \in Nat
        BY <2>1, <2>2, WhatItDoes
    <2>4. budget' \in [crashes : Nat, slips : Nat, scripts : Nat]
        BY <2>2, <2>3 DEF Slips, CtlTypes
    <2>5. flag' \in BOOLEAN
        BY <1>3 DEF Effect, CtlTypes, Raised
    <2> QED
        BY <1>3, <2>3, <2>4, <2>5 DEF Effect, CtlTypes, TypeOK, Commands, history, Memory, Files,
           NoCommand
<1>4. CASE Conclude
    <2> DEFINE c == Oldest(batch)
    <2>1. c \in Commands
        BY <1>4, OldestIs, TableTypes DEF Conclude, CtlTypes, TypeOK
    <2>2. PICK status \in {"done", "failed"} : Marked(c, status) \/ UNCHANGED table
        BY <1>4 DEF Conclude, Mark, CtlTypes
    <2>3. Remarked
        BY <2>1, <2>2, MarkedOne, TableTypes DEF Remarked
    <2>4. tries' \in [Commands -> Nat] /\ stopping' \in Commands \cup {NoCommand}
        BY <1>4, <2>1 DEF Conclude, Mark, NoStop, CtlTypes, TypeOK
    <2>5. /\ table' \in Seq(Command) /\ Len(table') <= MaxCommands /\ Commands' = Commands
          /\ DOMAIN tries' = Commands' /\ tries' \in [Commands' -> Nat]
          /\ older' \in [ran : SUBSET Commands', started : SUBSET Commands']
        BY <1>4, <2>3, <2>4, RemarkingTypes DEF Conclude, CtlTypes, TypeOK
    <2>6. budget' \in [crashes : Nat, slips : Nat, scripts : Nat]
        BY <1>4 DEF Conclude, Mark, Slips, CtlTypes
    <2>7. /\ batch' \subseteq Commands /\ pc' \in {"effect", "poll"} /\ (pc' = "effect" <=> batch' # {})
          /\ verdict' = "done" /\ sup = "watch" /\ UNCHANGED <<disk, mem, open, link, sup, flag>>
        BY <1>4 DEF Conclude, GoingOn, CtlTypes, TypeOK, scripts
    <2> HIDE DEF c, Commands
    <2> QED
        BY <2>4, <2>5, <2>6, <2>7 DEF CtlTypes, TypeOK, Command, NoCommand
<1>5. CASE Poll
    <2>1. mem' \in Memory
        <3>1. mem \in Memory /\ NoCommand \in 0 .. MaxCommands
            BY ControlAssumption DEF CtlTypes, TypeOK, Memory, NoCommand
        <3>2. PICK m \in Memory : mem' = ExitsAsked(m)
            BY <1>5, <3>1 DEF Poll, Memory
        <3> QED
            BY <3>2 DEF ExitsAsked, Memory
    <2>2. tries' \in [Commands -> Nat]
        <3>1. tries' = tries \/ tries' = [tries EXCEPT ![mem.fire] = @ + 1]
            BY <1>5 DEF Poll
        <3> QED
            BY <3>1 DEF CtlTypes
    <2>3. Commands' = Commands /\ open' \in BOOLEAN
        BY <1>5 DEF Poll, Commands, CtlTypes
    <2> HIDE DEF Commands
    <2> QED
        BY <1>5, <2>1, <2>2, <2>3 DEF Poll, CtlTypes, TypeOK, Memory, scripts, NoCommand
<1>6. CASE ProcessEnds
    BY <1>6, EndsTypes DEF ProcessEnds, CtlTypes
<1>7. CASE Crash
    <2>1. budget' \in [crashes : Nat, slips : Nat, scripts : Nat]
        BY <1>7 DEF Crash, CtlTypes
    <2> QED
        BY <1>7, <2>1, EndsTypes DEF Crash
<1>8. CASE Relaunch
    BY <1>8, Boots DEF Files, Relaunch, Launched, CtlTypes, TypeOK, Commands, Memory, history, NoCommand
<1>9. CASE StartSystem
    <2>1. Remarked
        BY <1>9, ClearedOnes DEF StartSystem
    <2>2. tries' \in [Commands -> Nat] /\ older' \in [ran : SUBSET Commands, started : SUBSET Commands]
        BY <1>9 DEF StartSystem, CtlTypes, TypeOK
    <2>3. /\ table' \in Seq(Command) /\ Len(table') <= MaxCommands /\ Commands' = Commands
          /\ DOMAIN tries' = Commands' /\ tries' \in [Commands' -> Nat]
          /\ older' \in [ran : SUBSET Commands', started : SUBSET Commands']
        BY <2>1, <2>2, RemarkingTypes
    <2>4. budget' \in [crashes : Nat, slips : Nat, scripts : Nat]
        BY <1>9 DEF StartSystem, Scripted, CtlTypes
    <2> HIDE DEF Commands
    <2> QED
        BY <1>9, <2>3, <2>4, Boots DEF Files, StartSystem, CtlTypes, TypeOK, Command, Memory, runner,
           NoCommand
<1>10. CASE StopSystem
    <2>1. budget' \in [crashes : Nat, slips : Nat, scripts : Nat]
        BY <1>10 DEF StopSystem, Scripted, CtlTypes
    <2>2. CASE Inserted("shutdown") /\ flag' = TRUE
        BY <1>10, <2>1, <2>2, InsertionTypes DEF StopSystem, CommandTypes
    <2>3. CASE UNCHANGED <<table, tries>> /\ flag' = FALSE
        BY <1>10, <2>1, <2>3 DEF StopSystem, CtlTypes, TypeOK, Commands, runner, NoCommand
    <2> QED
        BY <1>10, <2>2, <2>3 DEF StopSystem
<1>11. CASE StopEnds
    <2> DEFINE S == Pending \cap Of({"shutdown"})
    <2>1. Remarked
        <3>1. CASE UNCHANGED table
            BY <3>1, TableTypes DEF Remarked
        <3>2. CASE table' = [c \in Commands |-> IF c \in S THEN [table[c] EXCEPT !.status = "done"] ELSE table[c]]
            BY <3>2, TakenBack
        <3> QED
            BY <1>11, <3>1, <3>2 DEF StopEnds
    <2>2. tries' \in [Commands -> Nat] /\ older' \in [ran : SUBSET Commands, started : SUBSET Commands]
        BY <1>11 DEF StopEnds, CtlTypes, TypeOK, history
    <2>3. /\ table' \in Seq(Command) /\ Len(table') <= MaxCommands /\ Commands' = Commands
          /\ DOMAIN tries' = Commands' /\ tries' \in [Commands' -> Nat]
          /\ older' \in [ran : SUBSET Commands', started : SUBSET Commands']
        BY <2>1, <2>2, RemarkingTypes
    <2>4. mem' \in Memory /\ stopping' = NoCommand /\ batch' = {} /\ verdict' \in {"done", "failed"} /\ pc' = "down"
        BY <1>11, Ends DEF StopEnds, runner, CtlTypes, TypeOK, Gone, Memory
    <2> HIDE DEF Commands
    <2> QED
        BY <1>11, <2>3, <2>4 DEF StopEnds, CtlTypes, TypeOK, Command, Memory, NoCommand
<1>12. CASE UNCHANGED vars
    BY <1>12 DEF vars, runner, scripts, history, CtlTypes, TypeOK, Commands, NoCommand
<1>13. CASE LinkChanges
    <2>1. budget' \in [crashes : Nat, slips : Nat, scripts : Nat] /\ link' \in BOOLEAN
        BY <1>13 DEF LinkChanges, CtlTypes, TypeOK
    <2> QED
        BY <1>13, <2>1 DEF LinkChanges, runner, scripts, history, CtlTypes, TypeOK, Commands, NoCommand
<1> QED
    BY <1>1, <1>2, <1>3, <1>4, <1>5, <1>6, <1>7, <1>8, <1>9, <1>10, <1>11, <1>12, <1>13 DEF Next, Tick

\* The variables have their types.
THEOREM TypesHold == Spec => []TypeOK
<1>1. CtlTypes => TypeOK
    BY DEF CtlTypes
<1> QED
    BY <1>1, TypesInit, TypesStep, PTL DEF Spec

-----------------------------------------------------------------------------
(* The two halves of carrying out a command *)

\* The oldest of the batch has its effect; what it does to the files depends on its type.
LEMMA EffectStep ==
    ASSUME CtlTypes, Effect, NEW c, c = Oldest(batch)
    PROVE  /\ c \in batch /\ c \in Commands /\ \A d \in batch : c <= d
           /\ pc = "effect" /\ pc' = "mark" /\ flag' = (flag \/ table[c].type = "shutdown")
           /\ UNCHANGED <<table, batch, stopping, tries, older>>
           /\ mem'.fire = mem.fire \/ (mem'.fire = c /\ table[c].type = "fire")
           /\ budget'.slips = 0 => budget.slips = 0
           /\ budget'.slips = 0 /\ mem.paused = disk.paused =>
                /\ mem'.paused = disk'.paused
                /\ table[c].type = "pause" => disk'.paused
                /\ table[c].type = "resume" => ~disk'.paused
                /\ table[c].type \notin {"pause", "resume"} => disk'.paused = disk.paused
                /\ table[c].type = "update" => disk'.param = c
                /\ table[c].type # "update" => disk'.param = disk.param
<1>1. c \in batch /\ \A d \in batch : c <= d
    BY OldestIs, TableTypes DEF Effect, CtlTypes, TypeOK
<1>2. c \in Commands
    BY <1>1, TableTypes
<1>3. PICK out \in Outcomes(c) : Slips(out.slips) /\ mem' = out.mem /\ disk' = out.disk
    BY DEF Effect
<1>4. budget'.slips = budget.slips + out.slips /\ budget.slips \in Nat /\ out.slips \in Nat
    <2>1. budget \in [crashes : Nat, slips : Nat, scripts : Nat] /\ budget' = [budget EXCEPT !.slips = @ + out.slips]
        BY <1>3 DEF CtlTypes, Slips
    <2> QED
        BY <2>1, <1>2, WhatItDoes
<1>5. budget'.slips = 0 => budget.slips = 0 /\ out.slips = 0
    BY <1>4
<1>6. pc = "effect" /\ pc' = "mark" /\ flag' = (flag \/ table[c].type = "shutdown")
      /\ UNCHANGED <<table, batch, stopping, tries, older>>
    BY DEF Effect, Raised, history
<1> QED
    BY <1>1, <1>2, <1>3, <1>5, <1>6, WhatItDoes

\* It is marked, and a stop follows only a mark that was written.
LEMMA ConcludeStep ==
    ASSUME CtlTypes, Conclude, NEW c, c = Oldest(batch)
    PROVE  /\ c \in batch /\ c \in Commands /\ \A d \in batch : c <= d
           /\ pc = "mark" /\ pc' \in {"effect", "poll"} /\ batch' = batch \ {c}
           /\ UNCHANGED <<disk, mem, flag, older>>
           /\ Commands' = Commands /\ \A d \in Commands : table'[d].type = table[d].type
           /\ Pending' \subseteq Pending
           /\ \/ Stops(c) /\ Pending' = Pending \ {c} /\ stopping' = c /\ tries' = [tries EXCEPT ![c] = @ + 1]
              \/ UNCHANGED <<stopping, tries>>
           /\ budget'.slips = 0 => budget.slips = 0 /\ Pending' = Pending \ {c}
<1>1. c \in batch /\ \A d \in batch : c <= d
    BY OldestIs, TableTypes DEF Conclude, CtlTypes, TypeOK
<1>2. c \in Commands
    BY <1>1, TableTypes
<1>3. pc = "mark" /\ pc' \in {"effect", "poll"} /\ batch' = batch \ {c} /\ UNCHANGED <<disk, mem, flag, older>>
    BY DEF Conclude, GoingOn, scripts
<1>4. budget.slips \in Nat /\ \A n \in {0, 1, 2} : Slips(n) => budget'.slips = budget.slips + n
    BY DEF CtlTypes, Slips
<1>5. CASE Slips(0) /\ Marked(c, verdict) /\ IF Stops(c) THEN stopping' = c /\ tries' = [tries EXCEPT ![c] = @ + 1] ELSE NoStop
    <2>1. Remarked /\ Pending' = Pending \ {c}
        BY <1>2, <1>5, MarkedOne DEF CtlTypes
    <2>2. Commands' = Commands /\ \A d \in Commands : table'[d].type = table[d].type
        BY <2>1, Remarking DEF Remarked
    <2> QED
        BY <1>1, <1>2, <1>3, <1>4, <1>5, <2>1, <2>2 DEF NoStop
<1>6. CASE Slips(1) /\ Marked(c, "failed") /\ NoStop
    <2>1. Remarked /\ Pending' = Pending \ {c}
        BY <1>2, <1>6, MarkedOne
    <2>2. Commands' = Commands /\ \A d \in Commands : table'[d].type = table[d].type
        BY <2>1, Remarking DEF Remarked
    <2> QED
        BY <1>1, <1>2, <1>3, <1>4, <1>6, <2>1, <2>2 DEF NoStop
<1>7. CASE Slips(2) /\ UNCHANGED table /\ NoStop
    <2>1. Commands' = Commands /\ Pending' = Pending
        BY <1>7 DEF Commands, Pending
    <2> QED
        BY <1>1, <1>2, <1>3, <1>4, <1>7, <2>1 DEF NoStop
<1> QED
    BY <1>5, <1>6, <1>7 DEF Conclude, Mark

-----------------------------------------------------------------------------
(* ShutdownIsFinal *)

\* The flag stays up while a shutdown has its mark or is about to get it.
LEMMA FlagStep == CtlTypes /\ FlagIsUp /\ [Next]_vars => FlagIsUp'
<1> SUFFICES ASSUME CtlTypes, FlagIsUp, [Next]_vars PROVE FlagIsUp'
    OBVIOUS
<1> USE DEF FlagIsUp, Marking
<1>1. ASSUME NEW type \in CommandTypes, Inserted(type), UNCHANGED <<runner, older>>, flag => flag' PROVE FlagIsUp'
    <2>1. /\ Commands' = Commands \cup {Len(table) + 1} /\ \A c \in Commands : table'[c] = table[c]
          /\ Len(table) + 1 \notin batch /\ stopping # Len(table) + 1
        BY <1>1, Insertion, TableTypes DEF CtlTypes, TypeOK, NoCommand
    <2>2. pc = "mark" => Oldest(batch) \in batch
        BY OldestIs, TableTypes DEF CtlTypes, TypeOK
    <2> HIDE DEF Commands
    <2> QED
        BY <1>1, <2>1, <2>2 DEF Of, runner
<1>2. ASSUME NEW type \in Types, Enqueue(type) PROVE FlagIsUp'
    BY <1>1, <1>2, ControlAssumption DEF Enqueue, scripts
<1>3. CASE Fetch
    BY <1>3 DEF Fetch, GoingOn, Of, Commands, history, scripts
<1>4. CASE Effect
    BY <1>4, EffectStep DEF Of, Commands
<1>5. CASE Conclude
    <2> HIDE DEF Commands
    <2> QED
        BY <1>5, ConcludeStep DEF Of
<1>6. CASE Poll
    BY <1>6 DEF Poll, Of, Commands, scripts
<1>7. CASE ProcessEnds \/ Crash
    <2>1. pc' = "down" /\ stopping' = NoCommand /\ table' = table
        BY <1>7 DEF ProcessEnds, Crash, Gone, NoCommand
    <2> QED
        BY <2>1, TableTypes DEF Of, Commands, NoCommand
<1>8. CASE Relaunch
    BY <1>8 DEF Relaunch, Launched, Of, Commands, history
<1>9. CASE StartSystem
    <2>1. Commands' = Commands /\ Of({"shutdown"})' = Of({"shutdown"})
        BY <1>9, ClearedOnes, Remarking DEF StartSystem
    <2>2. older'.ran = Commands
        BY <1>9 DEF StartSystem, CtlTypes, TypeOK
    <2> QED
        BY <2>1, <2>2 DEF Of
<1>10. CASE StopSystem
    <2>1. CASE Inserted("shutdown") /\ flag' = TRUE
        BY <1>10, <1>1, <2>1 DEF StopSystem, CommandTypes
    <2>2. CASE UNCHANGED table /\ pc = "down"
        BY <1>10, <2>2, TableTypes DEF StopSystem, Of, runner, CtlTypes, Commands
    <2> QED
        BY <1>10, <2>1, <2>2 DEF StopSystem
<1>11. CASE StopEnds
    BY <1>11, TableTypes DEF StopEnds, runner, Gone, Of, Commands, CtlTypes, NoCommand
<1>12. CASE UNCHANGED vars
    BY <1>12 DEF vars, runner, scripts, history, Of, Commands
<1>13. CASE LinkChanges
    BY <1>13 DEF LinkChanges, runner, scripts, history, Of, Commands
<1> QED
    BY <1>2, <1>3, <1>4, <1>5, <1>6, <1>7, <1>8, <1>9, <1>10, <1>11, <1>12, <1>13 DEF Next, Tick

\* A process stopped by a shutdown stays stopped: what _process_commands raises before the mark,
\* run_supervised.sh finds, whatever crashes and is enqueued meanwhile.
THEOREM ShutdownStands == Spec => ShutdownIsFinal
<1> DEFINE SupEnds == pc # "down" /\ pc' = "down" /\ stopping \in Of({"shutdown"}) \ older.ran => sup' = "off"
<1>1. CtlTypes /\ FlagIsUp /\ [Next]_vars => SupEnds
    <2> SUFFICES ASSUME CtlTypes, FlagIsUp, [Next]_vars, pc # "down", pc' = "down",
                        stopping \in Of({"shutdown"}) \ older.ran
                 PROVE  sup' = "off"
        OBVIOUS
    <2>1. flag
        BY DEF FlagIsUp
    <2>2. CASE ProcessEnds \/ Crash
        BY <2>1, <2>2 DEF ProcessEnds, Crash, Supervise
    <2>3. CASE StopEnds
        BY <2>3 DEF StopEnds
    <2>4. CASE Fetch \/ Effect \/ Conclude \/ Poll \/ Relaunch \/ UNCHANGED vars
        BY <2>4 DEF Fetch, Effect, Conclude, GoingOn, Poll, Relaunch, Launched, vars, runner
    <2>5. CASE StartSystem \/ StopSystem \/ LinkChanges \/ \E type \in Types : Enqueue(type)
        BY <2>5 DEF StartSystem, LinkChanges, StopSystem, Enqueue, runner
    <2> QED
        BY <2>2, <2>3, <2>4, <2>5 DEF Next, Tick
<1>2. Init => FlagIsUp
    BY DEF Init, FlagIsUp, Of, Commands, Marking
<1>3. Spec => [](CtlTypes /\ FlagIsUp)
    BY TypesInit, TypesStep, FlagStep, <1>2, PTL DEF Spec
<1> QED
    BY <1>1, <1>3, PTL DEF Spec, ShutdownIsFinal

-----------------------------------------------------------------------------
(* FreshStart *)

\* What was there at a start stays harmless.
LEMMA StartedStep == CtlTypes /\ StartedClean /\ [Next]_vars => StartedClean'
<1> SUFFICES ASSUME CtlTypes, StartedClean, [Next]_vars PROVE StartedClean'
    OBVIOUS
<1> USE DEF StartedClean, Stops
<1>1. ASSUME NEW type \in CommandTypes, Inserted(type), UNCHANGED <<mem, batch, stopping, older>> PROVE StartedClean'
    <2>1. /\ \A c \in Commands : table'[c] = table[c] /\ c < Len(table) + 1 /\ c \in Nat
          /\ Pending' = Pending \cup {Len(table) + 1} /\ older.started \subseteq Commands
        BY <1>1, Insertion, TableTypes
    <2> HIDE DEF Commands
    <2> QED
        BY <1>1, <2>1
<1>2. ASSUME NEW type \in Types, Enqueue(type) PROVE StartedClean'
    BY <1>1, <1>2, ControlAssumption DEF Enqueue, runner
<1>3. CASE Fetch
    <2>1. OldestPending \subseteq Pending /\ Pending' = Pending
        BY <1>3 DEF Fetch, OldestPending, Pending, Commands
    <2> QED
        BY <1>3, <2>1 DEF Fetch, history
<1>4. CASE Effect
    <2>1. Pending' = Pending
        BY <1>4, EffectStep DEF Pending, Commands
    <2> QED
        BY <1>4, <2>1, EffectStep
<1>5. CASE Conclude
    <2>1. older.started \subseteq Commands
        BY TableTypes
    <2> HIDE DEF Commands
    <2> QED
        BY <1>5, <2>1, ConcludeStep
<1>6. CASE Poll
    <2>1. mem'.fire \in {mem.fire, NoCommand}
        BY <1>6 DEF Poll, ExitsAsked, CtlTypes, TypeOK
    <2>2. older' = older /\ Pending' = Pending /\ UNCHANGED <<table, batch, stopping>>
        BY <1>6 DEF Poll, Pending, Commands
    <2> QED
        BY <2>1, <2>2, TableTypes
<1>7. CASE ProcessEnds \/ Crash
    <2>1. mem'.fire = NoCommand /\ stopping' = NoCommand /\ batch' = {}
        BY <1>7, Ends DEF ProcessEnds, Crash
    <2>2. older' = older /\ table' = table /\ Pending' = Pending
        BY <1>7 DEF ProcessEnds, Crash, history, Pending, Commands
    <2> QED
        BY <2>1, <2>2, TableTypes
<1>8. CASE Relaunch
    <2>1. mem'.fire = NoCommand
        BY <1>8, Boots DEF Relaunch, Launched, CtlTypes, TypeOK, Files
    <2>2. UNCHANGED <<older, table, stopping, batch>> /\ Pending' = Pending
        BY <1>8 DEF Relaunch, Launched, history, Pending, Commands
    <2> QED
        BY <2>1, <2>2, TableTypes
<1>9. CASE StartSystem
    <2>1. /\ Commands' = Commands /\ Pending' = Pending \ Of({"restart", "shutdown", "fire"})
          /\ \A c \in Commands : table'[c].type = table[c].type
        BY <1>9, ClearedOnes, Remarking DEF StartSystem, Remarked
    <2>2. CASE UNCHANGED <<runner, sup>> /\ older' = [older EXCEPT !.ran = Commands]
        <3>1. older'.started = older.started /\ older.started \subseteq Commands
            BY <2>2, TableTypes DEF CtlTypes, TypeOK
        <3> HIDE DEF Commands
        <3> QED
            BY <2>1, <2>2, <3>1 DEF runner
    <2>3. CASE older' = [ran |-> Commands, started |-> Commands] /\ mem' = Booted /\ batch' = {} /\ stopping' = NoCommand
        <3>1. mem'.fire = NoCommand /\ older'.started = Commands
            BY <2>3, Boots DEF CtlTypes, TypeOK, Files
        <3> QED
            BY <2>1, <2>3, <3>1, TableTypes DEF Of
    <2> QED
        BY <1>9, <2>2, <2>3 DEF StartSystem
<1>10. CASE StopSystem
    <2>1. CASE Inserted("shutdown")
        BY <1>10, <1>1, <2>1 DEF StopSystem, CommandTypes, runner
    <2>2. CASE UNCHANGED table
        BY <1>10, <2>2 DEF StopSystem, runner, Pending, Commands
    <2> QED
        BY <1>10, <2>1, <2>2 DEF StopSystem
<1>11. CASE StopEnds
    <2>1. CASE UNCHANGED <<table, runner>>
        BY <1>11, <2>1 DEF StopEnds, runner, history, Pending, Commands
    <2>2. CASE Gone /\ table' = [c \in Commands |-> IF c \in Pending \cap Of({"shutdown"})
                                                THEN [table[c] EXCEPT !.status = "done"] ELSE table[c]]
        <3>1. Remarked /\ Pending' = Pending \ (Pending \cap Of({"shutdown"}))
            <4> DEFINE S == Pending \cap Of({"shutdown"})
            <4> HIDE DEF S
            <4>1. table' = [c \in Commands |-> IF c \in S THEN [table[c] EXCEPT !.status = "done"] ELSE table[c]]
                BY <2>2 DEF S
            <4>2. Remarked /\ Pending' = Pending \ S
                BY <4>1, TakenBack
            <4> QED
                BY <4>2 DEF S
        <3>2. mem'.fire = NoCommand /\ stopping' = NoCommand /\ batch' = {} /\ older' = older
            BY <1>11, <2>2, Ends DEF StopEnds, history
        <3> QED
            BY <3>1, <3>2, TableTypes DEF Remarked
    <2> QED
        BY <1>11, <2>1, <2>2 DEF StopEnds
<1>12. CASE UNCHANGED vars
    BY <1>12 DEF vars, runner, scripts, history, Pending, Commands
<1>13. CASE LinkChanges
    BY <1>13 DEF LinkChanges, runner, scripts, history, Pending, Commands
<1> QED
    BY <1>2, <1>3, <1>4, <1>5, <1>6, <1>7, <1>8, <1>9, <1>10, <1>11, <1>12, <1>13 DEF Next, Tick

\* A runner that start_system.sh starts does nothing an older command asks for: the script has
\* cancelled what it would fetch, and no later crash or script brings it back.
THEOREM StartIsFresh == Spec => []FreshStart
<1>1. Init => StartedClean
    BY DEF Init, StartedClean
<1>2. StartedClean => FreshStart
    BY DEF StartedClean, FreshStart
<1>3. Spec => [](CtlTypes /\ StartedClean)
    BY TypesInit, TypesStep, StartedStep, <1>1, PTL DEF Spec
<1> QED
    BY <1>2, <1>3, PTL

-----------------------------------------------------------------------------
(* ActsOnce *)

\* A step in which nothing acts, is asked for or is added, and only what is pending is fetched.
Quiet ==
    /\ Commands' = Commands /\ \A c \in Commands : table'[c].type = table[c].type
    /\ tries' = tries /\ Pending' \subseteq Pending /\ batch' \subseteq Pending \cup batch
    /\ budget'.slips = 0 => budget.slips = 0
    /\ \/ mem'.fire = NoCommand
       \/ mem'.fire = mem.fire /\ UNCHANGED <<pc, batch>>

\* Such a step makes no command act again.
LEMMA QuietStep == CtlTypes /\ StopsOnce /\ FiresOnce /\ Quiet => StopsOnce' /\ FiresOnce'
<1> SUFFICES ASSUME CtlTypes, StopsOnce, FiresOnce, Quiet PROVE StopsOnce' /\ FiresOnce'
    OBVIOUS
<1>1. \A c \in Commands : c \in Nat \ {NoCommand}
    BY TableTypes
<1> HIDE DEF Commands, Pending
<1>2. StopsOnce'
    BY DEF Quiet, StopsOnce, Stops
<1>3. mem'.fire # NoCommand => mem'.fire \in Of({"fire"})'
    BY DEF Quiet, FiresOnce, Of
<1>4. ASSUME budget'.slips = 0, NEW c \in Commands, ~Stops(c)'
      PROVE  /\ tries'[c] = 0 \/ (tries'[c] = 1 /\ c \notin Pending' \cup batch' /\ mem'.fire # c)
             /\ mem'.fire = c => c \notin Pending' \cup batch' \/ Marking(c)'
    <2>1. ~Stops(c) /\ budget.slips = 0
        BY <1>4 DEF Quiet, Stops
    <2>2. tries[c] = 0 \/ (tries[c] = 1 /\ c \notin Pending \cup batch /\ mem.fire # c)
        BY <2>1 DEF FiresOnce
    <2>3. mem.fire = c => c \notin Pending \cup batch \/ Marking(c)
        BY <2>1 DEF FiresOnce
    <2>4. mem'.fire = c => mem.fire = c /\ UNCHANGED <<pc, batch>>
        BY <1>1 DEF Quiet, NoCommand
    <2> QED
        BY <2>2, <2>3, <2>4, <1>1 DEF Quiet, Marking
<1>5. Commands' = Commands
    BY DEF Quiet
<1> QED
    BY <1>2, <1>3, <1>4, <1>5 DEF FiresOnce, NoCommand

\* What has acted is gone from the table's pending ones and from the batch by then.
LEMMA ActsStep == CtlTypes /\ StopsOnce /\ FiresOnce /\ [Next]_vars => StopsOnce' /\ FiresOnce'
<1> SUFFICES ASSUME CtlTypes, StopsOnce, FiresOnce, [Next]_vars PROVE StopsOnce' /\ FiresOnce'
    OBVIOUS
<1>a. \A c \in Commands : c \in Nat \ {NoCommand}
    BY TableTypes
<1>1. ASSUME NEW type \in CommandTypes, Inserted(type), UNCHANGED runner, budget'.slips = budget.slips
      PROVE  StopsOnce' /\ FiresOnce'
    <2> DEFINE n == Len(table) + 1
    <2>1. /\ Commands' = Commands \cup {n} /\ Pending' = Pending \cup {n} /\ tries'[n] = 0
          /\ \A c \in Commands : table'[c] = table[c] /\ tries'[c] = tries[c] /\ c < n
        BY <1>1, Insertion
    <2>2. n \notin Commands /\ n \notin batch /\ n \in Nat /\ n # NoCommand
        BY <2>1, TableTypes DEF NoCommand
    <2>3. mem.fire # n
        BY <2>2 DEF FiresOnce, Of
    <2> HIDE DEF Commands, Pending, n
    <2>4. StopsOnce'
        BY <1>1, <2>1, <2>2 DEF StopsOnce, Stops, runner
    <2>5. FiresOnce'
        BY <1>1, <2>1, <2>2, <2>3 DEF FiresOnce, Stops, Of, Marking, runner, NoCommand
    <2> QED
        BY <2>4, <2>5
<1>2. ASSUME NEW type \in Types, Enqueue(type) PROVE StopsOnce' /\ FiresOnce'
    BY <1>1, <1>2, ControlAssumption DEF Enqueue
<1>3. CASE Fetch
    <2>1. OldestPending \subseteq Pending /\ Pending' = Pending /\ Commands' = Commands
        BY <1>3 DEF Fetch, OldestPending, Pending, Commands
    <2>2. UNCHANGED <<table, tries, mem>> /\ batch' \subseteq Pending \cup batch /\ pc = "idle" /\ batch = {}
        BY <1>3, <2>1 DEF Fetch, history, CtlTypes, TypeOK
    <2>3. budget'.slips = 0 => budget.slips = 0
        BY <1>3 DEF Fetch, Slips, CtlTypes
    <2> HIDE DEF Commands, Pending
    <2>4. StopsOnce'
        BY <2>1, <2>2 DEF StopsOnce, Stops
    <2>5. FiresOnce'
        BY <2>1, <2>2, <2>3, <1>a DEF FiresOnce, Stops, Of, Marking, NoCommand
    <2> QED
        BY <2>4, <2>5
<1>4. CASE Effect
    <2> DEFINE c == Oldest(batch)
    <2> HIDE DEF c
    <2>1. /\ c \in batch /\ c \in Commands /\ pc = "effect" /\ pc' = "mark" /\ c = Oldest(batch)
          /\ UNCHANGED <<table, batch, tries>>
          /\ mem'.fire = mem.fire \/ (mem'.fire = c /\ table[c].type = "fire")
          /\ budget'.slips = 0 => budget.slips = 0
        BY <1>4, EffectStep DEF c
    <2>2. Pending' = Pending /\ Commands' = Commands
        BY <2>1 DEF Pending, Commands
    <2> HIDE DEF Commands, Pending
    <2>3. StopsOnce'
        BY <2>1, <2>2 DEF StopsOnce, Stops
    <2>4. mem'.fire # NoCommand => mem'.fire \in Of({"fire"})'
        BY <2>1, <2>2 DEF FiresOnce, Of
    <2>5. ASSUME budget'.slips = 0, NEW d \in Commands, ~Stops(d)
          PROVE  /\ tries'[d] = 0 \/ (tries'[d] = 1 /\ d \notin Pending' \cup batch' /\ mem'.fire # d)
                 /\ mem'.fire = d => d \notin Pending' \cup batch' \/ Marking(d)'
        BY <2>1, <2>2, <2>5 DEF FiresOnce, Marking
    <2>6. FiresOnce'
        BY <2>1, <2>2, <2>4, <2>5 DEF FiresOnce, Stops, NoCommand
    <2> QED
        BY <2>3, <2>6
<1>5. CASE Conclude
    <2> DEFINE c == Oldest(batch)
    <2> HIDE DEF c
    <2>1. /\ c \in batch /\ c \in Commands /\ pc = "mark" /\ c = Oldest(batch) /\ batch' = batch \ {c}
          /\ UNCHANGED mem /\ Commands' = Commands /\ \A d \in Commands : table'[d].type = table[d].type
          /\ Pending' \subseteq Pending
          /\ budget'.slips = 0 => budget.slips = 0 /\ Pending' = Pending \ {c}
        BY <1>5, ConcludeStep DEF c
    <2>2. \/ Stops(c) /\ Pending' = Pending \ {c} /\ tries' = [tries EXCEPT ![c] = @ + 1]
          \/ tries' = tries
        BY <1>5, ConcludeStep DEF c
    <2>3. tries \in [Commands -> Nat]
        BY DEF CtlTypes
    <2> HIDE DEF Commands, Pending
    <2>4. \A d \in Commands : tries'[d] = tries[d] \/ (d = c /\ Stops(c) /\ tries'[d] = tries[d] + 1 /\ Pending' = Pending \ {c})
        BY <2>2, <2>3
    <2>5. StopsOnce'
        BY <2>1, <2>4 DEF StopsOnce, Stops
    <2>6. FiresOnce'
        BY <2>1, <2>4 DEF FiresOnce, Stops, Of, Marking, NoCommand
    <2> QED
        BY <2>5, <2>6
<1>6. CASE Poll
    <2>1. /\ UNCHANGED <<table, batch, budget>> /\ Pending' = Pending /\ Commands' = Commands
          /\ pc = "poll" /\ batch = {}
        BY <1>6 DEF Poll, Pending, Commands, CtlTypes, TypeOK
    <2>2. \/ mem'.fire \in {mem.fire, NoCommand} /\ tries' = tries
          \/ mem.fire # NoCommand /\ mem'.fire = NoCommand /\ tries' = [tries EXCEPT ![mem.fire] = @ + 1]
        BY <1>6 DEF Poll, ExitsAsked, CtlTypes, TypeOK
    <2>3. tries \in [Commands -> Nat]
        BY DEF CtlTypes
    <2> HIDE DEF Commands, Pending
    <2>4. CASE mem'.fire \in {mem.fire, NoCommand} /\ tries' = tries
        BY <2>1, <2>4, <1>a DEF StopsOnce, FiresOnce, Stops, Of, Marking, NoCommand
    <2>5. CASE mem.fire # NoCommand /\ mem'.fire = NoCommand /\ tries' = [tries EXCEPT ![mem.fire] = @ + 1]
        <3>1. mem.fire \in Commands /\ ~Stops(mem.fire)
            BY <2>5 DEF FiresOnce, Of, Stops
        <3>2. \A d \in Commands : tries'[d] = IF d = mem.fire THEN tries[d] + 1 ELSE tries[d]
            BY <2>3, <2>5, <3>1
        <3>3. StopsOnce'
            BY <2>1, <3>1, <3>2 DEF StopsOnce, Stops
        <3>4. FiresOnce'
            BY <2>1, <2>5, <3>1, <3>2, <1>a DEF FiresOnce, Stops, Of, Marking, NoCommand
        <3> QED
            BY <3>3, <3>4
    <2> QED
        BY <2>2, <2>4, <2>5
<1>7. CASE ProcessEnds \/ Crash
    <2>1. mem'.fire = NoCommand /\ batch' = {}
        BY <1>7, Ends DEF ProcessEnds, Crash
    <2>2. UNCHANGED <<table, tries>> /\ Pending' = Pending /\ Commands' = Commands /\ budget'.slips = budget.slips
        BY <1>7 DEF ProcessEnds, Crash, history, Pending, Commands, CtlTypes
    <2> QED
        BY <2>1, <2>2, QuietStep DEF Quiet
<1>8. CASE Relaunch
    <2>1. mem'.fire = NoCommand
        BY <1>8, Boots DEF Relaunch, Launched, CtlTypes, TypeOK, Files
    <2>2. UNCHANGED <<table, tries, batch, budget>> /\ Pending' = Pending /\ Commands' = Commands
        BY <1>8 DEF Relaunch, Launched, history, Pending, Commands
    <2> QED
        BY <2>1, <2>2, QuietStep DEF Quiet
<1>9. CASE StartSystem
    <2>1. /\ Commands' = Commands /\ Pending' \subseteq Pending
          /\ \A c \in Commands : table'[c].type = table[c].type
        BY <1>9, ClearedOnes, Remarking DEF StartSystem, Remarked
    <2>2. tries' = tries /\ budget'.slips = budget.slips
        BY <1>9 DEF StartSystem, Scripted, CtlTypes
    <2>3. \/ UNCHANGED <<mem, pc, batch>>
          \/ mem'.fire = NoCommand /\ batch' = {}
        BY <1>9, Boots DEF StartSystem, runner, CtlTypes, TypeOK, Files
    <2> QED
        BY <2>1, <2>2, <2>3, QuietStep DEF Quiet
<1>10. CASE StopSystem
    <2>1. budget'.slips = budget.slips /\ UNCHANGED runner
        BY <1>10 DEF StopSystem, Scripted, CtlTypes
    <2>2. CASE Inserted("shutdown")
        BY <2>1, <1>1, <2>2 DEF CommandTypes
    <2>3. CASE UNCHANGED <<table, tries>>
        BY <2>1, <2>3, QuietStep DEF Quiet, runner, Pending, Commands
    <2> QED
        BY <1>10, <2>2, <2>3 DEF StopSystem
<1>11. CASE StopEnds
    <2> DEFINE S == Pending \cap Of({"shutdown"})
    <2>1. CASE UNCHANGED <<table, runner>>
        BY <1>11, <2>1, QuietStep DEF StopEnds, runner, history, Pending, Commands, Quiet
    <2>2. CASE Gone /\ table' = [c \in Commands |-> IF c \in S THEN [table[c] EXCEPT !.status = "done"] ELSE table[c]]
        <3> HIDE DEF S
        <3>1. Remarked /\ Pending' = Pending \ S
            BY <2>2, TakenBack
        <3>2. Commands' = Commands /\ \A d \in Commands : table'[d].type = table[d].type
            BY <3>1, Remarking DEF Remarked
        <3>3. mem'.fire = NoCommand /\ batch' = {} /\ UNCHANGED <<tries, budget>>
            BY <1>11, <2>2, Ends DEF StopEnds, history
        <3> QED
            BY <3>1, <3>2, <3>3, QuietStep DEF Quiet
    <2> QED
        BY <1>11, <2>1, <2>2 DEF StopEnds
<1>12. CASE UNCHANGED vars
    BY <1>12, QuietStep DEF vars, runner, history, Pending, Commands, Quiet
<1>13. CASE LinkChanges
    <2>1. budget'.slips = budget.slips
        BY <1>13 DEF LinkChanges, CtlTypes
    <2> QED
        BY <1>13, <2>1, QuietStep DEF LinkChanges, runner, history, Pending, Commands, Quiet
<1> QED
    BY <1>2, <1>3, <1>4, <1>5, <1>6, <1>7, <1>8, <1>9, <1>10, <1>11, <1>12, <1>13 DEF Next, Tick

\* A command acts once, however often it is fetched: a restart or a shutdown that stopped a process
\* has its mark, and one that lost its mark has stopped nothing.
THEOREM ActedOnce == Spec => []ActsOnce
<1>1. Init => StopsOnce /\ FiresOnce
    BY DEF Init, StopsOnce, FiresOnce, Commands, Booted, Blank, NoCommand
<1>2. CtlTypes /\ StopsOnce /\ FiresOnce => ActsOnce
    BY DEF CtlTypes, StopsOnce, FiresOnce, ActsOnce
<1>3. Spec => [](CtlTypes /\ StopsOnce /\ FiresOnce)
    BY TypesInit, TypesStep, ActsStep, <1>1, PTL DEF Spec
<1> QED
    BY <1>2, <1>3, PTL

-----------------------------------------------------------------------------
(* LastWordWins *)

\* What commands say depends on their types only.
LEMMA SameSaying ==
    ASSUME NEW f, NEW t, NEW u, NEW A, \A c \in A : u[c].type = t[c].type
    PROVE  Says(f, t, A) <=> Says(f, u, A)
<1>1. PausedBy(t, A) <=> PausedBy(u, A)
    BY DEF PausedBy
<1>2. \A v : ParamBy(t, A, v) <=> ParamBy(u, A, v)
    BY DEF ParamBy
<1> QED
    BY <1>1, <1>2 DEF Says

\* A command younger than those that are in force, carried out for the first or the second time.
LEMMA CarriedOut ==
    ASSUME NEW t, NEW f, NEW g, NEW A \in SUBSET Nat, NEW c \in Nat,
           \A a \in A : a < c,
           Says(f, t, A) \/ Says(f, t, A \cup {c}),
           f.paused \in BOOLEAN, g.paused \in BOOLEAN,
           t[c].type = "pause" => g.paused,
           t[c].type = "resume" => ~g.paused,
           t[c].type \notin {"pause", "resume"} => g.paused = f.paused,
           t[c].type = "update" => g.param = c,
           t[c].type # "update" => g.param = f.param
    PROVE  Says(g, t, A \cup {c})
<1>1. g.paused <=> PausedBy(t, A \cup {c})
    <2>1. CASE t[c].type = "pause"
        BY <2>1 DEF PausedBy
    <2>2. CASE t[c].type = "resume"
        BY <2>2 DEF PausedBy
    <2>3. CASE t[c].type \notin {"pause", "resume"}
        <3>1. PausedBy(t, A) <=> PausedBy(t, A \cup {c})
            BY <2>3 DEF PausedBy
        <3> QED
            BY <2>3, <3>1 DEF Says
    <2> QED
        BY <2>1, <2>2, <2>3
<1>2. ParamBy(t, A \cup {c}, g.param)
    <2>1. CASE t[c].type = "update"
        BY <2>1 DEF ParamBy
    <2>2. CASE t[c].type # "update"
        BY <2>2 DEF ParamBy, Says
    <2> QED
        BY <2>1, <2>2
<1> QED
    BY <1>1, <1>2 DEF Says

\* The next of the batch, if it lasts, is the oldest that waits.
LEMMA NextIsOldest ==
    ASSUME CtlTypes, InOrder, NEW c \in batch \cap Lasting, \A d \in batch : c <= d
    PROVE  c \in Lasting \cap Pending /\ \A d \in Lasting \cap Pending : c <= d
<1>1. c \in Nat /\ Lasting \subseteq Nat
    BY TableTypes DEF Lasting, Of
<1> QED
    BY <1>1 DEF InOrder

\* A step that leaves the files, the lasting commands and their marks, and either the tick at its
\* place or the batch empty.
Steady ==
    /\ Commands' = Commands /\ \A c \in Commands : table'[c].type = table[c].type
    /\ Lasting \ Pending' = Lasting \ Pending /\ Lasting \cap Pending' = Lasting \cap Pending
    /\ disk' = disk /\ budget'.slips = budget.slips
    /\ \/ UNCHANGED runner
       \/ /\ batch' = {} /\ pc' # "mark"
          /\ WordInv => (budget.slips = 0 /\ pc' # "down" => mem'.paused = disk.paused)

\* Such a step disturbs nothing that is said of the files.
LEMMA SteadyStep == CtlTypes /\ WordInv /\ Steady => WordInv'
<1> SUFFICES ASSUME CtlTypes, WordInv, Steady, budget'.slips = 0 PROVE InOrder' /\ DiskFollows'
    BY DEF WordInv
<1>1. InOrder /\ DiskFollows /\ budget.slips = 0
    BY DEF Steady, WordInv
<1>2. Lasting' = Lasting /\ Lasting \subseteq Commands
    BY DEF Lasting, Of, Steady
<1>3. InOrder'
    BY <1>1, <1>2 DEF InOrder, Steady, runner
<1>4. \A A \in SUBSET Commands : Says(disk, table, A) <=> Says(disk', table', A)
    BY SameSaying DEF Steady
<1>5. pc' # "down" => mem'.paused = disk'.paused
    BY <1>1 DEF DiskFollows, Steady, runner
<1> DEFINE A == Lasting \ Pending  P == Lasting \cap Pending
<1>6. Says(disk, table, A) \/ \E f \in P : (\A d \in P : f <= d) /\ Says(disk, table, A \cup {f})
    BY <1>1 DEF DiskFollows, DiskSays
<1>7. Says(disk', table', A) \/ \E f \in P : (\A d \in P : f <= d) /\ Says(disk', table', A \cup {f})
    BY <1>2, <1>4, <1>6
<1>8. A' = A /\ P' = P
    BY <1>2 DEF Steady
<1>9. \A c \in Lasting' : Marking(c)' => Says(disk', table', A \cup {c})
    <2> SUFFICES ASSUME NEW c \in Lasting', Marking(c)' PROVE Says(disk', table', A \cup {c})
        OBVIOUS
    <2>1. Marking(c)
        BY DEF Marking, Steady, runner
    <2>2. Says(disk, table, A \cup {c})
        BY <2>1, <1>1, <1>2 DEF DiskFollows, DiskSays
    <2> QED
        BY <2>2, <1>2, <1>4
<1> HIDE DEF Commands
<1> QED
    BY <1>3, <1>5, <1>7, <1>8, <1>9 DEF DiskFollows, DiskSays

\* The files follow the commands in their order.
LEMMA WordStep == CtlTypes /\ WordInv /\ [Next]_vars => WordInv'
<1> SUFFICES ASSUME CtlTypes, WordInv, [Next]_vars PROVE WordInv'
    OBVIOUS
<1> DEFINE A == Lasting \ Pending  P == Lasting \cap Pending
<1>a. /\ Lasting \subseteq Commands /\ Commands \subseteq Nat \ {NoCommand}
      /\ Pending \subseteq Commands /\ batch \subseteq Commands
    BY TableTypes DEF Lasting, Of, Pending
<1>1. ASSUME NEW type \in CommandTypes, Inserted(type), UNCHANGED <<disk, runner>>, budget'.slips = budget.slips
      PROVE  WordInv'
    <2> SUFFICES ASSUME budget'.slips = 0 PROVE InOrder' /\ DiskFollows'
        BY DEF WordInv
    <2> DEFINE n == Len(table) + 1
    <2>1. /\ Commands' = Commands \cup {n} /\ Pending' = Pending \cup {n}
          /\ \A c \in Commands : table'[c] = table[c] /\ c < n
        BY <1>1, Insertion
    <2>2. n \in Nat /\ n \notin Commands
        BY <2>1, TableTypes
    <2>3. InOrder /\ DiskFollows
        BY <1>1 DEF WordInv
    <2> HIDE DEF n, Commands, Pending
    <2>4. Lasting' \ {n} = Lasting /\ Lasting' \subseteq Lasting \cup {n}
        BY <2>1, <2>2 DEF Lasting, Of
    <2>5. InOrder'
        BY <1>1, <1>a, <2>1, <2>2, <2>3, <2>4 DEF InOrder, runner
    <2>6. A' = A /\ P \subseteq P' /\ P' \subseteq P \cup {n}
        BY <1>a, <2>1, <2>2, <2>4
    <2>7. \A B \in SUBSET Commands : Says(disk, table, B) <=> Says(disk, table', B)
        BY <2>1, SameSaying
    <2>8. Says(disk, table, A) \/ \E f \in P : (\A d \in P : f <= d) /\ Says(disk, table, A \cup {f})
        BY <2>3 DEF DiskFollows, DiskSays
    <2>9. Says(disk, table', A) \/ \E f \in P' : (\A d \in P' : f <= d) /\ Says(disk, table', A \cup {f})
        <3>1. CASE Says(disk, table, A)
            BY <3>1, <2>7, <1>a
        <3>2. ASSUME NEW f \in P, \A d \in P : f <= d, Says(disk, table, A \cup {f})
              PROVE  f \in P' /\ (\A d \in P' : f <= d) /\ Says(disk, table', A \cup {f})
            <4>1. f \in Commands /\ f < n /\ A \cup {f} \in SUBSET Commands
                BY <1>a, <2>1
            <4>2. Says(disk, table', A \cup {f})
                BY <3>2, <4>1, <2>7
            <4>3. \A d \in P' : d \in P \/ d = n
                BY <2>6
            <4>4. f <= n
                BY <4>1, <2>2, <1>a
            <4>5. f \in P' /\ \A d \in P' : f <= d
                <5> HIDE DEF A, P
                <5> QED
                    BY <3>2, <4>3, <4>4, <2>6
            <4> QED
                BY <4>2, <4>5
        <3> QED
            BY <2>8, <3>1, <3>2
    <2>10. \A c \in Lasting' : Marking(c)' => Says(disk, table', A \cup {c})
        <3> SUFFICES ASSUME NEW c \in Lasting', Marking(c)' PROVE Says(disk, table', A \cup {c})
            OBVIOUS
        <3>1. Marking(c)
            BY <1>1 DEF Marking, runner
        <3>2. c \in batch
            BY <3>1, OldestIs, <1>a DEF Marking, CtlTypes, TypeOK
        <3>3. c \in Lasting
            BY <3>2, <2>2, <2>4, <1>a
        <3>4. Says(disk, table, A \cup {c})
            BY <2>3, <3>1, <3>3 DEF DiskFollows, DiskSays
        <3> QED
            BY <3>3, <3>4, <2>7, <1>a
    <2>11. pc' # "down" => mem'.paused = disk'.paused
        BY <1>1, <2>3 DEF DiskFollows, runner
    <2>12. disk' = disk
        BY <1>1
    <2> HIDE DEF A, P
    <2> QED
        BY <2>5, <2>6, <2>9, <2>10, <2>11, <2>12 DEF DiskFollows, DiskSays, A, P
<1>2. ASSUME NEW type \in Types, Enqueue(type) PROVE WordInv'
    BY <1>1, <1>2, ControlAssumption DEF Enqueue
<1>3. CASE Fetch
    <2> SUFFICES ASSUME budget'.slips = 0 PROVE InOrder' /\ DiskFollows'
        BY DEF WordInv
    <2>1. batch' = OldestPending /\ pc = "idle" /\ pc' \notin {"mark", "down"} /\ budget' = budget
        BY <1>3 DEF Fetch, Slips, GoingOn, CtlTypes
    <2>2. UNCHANGED <<table, disk, mem>> /\ Commands' = Commands /\ Pending' = Pending
        BY <1>3 DEF Fetch, Commands, Pending
    <2>3. InOrder /\ DiskFollows
        BY <2>1 DEF WordInv
    <2>4. /\ OldestPending \subseteq Pending
          /\ \A b \in OldestPending, d \in Pending : d < b => d \in OldestPending
        BY FetchedFirst DEF OldestPending
    <2> HIDE DEF Commands, Pending
    <2>5. Lasting' = Lasting
        BY <2>2 DEF Lasting, Of
    <2>6. InOrder'
        <3>1. \A c \in Lasting \ Pending, d \in Lasting \cap Pending : c < d
            BY <2>3 DEF InOrder
        <3>2. \A b \in OldestPending, d \in Lasting \cap Pending : d \in OldestPending \/ b < d
            <4> SUFFICES ASSUME NEW b \in OldestPending, NEW d \in Lasting \cap Pending, d \notin OldestPending
                         PROVE  b < d
                OBVIOUS
            <4>1. b \in Pending /\ ~(d < b) /\ b # d
                BY <2>4
            <4>2. b \in Nat /\ d \in Nat
                BY <4>1, <1>a
            <4> QED
                BY <4>1, <4>2
        <3>3. OldestPending \cap Lasting \subseteq Pending
            BY <2>4
        <3> QED
            BY <2>1, <2>2, <2>5, <3>1, <3>2, <3>3 DEF InOrder
    <2>7. DiskFollows'
        BY <2>1, <2>2, <2>3, <2>5 DEF DiskFollows, DiskSays, Marking
    <2> QED
        BY <2>6, <2>7
<1>4. CASE Effect
    <2> SUFFICES ASSUME budget'.slips = 0 PROVE InOrder' /\ DiskFollows'
        BY DEF WordInv
    <2> DEFINE c == Oldest(batch)
    <2> HIDE DEF c
    <2>0. c = Oldest(batch)
        BY DEF c
    <2>1. /\ c \in batch /\ c \in Commands /\ \A d \in batch : c <= d
          /\ pc = "effect" /\ pc' = "mark" /\ UNCHANGED <<table, batch>>
          /\ budget.slips = 0
        BY <1>4, <2>0, EffectStep
    <2>2. InOrder /\ DiskFollows /\ mem.paused = disk.paused
        BY <2>1 DEF WordInv, DiskFollows
    <2>3. /\ mem'.paused = disk'.paused
          /\ table[c].type = "pause" => disk'.paused
          /\ table[c].type = "resume" => ~disk'.paused
          /\ table[c].type \notin {"pause", "resume"} => disk'.paused = disk.paused
          /\ table[c].type = "update" => disk'.param = c
          /\ table[c].type # "update" => disk'.param = disk.param
        BY <1>4, <2>0, <2>2, EffectStep
    <2>4. Commands' = Commands /\ Pending' = Pending /\ Lasting' = Lasting
        BY <2>1 DEF Commands, Pending, Lasting, Of
    <2>5. disk.paused \in BOOLEAN /\ disk'.paused \in BOOLEAN
        <3>1. disk' \in Files
            BY <1>4, TypesStep DEF CtlTypes, TypeOK, Files
        <3> QED
            BY <3>1 DEF CtlTypes, TypeOK, Files
    <2> HIDE DEF Commands, Pending
    <2>6. InOrder'
        BY <2>1, <2>2, <2>4 DEF InOrder
    <2>7. CASE c \in Lasting
        <3>1. c \in P /\ \A d \in P : c <= d
            BY <2>1, <2>2, <2>7, NextIsOldest
        <3>2. Says(disk, table, A) \/ Says(disk, table, A \cup {c})
            <4>1. Says(disk, table, A) \/ \E f \in P : (\A d \in P : f <= d) /\ Says(disk, table, A \cup {f})
                BY <2>2 DEF DiskFollows, DiskSays
            <4>2. \A f \in P : (\A d \in P : f <= d) => f = c
                BY <3>1, <1>a
            <4> QED
                BY <4>1, <4>2
        <3>3. \A a \in A : a < c
            BY <2>2, <3>1 DEF InOrder
        <3>4. A \in SUBSET Nat /\ c \in Nat
            BY <1>a, <2>1
        <3>5. Says(disk', table, A \cup {c})
            <4> HIDE DEF A
            <4> QED
                BY <2>3, <2>5, <3>2, <3>3, <3>4, CarriedOut
        <3>6. A' = A /\ P' = P /\ table' = table
            BY <2>1, <2>4
        <3>7. \A d : Marking(d)' => d = c
            BY <2>0, <2>1 DEF Marking
        <3> HIDE DEF A, P
        <3>8. DiskFollows'
            BY <2>3, <3>1, <3>5, <3>6, <3>7 DEF DiskFollows, DiskSays, A, P
        <3> QED
            BY <2>6, <3>8
    <2>8. CASE c \notin Lasting
        <3>1. table[c].type \notin {"pause", "resume", "update"}
            BY <2>1, <2>8 DEF Lasting, Of
        <3>2. disk'.paused = disk.paused /\ disk'.param = disk.param
            BY <2>3, <3>1
        <3>3. \A B : Says(disk', table', B) <=> Says(disk, table, B)
            BY <2>1, <3>2 DEF Says
        <3>4. A' = A /\ P' = P
            BY <2>4
        <3>5. \A d \in Lasting' : ~Marking(d)'
            BY <2>0, <2>1, <2>4, <2>8 DEF Marking
        <3>6. Says(disk, table, A) \/ \E f \in P : (\A d \in P : f <= d) /\ Says(disk, table, A \cup {f})
            BY <2>2 DEF DiskFollows, DiskSays
        <3> HIDE DEF A, P
        <3>7. DiskFollows'
            BY <2>3, <3>3, <3>4, <3>5, <3>6 DEF DiskFollows, DiskSays, A, P
        <3> QED
            BY <2>6, <3>7
    <2> QED
        BY <2>7, <2>8
<1>5. CASE Conclude
    <2> SUFFICES ASSUME budget'.slips = 0 PROVE InOrder' /\ DiskFollows'
        BY DEF WordInv
    <2> DEFINE c == Oldest(batch)
    <2> HIDE DEF c
    <2>0. c = Oldest(batch)
        BY DEF c
    <2>1. /\ c \in batch /\ c \in Commands /\ \A d \in batch : c <= d
          /\ pc = "mark" /\ pc' \in {"effect", "poll"} /\ batch' = batch \ {c}
          /\ UNCHANGED <<disk, mem>> /\ Commands' = Commands
          /\ \A d \in Commands : table'[d].type = table[d].type
          /\ budget.slips = 0 /\ Pending' = Pending \ {c}
        BY <1>5, <2>0, ConcludeStep
    <2>2. InOrder /\ DiskFollows /\ mem.paused = disk.paused
        BY <2>1 DEF WordInv, DiskFollows
    <2> HIDE DEF Commands, Pending
    <2>3. Lasting' = Lasting
        BY <2>1 DEF Lasting, Of
    <2>4. c \in Lasting => c \in P /\ \A d \in P : c <= d
        BY <2>1, <2>2, NextIsOldest
    <2>5. InOrder'
        <3>1. \A a \in (Lasting \ Pending)', d \in P' : a < d
            BY <1>a, <2>1, <2>2, <2>3, <2>4 DEF InOrder
        <3>2. \A b \in batch', d \in P' : d \in batch' \/ b < d
            BY <2>1, <2>2, <2>3 DEF InOrder
        <3>3. batch' \cap Lasting' \subseteq Pending'
            BY <2>1, <2>2, <2>3 DEF InOrder
        <3> QED
            BY <3>1, <3>2, <3>3 DEF InOrder
    <2>6. \A B \in SUBSET Commands : Says(disk, table, B) <=> Says(disk', table', B)
        BY <2>1, SameSaying
    <2>7. Says(disk, table, A') \/ \E f \in P' : (\A d \in P' : f <= d) /\ Says(disk, table, A' \cup {f})
        <3>1. CASE c \in Lasting
            <4>1. A' = A \cup {c}
                BY <2>1, <2>3, <3>1
            <4>2. Marking(c)
                BY <2>0, <2>1 DEF Marking
            <4> QED
                BY <2>2, <3>1, <4>1, <4>2 DEF DiskFollows, DiskSays
        <3>2. CASE c \notin Lasting
            <4>1. A' = A /\ P' = P
                BY <2>1, <2>3, <3>2
            <4> QED
                BY <2>2, <4>1 DEF DiskFollows, DiskSays
        <3> QED
            BY <3>1, <3>2
    <2>8. Says(disk', table', A') \/ \E f \in P' : (\A d \in P' : f <= d) /\ Says(disk', table', A' \cup {f})
        <3>1. A' \in SUBSET Commands /\ P' \in SUBSET Commands
            BY <1>a, <2>3
        <3> HIDE DEF A, P
        <3> QED
            BY <2>6, <2>7, <3>1
    <2>9. \A d : ~Marking(d)'
        BY <2>1 DEF Marking
    <2>10. mem'.paused = disk'.paused
        BY <2>1, <2>2
    <2>11. DiskFollows'
        BY <2>8, <2>9, <2>10 DEF DiskFollows, DiskSays
    <2> QED
        BY <2>5, <2>11
<1>6. CASE Poll
    <2>1. mem'.paused = mem.paused
        BY <1>6 DEF Poll, ExitsAsked, CtlTypes, TypeOK
    <2>2. /\ UNCHANGED <<table, batch, budget, disk>> /\ Pending' = Pending /\ Commands' = Commands
          /\ pc = "poll" /\ pc' = "idle" /\ batch = {}
        BY <1>6 DEF Poll, Pending, Commands, CtlTypes, TypeOK
    <2> QED
        BY <2>1, <2>2, SteadyStep DEF Steady, WordInv, DiskFollows
<1>7. CASE ProcessEnds \/ Crash
    <2>1. pc' = "down" /\ batch' = {}
        BY <1>7, Ends DEF ProcessEnds, Crash, Gone
    <2>2. UNCHANGED <<table, disk>> /\ Pending' = Pending /\ Commands' = Commands /\ budget'.slips = budget.slips
        BY <1>7 DEF ProcessEnds, Crash, Pending, Commands, CtlTypes
    <2> QED
        BY <2>1, <2>2, SteadyStep DEF Steady
<1>8. CASE Relaunch
    <2>1. mem'.paused = disk.paused /\ pc' = "idle"
        BY <1>8, Boots DEF Relaunch, Launched, CtlTypes, TypeOK, Files
    <2>2. UNCHANGED <<table, disk, batch, budget>> /\ Pending' = Pending /\ Commands' = Commands /\ batch = {}
        BY <1>8 DEF Relaunch, Launched, Pending, Commands, CtlTypes, TypeOK
    <2> QED
        BY <2>1, <2>2, SteadyStep DEF Steady
<1>9. CASE StartSystem
    <2>1. /\ Commands' = Commands /\ Pending' = Pending \ Of({"restart", "shutdown", "fire"})
          /\ \A c \in Commands : table'[c].type = table[c].type
        BY <1>9, ClearedOnes, Remarking DEF StartSystem, Remarked
    <2>2. Lasting \cap Of({"restart", "shutdown", "fire"}) = {}
        BY DEF Lasting, Of
    <2>3. disk' = disk /\ budget'.slips = budget.slips
        BY <1>9 DEF StartSystem, Scripted, CtlTypes
    <2>4. \/ UNCHANGED runner
          \/ mem'.paused = disk.paused /\ batch' = {} /\ pc' = "idle"
        BY <1>9, Boots DEF StartSystem, CtlTypes, TypeOK, Files
    <2> HIDE DEF Commands, Pending
    <2>5. Lasting \ Pending' = Lasting \ Pending /\ Lasting \cap Pending' = Lasting \cap Pending
        BY <2>1, <2>2
    <2> QED
        BY <2>1, <2>3, <2>4, <2>5, SteadyStep DEF Steady
<1>10. CASE StopSystem
    <2>1. budget'.slips = budget.slips /\ UNCHANGED <<disk, runner>>
        BY <1>10 DEF StopSystem, Scripted, CtlTypes
    <2>2. CASE Inserted("shutdown")
        BY <2>1, <1>1, <2>2 DEF CommandTypes
    <2>3. CASE UNCHANGED table
        BY <2>1, <2>3, SteadyStep DEF Steady, Pending, Commands
    <2> QED
        BY <1>10, <2>2, <2>3 DEF StopSystem
<1>11. CASE StopEnds
    <2> DEFINE S == Pending \cap Of({"shutdown"})
    <2>1. CASE UNCHANGED <<table, runner>>
        BY <1>11, <2>1, SteadyStep DEF StopEnds, Pending, Commands, Steady
    <2>2. CASE Gone /\ table' = [c \in Commands |-> IF c \in S THEN [table[c] EXCEPT !.status = "done"] ELSE table[c]]
        <3>1. Lasting \cap S = {}
            BY DEF Lasting, Of
        <3> HIDE DEF S
        <3>2. Remarked /\ Pending' = Pending \ S
            BY <2>2, TakenBack
        <3>3. Commands' = Commands /\ \A d \in Commands : table'[d].type = table[d].type
            BY <3>2, Remarking DEF Remarked
        <3>4. pc' = "down" /\ batch' = {} /\ UNCHANGED <<disk, budget>>
            BY <1>11, <2>2 DEF StopEnds, Gone
        <3>5. Lasting \ Pending' = Lasting \ Pending /\ Lasting \cap Pending' = Lasting \cap Pending
            BY <3>1, <3>2
        <3> QED
            BY <3>3, <3>4, <3>5, SteadyStep DEF Steady
    <2> QED
        BY <1>11, <2>1, <2>2 DEF StopEnds
<1>12. CASE UNCHANGED vars
    BY <1>12, SteadyStep DEF vars, Pending, Commands, Steady
<1>13. CASE LinkChanges
    <2>1. budget'.slips = budget.slips
        BY <1>13 DEF LinkChanges, CtlTypes
    <2> QED
        BY <1>13, <2>1, SteadyStep DEF LinkChanges, Pending, Commands, Steady
<1> QED
    BY <1>2, <1>3, <1>4, <1>5, <1>6, <1>7, <1>8, <1>9, <1>10, <1>11, <1>12, <1>13 DEF Next, Tick

\* After the last mark the process and the files are where the last command of each kind put them,
\* whatever crashes came between: no older command is carried out after a younger one but to be
\* overruled by it again.
THEOREM LastWordStands == Spec => []LastWordWins
<1>1. Init => WordInv
    <2> SUFFICES ASSUME Init PROVE InOrder /\ DiskFollows
        BY DEF WordInv
    <2>1. Lasting = {} /\ batch = {} /\ pc = "idle"
        BY DEF Init, Lasting, Of, Commands
    <2>2. disk = [paused |-> FALSE, param |-> 0] /\ mem.paused = disk.paused
        <3>1. disk = [paused |-> FALSE, param |-> 0] /\ mem = Booted
            BY DEF Init
        <3>2. disk \in Files
            BY <3>1, ControlAssumption DEF Files
        <3> QED
            BY <3>1, <3>2, Boots
    <2> QED
        BY <2>1, <2>2 DEF InOrder, DiskFollows, DiskSays, Says, PausedBy, ParamBy, Marking, NoCommand
<1>2. CtlTypes /\ WordInv => LastWordWins
    <2> SUFFICES ASSUME CtlTypes, WordInv, Pending = {}, pc = "idle", budget.slips = 0
                 PROVE  LET pauses == Of({"pause", "resume"}) IN
                        /\ mem.paused = disk.paused
                        /\ mem.paused = (pauses # {} /\ table[Final(pauses)].type = "pause")
                        /\ disk.param = Final(Of({"update"}))
        BY Zenon DEF LastWordWins
    <2> DEFINE pauses == Of({"pause", "resume"})
               updates == Of({"update"})
    <2>1. Says(disk, table, Lasting) /\ mem.paused = disk.paused
        BY DEF WordInv, DiskFollows, DiskSays
    <2>2. /\ Commands \subseteq Nat \ {NoCommand} /\ Len(table) \in Nat /\ \A c \in Commands : c <= Len(table)
          /\ disk.paused \in BOOLEAN
        BY TableTypes DEF CtlTypes, TypeOK
    <2>3. /\ \A c \in pauses : c \in Commands /\ c \in Lasting /\ table[c].type \in {"pause", "resume"}
          /\ \A c \in Lasting : table[c].type \in {"pause", "resume"} => c \in pauses
          /\ \A c \in updates : c \in Commands /\ c \in Lasting /\ table[c].type = "update"
          /\ \A c \in Lasting : table[c].type = "update" => c \in updates
        BY DEF Lasting, Of
    <2>4. ASSUME NEW S \in SUBSET Commands, S # {}
          PROVE  Final(S) \in S /\ \A d \in S : d <= Final(S)
        BY <2>2, <2>4, Greatest DEF Final
    <2> HIDE DEF Commands, pauses, updates
    <2>5. disk.paused <=> pauses # {} /\ table[Final(pauses)].type = "pause"
        <3>1. CASE pauses = {}
            BY <2>1, <2>3, <3>1 DEF Says, PausedBy
        <3>2. CASE pauses # {}
            <4>1. Final(pauses) \in pauses /\ \A d \in pauses : d <= Final(pauses)
                BY <2>3, <2>4, <3>2
            <4>2. \A c \in pauses : c \in Nat
                BY <2>2, <2>3
            <4>3. CASE table[Final(pauses)].type = "pause"
                <5>1. \A d \in Lasting : table[d].type = "resume" => d < Final(pauses)
                    BY <2>3, <4>1, <4>2, <4>3
                <5> QED
                    BY <2>1, <2>3, <4>1, <4>3, <5>1 DEF Says, PausedBy
            <4>4. CASE table[Final(pauses)].type # "pause"
                <5>1. table[Final(pauses)].type = "resume" /\ Final(pauses) \in Lasting
                    BY <2>3, <4>1, <4>4
                <5>2. ~PausedBy(table, Lasting)
                    BY <2>3, <4>1, <4>2, <5>1 DEF PausedBy
                <5> QED
                    BY <2>1, <4>4, <5>2 DEF Says
            <4> QED
                BY <4>3, <4>4
        <3> QED
            BY <3>1, <3>2
    <2>6. disk.param = Final(updates)
        <3>1. ParamBy(table, Lasting, disk.param)
            BY <2>1 DEF Says
        <3>2. CASE updates = {}
            BY <2>3, <3>1, <3>2 DEF ParamBy, Final
        <3>3. CASE updates # {}
            <4>1. Final(updates) \in updates /\ \A d \in updates : d <= Final(updates)
                BY <2>3, <2>4, <3>3
            <4>2. \A c \in updates : c \in Nat \ {NoCommand}
                BY <2>2, <2>3
            <4>3. Final(updates) <= disk.param
                BY <2>3, <3>1, <4>1 DEF ParamBy
            <4>4. disk.param \in updates
                BY <2>3, <3>1, <4>1, <4>2, <4>3 DEF ParamBy, NoCommand
            <4> QED
                BY <4>1, <4>2, <4>3, <4>4
        <3> QED
            BY <3>2, <3>3
    <2> QED
        <3>1. mem.paused = (pauses # {} /\ table[Final(pauses)].type = "pause")
            BY <2>1, <2>2, <2>5
        <3> QED
            BY <2>1, <2>6, <3>1, Zenon DEF pauses, updates
<1>3. Spec => [](CtlTypes /\ WordInv)
    BY TypesInit, TypesStep, WordStep, <1>1, PTL DEF Spec
<1> QED
    BY <1>2, <1>3, PTL
=============================================================================
