----------------------- MODULE BatteryTracking_proofs -----------------------
(***************************************************************************)
(* What holds of the batteries that are monitored, for any number of       *)
(* batteries, changes and calls of track.                                  *)
(***************************************************************************)
EXTENDS BatteryTracking, SequenceTheorems, TLAPS

\* The tasks of b that are in the map, or were, and those that were not cancelled.
Tracked(b) == {t \in Task : battery[t] = b /\ pc[t] \in {"starts", "monitors", "unwatched"}}
Live(b)    == Tracked(b) \ stopped

\* Before Events has the list there is no task and no watch.
Pristine ==
  /\ loop = "none"
  /\ \A t \in Task : pc[t] = "free" /\ battery[t] = Nobody
  /\ \A b \in Battery : list[b] = NoTask

\* A task that has started has a battery.  The map holds tasks of the battery that got that
\* far, and only those are cancelled.
TaskInv ==
  /\ \A t \in Task : pc[t] = "free" <=> battery[t] = Nobody
  /\ \A b \in Battery : list[b] # NoTask =>
       battery[list[b]] = b /\ pc[list[b]] \in {"starts", "monitors", "unwatched", "ended"}
  /\ \A t \in stopped : pc[t] \in {"starts", "monitors", "unwatched", "ended"}

\* Without a watch there is no signal, and the loop removes one battery at a time.
LoopInv ==
  /\ events = "lists" => Pristine
  /\ events = "watches" => loop = "none"
  /\ loop = "none" => \A b \in Battery : signals[b] = <<>>
  /\ loop = "stuck" => disturbed = Battery
  /\ removing # {} => loop = "deletes"
  /\ \A b, c \in removing : b = c

\* The map knows the only task of b, or there is none and the map knows none.
Monitored(b) ==
  /\ list[b] # NoTask
  /\ Live(b) \subseteq {list[b]}
  /\ ~cancelled => list[b] \in Live(b)
Unlisted(b) == list[b] = NoTask /\ Live(b) = {}

\* What an undisturbed battery can be at: nothing is under way,
Rests(b) ==
  /\ signals[b] = <<>> /\ Preparing(b) = {} /\ b \notin removing
  /\ b \in present => Monitored(b)
  /\ b \notin present => Unlisted(b)
\* it was added, and the loop has not heard of it,
Comes(b) ==
  /\ signals[b] = <<"added">> /\ Preparing(b) = {} /\ b \notin removing
  /\ b \in present /\ Unlisted(b)
\* a task sets its monitor up,
SetsUp(b) ==
  /\ signals[b] = <<>> /\ b \notin removing
  /\ \E t \in Task : Preparing(b) = {t}
  /\ b \in present /\ Unlisted(b)
\* it was removed, and the loop has not heard of it,
Leaves(b) ==
  /\ signals[b] = <<"removed">> /\ Preparing(b) = {} /\ b \notin removing
  /\ b \notin present /\ Monitored(b)
\* or the loop has cancelled its monitor and not yet deleted the entry.
Forgets(b) ==
  /\ signals[b] = <<>> /\ Preparing(b) = {} /\ b \in removing
  /\ b \notin present /\ Live(b) = {}

Phase(b) == Rests(b) \/ Comes(b) \/ SetsUp(b) \/ Leaves(b) \/ Forgets(b)

\* An undisturbed battery is at one of these once the list is there.
Follows == events # "lists" => \A b \in Battery \ disturbed : Phase(b)

TrackInv == TypeOK /\ TaskInv /\ LoopInv /\ Follows

-----------------------------------------------------------------------------
(* Signals.                                                                *)

\* A signal that is taken leaves a sequence of signals, and the only one leaves none.
LEMMA WithoutOne ==
  ASSUME NEW S, NEW s \in Seq(S), NEW i \in DOMAIN s
  PROVE  /\ Without(s, i) \in Seq(S)
         /\ Len(s) = 1 => Without(s, i) = <<>> /\ i = 1
<1> DEFINE a == SubSeq(s, 1, i - 1)
           b == SubSeq(s, i + 1, Len(s))
<1>0. Len(s) \in Nat /\ i \in Nat /\ 1 <= i /\ i <= Len(s)
  OBVIOUS
<1>1. a \in Seq(S) /\ Len(a) = i - 1
  OBVIOUS
<1>2. b \in Seq(S) /\ Len(b) = Len(s) - i
  OBVIOUS
<1>3. Without(s, i) = a \o b
  BY DEF Without
<1> HIDE DEF a, b
<1>4. Without(s, i) \in Seq(S) /\ Len(Without(s, i)) = Len(a) + Len(b)
  BY <1>1, <1>2, <1>3, ConcatProperties, Zenon
<1>5. Len(s) = 1 => Len(Without(s, i)) = 0 /\ i = 1
  BY <1>0, <1>1, <1>2, <1>4
<1>6. Len(Without(s, i)) = 0 => Without(s, i) = <<>>
  BY <1>4, EmptySeq
<1> QED  BY <1>4, <1>5, <1>6

-----------------------------------------------------------------------------
(* Types.                                                                  *)

\* Initially all variables have their types.
LEMMA InitTypeOK == Init => TypeOK
<1> SUFFICES ASSUME Init PROVE TypeOK
  OBVIOUS
<1> USE BoundsAssumption DEF Init, NoTask, Task
<1>1. signals \in [Battery -> Seq({"added", "removed"})]
  OBVIOUS
<1>2. pc \in [Task -> Steps] /\ battery \in [Task -> Battery \cup {Nobody}]
  BY DEF Steps
<1>3. list \in [Battery -> Task \cup {NoTask}] /\ writer \in Task \cup {NoTask}
  OBVIOUS
<1>4. \A t \in Task : pc[t] = "writes" <=> writer = t
  OBVIOUS
<1>5. /\ present \subseteq Battery /\ changes \in 0 .. MaxChanges /\ removing \in SUBSET Battery
      /\ byLoop \subseteq Task /\ stopped \subseteq Task /\ disturbed \subseteq Battery
  OBVIOUS
<1>6. /\ events = "lists" /\ loop = "none" /\ cancelled \in BOOLEAN /\ gone \in BOOLEAN
      /\ crashed = "no"
  OBVIOUS
<1> HIDE DEF Init, NoTask, Task
<1> QED  BY <1>1, <1>2, <1>3, <1>4, <1>5, <1>6 DEF TypeOK

\* Every step keeps the types; GetBatteries does because no task has the lock before.
LEMMA StepTypeOK == TypeOK /\ TaskInv /\ LoopInv /\ [Next]_vars => TypeOK'
<1> SUFFICES ASSUME TypeOK, TaskInv, LoopInv, [Next]_vars PROVE TypeOK'
  OBVIOUS
<1> USE DEF TypeOK, machineVars, taskVars, mapVars, endVars
<1>0. NoTask \notin Task
  BY DEF NoTask, Task
<1>1. ASSUME NEW b \in Battery, BatteryChanges(b) PROVE TypeOK'
  <2>1. changes' \in 0 .. MaxChanges
    BY <1>1, BoundsAssumption DEF BatteryChanges
  <2>2. signals' \in [Battery -> Seq({"added", "removed"})]
    BY <1>1 DEF BatteryChanges
  <2> QED  BY <1>1, <2>1, <2>2 DEF BatteryChanges
<1>2. ASSUME NEW found \in SUBSET Battery, GetBatteries(found) PROVE TypeOK'
  <2>1. \A t \in Task : pc[t] # "writes"
    BY <1>2 DEF GetBatteries, LoopInv, Pristine
  <2>2. pc' \in [Task -> Steps] /\ \A t \in Task : pc'[t] # "writes"
    BY <1>2 DEF GetBatteries, Steps
  <2>3. battery' \in [Task -> Battery \cup {Nobody}]
    BY <1>2 DEF GetBatteries
  <2> QED  BY <1>2, <2>1, <2>2, <2>3 DEF GetBatteries
<1>3. ASSUME StartWatch \/ WatchFails \/ CloseEvents \/ Leave \/ EmptyTrigger \/ Cancel \/ ReceiverGone
      PROVE TypeOK'
  BY <1>3 DEF StartWatch, WatchFails, CloseEvents, Leave, EmptyTrigger, Cancel, ReceiverGone
<1>4. ASSUME NEW b \in Battery, Deletes(b) PROVE TypeOK'
  BY <1>4 DEF Deletes
<1>5. ASSUME NEW b \in Battery, NEW i \in 1 .. MaxChanges, NEW kind, Takes(b, i, kind)
      PROVE signals' \in [Battery -> Seq({"added", "removed"})]
  <2>1. Without(signals[b], i) \in Seq({"added", "removed"})
    BY <1>5, WithoutOne DEF Takes
  <2> QED  BY <1>5, <2>1 DEF Takes
<1>6. ASSUME NEW b \in Battery, NEW i \in 1 .. MaxChanges, Added(b, i) PROVE TypeOK'
  <2>1. PICK t \in Task : Starts(t, b) /\ byLoop' = byLoop \cup {t}
    BY <1>6 DEF Added
  <2>2. signals' \in [Battery -> Seq({"added", "removed"})]
    BY <1>5, <1>6 DEF Added
  <2>3. pc' \in [Task -> Steps] /\ battery' \in [Task -> Battery \cup {Nobody}]
    BY <2>1 DEF Starts, Steps
  <2>4. \A u \in Task : pc'[u] = "writes" <=> pc[u] = "writes"
    BY <2>1 DEF Starts
  <2> QED  BY <1>6, <2>1, <2>2, <2>3, <2>4 DEF Added
<1>7. ASSUME NEW b \in Battery, NEW i \in 1 .. MaxChanges, Removed(b, i) PROVE TypeOK'
  <2>1. signals' \in [Battery -> Seq({"added", "removed"})]
    BY <1>5, <1>7 DEF Removed
  <2>2. crashed' \in {"no", "panic", "map"}
    BY <1>7 DEF Removed
  <2>3. stopped' \subseteq Task /\ loop' \in {"none", "selects", "deletes", "closed", "stuck"}
        /\ removing' \in SUBSET Battery
    BY <1>7 DEF Removed
  <2> QED  BY <1>7, <2>1, <2>2, <2>3 DEF Removed
<1>8. ASSUME NEW t \in Task, NEW step \in Steps \ {"writes"}, pc[t] # "writes", MovesTo(t, step)
      PROVE  /\ pc' \in [Task -> Steps]
             /\ \A u \in Task : pc'[u] = "writes" <=> pc[u] = "writes"
  BY <1>8 DEF MovesTo
<1>9. ASSUME NEW t \in Task,
             Read(t) \/ ReadFails(t) \/ WatchBattery(t) \/ MonitorFails(t) \/ MonitorEnds(t)
      PROVE  TypeOK'
  <2>1. PICK step \in {"locks", "stuck", "monitors", "unwatched", "ended"} : MovesTo(t, step)
    BY <1>9 DEF Read, ReadFails, WatchBattery, MonitorFails, MonitorEnds
  <2>2. /\ pc' \in [Task -> Steps]
        /\ \A u \in Task : pc'[u] = "writes" <=> pc[u] = "writes"
    BY <1>8, <1>9, <2>1 DEF Steps, Read, ReadFails, WatchBattery, MonitorFails, MonitorEnds
  <2>3. battery[t] \in Battery \/ ~ReadFails(t)
    BY <1>9 DEF TaskInv, ReadFails
  <2> QED  BY <1>9, <2>2, <2>3 DEF Read, ReadFails, WatchBattery, MonitorFails, MonitorEnds
<1>10. ASSUME NEW t \in Task, Lock(t) PROVE TypeOK'
  <2>1. pc' \in [Task -> Steps] /\ \A u \in Task : pc'[u] = "writes" <=> writer' = u
    BY <1>0, <1>10 DEF Lock, MovesTo, Steps
  <2> QED  BY <1>10, <2>1 DEF Lock
<1>11. ASSUME NEW t \in Task, Write(t) PROVE TypeOK'
  <2>1. pc' \in [Task -> Steps] /\ \A u \in Task : pc'[u] = "writes" <=> writer' = u
    BY <1>0, <1>11 DEF Write, MovesTo, Steps
  <2> QED  BY <1>11, <2>1 DEF Write
<1>12. ASSUME NEW t \in Task, Report(t) \/ WatchPanics(t) PROVE TypeOK'
  BY <1>12 DEF Report, WatchPanics
<1>13. CASE UNCHANGED vars
  BY <1>13 DEF vars
<1> QED
  BY <1>1, <1>2, <1>3, <1>4, <1>6, <1>7, <1>9, <1>10, <1>11, <1>12, <1>13 DEF Next

-----------------------------------------------------------------------------
\* A step of task t, to its next place.
Moves(t) ==
  \/ Read(t) \/ ReadFails(t) \/ Lock(t) \/ Write(t)
  \/ WatchBattery(t) \/ MonitorFails(t) \/ MonitorEnds(t)

-----------------------------------------------------------------------------
(* The tasks, the map and the loop.                                        *)

\* Initially nothing has started.
LEMMA InitTrackInv == Init => TrackInv
<1> SUFFICES ASSUME Init PROVE TrackInv
  OBVIOUS
<1>1. TypeOK
  BY InitTypeOK
<1>2. TaskInv
  BY DEF Init, TaskInv
<1>3. LoopInv
  BY DEF Init, LoopInv, Pristine
<1>4. Follows
  BY DEF Init, Follows
<1> QED  BY <1>1, <1>2, <1>3, <1>4 DEF TrackInv

\* A step of a task moves no other task.
LEMMA OneMoves ==
  ASSUME TypeOK, NEW t \in Task, NEW step, MovesTo(t, step)
  PROVE  pc'[t] = step /\ \A u \in Task \ {t} : pc'[u] = pc[u]
BY DEF TypeOK, MovesTo

\* Every step keeps what holds of the tasks and the map.
LEMMA StepTaskInv == TypeOK /\ TaskInv /\ LoopInv /\ [Next]_vars => TaskInv'
<1> SUFFICES ASSUME TypeOK, TaskInv, LoopInv, [Next]_vars PROVE TaskInv'
  OBVIOUS
<1> USE DEF TypeOK, TaskInv, machineVars, taskVars, mapVars, endVars
<1>0. NoTask \notin Task /\ Nobody \notin Battery
  BY NobodyAssumption DEF NoTask, Task
<1>1. ASSUME UNCHANGED <<pc, battery, list, stopped>> PROVE TaskInv'
  BY <1>1
<1>2. ASSUME NEW found \in SUBSET Battery, GetBatteries(found) PROVE TaskInv'
  <2>1. \A t \in Task : pc'[t] = "free" <=> battery'[t] = Nobody
    BY <1>2 DEF GetBatteries
  <2>2. (\A b \in Battery : list'[b] = NoTask) /\ stopped' = {}
    BY <1>2 DEF GetBatteries, LoopInv, Pristine
  <2> QED  BY <2>1, <2>2
<1>3. ASSUME NEW b \in Battery, Deletes(b) PROVE TaskInv'
  BY <1>3 DEF Deletes
<1>4. ASSUME NEW b \in Battery, NEW i \in 1 .. MaxChanges, Added(b, i) PROVE TaskInv'
  <2>1. PICK t \in Task : Starts(t, b)
    BY <1>4 DEF Added
  <2>2. /\ pc[t] = "free" /\ pc'[t] = "reads" /\ battery'[t] = b
        /\ \A u \in Task \ {t} : pc'[u] = pc[u] /\ battery'[u] = battery[u]
    BY <2>1 DEF Starts
  <2>3. list' = list /\ stopped' = stopped
    BY <1>4 DEF Added
  <2>4. \A u \in Task : pc'[u] = "free" <=> battery'[u] = Nobody
    BY <1>0, <2>2
  <2>5. ASSUME NEW c \in Battery, list[c] # NoTask
        PROVE  battery'[list[c]] = c /\ pc'[list[c]] \in {"starts", "monitors", "unwatched", "ended"}
    <3>1. list[c] \in Task /\ battery[list[c]] = c /\ pc[list[c]] \in {"starts", "monitors", "unwatched", "ended"}
      BY <2>5
    <3> QED  BY <3>1, <2>2
  <2>6. ASSUME NEW u \in stopped PROVE pc'[u] \in {"starts", "monitors", "unwatched", "ended"}
    BY <2>2
  <2> QED  BY <2>3, <2>4, <2>5, <2>6
<1>5. ASSUME NEW b \in Battery, NEW i \in 1 .. MaxChanges, Removed(b, i) PROVE TaskInv'
  <2>1. pc' = pc /\ battery' = battery /\ list' = list
    BY <1>5 DEF Removed
  <2>2. stopped' = stopped \/ (list[b] # NoTask /\ stopped' = stopped \cup {list[b]})
    BY <1>5 DEF Removed
  <2> QED  BY <2>1, <2>2
<1>6. ASSUME NEW t \in Task,
             \/ Read(t) \/ ReadFails(t) \/ Lock(t)
             \/ WatchBattery(t) \/ MonitorFails(t) \/ MonitorEnds(t)
      PROVE  TaskInv'
  <2>1. PICK step \in {"locks", "stuck", "writes", "monitors", "unwatched", "ended"} : MovesTo(t, step)
    BY <1>6 DEF Read, ReadFails, Lock, WatchBattery, MonitorFails, MonitorEnds
  <2>2. /\ pc[t] \in {"reads", "locks", "starts", "monitors"}
        /\ pc[t] \in {"starts", "monitors"} => step \in {"monitors", "unwatched", "ended"}
    BY <1>6, <2>1 DEF Read, ReadFails, Lock, WatchBattery, MonitorFails, MonitorEnds, MovesTo
  <2>3. battery' = battery /\ list' = list /\ stopped' = stopped
    BY <1>6 DEF Read, ReadFails, Lock, WatchBattery, MonitorFails, MonitorEnds
  <2>4. pc'[t] = step /\ \A u \in Task \ {t} : pc'[u] = pc[u]
    BY <2>1, OneMoves
  <2>5. \A u \in Task : pc'[u] = "free" <=> battery'[u] = Nobody
    BY <1>0, <2>2, <2>3, <2>4
  <2>6. ASSUME NEW c \in Battery, list[c] # NoTask
        PROVE  battery'[list[c]] = c /\ pc'[list[c]] \in {"starts", "monitors", "unwatched", "ended"}
    <3>1. list[c] \in Task /\ battery[list[c]] = c /\ pc[list[c]] \in {"starts", "monitors", "unwatched", "ended"}
      BY <2>6
    <3> QED  BY <3>1, <2>2, <2>3, <2>4
  <2>7. ASSUME NEW u \in stopped PROVE pc'[u] \in {"starts", "monitors", "unwatched", "ended"}
    BY <2>2, <2>4
  <2> QED  BY <2>3, <2>5, <2>6, <2>7
<1>7. ASSUME NEW t \in Task, Write(t) PROVE TaskInv'
  <2>1. /\ pc[t] = "writes" /\ battery[t] \in Battery
        /\ battery' = battery /\ stopped' = stopped
        /\ list' = [list EXCEPT ![battery[t]] = t]
    BY <1>7 DEF Write
  <2>2. pc'[t] = "starts" /\ \A u \in Task \ {t} : pc'[u] = pc[u]
    BY <1>7, OneMoves DEF Write
  <2> QED  BY <1>0, <2>1, <2>2
<1>8. CASE UNCHANGED vars
  BY <1>1, <1>8 DEF vars
<1>9. ASSUME NEW b \in Battery, BatteryChanges(b) PROVE TaskInv'
  BY <1>1, <1>9 DEF BatteryChanges
<1>10. ASSUME StartWatch \/ WatchFails \/ CloseEvents \/ Leave \/ EmptyTrigger \/ Cancel \/ ReceiverGone
       PROVE TaskInv'
  BY <1>1, <1>10 DEF StartWatch, WatchFails, CloseEvents, Leave, EmptyTrigger, Cancel, ReceiverGone
<1>11. ASSUME NEW t \in Task, Report(t) \/ WatchPanics(t) PROVE TaskInv'
  BY <1>1, <1>11 DEF Report, WatchPanics
<1> QED
  BY <1>2, <1>3, <1>4, <1>5, <1>6, <1>7, <1>8, <1>9, <1>10, <1>11 DEF Next

\* Every step keeps what holds of Events and the loop.
LEMMA StepLoopInv == TypeOK /\ TaskInv /\ LoopInv /\ [Next]_vars => LoopInv'
<1> SUFFICES ASSUME TypeOK, TaskInv, LoopInv, [Next]_vars PROVE LoopInv'
  OBVIOUS
<1> USE DEF TypeOK, LoopInv, Pristine, machineVars, taskVars, mapVars, endVars
<1>1. ASSUME UNCHANGED <<signals, events, loop, removing, pc, battery, list>>,
             disturbed \subseteq disturbed', disturbed' \subseteq Battery
      PROVE LoopInv'
  BY <1>1
<1>2. ASSUME NEW b \in Battery, BatteryChanges(b) PROVE LoopInv'
  <2>1. UNCHANGED <<events, loop, removing, pc, battery, list>>
    BY <1>2 DEF BatteryChanges
  <2>2. loop = "none" => signals' = signals
    BY <1>2 DEF BatteryChanges
  <2>3. disturbed \subseteq disturbed' /\ disturbed' \subseteq Battery
    BY <1>2 DEF BatteryChanges
  <2> QED  BY <2>1, <2>2, <2>3
<1>3. ASSUME NEW found \in SUBSET Battery, GetBatteries(found) PROVE LoopInv'
  BY <1>3 DEF GetBatteries
<1>4. ASSUME StartWatch \/ WatchFails \/ CloseEvents \/ Leave \/ EmptyTrigger \/ Cancel \/ ReceiverGone
      PROVE LoopInv'
  BY <1>4 DEF StartWatch, WatchFails, CloseEvents, Leave, EmptyTrigger, Cancel, ReceiverGone
<1>5. ASSUME NEW b \in Battery, NEW i \in 1 .. MaxChanges, Added(b, i) \/ Removed(b, i)
      PROVE LoopInv'
  <2>1. loop = "selects" /\ events' = events /\ disturbed' = disturbed /\ events # "lists"
        /\ events # "watches"
    BY <1>5 DEF Added, Removed, Takes
  <2>2. \/ loop' = loop /\ removing' = removing
        \/ loop' = "deletes" /\ removing' = {b}
    BY <1>5 DEF Added, Removed
  <2> QED  BY <2>1, <2>2
<1>6. ASSUME NEW b \in Battery, Deletes(b) PROVE LoopInv'
  BY <1>6 DEF Deletes
<1>7. ASSUME NEW t \in Task, Moves(t) PROVE LoopInv'
  <2>1. pc[t] # "free"
    BY <1>7 DEF Moves, Read, ReadFails, Lock, Write, WatchBattery, MonitorFails, MonitorEnds
  <2>2. UNCHANGED <<signals, events, loop, removing>>
    BY <1>7 DEF Moves, Read, ReadFails, Lock, Write, WatchBattery, MonitorFails, MonitorEnds
  <2>3. disturbed \subseteq disturbed' /\ disturbed' \subseteq Battery
    <3>1. battery[t] \in Battery
      BY <2>1 DEF TaskInv
    <3> QED  BY <1>7, <3>1 DEF Moves, Read, ReadFails, Lock, Write, WatchBattery, MonitorFails, MonitorEnds
  <2> QED  BY <2>1, <2>2, <2>3
<1>8. ASSUME NEW t \in Task, Report(t) \/ WatchPanics(t) PROVE LoopInv'
  BY <1>1, <1>8 DEF Report, WatchPanics
<1>9. CASE UNCHANGED vars
  BY <1>1, <1>9 DEF vars
<1> QED
  BY <1>2, <1>3, <1>4, <1>5, <1>6, <1>7, <1>8, <1>9 DEF Next, Moves

-----------------------------------------------------------------------------
(* Each battery follows its path.                                          *)

\* A battery stays where it is if nothing of it changes; the end of the agent may end
\* its monitor.
LEMMA Alike ==
  ASSUME NEW b \in Battery, Phase(b),
         signals'[b] = signals[b], Preparing(b)' = Preparing(b),
         b \in removing' <=> b \in removing, b \in present' <=> b \in present,
         list'[b] = list[b], Live(b)' \subseteq Live(b),
         ~cancelled' => ~cancelled /\ Live(b)' = Live(b)
  PROVE  Phase(b)'
<1>1. CASE Rests(b)
  BY <1>1 DEF Phase, Rests, Monitored, Unlisted
<1>2. CASE Comes(b)
  BY <1>2 DEF Phase, Comes, Unlisted
<1>3. CASE SetsUp(b)
  BY <1>3 DEF Phase, SetsUp, Unlisted
<1>4. CASE Leaves(b)
  BY <1>4 DEF Phase, Leaves, Monitored
<1>5. CASE Forgets(b)
  BY <1>5 DEF Phase, Forgets
<1> QED  BY <1>1, <1>2, <1>3, <1>4, <1>5 DEF Phase

\* What a battery that does not rest is busy with.
LEMMA Busied ==
  ASSUME NEW b \in Battery
  PROVE  /\ Rests(b) => ~Busy(b)
         /\ Comes(b) \/ SetsUp(b) \/ Leaves(b) \/ Forgets(b) => Busy(b)
         /\ Phase(b) /\ ~Busy(b) => Rests(b)
<1>1. Rests(b) => ~Busy(b)
  BY DEF Rests, Busy
<1>2. Comes(b) => Busy(b)
  <2>1. <<"added">> # <<>>
    OBVIOUS
  <2> QED  BY <2>1 DEF Comes, Busy
<1>3. SetsUp(b) => Busy(b)
  BY DEF SetsUp, Busy
<1>4. Leaves(b) => Busy(b)
  <2>1. <<"removed">> # <<>>
    OBVIOUS
  <2> QED  BY <2>1 DEF Leaves, Busy
<1>5. Forgets(b) => Busy(b)
  BY DEF Forgets, Busy
<1> QED  BY <1>1, <1>2, <1>3, <1>4, <1>5, Zenon DEF Phase

\* What moves a task of another battery changes none of b's.
LEMMA OthersTasks ==
  ASSUME TypeOK, NEW b \in Battery, NEW t \in Task, battery[t] # b, battery'[t] # b,
         \A u \in Task \ {t} : pc'[u] = pc[u] /\ battery'[u] = battery[u],
         stopped' = stopped
  PROVE  Preparing(b)' = Preparing(b) /\ Live(b)' = Live(b)
BY DEF Preparing, Live, Tracked

\* A battery comes or goes: it was at rest, or is disturbed now.
LEMMA ChangeFollows ==
  ASSUME TrackInv, NEW c \in Battery, BatteryChanges(c) PROVE Follows'
<1> USE DEF TrackInv, TypeOK, taskVars, mapVars, endVars
<1> SUFFICES ASSUME events' # "lists", NEW b \in Battery \ disturbed' PROVE Phase(b)'
  BY DEF Follows
<1>1. UNCHANGED <<events, loop, removing, pc, battery, list, stopped, cancelled>>
  BY DEF BatteryChanges
<1>2. b \notin disturbed /\ Phase(b)
  BY <1>1 DEF BatteryChanges, Follows
<1>3. Preparing(b)' = Preparing(b) /\ Live(b)' = Live(b)
  BY <1>1 DEF Preparing, Live, Tracked
<1>4. CASE b # c
  <2>1. signals'[b] = signals[b] /\ (b \in present' <=> b \in present)
    BY <1>4 DEF BatteryChanges
  <2> QED  BY <1>1, <1>2, <1>3, <2>1, Alike
<1>5. CASE b = c
  <2>1. ~Busy(b) /\ loop \notin {"none", "stuck"}
    BY <1>1, <1>5 DEF BatteryChanges
  <2>2. Rests(b)
    BY <1>2, <2>1, Busied
  <2>3. signals'[b] = Append(signals[b], IF b \in present THEN "removed" ELSE "added")
    BY <1>5, <2>1 DEF BatteryChanges
  <2>4. b \in present' <=> b \notin present
    BY <1>5 DEF BatteryChanges
  <2>5. CASE b \in present
    <3>1. signals'[b] = <<"removed">>
      BY <2>2, <2>3, <2>5 DEF Rests
    <3>2. Leaves(b)'
      BY <1>1, <1>3, <2>2, <2>4, <2>5, <3>1 DEF Leaves, Rests, Monitored
    <3> QED  BY <3>2 DEF Phase
  <2>6. CASE b \notin present
    <3>1. signals'[b] = <<"added">>
      BY <2>2, <2>3, <2>6 DEF Rests
    <3>2. Comes(b)'
      BY <1>1, <1>3, <2>2, <2>4, <2>6, <3>1 DEF Comes, Rests, Unlisted
    <3> QED  BY <3>2 DEF Phase
  <2> QED  BY <2>5, <2>6
<1> QED  BY <1>4, <1>5

\* Events starts a task for each battery there is.
LEMMA ListFollows ==
  ASSUME TrackInv, NEW found \in SUBSET Battery, GetBatteries(found) PROVE Follows'
<1> USE DEF TrackInv, TypeOK, machineVars, mapVars, endVars
<1> SUFFICES ASSUME NEW b \in Battery \ disturbed' PROVE Phase(b)'
  BY DEF Follows
<1>0. Nobody \notin Battery
  BY NobodyAssumption
<1>1. Pristine /\ UNCHANGED <<present, signals, loop, removing, list, stopped, cancelled>>
  BY DEF GetBatteries, LoopInv
<1>2. signals'[b] = <<>> /\ b \notin removing' /\ list'[b] = NoTask
  BY <1>1 DEF LoopInv, Pristine
<1>3. Live(b)' = {}
  <2>1. \A t \in Task : pc'[t] \notin {"starts", "monitors", "unwatched"}
    BY DEF GetBatteries
  <2> QED  BY <2>1 DEF Live, Tracked
<1>4. b \in present' <=> b \in found
  BY <1>1 DEF GetBatteries
<1>5. CASE b \in found
  <2>1. PICK t \in Task : \A u \in Task : battery'[u] = b <=> u = t
    BY <1>5 DEF GetBatteries
  <2>2. pc'[t] = "reads"
    BY <1>0, <2>1 DEF GetBatteries
  <2>3. Preparing(b)' = {t}
    BY <2>1, <2>2 DEF Preparing
  <2>4. SetsUp(b)'
    BY <1>2, <1>3, <1>4, <1>5, <2>3 DEF SetsUp, Unlisted
  <2> QED  BY <2>4 DEF Phase
<1>6. CASE b \notin found
  <2>1. \A t \in Task : battery'[t] # b
    BY <1>0, <1>6 DEF GetBatteries
  <2>2. Preparing(b)' = {}
    BY <2>1 DEF Preparing
  <2>3. Rests(b)'
    BY <1>2, <1>3, <1>4, <1>6, <2>2 DEF Rests, Unlisted
  <2> QED  BY <2>3 DEF Phase
<1> QED  BY <1>5, <1>6

\* The loop takes a signal of a battery: only the task it starts or the entry it cancels
\* is that battery's.
LEMMA SignalFollows ==
  ASSUME TrackInv, NEW c \in Battery, NEW i \in 1 .. MaxChanges, Added(c, i) \/ Removed(c, i)
  PROVE  Follows'
<1> USE DEF TrackInv, TypeOK, machineVars, taskVars, mapVars, endVars
<1> SUFFICES ASSUME events' # "lists", NEW b \in Battery \ disturbed' PROVE Phase(b)'
  BY DEF Follows
<1>0. NoTask \notin Task /\ Nobody \notin Battery
  BY NobodyAssumption DEF NoTask, Task
<1>1. UNCHANGED <<present, events, list, cancelled, disturbed>>
  BY DEF Added, Removed
<1>2. b \notin disturbed /\ Phase(b)
  BY <1>1 DEF Follows
<1>3. loop = "selects" /\ removing = {}
  BY DEF Added, Removed, Takes, LoopInv
<1>4. i \in DOMAIN signals[c] /\ signals' = [signals EXCEPT ![c] = Without(@, i)]
  BY DEF Added, Removed, Takes
<1>5. CASE b # c
  <2>1. signals'[b] = signals[b]
    BY <1>4, <1>5
  <2>2. b \notin removing'
    BY <1>3, <1>5 DEF Added, Removed
  <2>3. Preparing(b)' = Preparing(b) /\ Live(b)' = Live(b)
    <3>1. CASE Added(c, i)
      <4>1. PICK t \in Task : Starts(t, c)
        BY <3>1 DEF Added
      <4>2. /\ battery[t] # b /\ battery'[t] # b /\ stopped' = stopped
            /\ \A u \in Task \ {t} : pc'[u] = pc[u] /\ battery'[u] = battery[u]
        BY <1>0, <1>5, <3>1, <4>1 DEF Added, Starts, TaskInv
      <4> QED  BY <4>2, OthersTasks
    <3>2. CASE Removed(c, i)
      <4>1. pc' = pc /\ battery' = battery
        BY <3>2 DEF Removed
      <4>2. stopped' = stopped \/ (list[c] # NoTask /\ stopped' = stopped \cup {list[c]})
        BY <3>2 DEF Removed
      <4>3. list[c] # NoTask => battery[list[c]] # b
        BY <1>5 DEF TaskInv
      <4> QED  BY <4>1, <4>2, <4>3 DEF Preparing, Live, Tracked
    <3> QED  BY <3>1, <3>2
  <2> QED  BY <1>1, <1>2, <1>3, <2>1, <2>2, <2>3, Alike
<1>6. CASE b = c
  <2>1. signals[b] # <<>>
    BY <1>4, <1>6
  <2>2. Comes(b) \/ Leaves(b)
    BY <1>2, <2>1 DEF Phase, Rests, SetsUp, Forgets
  <2>3. signals'[b] = <<>> /\ i = 1
    <3>1. Len(signals[b]) = 1
      <4>1. signals[b] = <<"added">> \/ signals[b] = <<"removed">>
        BY <2>2 DEF Comes, Leaves
      <4>2. Len(<<"added">>) = 1 /\ Len(<<"removed">>) = 1
        OBVIOUS
      <4> QED  BY <4>1, <4>2, Zenon
    <3>2. signals'[b] = Without(signals[b], i)
      BY <1>4, <1>6
    <3> QED  BY <1>4, <1>6, <3>1, <3>2, WithoutOne
  <2>4. CASE Added(c, i)
    <3>1. Comes(b)
      <4>1. signals[b][1] = "added"
        BY <1>6, <2>3, <2>4 DEF Added, Takes
      <4> QED  BY <2>2, <4>1 DEF Leaves
    <3>2. PICK t \in Task : Starts(t, b)
      BY <1>6, <2>4 DEF Added
    <3>3. /\ pc[t] = "free" /\ pc'[t] = "reads" /\ battery'[t] = b
          /\ \A u \in Task \ {t} : pc'[u] = pc[u] /\ battery'[u] = battery[u]
      BY <3>2 DEF Starts
    <3>4. Preparing(b)' = {t}
      BY <3>1, <3>3 DEF Comes, Preparing
    <3>5. stopped' = stopped /\ Live(b)' = {}
      <4>1. stopped' = stopped
        BY <2>4 DEF Added
      <4> QED  BY <3>1, <3>3, <4>1 DEF Comes, Unlisted, Live, Tracked
    <3>6. b \notin removing'
      BY <1>3, <2>4 DEF Added
    <3>7. SetsUp(b)'
      BY <1>1, <2>3, <3>1, <3>4, <3>5, <3>6 DEF Comes, SetsUp, Unlisted
    <3> QED  BY <3>7 DEF Phase
  <2>5. CASE Removed(c, i)
    <3>1. Leaves(b)
      <4>1. signals[b][1] = "removed"
        BY <1>6, <2>3, <2>5 DEF Removed, Takes
      <4> QED  BY <2>2, <4>1 DEF Comes
    <3>2. /\ pc' = pc /\ battery' = battery
          /\ removing' = {b} /\ stopped' = stopped \cup {list[b]}
      BY <1>6, <2>5, <3>1 DEF Removed, Leaves, Monitored
    <3>3. Preparing(b)' = {} /\ Live(b)' = {}
      BY <3>1, <3>2 DEF Leaves, Monitored, Preparing, Live, Tracked
    <3>4. Forgets(b)'
      BY <1>1, <2>3, <3>1, <3>2, <3>3 DEF Leaves, Forgets
    <3> QED  BY <3>4 DEF Phase
  <2> QED  BY <2>4, <2>5
<1> QED  BY <1>5, <1>6

\* The entry of a removed battery is deleted.
LEMMA DeleteFollows ==
  ASSUME TrackInv, NEW c \in Battery, Deletes(c) PROVE Follows'
<1> USE DEF TrackInv, TypeOK, machineVars, taskVars, endVars
<1> SUFFICES ASSUME events' # "lists", NEW b \in Battery \ disturbed' PROVE Phase(b)'
  BY DEF Follows
<1>1. UNCHANGED <<present, signals, events, pc, battery, stopped, cancelled, disturbed>>
  BY DEF Deletes
<1>2. b \notin disturbed /\ Phase(b)
  BY <1>1 DEF Follows
<1>3. removing = {c} /\ removing' = {} /\ list' = [list EXCEPT ![c] = NoTask]
  BY DEF Deletes, LoopInv
<1>4. Preparing(b)' = Preparing(b) /\ Live(b)' = Live(b)
  BY <1>1 DEF Preparing, Live, Tracked
<1>5. CASE b # c
  BY <1>1, <1>2, <1>3, <1>4, <1>5, Alike
<1>6. CASE b = c
  <2>1. Forgets(b)
    BY <1>2, <1>3, <1>6 DEF Phase, Rests, Comes, SetsUp, Leaves
  <2>2. Rests(b)'
    BY <1>1, <1>3, <1>4, <1>6, <2>1 DEF Forgets, Rests, Unlisted
  <2> QED  BY <2>2 DEF Phase
<1> QED  BY <1>5, <1>6

\* A task moves: the one that writes to the map is the only one of its battery.
LEMMA TaskFollows ==
  ASSUME TrackInv, NEW t \in Task, Moves(t) PROVE Follows'
<1> USE DEF TrackInv, TypeOK, machineVars, mapVars, endVars
<1> SUFFICES ASSUME events' # "lists", NEW b \in Battery \ disturbed' PROVE Phase(b)'
  BY DEF Follows
<1>1. UNCHANGED <<present, signals, events, removing, battery, stopped, cancelled>>
  BY DEF Moves, Read, ReadFails, Lock, Write, WatchBattery, MonitorFails, MonitorEnds
<1>2. b \notin disturbed /\ Phase(b)
  BY <1>1 DEF Moves, Follows, Read, ReadFails, Lock, Write, WatchBattery, MonitorFails, MonitorEnds
<1>3. PICK step \in {"locks", "stuck", "writes", "starts", "monitors", "unwatched", "ended"} : MovesTo(t, step)
  BY DEF Moves, Read, ReadFails, Lock, Write, WatchBattery, MonitorFails, MonitorEnds
<1>4. pc'[t] = step /\ \A u \in Task \ {t} : pc'[u] = pc[u]
  BY <1>3, OneMoves
<1>5. battery[t] \in Battery
  BY DEF Moves, TaskInv, Read, ReadFails, Lock, Write, WatchBattery, MonitorFails, MonitorEnds
<1>6. CASE battery[t] # b
  <2>1. Preparing(b)' = Preparing(b) /\ Live(b)' = Live(b)
    BY <1>1, <1>4, <1>6, OthersTasks
  <2>2. list'[b] = list[b]
    BY <1>5, <1>6 DEF Moves, Read, ReadFails, Lock, Write, WatchBattery, MonitorFails, MonitorEnds
  <2> QED  BY <1>1, <1>2, <2>1, <2>2, Alike
<1>7. CASE battery[t] = b /\ (Read(t) \/ Lock(t))
  <2>1. /\ pc[t] \in {"reads", "locks"} /\ pc'[t] \in {"locks", "writes"}
        /\ list' = list
    BY <1>4, <1>7 DEF Read, Lock, MovesTo
  <2>2. Preparing(b)' = Preparing(b) /\ Live(b)' = Live(b)
    BY <1>1, <1>4, <1>7, <2>1 DEF Preparing, Live, Tracked
  <2> QED  BY <1>1, <1>2, <2>1, <2>2, Alike
<1>8. CASE battery[t] = b /\ ReadFails(t)
  BY <1>8 DEF ReadFails
<1>9. CASE battery[t] = b /\ MonitorEnds(t)
  <2>1. pc[t] = "monitors" /\ list' = list /\ pc'[t] = "ended" /\ (t \in stopped \/ cancelled)
    BY <1>4, <1>9 DEF MonitorEnds, MovesTo
  <2>2. Preparing(b)' = Preparing(b) /\ Live(b)' \subseteq Live(b)
    BY <1>1, <1>4, <2>1 DEF Preparing, Live, Tracked
  <2>3. ~cancelled' => Live(b)' = Live(b)
    BY <1>1, <1>4, <2>1 DEF Live, Tracked
  <2> QED  BY <1>1, <1>2, <2>1, <2>2, <2>3, Alike
<1>10. CASE battery[t] = b /\ Write(t)
  <2>1. pc[t] = "writes" /\ pc'[t] = "starts" /\ list'[b] = t
    BY <1>2, <1>4, <1>10 DEF Write, MovesTo
  <2>2. t \in Preparing(b) /\ t \notin stopped
    BY <1>10, <2>1 DEF Preparing, TaskInv
  <2>3. SetsUp(b)
    BY <1>2, <2>2 DEF Phase, Rests, Comes, Leaves, Forgets
  <2>4. Preparing(b) = {t}
    BY <2>2, <2>3 DEF SetsUp
  <2>5. Preparing(b)' = {}
    BY <1>1, <1>4, <2>1, <2>4 DEF Preparing
  <2>6. Live(b)' = {t}
    BY <1>1, <1>4, <1>10, <2>1, <2>2, <2>3 DEF SetsUp, Unlisted, Live, Tracked
  <2>7. Rests(b)'
    <3>1. t # NoTask
      BY DEF NoTask, Task
    <3> QED  BY <1>1, <2>1, <2>3, <2>5, <2>6, <3>1 DEF SetsUp, Rests, Monitored
  <2> QED  BY <2>7 DEF Phase
<1>11. CASE battery[t] = b /\ (WatchBattery(t) \/ MonitorFails(t))
  <2>1. pc[t] = "starts" /\ list' = list /\ pc'[t] \in {"monitors", "unwatched"}
    BY <1>4, <1>11 DEF WatchBattery, MonitorFails, MovesTo
  <2>2. Preparing(b)' = Preparing(b) /\ Live(b)' = Live(b)
    BY <1>1, <1>4, <2>1 DEF Preparing, Live, Tracked
  <2> QED  BY <1>1, <1>2, <2>1, <2>2, Alike
<1> QED  BY <1>6, <1>7, <1>8, <1>9, <1>10, <1>11 DEF Moves

\* Every step keeps the invariant.
LEMMA StepTrackInv == TrackInv /\ [Next]_vars => TrackInv'
<1> SUFFICES ASSUME TrackInv, [Next]_vars PROVE TrackInv'
  OBVIOUS
<1>1. TypeOK' /\ TaskInv' /\ LoopInv'
  BY StepTypeOK, StepTaskInv, StepLoopInv DEF TrackInv
<1>2. ASSUME UNCHANGED <<present, signals, removing, pc, battery, stopped, list>>,
             events' # "lists" => events # "lists", disturbed \subseteq disturbed',
             ~cancelled' => ~cancelled
      PROVE Follows'
  <2> SUFFICES ASSUME events' # "lists", NEW b \in Battery \ disturbed' PROVE Phase(b)'
    BY DEF Follows
  <2>1. Phase(b)
    BY <1>2 DEF TrackInv, Follows
  <2>2. Preparing(b)' = Preparing(b) /\ Live(b)' = Live(b)
    BY <1>2 DEF Preparing, Live, Tracked
  <2> QED  BY <1>2, <2>1, <2>2, Alike
<1> USE DEF machineVars, taskVars, mapVars, endVars
<1>3. ASSUME StartWatch \/ CloseEvents \/ Leave \/ EmptyTrigger \/ Cancel \/ ReceiverGone
      PROVE Follows'
  BY <1>2, <1>3 DEF StartWatch, CloseEvents, Leave, EmptyTrigger, Cancel, ReceiverGone
<1>4. ASSUME NEW t \in Task, Report(t) \/ WatchPanics(t) PROVE Follows'
  BY <1>2, <1>4 DEF Report, WatchPanics
<1>5. ASSUME WatchFails PROVE Follows'
  BY <1>5 DEF WatchFails, Follows
<1>6. ASSUME UNCHANGED vars PROVE Follows'
  BY <1>2, <1>6 DEF vars
<1>7. ASSUME NEW b \in Battery, BatteryChanges(b) \/ Deletes(b) PROVE Follows'
  BY <1>7, ChangeFollows, DeleteFollows
<1>8. ASSUME NEW found \in SUBSET Battery, GetBatteries(found) PROVE Follows'
  BY <1>8, ListFollows
<1>9. ASSUME NEW b \in Battery, NEW i \in 1 .. MaxChanges, Added(b, i) \/ Removed(b, i)
      PROVE Follows'
  BY <1>9, SignalFollows
<1>10. ASSUME NEW t \in Task, Moves(t) PROVE Follows'
  BY <1>10, TaskFollows
<1>11. Follows'
  BY <1>3, <1>4, <1>5, <1>6, <1>7, <1>8, <1>9, <1>10 DEF Next, Moves
<1> QED  BY <1>1, <1>11 DEF TrackInv

-----------------------------------------------------------------------------
(* Theorems.                                                               *)

\* While the signals, the set-up and the removal of a battery keep apart, the map knows
\* every monitor of it that was not cancelled: cancelFunc reaches it.
THEOREM NoMonitorIsLost == Spec => []NoOrphans
<1>1. TrackInv => NoOrphans
  <2> SUFFICES ASSUME TrackInv, NEW b \in Battery \ disturbed
               PROVE  Live(b) \subseteq {list[b]}
    BY DEF NoOrphans, Live, Tracked, Monitoring
  <2>1. CASE events = "lists"
    <3>1. \A t \in Task : pc[t] = "free"
      BY <2>1 DEF TrackInv, LoopInv, Pristine
    <3> QED  BY <3>1 DEF Live, Tracked
  <2>2. CASE events # "lists"
    <3>1. Phase(b)
      BY <2>2 DEF TrackInv, Follows
    <3> QED  BY <3>1 DEF Phase, Rests, Comes, SetsUp, Leaves, Forgets, Monitored, Unlisted
  <2> QED  BY <2>1, <2>2
<1> QED  BY <1>1, InitTrackInv, StepTrackInv, PTL DEF Spec

\* A battery that comes and goes slowly enough is in the map while it is there, and
\* monitored by the task of its entry alone unless the watch of that task did not start;
\* when it is not there it has no entry and no monitor.
THEOREM MonitorsFollowTheBatteries == Spec => []TracksThePresent
<1>1. TrackInv => TracksThePresent
  <2> SUFFICES ASSUME TrackInv, NEW b \in Battery \ disturbed, Settled(b)
               PROVE  IF b \in present THEN list[b] # NoTask /\ Monitoring(b) = {list[b]} \ Unwatched
                      ELSE list[b] = NoTask /\ Monitoring(b) = {}
    BY DEF TracksThePresent
  <2>1. Rests(b)
    <3>1. Phase(b) /\ ~Busy(b)
      BY DEF TrackInv, Follows, Settled
    <3> QED  BY <3>1, Busied
  <2>2. Monitoring(b) = Live(b) \ Unwatched /\ ~cancelled
    BY DEF Settled, Live, Tracked, Monitoring, Unwatched
  <2>3. CASE b \in present
    <3>1. list[b] # NoTask /\ Live(b) = {list[b]}
      BY <2>1, <2>2, <2>3 DEF Rests, Monitored
    <3> QED  BY <2>2, <2>3, <3>1
  <2>4. CASE b \notin present
    <3>1. list[b] = NoTask /\ Live(b) = {}
      BY <2>1, <2>4 DEF Rests, Unlisted
    <3> QED  BY <2>2, <2>4, <3>1
  <2> QED  BY <2>3, <2>4
<1> QED  BY <1>1, InitTrackInv, StepTrackInv, PTL DEF Spec

\* All variables keep their types.
THEOREM BatteryTypes == Spec => []TypeOK
<1>1. TrackInv => TypeOK
  BY DEF TrackInv
<1> QED  BY <1>1, InitTrackInv, StepTrackInv, PTL DEF Spec
=============================================================================
