--------------------------- MODULE BatteryTracking ---------------------------
(***************************************************************************)
(* batterySensorWorker: which batteries are monitored while batteries come *)
(* and go.                                                                 *)
(*                                                                         *)
(* Events asks UPower once for the batteries there are and runs track for  *)
(* each, then monitorBatteryChanges watches for more.  Its loop runs track *)
(* for an added battery in a new goroutine, and remove for a removed one   *)
(* itself.  track stores the function that cancels its monitor in a map of *)
(* the worker, under a lock; remove reads the map without it.              *)
(*                                                                         *)
(* A call of track is a task.  What it monitors goes through the channel   *)
(* of Events if that started it, and through the channel of the loop, too, *)
(* if the loop did; the loop closes that when the context is done.         *)
(***************************************************************************)
EXTENDS Naturals, Sequences, FiniteSets

CONSTANTS
  Battery,
  Nobody,       \* the battery of a task that has not started
  MaxChanges,   \* bound: how often a battery comes or goes
  MaxTasks      \* bound: the calls of track

ASSUME BoundsAssumption == MaxChanges \in Nat /\ MaxTasks \in Nat
ASSUME NobodyAssumption == Nobody \notin Battery

Task   == 1 .. MaxTasks
NoTask == 0

VARIABLES
  present,    \* the batteries in the machine
  changes,    \* how often they changed
  signals,    \* what the bus has still to deliver of a battery
  events,     \* Events
  loop,       \* the loop of monitorBatteryChanges
  removing,   \* the battery it removes
  pc,         \* what a task is at
  battery,    \* the battery it tracks
  byLoop,     \* the tasks the loop started
  stopped,    \* the tasks whose monitor was cancelled
  list,       \* batteryList: whose cancel function it holds
  writer,     \* the task that writes to it
  cancelled,  \* the context is done
  gone,       \* nobody receives from the worker's channel any more
  crashed,    \* what ended the program, if anything did
  disturbed   \* the batteries whose signals, set-up and removal overlapped

machineVars == <<present, changes>>
taskVars    == <<pc, battery, byLoop>>
mapVars     == <<stopped, list, writer>>
endVars     == <<cancelled, gone, crashed>>
vars == <<machineVars, signals, events, loop, removing, taskVars, mapVars, endVars, disturbed>>

\* A task reads the battery, waits for the lock, writes to the map, starts the watch of
\* its properties, monitors, and has ended; or it has no watch, and has ended at once; or
\* it is stuck with a channel nobody closes.
Steps == {"free", "reads", "locks", "writes", "starts", "monitors", "unwatched", "ended", "stuck"}

TypeOK ==
  /\ present \subseteq Battery
  /\ changes \in 0 .. MaxChanges
  /\ signals \in [Battery -> Seq({"added", "removed"})]
  /\ events \in {"lists", "watches", "waits", "closed"}
  /\ loop \in {"none", "selects", "deletes", "closed", "stuck"}
  /\ removing \in SUBSET Battery
  /\ pc \in [Task -> Steps]
  /\ battery \in [Task -> Battery \cup {Nobody}]
  /\ byLoop \subseteq Task
  /\ stopped \subseteq Task
  /\ list \in [Battery -> Task \cup {NoTask}]
  /\ writer \in Task \cup {NoTask}
  /\ \A t \in Task : pc[t] = "writes" <=> writer = t
  /\ cancelled \in BOOLEAN /\ gone \in BOOLEAN
  /\ crashed \in {"no", "panic", "map"}
  /\ disturbed \subseteq Battery

Init ==
  /\ present \in SUBSET Battery
  /\ changes = 0
  /\ signals = [b \in Battery |-> <<>>]
  /\ events = "lists" /\ loop = "none" /\ removing = {}
  /\ pc = [t \in Task |-> "free"]
  /\ battery = [t \in Task |-> Nobody]
  /\ byLoop = {}
  /\ stopped = {} /\ list = [b \in Battery |-> NoTask] /\ writer = NoTask
  /\ cancelled = FALSE /\ gone = FALSE /\ crashed = "no"
  /\ disturbed = {}

\* The tasks of b that are not in the map yet, and those that monitor it.
Preparing(b)  == {t \in Task : battery[t] = b /\ pc[t] \in {"reads", "locks", "writes"}}
Monitoring(b) == {t \in Task : battery[t] = b /\ pc[t] = "monitors"}

\* The signals, the set-up or the removal of b are not over.
Busy(b) == signals[b] # <<>> \/ Preparing(b) # {} \/ b \in removing

-----------------------------------------------------------------------------
(* The machine.                                                            *)

\* A battery is added or removed.  UPower says so to those who watch by then.
BatteryChanges(b) ==
  /\ changes < MaxChanges
  /\ changes' = changes + 1
  /\ present' = IF b \in present THEN present \ {b} ELSE present \cup {b}
  /\ signals' = IF loop \in {"none", "stuck"} THEN signals
                ELSE [signals EXCEPT ![b] = Append(@, IF b \in present THEN "removed" ELSE "added")]
  /\ disturbed' = IF Busy(b) \/ (loop \in {"none", "stuck"} /\ events # "lists")
                    THEN disturbed \cup {b} ELSE disturbed
  /\ UNCHANGED <<events, loop, removing, taskVars, mapVars, endVars>>

-----------------------------------------------------------------------------
(* Events.                                                                 *)

\* A task for b starts.
Starts(t, b) ==
  /\ pc[t] = "free"
  /\ \A u \in 1 .. t - 1 : pc[u] # "free"
  /\ pc' = [pc EXCEPT ![t] = "reads"]
  /\ battery' = [battery EXCEPT ![t] = b]

\* EnumerateDevices: a task for each battery there is, or for none if it fails.
GetBatteries(found) ==
  /\ events = "lists"
  /\ found \in {present, {}}
  /\ events' = "watches"
  /\ battery' \in [Task -> found \cup {Nobody}]
  /\ \A b \in found : \E t \in Task : \A u \in Task : battery'[u] = b <=> u = t
  /\ \A t \in Task : battery'[t] # Nobody => \A u \in 1 .. t - 1 : battery'[u] # Nobody
  /\ pc' = [t \in Task |-> IF battery'[t] = Nobody THEN "free" ELSE "reads"]
  /\ disturbed' = disturbed \cup (present \ found)
  /\ UNCHANGED <<machineVars, signals, loop, removing, byLoop, mapVars, endVars>>

\* The watch of monitorBatteryChanges starts.
StartWatch ==
  /\ events = "watches"
  /\ events' = "waits"
  /\ loop' = "selects"
  /\ UNCHANGED <<machineVars, signals, removing, taskVars, mapVars, endVars, disturbed>>

\* It does not: the channel is nil, and the goroutine that ranges over it waits for
\* ever.
WatchFails ==
  /\ events = "watches"
  /\ events' = "waits"
  /\ loop' = "stuck"
  /\ disturbed' = Battery
  /\ UNCHANGED <<machineVars, signals, removing, taskVars, mapVars, endVars>>

\* All that Events waits for is over: it closes the worker's channel.
CloseEvents ==
  /\ events = "waits"
  /\ loop = "closed"
  /\ \A t \in Task \ byLoop : pc[t] \in {"free", "ended", "unwatched"}
  /\ events' = "closed"
  /\ UNCHANGED <<machineVars, signals, loop, removing, taskVars, mapVars, endVars, disturbed>>

-----------------------------------------------------------------------------
(* The loop of monitorBatteryChanges.                                      *)

Without(s, i) == SubSeq(s, 1, i - 1) \o SubSeq(s, i + 1, Len(s))

\* The bus delivers a signal of b, perhaps not the first.
Takes(b, i, kind) ==
  /\ loop = "selects"
  /\ i \in DOMAIN signals[b]
  /\ signals[b][i] = kind
  /\ signals' = [signals EXCEPT ![b] = Without(@, i)]

\* A battery was added: track runs in a new goroutine.
Added(b, i) ==
  /\ Takes(b, i, "added")
  /\ \E t \in Task : Starts(t, b) /\ byLoop' = byLoop \cup {t}
  /\ UNCHANGED <<machineVars, events, loop, removing, mapVars, endVars, disturbed>>

\* Slip: the name of the signal does not match.
RemovedIgnores(b, i) ==
  /\ Takes(b, i, "removed")
  /\ UNCHANGED <<machineVars, events, loop, removing, taskVars, mapVars, endVars, disturbed>>

\* A battery was removed: remove looks it up, without the lock, and cancels its
\* monitor.  If a task writes to the map at that time the program may end.
Removed(b, i) ==
  /\ Takes(b, i, "removed")
  /\ IF list[b] = NoTask THEN UNCHANGED <<loop, removing, mapVars>>
     ELSE /\ loop' = "deletes"
          /\ removing' = {b}
          /\ stopped' = stopped \cup {list[b]}
          /\ UNCHANGED <<list, writer>>
  /\ crashed' \in IF writer = NoTask THEN {crashed} ELSE {crashed, "map"}
  /\ UNCHANGED <<machineVars, events, taskVars, cancelled, gone, disturbed>>

\* remove takes the lock and deletes the entry, whose ever it is by now.
Deletes(b) ==
  /\ loop = "deletes"
  /\ b \in removing
  /\ writer = NoTask
  /\ loop' = "selects"
  /\ removing' = {}
  /\ list' = [list EXCEPT ![b] = NoTask]
  /\ UNCHANGED <<machineVars, signals, events, taskVars, stopped, writer, endVars, disturbed>>

\* Slip: the loop waits for signals only.
LeaveNever == FALSE /\ UNCHANGED vars

\* The context is done: the loop closes its channel.
Leave ==
  /\ loop = "selects"
  /\ cancelled
  /\ loop' = "closed"
  /\ UNCHANGED <<machineVars, signals, events, removing, taskVars, mapVars, endVars, disturbed>>

\* The context is done, the watch has closed the channel of triggers, and the loop
\* takes an empty trigger from it, whose content it indexes.
EmptyTrigger ==
  /\ loop = "selects"
  /\ cancelled
  /\ crashed' = "panic"
  /\ UNCHANGED <<machineVars, signals, events, loop, removing, taskVars, mapVars,
                 cancelled, gone, disturbed>>

-----------------------------------------------------------------------------
(* track.                                                                  *)

MovesTo(t, step) == pc' = [pc EXCEPT ![t] = step]

\* newBattery succeeds: the battery is there.
Read(t) ==
  /\ pc[t] = "reads"
  /\ battery[t] \in present
  /\ MovesTo(t, "locks")
  /\ UNCHANGED <<machineVars, signals, events, loop, removing, battery, byLoop, mapVars,
                 endVars, disturbed>>

\* It fails: track returns a channel that it does not close.
ReadFails(t) ==
  /\ pc[t] = "reads"
  /\ MovesTo(t, "stuck")
  /\ disturbed' = disturbed \cup {battery[t]}
  /\ UNCHANGED <<machineVars, signals, events, loop, removing, battery, byLoop, mapVars, endVars>>

\* The task has the lock.
Lock(t) ==
  /\ pc[t] = "locks"
  /\ writer = NoTask
  /\ writer' = t
  /\ MovesTo(t, "writes")
  /\ UNCHANGED <<machineVars, signals, events, loop, removing, battery, byLoop, stopped, list,
                 endVars, disturbed>>

\* The cancel function is in the map, in place of any other, and the lock is free.
Write(t) ==
  /\ pc[t] = "writes"
  /\ writer' = NoTask
  /\ list' = [list EXCEPT ![battery[t]] = t]
  /\ MovesTo(t, "starts")
  /\ UNCHANGED <<machineVars, signals, events, loop, removing, battery, byLoop, stopped,
                 endVars, disturbed>>

\* monitorBattery: the watch of the battery's properties starts.
WatchBattery(t) ==
  /\ pc[t] = "starts"
  /\ MovesTo(t, "monitors")
  /\ UNCHANGED <<machineVars, signals, events, loop, removing, battery, byLoop, mapVars,
                 endVars, disturbed>>

\* It does not: the monitor's channel is closed, and the task ends with the first updates.
\* Its entry stays in the map.
MonitorFails(t) ==
  /\ pc[t] = "starts"
  /\ ~gone
  /\ MovesTo(t, "unwatched")
  /\ UNCHANGED <<machineVars, signals, events, loop, removing, battery, byLoop, mapVars,
                 endVars, disturbed>>

\* A property of the battery changed.  What the loop's tasks send goes through the
\* channel of the loop, and to send on that when the loop has closed it is a panic;
\* any other update changes nothing here.
Report(t) ==
  /\ pc[t] = "monitors"
  /\ t \in byLoop /\ loop = "closed"
  /\ crashed' = "panic"
  /\ UNCHANGED <<machineVars, signals, events, loop, removing, taskVars, mapVars, cancelled,
                 gone, disturbed>>

\* The monitor was cancelled or the agent stops, and the watch of its properties
\* closes its channel of triggers under a send (CloseTriggers of EventWorkers).
WatchPanics(t) ==
  /\ pc[t] \in {"monitors", "ended"}
  /\ t \in stopped \/ cancelled
  /\ crashed' = "panic"
  /\ UNCHANGED <<machineVars, signals, events, loop, removing, taskVars, mapVars, cancelled,
                 gone, disturbed>>

\* The monitor was cancelled, or the agent stops: the task closes its channel, if
\* nothing is left that it cannot send.
MonitorEnds(t) ==
  /\ pc[t] = "monitors"
  /\ t \in stopped \/ cancelled
  /\ ~gone
  /\ MovesTo(t, "ended")
  /\ UNCHANGED <<machineVars, signals, events, loop, removing, battery, byLoop, mapVars,
                 endVars, disturbed>>

\* The agent stops.
Cancel ==
  /\ ~cancelled
  /\ cancelled' = TRUE
  /\ UNCHANGED <<machineVars, signals, events, loop, removing, taskVars, mapVars, gone, crashed,
                 disturbed>>

\* The goroutine of mergeCh that received returns.
ReceiverGone ==
  /\ cancelled
  /\ ~gone
  /\ events # "closed"
  /\ gone' = TRUE
  /\ UNCHANGED <<machineVars, signals, events, loop, removing, taskVars, mapVars, cancelled,
                 crashed, disturbed>>

-----------------------------------------------------------------------------
Next ==
  /\ crashed = "no"
  /\ \/ \E b \in Battery : BatteryChanges(b) \/ Deletes(b)
     \/ \E found \in SUBSET Battery : GetBatteries(found)
     \/ StartWatch \/ WatchFails \/ CloseEvents
     \/ \E b \in Battery, i \in 1 .. MaxChanges : Added(b, i) \/ Removed(b, i)
     \/ Leave \/ EmptyTrigger
     \/ \E t \in Task :
          Read(t) \/ ReadFails(t) \/ Lock(t) \/ Write(t)
          \/ WatchBattery(t) \/ MonitorFails(t)
          \/ Report(t) \/ WatchPanics(t) \/ MonitorEnds(t)
     \/ Cancel \/ ReceiverGone

Spec == Init /\ [][Next]_vars

\* The goroutines run.  A select takes the context's case in the end.  That a read
\* or a watch fails is possible each time, and necessary never.
FairSpec ==
  /\ Spec
  /\ WF_vars(crashed = "no" /\ (\E found \in SUBSET Battery : GetBatteries(found)))
  /\ WF_vars(crashed = "no" /\ (StartWatch \/ WatchFails))
  /\ WF_vars(crashed = "no" /\ CloseEvents)
  /\ WF_vars(crashed = "no" /\ (\E b \in Battery : Deletes(b)))
  /\ SF_vars(crashed = "no" /\ Leave)
  /\ \A t \in Task :
       /\ WF_vars(crashed = "no" /\ (Read(t) \/ ReadFails(t) \/ Write(t)))
       /\ WF_vars(crashed = "no" /\ (WatchBattery(t) \/ MonitorFails(t) \/ MonitorEnds(t)))
       /\ SF_vars(crashed = "no" /\ Lock(t))

-----------------------------------------------------------------------------
(* Properties.                                                             *)

\* A monitor that the map does not know cannot be cancelled any more.  While the
\* signals of a battery keep apart, each monitor of it is the one in the map, or
\* was cancelled.
NoOrphans ==
  \A b \in Battery \ disturbed : Monitoring(b) \ stopped \subseteq {list[b]}

\* The tasks whose watch did not start.
Unwatched == {t \in Task : pc[t] = "unwatched"}

\* Nothing of b is under way, and the agent runs.
Settled(b) ==
  /\ ~cancelled
  /\ events = "waits"
  /\ ~Busy(b)
  /\ \A t \in Task : battery[t] = b => pc[t] # "starts"
  /\ Monitoring(b) \cap stopped = {}

\* A battery that comes and goes slowly enough is in the map while it is there, and the
\* task of its entry monitors it, alone, unless the watch of that task did not start:
\* nothing tries again, the battery is not monitored till it comes back.  A battery that
\* is not there has no entry and no monitor.
TracksThePresent ==
  \A b \in Battery \ disturbed :
    Settled(b) =>
      IF b \in present THEN list[b] # NoTask /\ Monitoring(b) = {list[b]} \ Unwatched
      ELSE list[b] = NoTask /\ Monitoring(b) = {}

\* A battery can be taken out of a running agent: the program ends in a panic, if at
\* all, when it stops.  It does not hold: remove reads the map that track may be
\* writing, and the watch closes a channel under a send.
RemovalIsSafe == crashed # "no" => cancelled

\* Something Events waits for can never end.
Hangs == loop = "stuck" \/ \E t \in Task \ byLoop : pc[t] = "stuck"

\* When the agent stops, the worker's channel is closed, unless its watch did not
\* start or a battery that was there at the start could not be read.
EndsWhenDone == cancelled ~> events = "closed" \/ gone \/ crashed # "no" \/ Hangs
=============================================================================
