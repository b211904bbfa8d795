---------------------------- MODULE EventWorkers ----------------------------
(***************************************************************************)
(* The sensor workers that live on D-Bus signals: Watch.Start and the      *)
(* Events methods that read its channel.                                   *)
(*                                                                         *)
(* Watch.Start runs two goroutines: one forwards the signals the           *)
(* connection delivers to the channel of triggers, one closes that channel *)
(* when the context is done and only then deregisters.  A connection       *)
(* delivers every signal to every watch, in no particular order: the       *)
(* forwarding goroutine keeps those of its own path.                       *)
(*                                                                         *)
(* Events starts the worker's loop, which takes triggers and sends sensors,*)
(* itself or in a goroutine it spawns, and most workers start one more     *)
(* goroutine that sends the state the worker starts from.  The loop closes *)
(* the sensors' channel when it ends, whoever still sends on it.           *)
(*                                                                         *)
(* What a worker watches is a number here, the version of its state; the   *)
(* workers differ in what Style says.                                      *)
(***************************************************************************)
EXTENDS Naturals, Sequences

CONSTANTS
  Worker,      \* the workers under consideration
  MaxChanges,  \* bound: how often the watched state changes
  MaxForeign,  \* bound: the signals of other paths
  MaxTasks     \* bound: the goroutines a loop spawns, at a time

ASSUME BoundsAssumption ==
  MaxChanges \in Nat \ {0} /\ MaxForeign \in Nat /\ MaxTasks \in Nat

Style == [
  initial : {"none", "eager", "reads"}, \* the first update: none; one that was
                                        \* read before; its goroutine reads it
  hears   : BOOLEAN,  \* some trigger passes the worker's test of its name
  rereads : BOOLEAN,  \* a trigger makes it read the state, and store that in the
                      \* sensors it keeps; others report what the trigger says
  spawns  : BOOLEAN,  \* sends from a new goroutine for each trigger
  ranges  : BOOLEAN,  \* ends with the triggers, not with the context
  indexes : BOOLEAN,  \* indexes into the content of a trigger unasked
  dedups  : BOOLEAN,  \* sends what it read only if its sensors show a difference
  closes  : BOOLEAN]  \* its channel is its own, and it closes it

\* A screen lock worker, which hears a change of the lock by the session's property: the
\* names Lock and Unlock of its switch lack their interface.  And the property monitor of
\* a battery.
ScreenLock ==
  [initial |-> "none", hears |-> TRUE, rereads |-> FALSE, spawns |-> FALSE,
   ranges |-> FALSE, indexes |-> FALSE, dedups |-> FALSE, closes |-> TRUE]
BatteryProperties == ScreenLock
MediaPlayer == [ScreenLock EXCEPT !.closes = FALSE]
Desktop == [ScreenLock EXCEPT !.initial = "reads"]
PowerProfile == [ScreenLock EXCEPT !.initial = "eager"]

\* It watches the session's path for what changes at the manager's, and the names that it
\* looks for among the changed properties have an interface that those lack.
Laptop == [ScreenLock EXCEPT !.initial = "reads", !.hears = FALSE]

\* The names in its switch lack the interface that the names of signals have.
PowerState == [ScreenLock EXCEPT !.initial = "eager", !.hears = FALSE, !.spawns = TRUE]

\* It asks for a string where the signal has an object path.
Location == [ScreenLock EXCEPT !.hears = FALSE, !.spawns = TRUE, !.indexes = TRUE]
Users == [ScreenLock EXCEPT !.initial = "reads", !.rereads = TRUE, !.spawns = TRUE]

\* It keeps two sensors: the application that is active, which changes only when there is
\* one, and the running ones, of which it compares the number.
Apps == [Users EXCEPT !.spawns = FALSE, !.ranges = TRUE, !.dedups = TRUE]

ASSUME WorkerAssumption == Worker \subseteq Style

Version  == 0 .. MaxChanges
Signal   == [ours : BOOLEAN, version : Version]
NoSignal == [ours |-> FALSE, version |-> 0]

\* The goroutines that report, by number: the loop, the one for the first update
\* and those the loop spawns.
Loop     == 0
First    == MaxTasks + 1
Reporter == 0 .. MaxTasks + 1

NoItem == [by |-> Loop, version |-> 0]

VARIABLES
  style,      \* the worker
  cancelled,  \* the context is done
  crashed,    \* a panic ended the program
  truth,      \* the state the worker watches
  foreign,    \* how many signals there were of other paths
  bus,        \* the signals still to be delivered
  registered, \* the connection delivers to the watch
  held,       \* the signal the forwarding goroutine sends
  open,       \* the channel of triggers is open
  pc,         \* what each reporter is at
  got,        \* the version it has
  shared,     \* the version that the sensors it keeps were set to
  alike,      \* the version it has read since, without a difference to show
  receiver,   \* the goroutine of mergeCh for the worker's channel
  item,       \* who sent it what it holds, and the version
  heard,      \* the last version that was passed on; of workers that report the
              \* triggers, the last one that is not their first update
  raced       \* signals or reporters may have overtaken each other, or a read failed

watchVars    == <<bus, registered, held, open>>
sensorVars   == <<shared, alike>>
reportVars   == <<pc, got, sensorVars, raced>>
receiverVars == <<receiver, item, heard>>
vars == <<style, cancelled, crashed, truth, foreign, watchVars, reportVars, receiverVars>>

TypeOK ==
  /\ style \in Worker
  /\ cancelled \in BOOLEAN /\ crashed \in BOOLEAN
  /\ truth \in Version /\ foreign \in 0 .. MaxForeign
  /\ bus \in Seq(Signal)
  /\ registered \in BOOLEAN /\ open \in BOOLEAN /\ raced \in BOOLEAN
  /\ held \in {NoSignal} \cup [ours : {TRUE}, version : Version]
  /\ pc \in [Reporter -> {"idle", "reads", "stores", "sends", "done"}]
  /\ got \in [Reporter -> Version]
  /\ shared \in Version /\ alike \in Version
  /\ receiver \in {"receives", "holds", "gone"}
  /\ item \in [by : Reporter, version : Version]
  /\ heard \in Version

Init ==
  /\ style \in Worker
  /\ cancelled = FALSE /\ crashed = FALSE
  /\ truth = 0 /\ foreign = 0
  /\ bus = <<>> /\ registered = TRUE /\ held = NoSignal /\ open = TRUE
  /\ pc = [r \in Reporter |->
             IF r # First \/ style.initial = "none" THEN "idle"
             ELSE IF style.initial = "eager" THEN "sends" ELSE "reads"]
  /\ got = [r \in Reporter |-> 0]
  /\ shared = 0 /\ alike = 0
  /\ receiver = "receives" /\ item = NoItem
  /\ heard = 0 /\ raced = FALSE

\* The worker closed the channel of its sensors.
Closed == style.closes /\ pc[Loop] = "done"

-----------------------------------------------------------------------------
(* The bus, and the watch.                                                 *)

\* The watched state changes, and a signal says so.
Change ==
  /\ truth < MaxChanges
  /\ truth' = truth + 1
  /\ bus' = IF registered THEN Append(bus, [ours |-> TRUE, version |-> truth']) ELSE bus
  /\ UNCHANGED <<style, cancelled, crashed, foreign, registered, held, open,
                 reportVars, receiverVars>>

\* A signal that another watch of the connection asked for.
ForeignSignal ==
  /\ registered
  /\ foreign < MaxForeign
  /\ foreign' = foreign + 1
  /\ bus' = Append(bus, [ours |-> FALSE, version |-> MaxChanges])
  /\ UNCHANGED <<style, cancelled, crashed, truth, registered, held, open,
                 reportVars, receiverVars>>

\* The forwarding goroutine takes a signal.  It drops one of another path; to send
\* on the channel that was closed in the meantime is a panic.
Deliver(i) ==
  /\ registered
  /\ held = NoSignal
  /\ i \in DOMAIN bus
  /\ held' = IF bus[i].ours THEN bus[i] ELSE NoSignal
  /\ bus' = SubSeq(bus, 1, i - 1) \o SubSeq(bus, i + 1, Len(bus))
  /\ raced' = (raced \/ (i # 1 /\ ~style.rereads))
  /\ crashed' = (bus[i].ours /\ ~open)
  /\ UNCHANGED <<style, cancelled, truth, foreign, registered, open, pc, got, sensorVars, receiverVars>>

\* Slip: the channel is closed by whoever comes first.
CloseTriggersEarly ==
  /\ open
  /\ open' = FALSE
  /\ crashed' = (held # NoSignal)
  /\ UNCHANGED <<style, cancelled, truth, foreign, bus, registered, held,
                 reportVars, receiverVars>>

\* The context is done: the channel is closed, under a send that waits as well.
CloseTriggers ==
  /\ cancelled
  /\ open
  /\ open' = FALSE
  /\ crashed' = (held # NoSignal)
  /\ UNCHANGED <<style, cancelled, truth, foreign, bus, registered, held,
                 reportVars, receiverVars>>

\* RemoveSignal, the deferred call that runs after close.
Deregister ==
  /\ registered
  /\ ~open
  /\ registered' = FALSE
  /\ bus' = <<>>
  /\ UNCHANGED <<style, cancelled, crashed, truth, foreign, held, open,
                 reportVars, receiverVars>>

-----------------------------------------------------------------------------
(* The loop.                                                               *)

\* A reporter that is free: the loop itself, or a goroutine it spawns.
Free(r) ==
  /\ pc[r] = "idle"
  /\ IF style.spawns
       THEN /\ r \in 1 .. MaxTasks
            /\ \A q \in 1 .. r - 1 : pc[q] # "idle"
       ELSE r = Loop

\* What it does with the version v of a trigger.
Starts(r, v) ==
  /\ Free(r)
  /\ pc' = [pc EXCEPT ![r] = IF style.rereads THEN "reads" ELSE "sends"]
  /\ got' = [got EXCEPT ![r] = IF style.rereads THEN 0 ELSE v]
  /\ raced' = (raced \/ ((style.rereads \/ style.spawns) /\ \E q \in Reporter : pc[q] # "idle"))
  /\ UNCHANGED sensorVars

\* The loop takes a trigger and reports it, or lets another goroutine do that.
Trigger ==
  /\ open
  /\ held # NoSignal
  /\ pc[Loop] = "idle"
  /\ held' = NoSignal
  /\ IF ~style.hears THEN UNCHANGED reportVars
     ELSE \E r \in Reporter : Starts(r, held.version)
  /\ UNCHANGED <<style, cancelled, crashed, truth, foreign, bus, registered, open,
                 receiverVars>>

\* The channel of triggers is closed, and a loop that does not ask takes empty
\* triggers from it: only these two kinds of worker do something with one.
EmptyTrigger ==
  /\ ~open
  /\ pc[Loop] = "idle"
  /\ \/ style.indexes /\ crashed' = TRUE /\ UNCHANGED reportVars
     \/ style.rereads /\ style.spawns /\ UNCHANGED crashed /\ \E r \in Reporter : Starts(r, 0)
  /\ UNCHANGED <<style, cancelled, truth, foreign, watchVars, receiverVars>>

\* Slip: the loop waits for triggers only.
LeaveNever == FALSE /\ UNCHANGED vars

\* The loop ends and closes the channel of the sensors, under a send that waits as
\* well.
Leave ==
  /\ pc[Loop] = "idle"
  /\ IF style.ranges THEN ~open ELSE cancelled
  /\ pc' = [pc EXCEPT ![Loop] = "done"]
  /\ crashed' = (style.closes /\ \E r \in Reporter : pc[r] = "sends")
  /\ UNCHANGED <<style, cancelled, truth, foreign, watchVars, got, sensorVars, raced, receiverVars>>

-----------------------------------------------------------------------------
(* The reporters.                                                          *)

\* A reporter has nothing left to do: the loop waits for the next trigger, another
\* goroutine returns.
Finishes(r) ==
  /\ pc' = [pc EXCEPT ![r] = "idle"]
  /\ got' = [got EXCEPT ![r] = 0]

\* The state is read from D-Bus.
Read(r) ==
  /\ pc[r] = "reads"
  /\ got' = [got EXCEPT ![r] = truth]
  /\ pc' = [pc EXCEPT ![r] = IF style.rereads THEN "stores" ELSE "sends"]
  /\ crashed' = (~style.rereads /\ Closed)
  /\ UNCHANGED <<style, cancelled, truth, foreign, watchVars, sensorVars, raced, receiverVars>>

\* It cannot be read, and there is no update.
ReadFails(r) ==
  /\ pc[r] = "reads"
  /\ Finishes(r)
  /\ raced' = (raced \/ style.rereads)
  /\ UNCHANGED <<style, cancelled, crashed, truth, foreign, watchVars, sensorVars, receiverVars>>

\* The version is stored in the worker's sensors, without a lock, and will be sent.  Or
\* nothing of it differs from what they show, though the version may be another: the
\* application that was active is not any more, or as many others run as before.
Store(r) ==
  /\ pc[r] = "stores"
  /\ \/ /\ style.dedups
        /\ Finishes(r)
        /\ alike' = got[r]
        /\ UNCHANGED <<shared, crashed>>
     \/ /\ pc' = [pc EXCEPT ![r] = "sends"]
        /\ shared' = got[r]
        /\ got' = [got EXCEPT ![r] = 0]
        /\ crashed' = Closed
        /\ alike' = 0
  /\ UNCHANGED <<style, cancelled, truth, foreign, watchVars, raced, receiverVars>>

\* Slip: a send that does not wait for the receiver.
SendOrDrop(r) ==
  /\ pc[r] = "sends"
  /\ ~Closed
  /\ IF receiver = "receives"
       THEN receiver' = "holds" /\ item' = [by |-> r, version |-> got[r]]
       ELSE UNCHANGED <<receiver, item>>
  /\ Finishes(r)
  /\ UNCHANGED <<style, cancelled, crashed, truth, foreign, watchVars, sensorVars, raced, heard>>

\* The receiver takes what a reporter sends.
Send(r) ==
  /\ pc[r] = "sends"
  /\ ~Closed
  /\ receiver = "receives"
  /\ receiver' = "holds"
  /\ item' = [by |-> r, version |-> got[r]]
  /\ Finishes(r)
  /\ UNCHANGED <<style, cancelled, crashed, truth, foreign, watchVars, sensorVars, raced, heard>>


\* The update goes its way.  Of a sensor that the worker still writes to, it is the
\* version of this moment.
PassOn ==
  /\ receiver = "holds"
  /\ receiver' = "receives"
  /\ heard' = IF style.rereads THEN shared
              ELSE IF item.by = First THEN heard ELSE item.version
  /\ item' = NoItem
  /\ UNCHANGED <<style, cancelled, crashed, truth, foreign, watchVars, reportVars>>

\* The context is done: the goroutine of mergeCh returns.
GiveUp ==
  /\ cancelled
  /\ receiver = "holds"
  /\ receiver' = "gone"
  /\ item' = NoItem
  /\ UNCHANGED <<style, cancelled, crashed, truth, foreign, watchVars, reportVars, heard>>

\* The agent stops.
Cancel ==
  /\ ~cancelled
  /\ cancelled' = TRUE
  /\ UNCHANGED <<style, crashed, truth, foreign, watchVars, reportVars, receiverVars>>

-----------------------------------------------------------------------------
Next ==
  /\ ~crashed
  /\ \/ Change \/ ForeignSignal \/ Cancel
     \/ \E i \in 1 .. MaxChanges + MaxForeign : Deliver(i)
     \/ CloseTriggers \/ Deregister
     \/ Trigger \/ EmptyTrigger \/ Leave
     \/ \E r \in Reporter : Read(r) \/ ReadFails(r) \/ Store(r) \/ Send(r)
     \/ PassOn \/ GiveUp

Spec == Init /\ [][Next]_vars

\* The goroutines run, the oldest signal is delivered at last, and a select that
\* can take the context's case again and again takes it.
FairSpec ==
  /\ Spec
  /\ SF_vars(~crashed /\ Deliver(1))
  /\ WF_vars(~crashed /\ (CloseTriggers \/ Deregister))
  /\ SF_vars(~crashed /\ Trigger) /\ SF_vars(~crashed /\ Leave)
  /\ WF_vars(~crashed /\ \E r \in Reporter : Read(r) \/ ReadFails(r) \/ Store(r))
  /\ \A r \in Reporter : SF_vars(~crashed /\ Send(r))
  /\ WF_vars(~crashed /\ (PassOn \/ GiveUp))

-----------------------------------------------------------------------------
(* Properties.                                                             *)

\* The program may end in a panic of a watch or of a worker, but not before the
\* agent stops.
PanicOnlyWhenDone == crashed => cancelled

\* Nothing is under way.
Settled ==
  /\ ~cancelled
  /\ bus = <<>> /\ held = NoSignal
  /\ receiver = "receives"
  /\ \A r \in Reporter : pc[r] = "idle"

\* Once nothing is under way, the update that a trigger caused last is the state as
\* it is, or, of a worker that compares, the state was read and showed no difference:
\* unless signals overtook each other, or the worker's own goroutines overlapped, or the
\* state could not be read.  It is about the workers that hear their triggers, which
\* Laptop, PowerState and Location never do.  (Workers that report the triggers may
\* still have sent their first, older, update after it.)
LastWordIsTruth ==
  Settled /\ ~raced /\ style.hears /\ truth > 0 =>
    heard = truth \/ (style.dedups /\ alike = truth)

Signalled(v) == [ours |-> TRUE, version |-> v] \in {bus[i] : i \in DOMAIN bus}


\* When the agent stops, the worker's channel is closed or nobody is left to
\* receive from it: the goroutine of mergeCh does not wait for ever.
EndsWhenDone == cancelled ~> pc[Loop] = "done" \/ receiver = "gone" \/ crashed
=============================================================================
