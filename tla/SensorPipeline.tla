--------------------------- MODULE SensorPipeline ---------------------------
(***************************************************************************)
(* How sensor updates reach the tracker: runSensorWorkers and mergeCh.     *)
(*                                                                         *)
(* A worker sends its updates on a channel of its own and closes it when   *)
(* its source ends, which a cancelled context makes it do.  A controller's *)
(* StartAll merges the channels of its workers with mergeCh: a goroutine   *)
(* per channel forwards to a new one, and one more closes that when all of *)
(* them are done.  runSensorWorkers merges the controllers' channels the   *)
(* same way and starts a ProcessSensor task for each update (SensorSync    *)
(* goes on from there).  The scripts controller is different: the runs of  *)
(* its jobs send on one channel, and nothing ever closes it; if it has no  *)
(* jobs, it returns a closed one.                                          *)
(*                                                                         *)
(* All channels are unbuffered: a send and its receive are one step.       *)
(***************************************************************************)
EXTENDS Naturals, FiniteSets

CONSTANTS
  Worker,       \* the workers of the device and Linux controllers
  Controller,   \* these controllers
  Owner,        \* the controller of a worker
  Scripts,      \* the scripts controllers
  Nobody,       \* stands for the sender of a script's output
  Limit,        \* bound: updates per worker
  Runs,         \* bound: script runs per scripts controller
  Outputs       \* bound: the sensors in the output of a script's run

ASSUME WorkersAssumption == Owner \in [Worker -> Controller] /\ Nobody \notin Worker
ASSUME ControllersAssumption ==
  IsFiniteSet(Controller) /\ Controller \cap Scripts = {} /\ Controller # {}
ASSUME LimitAssumption == Limit \in Nat /\ Runs \in Nat /\ Outputs \in Nat

Source == Controller \cup Scripts

VARIABLES
  cancelled,  \* the controllers' context
  pc,         \* runSensorWorkers
  started,    \* the controllers StartAll was called of
  producer,   \* what a worker is at
  offered,    \* how many updates a worker has made
  fwd,        \* mergeCh's goroutine for a worker's channel
  item,       \* the number of the update it holds
  closes,     \* how often a controller's channel was closed
  up,         \* the agent's goroutine for a controller's channel
  held,       \* the update it holds
  merged,     \* how often the agent's channel was closed
  found,      \* the scripts controllers that found scripts
  runs,       \* script runs that were started
  waiting,    \* the sensors that script runs have still to send
  delivered   \* the number of the last update of a worker to be processed

agentVars  == <<pc, started, up, held, merged, delivered>>
workerVars == <<producer, offered, fwd, item, closes>>
scriptVars == <<found, runs, waiting>>
vars       == <<cancelled, agentVars, workerVars, scriptVars>>

\* A goroutine of mergeCh: not started, at the channel it reads, at its select,
\* returned.
Goroutine == {"none", "receives", "sends", "done"}

Update == [from : Worker \cup {Nobody}, number : Nat]

\* What a script sends, or a goroutine that holds no update.
NoUpdate == [from |-> Nobody, number |-> 0]

\* A channel that is closed twice, as one that is written after it was closed,
\* ends the program.
TypeOK ==
  /\ cancelled \in BOOLEAN
  /\ pc \in {"starting", "ranging", "stopping", "done", "stopped"}
  /\ started \in SUBSET Source
  /\ producer \in [Worker -> {"idle", "sends", "closed"}]
  /\ offered \in [Worker -> Nat]
  /\ fwd \in [Worker -> Goroutine]
  /\ item \in [Worker -> Nat]
  /\ closes \in [Controller -> 0..1]
  /\ up \in [Source -> Goroutine]
  /\ held \in [Source -> Update]
  /\ merged \in 0..1
  /\ found \in SUBSET Scripts
  /\ runs \in [Scripts -> Nat]
  /\ waiting \in [Scripts -> Nat]
  /\ delivered \in [Worker -> Nat]

\* The scripts controllers may find executable files that run and say how often to
\* run them, or none.
FindScripts == SUBSET Scripts

Init ==
  /\ cancelled = FALSE
  /\ pc = "starting"
  /\ started = {}
  /\ producer = [w \in Worker |-> "idle"]
  /\ offered = [w \in Worker |-> 0]
  /\ fwd = [w \in Worker |-> "none"]
  /\ item = [w \in Worker |-> 0]
  /\ closes = [c \in Controller |-> 0]
  /\ up = [s \in Source |-> "none"]
  /\ held = [s \in Source |-> NoUpdate]
  /\ merged = 0
  /\ found \in FindScripts
  /\ runs = [s \in Scripts |-> 0]
  /\ waiting = [s \in Scripts |-> 0]
  /\ delivered = [w \in Worker |-> 0]

-----------------------------------------------------------------------------
(* Workers.                                                                *)

\* A tick, an event or a one-shot reading: the worker is at its send, which no
\* cancellation interrupts.
Offer(w) ==
  /\ Owner[w] \in started
  /\ producer[w] = "idle"
  /\ offered[w] < Limit
  /\ producer' = [producer EXCEPT ![w] = "sends"]
  /\ offered' = [offered EXCEPT ![w] = @ + 1]
  /\ UNCHANGED <<cancelled, agentVars, scriptVars, fwd, item, closes>>

\* The worker's source ends and its channel is closed.
CloseUpdates(w) ==
  /\ Owner[w] \in started
  /\ producer[w] = "idle"
  /\ producer' = [producer EXCEPT ![w] = "closed"]
  /\ UNCHANGED <<cancelled, agentVars, scriptVars, offered, fwd, item, closes>>

-----------------------------------------------------------------------------
(* mergeCh in StartAll, for the channels of the workers.                   *)

\* The goroutine receives an update.
Receive(w) ==
  /\ producer[w] = "sends"
  /\ fwd[w] = "receives"
  /\ producer' = [producer EXCEPT ![w] = "idle"]
  /\ fwd' = [fwd EXCEPT ![w] = "sends"]
  /\ item' = [item EXCEPT ![w] = offered[w]]
  /\ UNCHANGED <<cancelled, agentVars, scriptVars, offered, closes>>

\* The channel is closed: the goroutine returns.
SeesClose(w) ==
  /\ producer[w] = "closed"
  /\ fwd[w] = "receives"
  /\ fwd' = [fwd EXCEPT ![w] = "done"]
  /\ UNCHANGED <<cancelled, agentVars, scriptVars, producer, offered, item, closes>>

\* Slip: the goroutine forwards one update and returns.
ForwardOnce(w) ==
  /\ fwd[w] = "sends"
  /\ up[Owner[w]] = "receives"
  /\ fwd' = [fwd EXCEPT ![w] = "done"]
  /\ up' = [up EXCEPT ![Owner[w]] = "sends"]
  /\ held' = [held EXCEPT ![Owner[w]] = [from |-> w, number |-> item[w]]]
  /\ item' = [item EXCEPT ![w] = 0]
  /\ UNCHANGED <<cancelled, pc, started, merged, delivered,
                 producer, offered, closes, scriptVars>>

\* The update goes to the goroutine the agent runs for the controller's channel.
Forward(w) ==
  /\ fwd[w] = "sends"
  /\ up[Owner[w]] = "receives"
  /\ fwd' = [fwd EXCEPT ![w] = "receives"]
  /\ up' = [up EXCEPT ![Owner[w]] = "sends"]
  /\ held' = [held EXCEPT ![Owner[w]] = [from |-> w, number |-> item[w]]]
  /\ item' = [item EXCEPT ![w] = 0]
  /\ UNCHANGED <<cancelled, pc, started, merged, delivered,
                 producer, offered, closes, scriptVars>>

\* Slip: a send that does not wait for its receiver.
DropAnytime(w) ==
  /\ fwd[w] = "sends"
  /\ fwd' = [fwd EXCEPT ![w] = "receives"]
  /\ item' = [item EXCEPT ![w] = 0]
  /\ UNCHANGED <<cancelled, agentVars, scriptVars, producer, offered, closes>>

\* Slip: after the select the loop goes on.
DropAndGoOn(w) ==
  /\ cancelled
  /\ fwd[w] = "sends"
  /\ fwd' = [fwd EXCEPT ![w] = "receives"]
  /\ item' = [item EXCEPT ![w] = 0]
  /\ UNCHANGED <<cancelled, agentVars, scriptVars, producer, offered, closes>>

\* Slip: the send does not select on the context.
DropNever(w) == FALSE /\ UNCHANGED vars

\* The context is done: the goroutine returns, and the update is lost.
Drop(w) ==
  /\ cancelled
  /\ fwd[w] = "sends"
  /\ fwd' = [fwd EXCEPT ![w] = "done"]
  /\ item' = [item EXCEPT ![w] = 0]
  /\ UNCHANGED <<cancelled, agentVars, scriptVars, producer, offered, closes>>

\* Slip: the closing goroutine is started before wg.Add.
CloseEarly(c) ==
  /\ c \in started
  /\ closes[c] = 0
  /\ closes' = [closes EXCEPT ![c] = @ + 1]
  /\ UNCHANGED <<cancelled, agentVars, scriptVars, producer, offered, fwd, item>>

\* All goroutines of the controller are done: its channel is closed.
CloseOut(c) ==
  /\ c \in started
  /\ closes[c] = 0
  /\ \A w \in Worker : Owner[w] = c => fwd[w] = "done"
  /\ closes' = [closes EXCEPT ![c] = @ + 1]
  /\ UNCHANGED <<cancelled, agentVars, scriptVars, producer, offered, fwd, item>>

-----------------------------------------------------------------------------
(* The scripts controller.                                                 *)

\* A run has each sensor of its output to send, one after the other; one that cannot be
\* executed, or whose output is neither JSON nor YAML nor TOML, has nothing to send.
AfterRun(s) == {waiting[s] + n : n \in 0 .. Outputs}

\* The scheduler runs a job, in a goroutine of its own, if it was not stopped.
Execute(s) ==
  /\ s \in started /\ s \in found
  /\ pc \notin {"stopping", "stopped"}
  /\ runs[s] < Runs
  /\ runs' = [runs EXCEPT ![s] = @ + 1]
  /\ \E n \in AfterRun(s) : waiting' = [waiting EXCEPT ![s] = n]
  /\ UNCHANGED <<cancelled, agentVars, workerVars, found>>

\* One of the runs sends the next sensor of its output.
ScriptSends(s) ==
  /\ waiting[s] > 0
  /\ up[s] = "receives"
  /\ waiting' = [waiting EXCEPT ![s] = @ - 1]
  /\ up' = [up EXCEPT ![s] = "sends"]
  /\ held' = [held EXCEPT ![s] = NoUpdate]
  /\ UNCHANGED <<cancelled, pc, started, merged, delivered, workerVars, found, runs>>

-----------------------------------------------------------------------------
(* runSensorWorkers, and its mergeCh for the controllers' channels.        *)

\* StartAll of a controller: its workers run, and the goroutines that merge
\* their channels.  Its branch for an error is never taken: the workers' Updates return
\* none (each is of a known type, and the version's Sensors cannot fail), each is started
\* once, and the scripts controller only logs what it cannot schedule.  So there is a
\* channel of every controller, and the early return of an agent without any is not
\* taken either: the device controller is always there.
StartAll(c) ==
  /\ pc = "starting"
  /\ c \notin started
  /\ started' = started \cup {c}
  /\ fwd' = [w \in Worker |-> IF Owner[w] = c THEN "receives" ELSE fwd[w]]
  /\ UNCHANGED <<cancelled, pc, up, held, merged, delivered,
                 producer, offered, item, closes, scriptVars>>

\* The select: merge the channels and range over the result, or stop at once.
Begin ==
  /\ pc = "starting"
  /\ started = Source
  /\ IF cancelled
       THEN pc' = "stopping" /\ UNCHANGED up
       ELSE pc' = "ranging" /\ up' = [s \in Source |-> "receives"]
  /\ UNCHANGED <<cancelled, started, held, merged, delivered, workerVars, scriptVars>>

\* StopAll: the scripts controller waits for the runs that were started.
StopAll ==
  /\ pc = "stopping"
  /\ \A s \in Scripts : waiting[s] = 0
  /\ pc' = "stopped"
  /\ UNCHANGED <<cancelled, started, up, held, merged, delivered, workerVars, scriptVars>>

\* An update reaches the loop, which starts its ProcessSensor task.
Deliver(s) ==
  /\ pc = "ranging"
  /\ up[s] = "sends"
  /\ up' = [up EXCEPT ![s] = "receives"]
  /\ delivered' = [w \in Worker |->
       IF w = held[s].from THEN held[s].number ELSE delivered[w]]
  /\ held' = [held EXCEPT ![s] = NoUpdate]
  /\ UNCHANGED <<cancelled, pc, started, merged, workerVars, scriptVars>>

\* The context is done: the agent's goroutine returns, and the update is lost.
UpDrop(s) ==
  /\ cancelled
  /\ up[s] = "sends"
  /\ up' = [up EXCEPT ![s] = "done"]
  /\ held' = [held EXCEPT ![s] = NoUpdate]
  /\ UNCHANGED <<cancelled, pc, started, merged, delivered, workerVars, scriptVars>>

\* The channel of a controller is closed when its workers' are, that of a scripts
\* controller if there is no script.
Closed(s) == IF s \in Controller THEN closes[s] = 1 ELSE s \notin found

UpSeesClose(s) ==
  /\ Closed(s)
  /\ up[s] = "receives"
  /\ up' = [up EXCEPT ![s] = "done"]
  /\ UNCHANGED <<cancelled, pc, started, held, merged, delivered, workerVars, scriptVars>>

\* All of the agent's goroutines are done: its channel is closed.
CloseMerged ==
  /\ pc = "ranging"
  /\ merged = 0
  /\ \A s \in Source : up[s] = "done"
  /\ merged' = merged + 1
  /\ UNCHANGED <<cancelled, pc, started, up, held, delivered, workerVars, scriptVars>>

\* The loop ends with the channel, and runSensorWorkers returns.
Return ==
  /\ pc = "ranging"
  /\ merged = 1
  /\ pc' = "done"
  /\ UNCHANGED <<cancelled, started, up, held, merged, delivered, workerVars, scriptVars>>

\* Run cancels the controllers' context: the agent is done.
Cancel ==
  /\ ~cancelled
  /\ cancelled' = TRUE
  /\ UNCHANGED <<agentVars, workerVars, scriptVars>>

-----------------------------------------------------------------------------
Next ==
  \/ \E w \in Worker : Offer(w) \/ CloseUpdates(w)
  \/ \E w \in Worker : Receive(w) \/ SeesClose(w) \/ Forward(w) \/ Drop(w)
  \/ \E c \in Controller : CloseOut(c)
  \/ \E s \in Scripts : Execute(s) \/ ScriptSends(s)
  \/ \E s \in Source : StartAll(s) \/ Deliver(s) \/ UpDrop(s) \/ UpSeesClose(s)
  \/ Begin \/ StopAll \/ CloseMerged \/ Return
  \/ Cancel

Spec == Init /\ [][Next]_vars

\* The goroutines run.  The senders that wait at one channel are served in turn,
\* and a select takes each of its ready cases again and again: a worker that is
\* cancelled ends.  That is asked of the workers, and not all of them keep it: the
\* battery worker may hang (Hangs of BatteryTracking), and with it what is
\* said of the end here.  The workers' sources, the scheduler and the user owe nothing.
FairSpec ==
  /\ Spec
  /\ \A w \in Worker :
       /\ SF_vars(cancelled /\ CloseUpdates(w))
       /\ WF_vars(Receive(w))
       /\ WF_vars(SeesClose(w))
       /\ SF_vars(Forward(w))
       /\ WF_vars(Drop(w))
  /\ \A c \in Controller : WF_vars(CloseOut(c))
  /\ \A s \in Scripts : WF_vars(ScriptSends(s))
  /\ \A s \in Source :
       /\ WF_vars(StartAll(s)) /\ SF_vars(Deliver(s))
       /\ WF_vars(UpDrop(s)) /\ WF_vars(UpSeesClose(s))
  /\ WF_vars(Begin) /\ WF_vars(StopAll) /\ WF_vars(CloseMerged) /\ WF_vars(Return)

-----------------------------------------------------------------------------
(* Properties.                                                             *)

Unit(b) == IF b THEN 1 ELSE 0

\* The agent holds an update of w.
InAgent(w) == up[Owner[w]] = "sends" /\ held[Owner[w]].from = w

\* No goroutine of mergeCh is left to send when its channel is closed: a send on
\* a closed channel would end the program.
NoSendOnClosed ==
  /\ \A w \in Worker : closes[Owner[w]] = 1 => fwd[w] = "done"
  /\ merged = 1 => \A s \in Source : up[s] = "done"

\* Until the agent stops, every update a worker made was processed, or is where
\* it can still be: with the worker, its forwarder or the agent's forwarder.
NothingLost ==
  ~cancelled => \A w \in Worker :
    offered[w] = delivered[w] + Unit(InAgent(w)) + Unit(fwd[w] = "sends")
                   + Unit(producer[w] = "sends")

Delivery == INSTANCE OrderedDelivery

\* Both levels of merging together keep each worker's order, without a gap, even
\* while the agent stops and goroutines drop what they hold.
ImplementsDelivery == Delivery!Spec

\* Every update is processed, unless the agent stops.
EveryUpdateArrives ==
  \A w \in Worker, n \in 1..Limit :
    (offered[w] >= n) ~> (delivered[w] >= n \/ cancelled)

\* No goroutine that merges the channels of workers or of their controllers is left.
Forwarded ==
  /\ \A w \in Worker : fwd[w] = "done"
  /\ \A c \in Controller : up[c] \in {"none", "done"}

\* runSensorWorkers has returned, and no goroutine of mergeCh is left.
Ended ==
  /\ Forwarded
  /\ pc \in {"done", "stopped"}
  /\ \A s \in Source : up[s] \in {"none", "done"}

\* The agent waits for the channel of a scripts controller, which is not closed, or for
\* runs of its scripts, whose output nobody receives.
HeldByScripts(s) ==
  \/ pc = "ranging" /\ up[s] = "receives"
  \/ pc = "stopping" /\ waiting[s] > 0

\* When the agent is done, the workers' updates stop and their goroutines end, and so
\* does runSensorWorkers, unless there are scripts: only they can hold it.
EndsWhenDone ==
  cancelled ~> (Forwarded /\ (Ended \/ \E s \in found : HeldByScripts(s)))

-----------------------------------------------------------------------------
\* Why: a worker's updates are in line, from the last one processed to the one it
\* made last, as long as the goroutines that can pass them on are there.
InLine(w) ==
  /\ InAgent(w) => held[Owner[w]].number = delivered[w] + 1
  /\ up[Owner[w]] # "done" /\ fwd[w] = "sends" =>
       item[w] = delivered[w] + Unit(InAgent(w)) + 1
  /\ ~cancelled \/ (up[Owner[w]] # "done" /\ fwd[w] # "done") =>
       offered[w] = delivered[w] + Unit(InAgent(w)) + Unit(fwd[w] = "sends")
                      + Unit(producer[w] = "sends")

\* What is still under way was made.
UnderWay(w) ==
  delivered[w] + Unit(InAgent(w)) + Unit(up[Owner[w]] # "done" /\ fwd[w] = "sends")
    <= offered[w]

\* The goroutines of a controller that was not started are not there.
NotStarted(w) == Owner[w] \notin started => fwd[w] = "none" /\ producer[w] = "idle"

\* The agent's goroutines serve their own controllers, once all are started.
AgentInv ==
  /\ pc = "starting" => \A s \in Source : up[s] = "none"
  /\ pc # "starting" => started = Source
  /\ \A s \in Source : held[s].from # Nobody => Owner[held[s].from] = s
  /\ \A c \in Controller : closes[c] = 1 => c \in started

PipelineInv ==
  /\ NoSendOnClosed
  /\ AgentInv
  /\ \A w \in Worker : InLine(w) /\ UnderWay(w) /\ NotStarted(w)
=============================================================================
