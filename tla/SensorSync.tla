----------------------------- MODULE SensorSync -----------------------------
(***************************************************************************)
(* hass.Client.ProcessSensor: how the agent keeps Home Assistant, its own  *)
(* sensor registry and its sensor tracker in step.                         *)
(*                                                                         *)
(* runSensorWorkers starts one goroutine per sensor update, so updates of  *)
(* one sensor are processed concurrently.  A goroutine reads the registry  *)
(* under its mutex, sends a request, waits for the answer (or times out),  *)
(* and then changes the registry and the tracker, one lock at a time.      *)
(* Between those steps other goroutines, the user of Home Assistant, and a *)
(* restart of the agent may intervene.  Each such step is an action here.  *)
(*                                                                         *)
(* The registry is a map in memory that is written to its file as a whole  *)
(* after every change; a failed write leaves the change in memory only.    *)
(* (GobRegistry looks inside that write.)                                  *)
(***************************************************************************)
EXTENDS Naturals

CONSTANTS
  Sensor,       \* the ids of the sensors
  Location,     \* those whose state is a LocationRequest
  Value,        \* the states a sensor may report
  Task,         \* the goroutines that run ProcessSensor at a time
  NoValue,      \* the sensor is not in the tracker
  NoTask,       \* nobody waits for the answer to a request any more
  UserMay,      \* what the user of Home Assistant may do to an entity
  MaxRestarts   \* bound: restarts of the agent

ASSUME ConstantsAssumption ==
  /\ Location \subseteq Sensor
  /\ NoValue \notin Value
  /\ NoTask \notin Task
  /\ UserMay \subseteq {"disable", "forget"}
  /\ MaxRestarts \in Nat

VARIABLES
  registry,     \* gobRegistry.sensors: flags of each sensor
  file,         \* the registry file: the flags a restart loads
  tracker,      \* Tracker.sensor: the last state added per sensor
  task,         \* the goroutines: what each processes and how far it is
  wire,         \* requests Home Assistant has not handled
  known,        \* Home Assistant: sensors it has an entity for
  disabled,     \* Home Assistant: entities the user disabled
  everKnown,    \* history: sensors Home Assistant ever accepted
  accepted,     \* history: values of each sensor Home Assistant ever accepted
  latest,       \* history: the newest update of each sensor
  faulty,       \* history: a request, an answer or a write has been lost
  restarts      \* how often the agent was restarted

agentVars == <<registry, file, tracker, task>>
haVars    == <<known, disabled, everKnown, accepted>>
vars      == <<agentVars, wire, haVars, latest, faulty, restarts>>

-----------------------------------------------------------------------------
(* Data.                                                                   *)

\* registry.metadata.
Flags == [registered : BOOLEAN, disabled : BOOLEAN]

NoFlags == [registered |-> FALSE, disabled |-> FALSE]

Kind == {"config", "location", "update", "register"}

\* A request: what is asked, about which sensor, with which state, and the
\* goroutine that waits for the answer.
Request == [kind : Kind, sensor : Sensor, value : Value, task : Task \cup {NoTask}]

\* Answers to a request.  "zero" stands for everything send() turns into an
\* empty response: a transport error (discarded), a status above 399, a timeout.
Answer == {"none", "zero", "enabled", "disabled", "ok", "okDisabled", "rejected"}

\* Where a goroutine is: not running; before each of its two registry reads;
\* waiting for an answer; before SetDisabled; before tracker.Add.
Waiting == Kind
Pc == {"idle", "check", "route", "setDisabled", "track"} \cup Waiting

TypeOK ==
  /\ registry \in [Sensor -> Flags]
  /\ file \in [Sensor -> Flags]
  /\ tracker \in [Sensor -> Value \cup {NoValue}]
  /\ task \in [Task -> [pc : Pc, sensor : Sensor, value : Value, answer : Answer]]
  /\ wire \subseteq Request
  /\ known \subseteq Sensor
  /\ disabled \subseteq Sensor
  /\ everKnown \subseteq Sensor
  /\ accepted \in [Sensor -> SUBSET Value]
  /\ latest \in [Sensor -> Value \cup {NoValue}]
  /\ faulty \in BOOLEAN
  /\ restarts \in 0..MaxRestarts

Init ==
  /\ registry = [s \in Sensor |-> NoFlags]
  /\ file = [s \in Sensor |-> NoFlags]
  /\ tracker = [s \in Sensor |-> NoValue]
  /\ \E s \in Sensor, v \in Value :
       task = [t \in Task |->
                 [pc |-> "idle", sensor |-> s, value |-> v, answer |-> "none"]]
  /\ wire = {}
  /\ known = {}
  /\ disabled = {}
  /\ everKnown = {}
  /\ accepted = [s \in Sensor |-> {}]
  /\ latest = [s \in Sensor |-> NoValue]
  /\ faulty = FALSE
  /\ restarts = 0

-----------------------------------------------------------------------------
(* Pieces of the handlers.                                                 *)

SensorOf(t) == task[t].sensor

\* The goroutine goes on at p with nothing received.
Goto(t, p) == [task EXCEPT ![t].pc = p, ![t].answer = "none"]

\* send: the request leaves, the goroutine waits for its answer.
Send(t, kind) ==
  /\ wire' = wire \cup {[kind |-> kind, sensor |-> SensorOf(t),
                         value |-> task[t].value, task |-> t]}
  /\ task' = Goto(t, kind)

\* The answer to the goroutine's request has come, or it has given up.
Answered(t, kind) == task[t].pc = kind /\ task[t].answer # "none"

\* gobRegistry.SetDisabled and SetRegistered: the map changes, then the whole
\* map is written; saved says whether the write succeeded.
SetFlags(s, flags, saved) ==
  /\ registry' = [registry EXCEPT ![s] = flags]
  /\ file' = IF saved THEN registry' ELSE file
  /\ faulty' = (faulty \/ ~saved)

SetDisabled(s, value, saved) ==
  SetFlags(s, [registry[s] EXCEPT !.disabled = value], saved)

SetRegistered(s, value, saved) ==
  SetFlags(s, [registry[s] EXCEPT !.registered = value], saved)

-----------------------------------------------------------------------------
(* The agent.                                                              *)

\* runSensorWorkers receives an update and starts a goroutine for it.
NewUpdate(t, s, v) ==
  /\ task[t].pc = "idle"
  /\ task' = [task EXCEPT ![t] = [pc |-> "check", sensor |-> s, value |-> v,
                                  answer |-> "none"]]
  /\ latest' = [latest EXCEPT ![s] = v]
  /\ UNCHANGED <<registry, file, tracker, wire, haVars, faulty, restarts>>

\* Slip: a disabled sensor is skipped without asking Home Assistant.
SkipDisabled(t) ==
  /\ task[t].pc = "check"
  /\ task' = Goto(t, IF registry[SensorOf(t)].disabled THEN "idle" ELSE "route")
  /\ UNCHANGED <<registry, file, tracker, wire, haVars, latest, faulty, restarts>>

\* isDisabled reads the registry; for a disabled sensor isDisabledInHA asks
\* Home Assistant.
CheckDisabled(t) ==
  /\ task[t].pc = "check"
  /\ IF registry[SensorOf(t)].disabled
       THEN Send(t, "config")
       ELSE task' = Goto(t, "route") /\ UNCHANGED wire
  /\ UNCHANGED <<registry, file, tracker, haVars, latest, faulty, restarts>>

\* isDisabledInHA has no usable answer, or the sensor is still disabled there:
\* the update is skipped.
StillDisabled(t) ==
  /\ Answered(t, "config")
  /\ task[t].answer # "enabled"
  /\ task' = Goto(t, "idle")
  /\ UNCHANGED <<registry, file, tracker, wire, haVars, latest, faulty, restarts>>

\* Home Assistant has it enabled: isDisabled clears the flag and goes on, but
\* skips the update if the registry cannot be written.
Reenable(t, saved) ==
  /\ Answered(t, "config")
  /\ task[t].answer = "enabled"
  /\ SetDisabled(SensorOf(t), FALSE, saved)
  /\ task' = Goto(t, IF saved THEN "route" ELSE "idle")
  /\ UNCHANGED <<tracker, wire, haVars, latest, restarts>>

\* The switch of ProcessSensor: a location, an update or a registration.
Route(t) ==
  /\ task[t].pc = "route"
  /\ Send(t, IF SensorOf(t) \in Location THEN "location"
             ELSE IF registry[SensorOf(t)].registered THEN "update"
             ELSE "register")
  /\ UNCHANGED <<registry, file, tracker, haVars, latest, faulty, restarts>>

\* handleLocationUpdate ends: whatever the answer, nothing is recorded.
LocationAnswered(t) ==
  /\ Answered(t, "location")
  /\ task' = Goto(t, "idle")
  /\ UNCHANGED <<registry, file, tracker, wire, haVars, latest, faulty, restarts>>

\* The value of update.Disabled() in the answer to an update.
ReportsDisabled(t) == task[t].answer = "okDisabled"

\* handleSensorUpdate without a response: ErrStateUpdateUnknown or the error.
UpdateLost(t) ==
  /\ Answered(t, "update")
  /\ task[t].answer = "zero"
  /\ task' = Goto(t, "idle")
  /\ UNCHANGED <<registry, file, tracker, wire, haVars, latest, faulty, restarts>>

\* Slip: the flag in the answer is not looked at.
UpdateAnsweredFlagIgnored(t) ==
  /\ Answered(t, "update")
  /\ task[t].answer # "zero"
  /\ task' = [task EXCEPT ![t].pc = "track"]
  /\ UNCHANGED <<registry, file, tracker, wire, haVars, latest, faulty, restarts>>

\* handleSensorUpdate compares the reported flag with the registry's; that
\* Home Assistant rejected the update is only a warning.
UpdateAnswered(t) ==
  /\ Answered(t, "update")
  /\ task[t].answer # "zero"
  /\ task' = [task EXCEPT ![t].pc =
                IF registry[SensorOf(t)].disabled # ReportsDisabled(t)
                THEN "setDisabled" ELSE "track"]
  /\ UNCHANGED <<registry, file, tracker, wire, haVars, latest, faulty, restarts>>

\* handleSensorUpdate stores the reported flag; a failed write is a warning.
StoreDisabled(t, saved) ==
  /\ task[t].pc = "setDisabled"
  /\ SetDisabled(SensorOf(t), ReportsDisabled(t), saved)
  /\ task' = [task EXCEPT ![t].pc = "track"]
  /\ UNCHANGED <<tracker, wire, haVars, latest, restarts>>

\* handleRegistration: not registered, an error.
RegistrationFailed(t) ==
  /\ Answered(t, "register")
  /\ task[t].answer # "ok"
  /\ task' = Goto(t, "idle")
  /\ UNCHANGED <<registry, file, tracker, wire, haVars, latest, faulty, restarts>>

\* Slip: success is not checked.
RegistrationDoneUnchecked(t, saved) ==
  /\ Answered(t, "register")
  /\ SetRegistered(SensorOf(t), TRUE, saved)
  /\ task' = [task EXCEPT ![t].pc = "track"]
  /\ UNCHANGED <<tracker, wire, haVars, latest, restarts>>

\* handleRegistration records the registration; a failed write is a warning.
RegistrationDone(t, saved) ==
  /\ Answered(t, "register")
  /\ task[t].answer = "ok"
  /\ SetRegistered(SensorOf(t), TRUE, saved)
  /\ task' = [task EXCEPT ![t].pc = "track"]
  /\ UNCHANGED <<tracker, wire, haVars, latest, restarts>>

\* tracker.Add, the last step of an update and of a registration.
Track(t) ==
  /\ task[t].pc = "track"
  /\ tracker' = [tracker EXCEPT ![SensorOf(t)] = task[t].value]
  /\ task' = Goto(t, "idle")
  /\ UNCHANGED <<registry, file, wire, haVars, latest, faulty, restarts>>

\* The client's timeout, or a transport error: the goroutine goes on with an
\* empty response.  Home Assistant may still get the request, later or at once
\* (the latter is also what a lost answer looks like).
Abandoned(r) == [r EXCEPT !.task = NoTask]

\* Slip: a client without a timeout.
NoTimeout(t) == FALSE /\ UNCHANGED vars

Timeout(t) ==
  /\ task[t].pc \in Waiting
  /\ task[t].answer = "none"
  /\ task' = [task EXCEPT ![t].answer = "zero"]
  /\ wire' = {IF r.task = t THEN Abandoned(r) ELSE r : r \in wire}
  /\ faulty' = TRUE
  /\ UNCHANGED <<registry, file, tracker, haVars, latest, restarts>>

\* Slip: opening the registry truncates it.
RestartTruncated ==
  /\ restarts < MaxRestarts
  /\ registry' = [s \in Sensor |-> NoFlags]
  /\ file' = registry'
  /\ tracker' = [s \in Sensor |-> NoValue]
  /\ task' = [t \in Task |-> [task[t] EXCEPT !.pc = "idle", !.answer = "none"]]
  /\ wire' = {Abandoned(r) : r \in wire}
  /\ faulty' = TRUE
  /\ restarts' = restarts + 1
  /\ UNCHANGED <<haVars, latest>>

\* The agent stops at any point and starts again: registry.Load reads the
\* file, NewTracker makes an empty tracker, the goroutines are gone.
Restart ==
  /\ restarts < MaxRestarts
  /\ registry' = file
  /\ tracker' = [s \in Sensor |-> NoValue]
  /\ task' = [t \in Task |-> [task[t] EXCEPT !.pc = "idle", !.answer = "none"]]
  /\ wire' = {Abandoned(r) : r \in wire}
  /\ faulty' = TRUE
  /\ restarts' = restarts + 1
  /\ UNCHANGED <<file, haVars, latest>>

-----------------------------------------------------------------------------
(* Home Assistant, as far as the agent's requests and answers show it.     *)

\* What Home Assistant answers to a request, given what it knows.
AnswerTo(r) ==
  CASE r.kind = "config"   -> IF r.sensor \in disabled THEN "disabled" ELSE "enabled"
    [] r.kind = "update"   -> IF r.sensor \notin known THEN "rejected"
                              ELSE IF r.sensor \in disabled THEN "okDisabled" ELSE "ok"
    [] OTHER               -> "ok"

\* Home Assistant handles a request and, if somebody waits, answers it.
Handle(r) ==
  /\ r \in wire
  /\ wire' = wire \ {r}
  /\ known' = IF r.kind = "register" THEN known \cup {r.sensor} ELSE known
  /\ everKnown' = IF r.kind = "register" THEN everKnown \cup {r.sensor} ELSE everKnown
  /\ accepted' = IF r.kind = "config" \/ AnswerTo(r) = "rejected" THEN accepted
                 ELSE [accepted EXCEPT ![r.sensor] = @ \cup {r.value}]
  /\ task' = IF r.task = NoTask THEN task
             ELSE [task EXCEPT ![r.task].answer = AnswerTo(r)]
  /\ UNCHANGED <<registry, file, tracker, disabled, latest, faulty, restarts>>

\* The user disables or enables an entity, or removes it.
UserDisables(s) ==
  /\ "disable" \in UserMay
  /\ s \in known \ disabled
  /\ disabled' = disabled \cup {s}
  /\ UNCHANGED <<agentVars, wire, known, everKnown, accepted, latest, faulty, restarts>>

UserEnables(s) ==
  /\ s \in disabled
  /\ disabled' = disabled \ {s}
  /\ UNCHANGED <<agentVars, wire, known, everKnown, accepted, latest, faulty, restarts>>

UserForgets(s) ==
  /\ "forget" \in UserMay
  /\ s \in known
  /\ known' = known \ {s}
  /\ disabled' = disabled \ {s}
  /\ UNCHANGED <<agentVars, wire, everKnown, accepted, latest, faulty, restarts>>

-----------------------------------------------------------------------------
\* A goroutine's own steps, which need nobody else.
Step(t) ==
  \/ CheckDisabled(t)
  \/ StillDisabled(t)
  \/ \E saved \in BOOLEAN :
       Reenable(t, saved) \/ StoreDisabled(t, saved) \/ RegistrationDone(t, saved)
  \/ Route(t)
  \/ LocationAnswered(t)
  \/ UpdateLost(t)
  \/ UpdateAnswered(t)
  \/ RegistrationFailed(t)
  \/ Track(t)

User == \E s \in Sensor : UserDisables(s) \/ UserEnables(s) \/ UserForgets(s)

Next ==
  \/ \E t \in Task : Step(t) \/ Timeout(t)
  \/ \E t \in Task, s \in Sensor, v \in Value : NewUpdate(t, s, v)
  \/ \E r \in wire : Handle(r)
  \/ Restart
  \/ User

Spec == Init /\ [][Next]_vars

(***************************************************************************)
(* Fairness.  A goroutine that can step does, and a request that is not    *)
(* answered times out (defaultTimeout): the Go scheduler and the HTTP      *)
(* client guarantee both.  Nothing is assumed of Home Assistant or of its  *)
(* user.                                                                   *)
(***************************************************************************)
FairSpec == Spec /\ \A t \in Task : WF_vars(Step(t)) /\ WF_vars(Timeout(t))

(***************************************************************************)
(* A working network on top: workers keep reporting every sensor, and a    *)
(* kind of request that is sent again and again is answered in time now    *)
(* and then.  Without this nothing said about Home Assistant's flags can   *)
(* ever reach the agent.                                                   *)
(***************************************************************************)
HandleKind(s, kind) ==
  \E r \in wire : r.sensor = s /\ r.kind = kind /\ r.task # NoTask /\ Handle(r)

ConnectedSpec ==
  /\ FairSpec
  /\ \A s \in Sensor :
       /\ SF_vars(\E t \in Task, v \in Value : NewUpdate(t, s, v))
       /\ \A kind \in Kind : SF_vars(HandleKind(s, kind))

-----------------------------------------------------------------------------
(* Safety.                                                                 *)

\* The registry, in memory or in its file, claims a sensor is registered only
\* if Home Assistant accepted a registration of it, whatever was lost, timed
\* out or restarted in between (handleRegistration checks the answer first).
RegistryHeard ==
  \A s \in Sensor :
    registry[s].registered \/ file[s].registered => s \in everKnown

\* The file never knows of a registration the running agent has forgotten:
\* write saves the map that was changed before it, and Load takes all of it.
FileBehindRegistry ==
  \A s \in Sensor : file[s].registered => registry[s].registered

\* Why both hold: a request is on the wire for the goroutine that waits for
\* exactly it, one at a time, so that an answer is about the sensor and the kind
\* of request it is taken for; a goroutine holding a registration's success has
\* it from Home Assistant.
WireMatchesTasks ==
  /\ \A r \in wire : r.task # NoTask =>
       /\ task[r.task].pc = r.kind
       /\ task[r.task].answer = "none"
       /\ task[r.task].sensor = r.sensor
  /\ \A r1, r2 \in wire : r1.task = r2.task /\ r1.task # NoTask => r1 = r2

AnswersHeard ==
  \A t \in Task :
    task[t].pc = "register" /\ task[t].answer = "ok" => task[t].sensor \in everKnown

RegistryInv ==
  /\ RegistryHeard
  /\ FileBehindRegistry
  /\ WireMatchesTasks
  /\ AnswersHeard

\* What the tracker shows was accepted by Home Assistant ("At this point, the
\* sensor update was successful").  It holds as long as Home Assistant keeps
\* its entities, and does not hold when one is removed: the update is rejected, and
\* tracked.
TrackedWasAccepted ==
  \A s \in Sensor : tracker[s] # NoValue => tracker[s] \in accepted[s]

Quiet == wire = {} /\ \A t \in Task : task[t].pc = "idle"

\* When every update has been processed and nothing was lost, the tracker has
\* the current state of each sensor.  One goroutine per update breaks it:
\* with two values and two goroutines TLC finds the older one left (README).
TrackerIsCurrent ==
  Quiet /\ ~faulty => \A s \in Sensor \ Location : tracker[s] = latest[s]

-----------------------------------------------------------------------------
(* Liveness.                                                               *)

\* Every update that a worker reports is done with in the end: no answer,
\* lost answer or failed write leaves its goroutine waiting.
EveryUpdateEnds == \A t \in Task : task[t].pc # "idle" ~> task[t].pc = "idle"

\* "While the agent will stop sending updates for a disabled sensor": if the
\* user leaves a sensor disabled, from some time on the agent sends nothing
\* about it but the question whether it still is.
StopsSending ==
  \A s \in Sensor \ Location :
    <>[](s \in disabled)
      => <>[](\A t \in Task : task[t].sensor = s => task[t].pc \notin {"update", "register"})

\* ... and if the user leaves it enabled, its updates keep arriving.
KeepsSending ==
  \A s \in Sensor \ Location :
    <>[](s \in known \ disabled)
      => []<>(\E t \in Task : task[t].sensor = s /\ task[t].pc = "track")

-----------------------------------------------------------------------------
(* The lifecycle of a registration that this implements.                   *)

phase ==
  [s \in Sensor |->
     IF file[s].registered THEN "durable"
     ELSE IF registry[s].registered THEN "recorded"
     ELSE IF s \in everKnown THEN "accepted" ELSE "new"]

Lifecycle == INSTANCE SensorLifecycle

\* Steps of goroutines, lost answers, failed writes and restarts move each
\* sensor through the phases of SensorLifecycle and in no other way.
ImplementsLifecycle == Lifecycle!Spec
=============================================================================
