--------------------------- MODULE AgentLifecycle ---------------------------
(***************************************************************************)
(* The run and register commands: from their start, through registration,  *)
(* to their end.                                                           *)
(*                                                                         *)
(* Run starts a goroutine that waits for a signal, one that registers the  *)
(* agent if need be, and one that waits for that one (regWait), sets up    *)
(* the controllers and starts their workers, each of which is added to a   *)
(* wait group (wg) on which Run waits last.  In between it runs the UI.    *)
(* The channel done tells everyone to end; the signal, a registration that *)
(* fails and the Quit item of the tray menu each close it, and whoever     *)
(* closes it second ends the program with a panic.                         *)
(*                                                                         *)
(* Register starts the goroutine that registers the agent only, runs the   *)
(* UI without its tray menu, and waits for that goroutine, which closes    *)
(* done in any case.                                                       *)
(*                                                                         *)
(* A worker here is one of runSensorWorkers, runMQTTWorkers and            *)
(* runNotificationsWorker, of which this module knows that they may return *)
(* early and, except for the first, do return when their context is        *)
(* cancelled (MQTTBridge and Websocket show that).  runSensorWorkers       *)
(* returns when the channels of all its sources are closed, and there are  *)
(* sources whose channel nobody closes: scripts (SensorPipeline), and a    *)
(* battery worker without its watch (BatteryTracking).                     *)
(***************************************************************************)
EXTENDS Naturals

CONSTANTS
  Config,     \* how the agent may have been started
  MaxClicks   \* bound: how often Quit is chosen

\* Whether there is a UI, whether MQTT is enabled, whether the agent is registered and
\* whether the user has to be asked for registration details, which only happens in a
\* UI; which of the two commands it is, and whether it registers again.  unclosed says
\* that one of its sensor sources never closes its channel: scripts with a schedule were
\* found, or the battery worker could not watch, or not read a battery.
ASSUME ConfigAssumption ==
  Config \subseteq [headless : BOOLEAN, mqtt : BOOLEAN, registered : BOOLEAN, prompt : BOOLEAN,
                   register : BOOLEAN, force : BOOLEAN, unclosed : BOOLEAN]
ASSUME MaxClicksAssumption == MaxClicks \in Nat

Worker == {"sensors", "mqtt", "notifications"}

VARIABLES
  config,      \* how it was started
  done,        \* the channel done is closed
  crashed,     \* it was closed again
  signalled,   \* a signal is in the handler's channel
  handler,     \* handleSignals' goroutine
  registered,  \* prefs.Registered
  reg,         \* checkRegistration's goroutine
  window,      \* the registration window is open
  starter,     \* the goroutine that starts the workers: whom it starts next
  wg,          \* who is counted by wg
  watcher,     \* the goroutine that cancels the workers' context
  cancelled,   \* the workers' context is cancelled
  worker,      \* the workers
  clicks,      \* Quit was chosen
  stops,       \* calls of Stop that have not closed done yet
  main         \* Run or Register: in the UI, waiting for wg, returned

regVars    == <<registered, reg, window>>
workVars   == <<starter, wg, watcher, cancelled, worker>>
uiVars     == <<clicks, stops, main>>
signalVars == <<signalled, handler>>
doneVars   == <<done, crashed>>
vars       == <<config, doneVars, signalVars, regVars, workVars, uiVars>>

TypeOK ==
  /\ config \in Config
  /\ done \in BOOLEAN /\ crashed \in BOOLEAN /\ signalled \in BOOLEAN
  /\ handler \in {"waits", "closes", "gone"}
  /\ registered \in BOOLEAN
  /\ reg \in {"starts", "prompts", "requests", "closes", "ended"}
  /\ window \in BOOLEAN
  /\ starter \in Worker \cup {"waits", "ends", "gone"}
  /\ wg \subseteq Worker \cup {"starter", "registration"}
  /\ watcher \in {"none", "waits", "gone"}
  /\ cancelled \in BOOLEAN
  /\ worker \in [Worker -> {"none", "runs", "returned"}]
  /\ clicks \in Nat
  /\ stops \in Nat
  /\ main \in {"ui", "waits", "returned"}

Init ==
  /\ config \in Config
  /\ done = FALSE /\ crashed = FALSE
  /\ signalled = FALSE
  /\ registered = config.registered
  /\ reg = "starts" /\ window = FALSE
  /\ IF config.register
       THEN handler = "gone" /\ starter = "gone" /\ wg = {"registration"}
       ELSE handler = "waits" /\ starter = "waits" /\ wg = {"starter"}
  /\ watcher = "none" /\ cancelled = FALSE
  /\ worker = [w \in Worker |-> "none"]
  /\ clicks = 0 /\ stops = 0
  /\ main = "ui"

\* close(agent.done)
CloseDone ==
  /\ done' = TRUE
  /\ crashed' = done

-----------------------------------------------------------------------------
(* Signals.                                                                *)

\* An interrupt or a request to terminate; the channel keeps one.  The register
\* command has no such channel: it is killed.
Signal ==
  /\ ~config.register
  /\ ~signalled
  /\ signalled' = TRUE
  /\ UNCHANGED <<config, doneVars, handler, regVars, workVars, uiVars>>

HandleSignal ==
  /\ handler = "waits"
  /\ signalled
  /\ signalled' = FALSE
  /\ handler' = "closes"
  /\ UNCHANGED <<config, doneVars, regVars, workVars, uiVars>>

HandlerCloses ==
  /\ handler = "closes"
  /\ CloseDone
  /\ handler' = "gone"
  /\ UNCHANGED <<config, signalled, regVars, workVars, uiVars>>

-----------------------------------------------------------------------------
(* checkRegistration.                                                      *)

\* Where checkRegistration's goroutine goes when that succeeded.
Succeeded == IF config.register THEN "closes" ELSE "ended"

\* Registered already, or to be registered with or without asking the user.
CheckRegistration ==
  /\ reg = "starts"
  /\ \/ /\ registered /\ ~config.force
        /\ reg' = Succeeded /\ UNCHANGED window
     \/ /\ ~registered \/ config.force
        /\ ~config.headless /\ config.prompt
        /\ reg' = "prompts" /\ window' = TRUE
     \/ /\ ~registered \/ config.force
        /\ config.headless \/ ~config.prompt
        /\ reg' = "requests" /\ UNCHANGED window
  /\ UNCHANGED <<config, doneVars, signalVars, registered, workVars, uiVars>>

\* The user submits the form or cancels it: either way the agent goes on.
Answer ==
  /\ reg = "prompts"
  /\ window
  /\ window' = FALSE
  /\ reg' = "requests"
  /\ UNCHANGED <<config, doneVars, signalVars, registered, workVars, uiVars>>

\* The agent is done, or the user closes the window, which tells nobody.
CloseWindow ==
  /\ window
  /\ window' = FALSE
  /\ UNCHANGED <<config, doneVars, signalVars, registered, reg, workVars, uiVars>>

\* Home Assistant accepts the device and the registration is saved.
Registers ==
  /\ reg = "requests"
  /\ registered' = TRUE
  /\ reg' = Succeeded
  /\ UNCHANGED <<config, doneVars, signalVars, window, workVars, uiVars>>

\* The request fails, or what it returned cannot be saved.
RegistrationFails ==
  /\ reg = "requests"
  /\ registered' \in BOOLEAN
  /\ reg' = "closes"
  /\ UNCHANGED <<config, doneVars, signalVars, window, workVars, uiVars>>

\* Slip: regWait.Done is not deferred.
RegistrationClosesOnly ==
  /\ reg = "closes"
  /\ ~done
  /\ CloseDone
  /\ UNCHANGED <<config, signalVars, registered, reg, window, workVars, uiVars>>

\* done is closed, in Run after an error only, and the goroutine returns.
RegistrationCloses ==
  /\ reg = "closes"
  /\ CloseDone
  /\ reg' = "ended"
  /\ wg' = wg \ {"registration"}
  /\ UNCHANGED <<config, signalVars, registered, window, starter, watcher, cancelled, worker, uiVars>>

-----------------------------------------------------------------------------
(* The workers.                                                            *)

\* Slip: regWait.Add is called by the goroutine it counts.
SetUpAtOnce ==
  /\ starter = "waits"
  /\ watcher' = "waits"
  /\ starter' = "sensors"
  /\ UNCHANGED <<config, doneVars, signalVars, regVars, wg, cancelled, worker, uiVars>>

\* Registration is over, whatever its outcome: the workers' context and its
\* watcher, the endpoint and the controllers are made.
SetUp ==
  /\ starter = "waits"
  /\ reg = "ended"
  /\ watcher' = "waits"
  /\ starter' = "sensors"
  /\ UNCHANGED <<config, doneVars, signalVars, regVars, wg, cancelled, worker, uiVars>>

\* The controllers that setupControllers makes for MQTT.  The commands file may add
\* another one.
MQTTControllers == IF config.mqtt THEN {"os"} ELSE {}

\* The worker to be started after w, if any.
After(w) ==
  CASE w = "sensors" /\ MQTTControllers # {} -> "mqtt"
    [] w = "sensors" /\ MQTTControllers = {} -> "notifications"
    [] w = "mqtt" -> "notifications"
    [] w = "notifications" -> "ends"

\* Slip: wg.Add is called by the goroutine it counts.
StartUncounted(w) ==
  /\ starter = w
  /\ worker' = [worker EXCEPT ![w] = "runs"]
  /\ starter' = After(w)
  /\ UNCHANGED <<config, doneVars, signalVars, regVars, wg, watcher, cancelled, uiVars>>

\* A worker is counted and started.
Start(w) ==
  /\ starter = w
  /\ wg' = wg \cup {w}
  /\ worker' = [worker EXCEPT ![w] = "runs"]
  /\ starter' = After(w)
  /\ UNCHANGED <<config, doneVars, signalVars, regVars, watcher, cancelled, uiVars>>

StarterEnds ==
  /\ starter = "ends"
  /\ starter' = "gone"
  /\ wg' = wg \ {"starter"}
  /\ UNCHANGED <<config, doneVars, signalVars, regVars, watcher, cancelled, worker, uiVars>>

\* done is closed: the workers' context is cancelled.
CancelWorkers ==
  /\ watcher = "waits"
  /\ done
  /\ watcher' = "gone"
  /\ cancelled' = TRUE
  /\ UNCHANGED <<config, doneVars, signalVars, regVars, starter, wg, worker, uiVars>>

\* The workers that return when they are cancelled.  The sensor workers may return,
\* but need not, if one of their channels stays open.
Owes(w) == w = "sensors" => ~config.unclosed

\* A worker returns: it is cancelled, or has nothing to do.
WorkerReturns(w) ==
  /\ worker[w] = "runs"
  /\ worker' = [worker EXCEPT ![w] = "returned"]
  /\ wg' = wg \ {w}
  /\ UNCHANGED <<config, doneVars, signalVars, regVars, starter, watcher, cancelled, uiVars>>

-----------------------------------------------------------------------------
(* The UI and Run.                                                         *)

\* Quit is chosen in the tray menu: Stop saves the preferences.
Quit ==
  /\ main = "ui"
  /\ ~config.headless /\ ~config.register
  /\ clicks < MaxClicks
  /\ clicks' = clicks + 1
  /\ stops' = stops + 1
  /\ UNCHANGED <<config, doneVars, signalVars, regVars, workVars, main>>

StopCloses ==
  /\ stops > 0
  /\ CloseDone
  /\ stops' = stops - 1
  /\ UNCHANGED <<config, signalVars, regVars, workVars, clicks, main>>

\* ui.Run returns: at once without a UI, otherwise when done is closed.
LeaveUI ==
  /\ main = "ui"
  /\ config.headless \/ done
  /\ main' = "waits"
  /\ UNCHANGED <<config, doneVars, signalVars, regVars, workVars, clicks, stops>>

Return ==
  /\ main = "waits"
  /\ wg = {}
  /\ main' = "returned"
  /\ UNCHANGED <<config, doneVars, signalVars, regVars, workVars, clicks, stops>>

-----------------------------------------------------------------------------
\* The program has ended, by returning from Run or by a panic.
Ended == crashed \/ main = "returned"

\* Nothing happens in a program that has ended.
Step(A) == ~Ended /\ A

Next ==
  \/ Step(Signal) \/ Step(HandleSignal) \/ Step(HandlerCloses)
  \/ Step(CheckRegistration) \/ Step(Answer) \/ Step(CloseWindow)
  \/ Step(Registers) \/ Step(RegistrationFails) \/ Step(RegistrationCloses)
  \/ Step(SetUp) \/ Step(StarterEnds) \/ Step(CancelWorkers)
  \/ \E w \in Worker : Step(Start(w)) \/ Step(WorkerReturns(w))
  \/ Step(Quit) \/ Step(StopCloses)
  \/ Step(LeaveUI) \/ Step(Return)

Spec == Init /\ [][Next]_vars

\* The goroutines run, the registration request ends (it has a timeout), and
\* workers that are cancelled return if they owe it.  The user and the system owe nothing.
FairSpec ==
  /\ Spec
  /\ WF_vars(Step(HandleSignal)) /\ WF_vars(Step(HandlerCloses))
  /\ WF_vars(Step(CheckRegistration))
  /\ WF_vars(Step(done /\ CloseWindow))
  /\ WF_vars(Step(Registers \/ RegistrationFails)) /\ WF_vars(Step(RegistrationCloses))
  /\ WF_vars(Step(SetUp)) /\ WF_vars(Step(StarterEnds)) /\ WF_vars(Step(CancelWorkers))
  /\ \A w \in Worker :
       WF_vars(Step(Start(w))) /\ WF_vars(Step(cancelled /\ Owes(w) /\ WorkerReturns(w)))
  /\ WF_vars(Step(StopCloses))
  /\ WF_vars(Step(LeaveUI)) /\ WF_vars(Step(Return))

-----------------------------------------------------------------------------
(* Properties.                                                             *)

\* Run returns only when everything it started for the workers has, and Register when
\* the registration has: nobody is added to the wait group after main stopped waiting.
WaitsForWorkers ==
  main = "returned" =>
    /\ starter = "gone" /\ reg = "ended"
    /\ \A w \in Worker : worker[w] # "runs"

\* No worker runs before registration is over, and if that failed the agent is
\* on its way down.
WorksRegistered ==
  \A w \in Worker : worker[w] = "runs" => reg = "ended" /\ (registered \/ done)

\* Once the agent is done, the program ends: not so (see the README), and EndsUnlessHeld
\* says when it does.
EndsWhenDone == done ~> Ended

\* Registration waits for a window: one that the user has not answered yet, or that was
\* closed, by the user or because the agent is done, before it was answered.
HeldByPrompt == reg = "prompts" /\ ~(window /\ done)

\* The sensor workers run and wait for a channel that nobody closes.
HeldBySensors == worker["sensors"] = "runs" /\ ~Owes("sensors")

\* Two things can keep an agent that is done from ending: a registration window, and
\* sensor workers one of whose channels stays open, on which Run then waits for ever.
\* Only the first can keep a register command from ending, which ends in any case.
EndsUnlessHeld ==
  (done \/ config.register) ~>
    (Ended \/ HeldByPrompt \/ (~config.register /\ HeldBySensors))

-----------------------------------------------------------------------------
\* Why: whoever runs is counted, and nobody is counted before the starter, which
\* registration lets go.
LifecycleInv ==
  /\ starter # "gone" => "starter" \in wg
  /\ config.register => starter = "gone" /\ (reg # "ended" => "registration" \in wg)
  /\ ~config.register /\ starter # "waits" => reg = "ended"
  /\ \A w \in Worker : worker[w] = "runs" => w \in wg /\ ~config.register
  /\ main = "returned" => wg = {}
  /\ starter = "waits" => \A w \in Worker : worker[w] = "none"
  /\ reg = "ended" => registered \/ done
=============================================================================
