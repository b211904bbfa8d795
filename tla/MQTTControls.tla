---------------------------- MODULE MQTTControls ----------------------------
(***************************************************************************)
(* What Home Assistant can control over MQTT, from the start of an agent   *)
(* to its reset.                                                           *)
(*                                                                         *)
(* When an agent starts, the commands controller makes entities of the     *)
(* user's commands.toml, and the OS controller of what D-Bus, the desktop  *)
(* and PulseAudio offer at that moment.  runMQTTWorkers hands the          *)
(* configurations of all of them, and the subscriptions of those that have *)
(* a command, to the MQTT client.  The broker keeps the configurations,    *)
(* and Home Assistant shows what they describe, until somebody takes them  *)
(* back: the reset command does, for the entities it finds by then.        *)
(*                                                                         *)
(* No two commands have one name, nor that of a control of the OS          *)
(* controller: the entity's id, and its topics, are made of it, and what   *)
(* the client does with two callbacks of a topic is not in the code.  An   *)
(* entity's icon, limits and state are left out.  The media player's       *)
(* watch, if there is a session bus, succeeds.                             *)
(***************************************************************************)
EXTENDS Naturals, Sequences

CONSTANTS
  UserCommand,   \* the names of the user's commands
  CommandsFile,  \* the contents commands.toml may have: its tables, in order
  Surroundings,  \* what an agent may find when it starts
  Nobody,        \* no command
  MaxEdits,      \* bound: how often the user changes commands.toml
  MaxStarts      \* bound: the run and reset commands

PowerMethod == {"Reboot", "Suspend", "Hibernate", "PowerOff"}
Facility    == {"system bus", "session bus", "session path", "PulseAudio"}

\* A table of commands.toml: [[button]], [[switch]] or [[number]].
Table == [name : UserCommand, table : {"button", "switch", "number"}, type : {"", "int", "float"}]
Absent == [state |-> "absent", tables |-> <<>>]

ASSUME ControlsAssumption ==
  /\ MaxEdits \in Nat /\ MaxStarts \in Nat
  /\ \A f \in CommandsFile :
       /\ f.state \in {"absent", "broken", "whole"} /\ f.tables \in Seq(Table)
       /\ \A i, j \in DOMAIN f.tables : f.tables[i].name = f.tables[j].name => i = j
       /\ f.state # "whole" => f.tables = <<>>
  /\ Absent \in CommandsFile
  /\ Surroundings # {}
  /\ \A s \in Surroundings :
       /\ s.has \subseteq Facility
       /\ "session path" \in s.has => "system bus" \in s.has
       /\ s.desktop \in {"logind", "screensaver", "other"}
       /\ s.can \in [PowerMethod -> {"yes", "no", "error"}]

VARIABLES
  commandsFile,  \* commands.toml
  mqtt,          \* the preferences' MQTT.IsMQTTEnabled
  process,       \* the run or reset command, or the other part of the bridge ("unused")
  setup,         \* the file and the surroundings its controllers were made of
  subscribed,    \* the controls to whose topics the client subscribed
  retained,      \* the entities whose configurations the broker keeps
  known,         \* history: the setups that were published, and not taken back
  asked,         \* history: the control that Home Assistant used last, in a run
  executed,      \* history: whose command was executed for it
  edits,
  starts

controlsVars == <<commandsFile, mqtt, process, setup, subscribed, retained, known, asked, executed, edits, starts>>

Setup   == [file : CommandsFile, found : Surroundings]
NoSetup == [file |-> Absent, found |-> CHOOSE s \in Surroundings : TRUE]

ControlsInit ==
  /\ commandsFile \in CommandsFile
  /\ mqtt \in BOOLEAN
  /\ process = "none"
  /\ setup = NoSetup
  /\ subscribed = {} /\ retained = {} /\ known = {}
  /\ asked = Nobody /\ executed = Nobody
  /\ edits = 0 /\ starts = 0

-----------------------------------------------------------------------------
(* The entities of the controllers: the list each is in, and what its      *)
(* command callback executes.                                              *)

Control(id, list, callback) == [id |-> id, list |-> list, callback |-> callback]
Own(ids, list) == {Control(i, list, i) : i \in ids}

\* Slip: the closures share the loop's variable.
LastOf(tables, i) == tables[Len(tables)].name

\* What the closure of the i-th command executes: its own cmd.Exec.
ExecutedBy(tables, i) == tables[i].name

Generate(tables, list) ==
  {Control(tables[i].name, list, ExecutedBy(tables, i)) : i \in DOMAIN tables}

GenerateButtons(tables)  == Generate(tables, "buttons")
GenerateSwitches(tables) == Generate(tables, "switches")

\* A number is a float if its type says so, and an int by default.  One loop makes
\* both lists.
GenerateNumbers(tables) ==
  {IF tables[i].type = "float" THEN Control(tables[i].name, "floatNumbers", ExecutedBy(tables, i))
                               ELSE Control(tables[i].name, "intNumbers", ExecutedBy(tables, i)) :
     i \in DOMAIN tables}

\* A file that is not there or cannot be parsed gives no controller.
NewCommandsController(file) ==
  LET Of(t) == SelectSeq(file.tables, LAMBDA c : c.table = t) IN
  IF file.state = "whole"
  THEN GenerateButtons(Of("button")) \cup GenerateSwitches(Of("switch")) \cup GenerateNumbers(Of("number"))
  ELSE {}

\* logind is asked what the user may do: any answer will do.
GenerateCommands(s) == {p \in PowerMethod : s.can[p] = "yes" \/ s.can[p] # "error"}

NewPowerControl(s) ==
  IF {"system bus", "session path"} \subseteq s.has THEN Own(GenerateCommands(s), "buttons") ELSE {}

\* logind locks sessions, for which their path is asked again; XFCE and Cinnamon have
\* a screensaver.
SetupCommands(s) ==
  CASE s.desktop = "logind" /\ "session path" \in s.has -> {"Lock Session", "Unlock Session"}
    [] s.desktop = "screensaver" -> {"Activate Screensaver"}
    [] OTHER -> {}

NewScreenLockControl(s) ==
  IF {"session bus", "system bus"} \subseteq s.has THEN Own(SetupCommands(s), "buttons") ELSE {}

VolumeEntities(s) ==
  IF "PulseAudio" \in s.has
  THEN Own({"Volume"}, "numbers") \cup Own({"Mute"}, "switches") ELSE {}

MediaEntities(s) ==
  IF "session bus" \in s.has THEN {Control("Media State", "sensors", Nobody)} ELSE {}

\* The camera's entities are there whether a camera is or not.
NewCameraControl ==
  Own({"Start Webcam", "Stop Webcam"}, "buttons")
  \cup {Control("Webcam", "cameras", Nobody), Control("Webcam Status", "sensors", Nobody)}

\* A subscription without an entity.
NewDBusCommandSubscription(s) ==
  IF {"session bus", "system bus"} \subseteq s.has THEN Own({"D-Bus command"}, "controls") ELSE {}

NewOSController(s) ==
  NewPowerControl(s) \cup NewScreenLockControl(s) \cup VolumeEntities(s) \cup MediaEntities(s)
  \cup NewCameraControl \cup NewDBusCommandSubscription(s)

-----------------------------------------------------------------------------
(* What a setup's controllers give to the client.                          *)

Controls(u) == NewOSController(u.found) \cup NewCommandsController(u.file)

OSSubscriptions(u) ==
  {e \in NewOSController(u.found) : e.list \in {"buttons", "numbers", "switches", "controls"}}
CommandSubscriptions(u) ==
  {e \in NewCommandsController(u.file) : e.list \in {"buttons", "switches", "intNumbers", "floatNumbers"}}
Subscriptions(u) == OSSubscriptions(u) \cup CommandSubscriptions(u)

Ids(entities) == {[id |-> e.id, list |-> e.list] : e \in entities}

OSConfigs(u) ==
  Ids({e \in NewOSController(u.found) : e.list \in {"sensors", "buttons", "numbers", "switches", "cameras"}})
CommandConfigs(u) ==
  Ids({e \in NewCommandsController(u.file) : e.list \in {"buttons", "switches", "intNumbers", "floatNumbers"}})
Configs(u) == OSConfigs(u) \cup CommandConfigs(u)

ControlsTypeOK ==
  /\ commandsFile \in CommandsFile /\ mqtt \in BOOLEAN
  /\ process \in {"unused", "none", "connects", "listens", "unconnected", "unregisters", "removes"}
  /\ setup \in Setup /\ known \subseteq Setup
  /\ subscribed \in {{}} \cup {Subscriptions(u) : u \in Setup}
  /\ retained \subseteq UNION {Configs(u) : u \in Setup}
  /\ edits \in 0 .. MaxEdits /\ starts \in 0 .. MaxStarts

-----------------------------------------------------------------------------
(* The run command.                                                        *)

\* The user edits commands.toml, at any time.
EditCommands(file) ==
  /\ process # "unused"
  /\ edits < MaxEdits
  /\ file # commandsFile
  /\ commandsFile' = file
  /\ edits' = edits + 1
  /\ UNCHANGED <<mqtt, process, setup, subscribed, retained, known, asked, executed, starts>>

\* config --mqtt-server, or the settings window: a running agent goes on as it started.
SaveMQTTPreferences(enabled) ==
  /\ process \in {"none", "connects", "listens", "unconnected"}
  /\ mqtt # enabled
  /\ mqtt' = enabled
  /\ UNCHANGED <<commandsFile, process, setup, subscribed, retained, known, asked, executed, edits, starts>>

\* setupControllers: without MQTT there are no MQTT controllers, and no client.
SetupControllers(s) ==
  /\ process = "none"
  /\ starts < MaxStarts
  /\ starts' = starts + 1
  /\ IF mqtt THEN process' = "connects" /\ setup' = [file |-> commandsFile, found |-> s]
             ELSE process' = "unconnected" /\ setup' = setup
  /\ UNCHANGED <<commandsFile, mqtt, subscribed, retained, known, asked, executed, edits>>

\* runMQTTWorkers: NewClient connects, publishes the configurations and subscribes.
RunMQTTWorkers ==
  /\ process = "connects"
  /\ process' = "listens"
  /\ retained' = retained \cup Configs(setup)
  /\ subscribed' = Subscriptions(setup)
  /\ known' = known \cup {setup}
  /\ UNCHANGED <<commandsFile, mqtt, setup, asked, executed, edits, starts>>

\* It cannot: the agent goes on without MQTT.
CouldNotConnect ==
  /\ process = "connects"
  /\ process' = "unconnected"
  /\ UNCHANGED <<commandsFile, mqtt, setup, subscribed, retained, known, asked, executed, edits, starts>>

\* Which messages make the callbacks act.  A button's need not say anything; a switch and
\* a number pass a state on, whatever it is; the volume's is parsed, and a D-Bus command is.
Payload == {"", "unparsable", "parsable"}
CmdWithState(payload) == payload # ""
AudioCallback(payload) == payload = "parsable"
DBusCallback(payload) == payload = "parsable"

Acts(e, payload) ==
  \/ e.list = "buttons"
  \/ e.id \in UserCommand /\ CmdWithState(payload)
  \/ e.list \in {"numbers", "switches"} /\ e.id \notin UserCommand /\ AudioCallback(payload)
  \/ e.list = "controls" /\ DBusCallback(payload)

\* Home Assistant uses a control that it shows, or publishes a D-Bus command.
UseControl(e, payload) ==
  /\ process = "listens"
  /\ e \in subscribed
  /\ e.list = "controls" \/ [id |-> e.id, list |-> e.list] \in retained
  /\ Acts(e, payload)
  /\ asked' = e.id
  /\ executed' = e.callback
  /\ UNCHANGED <<commandsFile, mqtt, process, setup, subscribed, retained, known, edits, starts>>

\* The agent ends.  The broker keeps what it has.
AgentEnds ==
  /\ process \in {"connects", "listens", "unconnected"}
  /\ process' = "none"
  /\ setup' = NoSetup
  /\ subscribed' = {}
  /\ asked' = Nobody /\ executed' = Nobody
  /\ UNCHANGED <<commandsFile, mqtt, retained, known, edits, starts>>

-----------------------------------------------------------------------------
(* The reset command.                                                      *)

\* Agent.Reset: with MQTT enabled the controllers are made again, of what is there now.
ResetMQTTControllers(s) ==
  /\ process = "none"
  /\ starts < MaxStarts
  /\ starts' = starts + 1
  /\ IF mqtt THEN process' = "unregisters" /\ setup' = [file |-> commandsFile, found |-> s]
             ELSE process' = "removes" /\ setup' = setup
  /\ UNCHANGED <<commandsFile, mqtt, subscribed, retained, known, asked, executed, edits>>

\* A client without subscriptions takes their configurations back.
Unpublish ==
  /\ process = "unregisters"
  /\ process' = "removes"
  /\ retained' = retained \ Configs(setup)
  /\ known' = known \ {setup}
  /\ UNCHANGED <<commandsFile, mqtt, setup, subscribed, asked, executed, edits, starts>>

\* The connection cannot be made, or breaks after some: a warning.
CouldNotRemove(some) ==
  /\ process = "unregisters"
  /\ process' = "removes"
  /\ retained' = retained \ some
  /\ UNCHANGED <<commandsFile, mqtt, setup, subscribed, known, asked, executed, edits, starts>>

\* preferences.Reset, which may fail.  Only preferences.toml goes: commands.toml stays.
ResetPreferences(enabled) ==
  /\ process = "removes"
  /\ enabled => mqtt
  /\ process' = "none"
  /\ setup' = NoSetup
  /\ mqtt' = enabled
  /\ UNCHANGED <<commandsFile, subscribed, retained, known, asked, executed, edits, starts>>

-----------------------------------------------------------------------------
ControlsNext ==
  \/ \E f \in CommandsFile : EditCommands(f)
  \/ \E enabled \in BOOLEAN : SaveMQTTPreferences(enabled) \/ ResetPreferences(enabled)
  \/ \E s \in Surroundings : SetupControllers(s) \/ ResetMQTTControllers(s)
  \/ RunMQTTWorkers \/ CouldNotConnect \/ AgentEnds
  \/ \E e \in subscribed, payload \in Payload : UseControl(e, payload)
  \/ Unpublish
  \/ \E some \in {{}, {c \in Configs(setup) : c.list = "sensors"}, OSConfigs(setup)} :
       CouldNotRemove(some)

ControlsSpec == ControlsInit /\ [][ControlsNext]_controlsVars

-----------------------------------------------------------------------------
(* Properties.                                                             *)

\* An agent that is connected answers every control that is shown: the configurations
\* of all it offers are at the broker, and a control there that nobody has subscribed to
\* comes of another setup, that is, of another commands.toml or desktop.
ControlsAnswer ==
  process = "listens" =>
    /\ Configs(setup) \subseteq retained
    /\ \A c \in retained :
         \/ c.list \in {"sensors", "cameras"} \/ c \in Ids(subscribed)
         \/ \E u \in known \ {setup} : c \in Configs(u)

\* Whatever was used, its own command was executed, also while the user edits the file.
OwnCommand == executed = asked

\* What Home Assistant shows was published by an agent with a setup that no reset has
\* taken back since: after a reset that reaches the broker with the commands.toml and the
\* desktop of all earlier runs nothing is left.
ResetUnregisters == retained \subseteq UNION {Configs(u) : u \in known}

\* The broker, the subscriptions and the controllers' lists agree.
BrokerAgrees == ControlsAnswer /\ OwnCommand /\ ResetUnregisters
=============================================================================
