------------------------------- MODULE MCMQTT -------------------------------
(***************************************************************************)
(* MQTTBridge with any senders; AudioControl, the sender that has state of *)
(* its own, where PulseAudio is there; and MQTTControls, what is published *)
(* before and after the loop of the bridge: one at a time.                 *)
(***************************************************************************)
EXTENDS MQTTBridge, AudioControl, MQTTControls

CONSTANTS c1, c2, c3, c4

\* Files with two commands of a table, with all tables and both types of numbers.
MCTable(c, t, n) == [name |-> c, table |-> t, type |-> n]
MCWhole(tables) == [state |-> "whole", tables |-> tables]

MCCommandsFile ==
  {Absent, [state |-> "broken", tables |-> <<>>],
   MCWhole(<<MCTable(c1, "button", ""), MCTable(c2, "button", "")>>),
   MCWhole(<<MCTable(c1, "button", ""), MCTable(c2, "switch", ""),
             MCTable(c3, "number", "float"), MCTable(c4, "number", "")>>)}

\* A desktop with everything, another one, and a machine without a session.
MCSurroundings ==
  {[has |-> Facility, desktop |-> "logind",
    can |-> [p \in PowerMethod |-> IF p = "Hibernate" THEN "no" ELSE "yes"]],
   [has |-> Facility \ {"PulseAudio"}, desktop |-> "screensaver",
    can |-> [p \in PowerMethod |-> IF p = "Hibernate" THEN "error" ELSE "yes"]],
   [has |-> {"system bus"}, desktop |-> "other", can |-> [p \in PowerMethod |-> "error"]]}

ControlsUnused ==
  /\ commandsFile = Absent /\ mqtt = FALSE /\ process = "unused" /\ setup = NoSetup
  /\ subscribed = {} /\ retained = {} /\ known = {}
  /\ asked = Nobody /\ executed = Nobody /\ edits = 0 /\ starts = 0

MCNext ==
  \/ audio = "off" /\ process = "unused" /\ Next /\ UNCHANGED <<audioVars, controlsVars>>
  \/ audio # "off" /\ AudioNext /\ UNCHANGED <<vars, controlsVars>>
  \/ process # "unused" /\ ControlsNext /\ UNCHANGED <<vars, audioVars>>

MCInit ==
  /\ Init /\ AudioInit
  /\ ControlsInit \/ ControlsUnused
  /\ process # "unused" => audio = "off"

MCSpec ==
  /\ MCInit
  /\ [][MCNext]_<<vars, audioVars, controlsVars>>
  /\ audio = "off" /\ process = "unused" => Fairness
=============================================================================
