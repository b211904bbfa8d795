--------------------------- MODULE MCPolledSensors ---------------------------
(***************************************************************************)
(* Small instances of PolledSensors: a chip with a temperature, its label, *)
(* limit and two alarms, one with a fan; two devices.                     *)
(***************************************************************************)
EXTENDS PolledSensors

CONSTANTS c1, c2, sda, sdb

MCFile ==
  {[chip |-> c1, id |-> "temp1", attribute |-> a] : a \in {"input", "label", "limit"}}
  \cup {[chip |-> c1, id |-> "temp1", attribute |-> a] : a \in LimitAlarm}
  \cup {[chip |-> c2, id |-> "fan1", attribute |-> "input"]}

MCWorker == {"network", "disk", "cpu", "memory", "mounts", "load", "uptime",
             "problems", "hwmon"}

\* Readings that depend on earlier ones need some polls, a collection none.
MCMaxPolls ==
  [w \in MCWorker |-> CASE w \in Rates -> 3 [] w = "hwmon" -> 1 [] OTHER -> 2]

\* Half a second, one and a half, and two and a half.
MCInterval == {1, 3, 5}
MCTraffic == {0, 5}
=============================================================================
