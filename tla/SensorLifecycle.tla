--------------------------- MODULE SensorLifecycle ---------------------------
(***************************************************************************)
(* What the agent promises about the registration of its sensors, without  *)
(* goroutines, requests or files.  A sensor moves through four phases:     *)
(*                                                                         *)
(*   "new"       Home Assistant has never accepted it;                     *)
(*   "accepted"  Home Assistant accepted a registration, the agent has not *)
(*               (or no longer) recorded it;                               *)
(*   "recorded"  the running agent's registry says it is registered;       *)
(*   "durable"   the registry file says so too, so a restart keeps it.     *)
(*                                                                         *)
(* No phase is skipped on the way up, and what is durable stays so: this   *)
(* is what lets an agent that restarts send updates, instead of            *)
(* registering everything again.  SensorSync implements this module.       *)
(***************************************************************************)
CONSTANT Sensor

VARIABLE phase    \* the phase of each sensor

Phase == {"new", "accepted", "recorded", "durable"}

TypeOK == phase \in [Sensor -> Phase]

Init == phase = [s \in Sensor |-> "new"]

\* The sensors in phase p.
In(p) == {s \in Sensor : phase[s] = p}

\* The phases after the sensors of S moved to phase p.
Moved(S, p) == [s \in Sensor |-> IF s \in S THEN p ELSE phase[s]]

\* Home Assistant accepts a registration of s.
Accept(s) ==
  /\ phase[s] = "new"
  /\ phase' = Moved({s}, "accepted")

\* The agent records the answer, and cannot save its registry.
Record(s) ==
  /\ phase[s] = "accepted"
  /\ phase' = Moved({s}, "recorded")

\* The agent saves its registry: everything recorded becomes durable, and with
\* it the sensors of S, whose answers are recorded by this very save.
Save(S) ==
  /\ S \subseteq In("accepted")
  /\ phase' = Moved(S \cup In("recorded"), "durable")

\* The agent restarts: what was only recorded is forgotten.
Restart == phase' = Moved(In("recorded"), "accepted")

Next ==
  \/ \E s \in Sensor : Accept(s) \/ Record(s)
  \/ \E S \in SUBSET Sensor : Save(S)
  \/ Restart

Spec == Init /\ [][Next]_phase
=============================================================================
