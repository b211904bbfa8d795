--------------------------- MODULE AtomicRegistry ---------------------------
(***************************************************************************)
(* What the sensor registry promises its users: a map in memory, and a     *)
(* saved copy of it that changes in one step, to the whole map, while the  *)
(* agent runs, and that a restart brings back.  The exception is a save    *)
(* that is cut short: until the next one nothing is promised of the copy.  *)
(***************************************************************************)
CONSTANTS
  Map,      \* the contents a registry may have
  Empty     \* the content of a new one

VARIABLES
  running,  \* the agent runs
  sensors,  \* what the running agent reads
  saved,    \* what a restart brings back
  torn      \* the last save was cut short

vars == <<running, sensors, saved, torn>>

Init == running = TRUE /\ sensors = Empty /\ saved = Empty /\ torn = FALSE

\* A value is set, in memory: it is not saved yet, or cannot be.
Set == running = TRUE /\ sensors' \in Map /\ UNCHANGED <<running, saved, torn>>

\* The map is saved.
Save == running = TRUE /\ saved' = sensors /\ torn' = FALSE /\ UNCHANGED <<running, sensors>>

\* Saving it is cut short, and may be the last thing the agent does.
Tear ==
  /\ running = TRUE /\ running' \in BOOLEAN
  /\ saved' \in Map /\ torn' = TRUE
  /\ UNCHANGED sensors

\* The agent stops, and starts again.
Stop == running = TRUE /\ running' = FALSE /\ UNCHANGED <<sensors, saved, torn>>

Start == running = FALSE /\ running' = TRUE /\ sensors' = saved /\ UNCHANGED <<saved, torn>>

\* The registry is removed.
Reset == running = FALSE /\ saved' = Empty /\ torn' = FALSE /\ UNCHANGED <<running, sensors>>

Next == Set \/ Save \/ Tear \/ Stop \/ Start \/ Reset

Spec == Init /\ [][Next]_vars
=============================================================================
