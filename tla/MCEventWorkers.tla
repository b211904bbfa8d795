--------------------------- MODULE MCEventWorkers ---------------------------
(***************************************************************************)
(* EventWorkers for TLC: every worker, one at a time.                      *)
(***************************************************************************)
EXTENDS EventWorkers

AllWorkers == {ScreenLock, BatteryProperties, MediaPlayer, Laptop, Desktop,
               PowerProfile, PowerState, Location, Users, Apps}
=============================================================================
