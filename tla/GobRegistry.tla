---------------------------- MODULE GobRegistry ----------------------------
(***************************************************************************)
(* gobRegistry: the sensor registry and its file, write by write.          *)
(*                                                                         *)
(* SetDisabled and SetRegistered change the map and write all of it while  *)
(* they hold the mutex.  write() opens the file without truncating it and  *)
(* encodes the map from its start.  The gob encoder issues one write per   *)
(* message: the descriptions of the map's and of its entries' type, the    *)
(* same bytes every time, then the value.  A shorter value leaves the end  *)
(* of a longer one behind it.  read() decodes the first value and ignores  *)
(* what follows; an empty file is an empty registry, a file that ends      *)
(* before the value is an error, and Load then keeps the agent from        *)
(* starting.  The process may stop between any two writes, and a write of  *)
(* the value may be cut short (a full disk, a kill between two pages).     *)
(***************************************************************************)
EXTENDS Naturals

CONSTANT Sensor   \* the ids of the sensors

VARIABLES
  sensors,  \* gobRegistry.sensors
  file,     \* the registry file: what is at the place of its n-th message
  pc,       \* the agent: ready, before its n-th write, down, unable to start
  saved,    \* history: the map of the last write that was completed
  written,  \* history: a write was completed since the file was created
  torn      \* history: the last value was cut short

history == <<saved, written, torn>>
registryVars == <<sensors, file, pc, history>>

Flags == [registered : BOOLEAN, disabled : BOOLEAN]

\* metadata's zero value stands for a missing entry, as when Go reads a map.
NoFlags == [registered |-> FALSE, disabled |-> FALSE]

Map == [Sensor -> Flags]

Empty == [s \in Sensor |-> NoFlags]

\* What may be at a place of the file: nothing, one of the two descriptions, a
\* value, or bytes that are not a message.
Kind == {"absent", "mapType", "entryType", "value", "bytes"}

Message == [kind : Kind, map : Map]

Plain(kind) == [kind |-> kind, map |-> Empty]

\* The n-th message of an encoded map.
Encoding(map, n) ==
  CASE n = 1 -> Plain("mapType")
    [] n = 2 -> Plain("entryType")
    [] n = 3 -> [kind |-> "value", map |-> map]

Place == 1..4

EmptyFile == [n \in Place |-> Plain("absent")]

RegistryTypeOK ==
  /\ sensors \in Map
  /\ file \in [Place -> Message]
  /\ pc \in {"ready", "write1", "write2", "write3", "down", "failed"}
  /\ saved \in Map
  /\ written \in BOOLEAN
  /\ torn \in BOOLEAN

RegistryInit ==
  /\ sensors = Empty
  /\ file = EmptyFile
  /\ pc = "ready"
  /\ saved = Empty
  /\ written = FALSE
  /\ torn = FALSE

\* Decode meets a value before the end of the file, or the end at once.
Readable == file[1].kind = "absent" \/ file[3].kind = "value"

Decoded == IF file[1].kind = "absent" THEN Empty ELSE file[3].map

-----------------------------------------------------------------------------
\* SetDisabled or SetRegistered: the entry of s in memory.
Set(s) ==
  /\ pc = "ready"
  /\ \E b \in BOOLEAN :
       \/ sensors' = [sensors EXCEPT ![s].disabled = b]
       \/ sensors' = [sensors EXCEPT ![s].registered = b]
  /\ pc' = "write1"
  /\ UNCHANGED <<file, history>>

\* write cannot open the file: the change stays in memory.
OpenFails ==
  /\ pc = "write1"
  /\ pc' = "ready"
  /\ UNCHANGED <<sensors, file, history>>

\* Slip: the file is opened with O_TRUNC.
WriteTypeTruncating(n) ==
  /\ pc = (IF n = 1 THEN "write1" ELSE "write2")
  /\ file' = [(IF n = 1 THEN EmptyFile ELSE file) EXCEPT ![n] = Encoding(sensors, n)]
  /\ pc' = IF n = 1 THEN "write2" ELSE "write3"
  /\ UNCHANGED <<sensors, history>>

\* Encode writes the description of a type.
WriteType(n) ==
  /\ pc = (IF n = 1 THEN "write1" ELSE "write2")
  /\ file' = [file EXCEPT ![n] = Encoding(sensors, n)]
  /\ pc' = IF n = 1 THEN "write2" ELSE "write3"
  /\ UNCHANGED <<sensors, history>>

\* Encode writes the value and the call returns.  A value of another length
\* than the old one leaves bytes behind it, or covers those that were there.
WriteValue ==
  /\ pc = "write3"
  /\ \E rest \in {file[4], Plain("bytes")} :
       /\ rest # file[4] => file[3].kind # "absent"
       /\ file' = [file EXCEPT ![3] = Encoding(sensors, 3), ![4] = rest]
  /\ pc' = "ready"
  /\ saved' = sensors
  /\ written' = TRUE
  /\ torn' = FALSE
  /\ UNCHANGED sensors

\* The value is cut short: Encode returns the error, or the agent is gone.  What
\* is left, the start of one value before the end of another, may decode or not.
TearValue ==
  /\ pc = "write3"
  /\ \/ file' = [file EXCEPT ![3] = Plain("bytes")]
     \/ \E mixture \in Map : file' = [file EXCEPT ![3] = Encoding(mixture, 3)]
  /\ pc' \in {"ready", "down"}
  /\ torn' = TRUE
  /\ UNCHANGED <<sensors, saved, written>>

\* The agent stops, in the middle of a write or not.
Stop ==
  /\ pc \in {"ready", "write1", "write2", "write3"}
  /\ pc' = "down"
  /\ UNCHANGED <<sensors, file, history>>

\* Load: a new map, filled by read; an error keeps the agent from starting.
Load ==
  /\ pc = "down"
  /\ IF Readable
       THEN sensors' = Decoded /\ pc' = "ready"
       ELSE UNCHANGED sensors /\ pc' = "failed"
  /\ UNCHANGED <<file, history>>

\* registry.Reset removes the registry, the agent not running.
Reset ==
  /\ pc \in {"down", "failed"}
  /\ file' = EmptyFile
  /\ pc' = "down"
  /\ saved' = Empty
  /\ written' = FALSE
  /\ torn' = FALSE
  /\ UNCHANGED sensors

RegistryNext ==
  \/ \E s \in Sensor : Set(s)
  \/ OpenFails
  \/ \E n \in 1..2 : WriteType(n)
  \/ WriteValue
  \/ TearValue
  \/ Stop
  \/ Load
  \/ Reset

RegistrySpec == RegistryInit /\ [][RegistryNext]_registryVars

-----------------------------------------------------------------------------
(* Properties.                                                             *)

\* Once a write has been completed, the agent can start again wherever later
\* writes are interrupted: the descriptions of the types are rewritten with the
\* same bytes, and the old value stays until the new one replaces it.
StartsAfterSave == (written /\ ~torn => Readable) /\ (pc = "failed" => ~written \/ torn)

\* Wherever the agent stops between two writes, a registry that can be read is
\* the last one that was written completely, never an older or an empty one.
ReadsLastSaved == Readable /\ ~torn => Decoded = saved

\* What a restart would bring back.
Visible == IF Readable THEN Decoded ELSE Empty

Running == pc \in {"ready", "write1", "write2", "write3"}

Atomic == INSTANCE AtomicRegistry WITH running <- Running, saved <- Visible

\* The file that is written message by message behaves as a map that is saved in
\* one step, by a running agent only, except for a value that is cut short.
ImplementsAtomic == Atomic!Spec

\* Why: before a first value is completed there is none, afterwards there always
\* is one, the last one completed, unless it was cut short.
FileInv ==
  /\ file[1].kind \in {"absent", "mapType"}
  /\ file[1].kind = "absent" => file[3].kind = "absent" /\ pc \notin {"write2", "write3"}
  /\ file[3].kind = "value" /\ ~torn => written /\ file[3].map = saved
  /\ written /\ ~torn => file[3].kind = "value"
  /\ ~written => saved = Empty
  /\ pc = "failed" => ~Readable
=============================================================================
