--------------------------- MODULE HardwareMonitor ---------------------------
(***************************************************************************)
(* GetAllSensors: the sensors of all chips in /sys/class/hwmon.            *)
(*                                                                         *)
(* A goroutine per chip reads the chip's name and lists its files; for     *)
(* each file that is named like a part of a sensor, a goroutine reads it   *)
(* and sends what it holds to the chip's loop.  The loop builds the        *)
(* sensors of the chip from the files, in the order in which they come,    *)
(* and the chip goes to the loop of GetAllChips.  A channel is closed when *)
(* all of its senders are done.                                            *)
(*                                                                         *)
(* A file stands for its contents.  Attributes other than labels and       *)
(* alarms, such as the limits, are one: "limit".                           *)
(***************************************************************************)
EXTENDS Naturals, FiniteSets

CONSTANTS
  Chip,   \* the chips
  File,   \* their files: records of chip, id (such as "temp1") and attribute
  NoFile  \* stands for the contents of a file that was not read

Attribute  == {"input", "label", "limit", "alarm", "max_alarm", "crit_alarm"}
LimitAlarm == {"max_alarm", "crit_alarm"}
Alarm      == LimitAlarm \cup {"alarm"}

ASSUME FileAssumption ==
  /\ \A f \in File : f.chip \in Chip /\ f.attribute \in Attribute
  /\ NoFile \notin File

VARIABLES
  phase,    \* GetAllSensors: idle, collecting the chips, done or failed
  chips,    \* the goroutine of each chip
  content,  \* what the goroutine of each file has read
  taken,    \* the files that the loops of their chips have received
  built     \* the sensors of each chip, by tracker id

hwVars == <<phase, chips, content, taken, built>>

FilesOf(c) == {f \in File : f.chip = c}

\* What the files of a sensor have in common: alarms are a sensor beside the one
\* that they are about.
TrackerID(f) == <<f.id, f.attribute \in Alarm>>

TrackerIDs(c) == {TrackerID(f) : f \in FilesOf(c)}

Sensor == [value : File \cup {NoFile}, label : File \cup {NoFile},
           id : File \cup {NoFile}, attributes : SUBSET File]

newSensor == [value |-> NoFile, label |-> NoFile, id |-> NoFile, attributes |-> {}]

HwTypeOK ==
  /\ phase \in {"idle", "collecting", "done", "failed"}
  /\ chips \in [Chip -> {"opening", "reading", "offering", "collected", "failed"}]
  /\ content \in [File -> {"unread", "number", "garbage", "unreadable"}]
  /\ taken \in SUBSET File
  /\ DOMAIN built = Chip
  /\ \A c \in Chip :
       DOMAIN built[c] \subseteq TrackerIDs(c) /\ built[c] \in [DOMAIN built[c] -> Sensor]

Fresh(cs, files, ts, ss) ==
  /\ cs = [c \in Chip |-> "opening"]
  /\ files = [f \in File |-> "unread"]
  /\ ts = {}
  /\ ss = [c \in Chip |-> << >>]

HwInit == phase = "idle" /\ Fresh(chips, content, taken, built)

-----------------------------------------------------------------------------
(* What a file says about its sensor.                                      *)

\* The label and the name of an alarm are taken before its contents are parsed.
updateInfo(s, f) ==
  LET parsed == content[f] = "number"
      named  == [s EXCEPT !.label = f,
                          !.id = IF f.attribute \in LimitAlarm THEN f ELSE @]
  IN  CASE f.attribute = "label" -> [s EXCEPT !.label = f]
        [] f.attribute \in Alarm -> IF parsed THEN [named EXCEPT !.value = f] ELSE named
        [] f.attribute = "input" -> IF parsed THEN [s EXCEPT !.value = f] ELSE s
        [] OTHER -> IF parsed THEN [s EXCEPT !.attributes = @ \cup {f}] ELSE s

-----------------------------------------------------------------------------
(* The goroutines.                                                         *)

\* The directory of the chips cannot be read, or there is a goroutine for each.
GetAllChips ==
  /\ phase = "idle"
  /\ phase' \in {"collecting", "failed"}
  /\ Fresh(chips', content', taken', built')

\* The chip's name and the list of its files; without them there is no chip.
newChip(c) ==
  /\ phase = "collecting"
  /\ chips[c] = "opening"
  /\ \E s \in {"reading", "failed"} : chips' = [chips EXCEPT ![c] = s]
  /\ UNCHANGED <<phase, content, taken, built>>

\* A file's goroutine reads it; one that cannot be read is left out.
getFileContents(f) ==
  /\ chips[f.chip] = "reading"
  /\ content[f] = "unread"
  /\ \E r \in {"number", "garbage", "unreadable"} : content' = [content EXCEPT ![f] = r]
  /\ UNCHANGED <<phase, chips, taken, built>>

\* Slip: each file starts its sensor anew.
TakeAlone(f) ==
  /\ chips[f.chip] = "reading"
  /\ content[f] \in {"number", "garbage"}
  /\ f \notin taken
  /\ taken' = taken \cup {f}
  /\ built' = [built EXCEPT ![f.chip] =
       [i \in DOMAIN @ \cup {TrackerID(f)} |->
          IF i = TrackerID(f) THEN updateInfo(newSensor, f) ELSE @[i]]]
  /\ UNCHANGED <<phase, chips, content>>

\* The loop of getSensors receives a file.
TakeFile(f) ==
  LET c  == f.chip
      id == TrackerID(f)
      s  == IF id \in DOMAIN built[c] THEN built[c][id] ELSE newSensor
  IN  /\ chips[c] = "reading"
      /\ content[f] \in {"number", "garbage"}
      /\ f \notin taken
      /\ taken' = taken \cup {f}
      /\ built' = [built EXCEPT ![c] =
           [i \in DOMAIN @ \cup {id} |-> IF i = id THEN updateInfo(s, f) ELSE @[i]]]
      /\ UNCHANGED <<phase, chips, content>>

\* Slip: a file that cannot be read returns without wg.Done.
OnlyWhenTaken(f) == f \in taken

\* A file's goroutine is done.
FileDone(f) == content[f] = "unreadable" \/ f \in taken

\* All goroutines of the chip's files are done: sensors without a value are left
\* out, and the chip is on its way.
FilesDone(c) ==
  /\ chips[c] = "reading"
  /\ \A f \in FilesOf(c) : FileDone(f)
  /\ chips' = [chips EXCEPT ![c] = "offering"]
  /\ built' = [built EXCEPT ![c] =
       [i \in {i \in DOMAIN @ : @[i].value # NoFile} |-> @[i]]]
  /\ UNCHANGED <<phase, content, taken>>

\* The loop of GetAllChips receives a chip.
TakeChip(c) ==
  /\ chips[c] = "offering"
  /\ chips' = [chips EXCEPT ![c] = "collected"]
  /\ UNCHANGED <<phase, content, taken, built>>

\* The goroutines of all chips are done: the loop ends.
ChipsDone ==
  /\ phase = "collecting"
  /\ \A c \in Chip : chips[c] \in {"collected", "failed"}
  /\ phase' = "done"
  /\ UNCHANGED <<chips, content, taken, built>>

\* The sensors of the chips that were collected.
GetAllSensors == UNION {{c} \X DOMAIN built[c] : c \in {c \in Chip : chips[c] = "collected"}}

HwNext ==
  \/ \E c \in Chip : newChip(c) \/ FilesDone(c) \/ TakeChip(c)
  \/ \E f \in File : getFileContents(f) \/ TakeFile(f)
  \/ ChipsDone

-----------------------------------------------------------------------------
(* Properties.                                                             *)

\* The files of sensor i that were read as numbers.
Parsed(c, i) == {f \in FilesOf(c) : TrackerID(f) = i /\ content[f] = "number"}

OfKind(c, i, kinds) == {f \in Parsed(c, i) : f.attribute \in kinds}

\* Its label, if it has one that could be read.
Labels(c, i) ==
  LET labels == {f \in FilesOf(c) \cap taken : TrackerID(f) = i /\ f.attribute = "label"}
  IN  IF labels = {} THEN {NoFile} ELSE labels

\* Whatever the order of the goroutines: of each chip that could be opened there
\* are the sensors that have a value, each with all that was read of it.  Of the
\* alarms of one sensor, which are one sensor here, one gives the value.
CollectsAll ==
  phase = "done" => \A c \in Chip : chips[c] = "collected" =>
    LET values(i) == OfKind(c, i, Alarm \cup {"input"})
    IN  /\ DOMAIN built[c] = {i \in TrackerIDs(c) : values(i) # {}}
        /\ \A i \in DOMAIN built[c] :
             /\ built[c][i].value \in values(i)
             /\ built[c][i].attributes = OfKind(c, i, {"limit"})
             /\ ~i[2] => built[c][i].label \in Labels(c, i)

\* Reading the chips comes to an end: nobody waits for a channel that stays open.
CollectionEnds == (phase = "collecting") ~> (phase = "done")
=============================================================================
