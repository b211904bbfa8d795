---------------------------- MODULE PolledSensors ----------------------------
(***************************************************************************)
(* The polling workers: what they make of what they read, poll after poll. *)
(*                                                                         *)
(* PollSensors calls a worker's Sensors at once and then at every tick,    *)
(* with the time since the tick before, and the updater sends what it      *)
(* returns.  Ticks come at any time: their distance is spread around the   *)
(* interval, and those that come while a poll is sending are lost.  A      *)
(* behaviour has one of the workers:                                       *)
(*   network, disk   rates of counters, from the values of the last poll;  *)
(*                   disk has a sensor per device and one for their total, *)
(*                   network only the total                                *)
(*   cpu, memory, mounts            percentages                            *)
(*   load, uptime, problems         what a file or the bus says            *)
(*   hwmon           the sensors HardwareMonitor collects                  *)
(*                                                                         *)
(* Time is in half seconds, a device's counter in sectors or bytes.  Of    *)
(* each pair of counters (read and written, received and sent) there is    *)
(* one: the code treats both alike.                                        *)
(***************************************************************************)
EXTENDS HardwareMonitor, Integers, FiniteSetsExt

CONSTANTS
  Worker,     \* the workers that are checked
  Item,       \* devices, interfaces, cores, mounts, problems: what there may be
  Total,      \* stands for the total of the devices
  NaN,        \* a quotient by zero, which is no number
  Unknown,    \* what cannot be read
  Width,      \* what an unsigned integer wraps round at, in the code 2^64
  Interval,   \* bound: the distances of two ticks, in half seconds
  Traffic,    \* bound: what a counter may gain between two polls
  MaxPolls    \* bound: polls of a worker

Rates == {"network", "disk"}

ASSUME WorkerAssumption ==
  Worker \subseteq Rates \cup {"cpu", "memory", "mounts", "load", "uptime", "problems", "hwmon"}
ASSUME ItemAssumption ==
  IsFiniteSet(Item) /\ Total \notin Item
ASSUME NumberAssumption ==
  /\ Width \in Nat \ {0} /\ MaxPolls \in [Worker -> Nat]
  /\ Interval \subseteq Nat /\ Traffic \subseteq Nat

VARIABLES
  worker,   \* the worker of this behaviour
  virtual,  \* the devices made of others, which dm or md begins the names of
  polls,    \* how often its Sensors was called
  sensors,  \* the values of its sensors, by device or name
  counter,  \* what the kernel has counted, by device
  last,     \* prevValue and lastValue: what was read in the poll before
  seen,     \* history: the devices that were read in the last poll that did not fail
  account   \* history: where a device's rates begin, what they amount to, and how
            \* much of the traffic they need not show

rateVars == <<counter, last, seen, account>>
pollVars == <<worker, virtual, polls, sensors, rateVars, hwVars>>

Tracked == Item \cup {Total}

\* The values of two maps, the first one's where both have one.
Over(f, g) == [x \in DOMAIN f \cup DOMAIN g |-> IF x \in DOMAIN f THEN f[x] ELSE g[x]]

PollTypeOK ==
  /\ worker \in Worker /\ virtual \in SUBSET Item
  /\ polls \in 0..MaxPolls[worker]
  /\ counter \in [Item -> 0 .. Width - 1]
  /\ DOMAIN last \subseteq Tracked /\ last \in [DOMAIN last -> 0 .. Width - 1]
  /\ worker \in Rates => sensors \in [DOMAIN last -> 0 .. Width - 1]
  /\ seen \in SUBSET Item
  /\ account \in [DOMAIN last -> [base : Int, billed : Int, slack : Int]]
  /\ HwTypeOK

PollInit ==
  /\ worker \in Worker
  /\ virtual \in IF worker = "disk" THEN SUBSET Item ELSE {{}}
  /\ polls = 0
  /\ counter = [i \in Item |-> 0]
  /\ sensors = << >> /\ last = << >> /\ account = << >>
  /\ seen = {}
  /\ HwInit

-----------------------------------------------------------------------------
(* The loop.                                                               *)

\* The first call comes at once, with no time since it; the others at ticks.
PollSensors(d) ==
  /\ polls < MaxPolls[worker]
  /\ d \in (IF polls = 0 THEN {0} ELSE Interval)
  /\ polls' = polls + 1

\* The updater sends what Sensors returns, and nothing if it fails.
Fails == UNCHANGED <<sensors, last, seen, account>>

-----------------------------------------------------------------------------
(* Rates.                                                                  *)

\* uint64(d.Seconds()).
Seconds(d) == d \div 2

\* An unsigned difference.
Diff(a, b) == (a - b) % Width

\* The disk counts sectors, of which two are a kilobyte.
Unit == IF worker = "disk" THEN 2 ELSE 1

Prev(t) == IF t \in DOMAIN last THEN last[t] ELSE 0

\* The network has no rate as long as its last value is 0.
Unrated(t) == worker = "network" /\ Prev(t) = 0

\* The new value of a rate sensor.
Rate(t, curr, d) ==
  IF Seconds(d) = 0 \/ Unrated(t)
  THEN 0 ELSE (Diff(curr, Prev(t)) \div Seconds(d)) \div Unit

Sum(values, items) == MapThenSumSet(LAMBDA i : values[i], items)

\* Slip: aggregates count in the total, too.
SumOfAll(values, read) == Sum(values, read) % Width

\* The total of the devices that were read: of the disks without aggregates, of
\* the interfaces of all.
SumOf(values, read) ==
  Sum(values, IF worker = "disk" THEN read \ virtual ELSE read) % Width

\* Slip: what was read once is kept.
KeepFirst(new) == last' = Over(last, new)

\* What was read is kept, whatever the rate.
KeepLast(new) == last' = Over(new, last)

\* The account of a device, for property BilledOnce: each rate times the whole seconds
\* that it was divided by.  It begins with its first rate, and again when its value is
\* smaller than before: then the difference wraps round, and one rate is wrong.
Entry(t, value, rate, d) ==
  LET was  == IF t \in DOMAIN account THEN account[t]
                                      ELSE [base |-> 0, billed |-> 0, slack |-> 0]
      time == Unit * Seconds(d)
      lost == IF Seconds(d) = 0 THEN value - Prev(t) ELSE time - 1
  IN  IF Unrated(t) \/ value < Prev(t)
      THEN [base |-> value, billed |-> 0, slack |-> 0]
      ELSE [base   |-> was.base,
            billed |-> was.billed + time * rate,
            slack  |-> was.slack + lost]

Record(new, rate, d) ==
  account' = Over([t \in DOMAIN new |-> Entry(t, new[t], rate[t], d)], account)

\* What happens to the counters between two polls: they gain, wrapping round, or start
\* again.
CountersChange ==
  \E gain \in [Item -> Traffic], reset \in SUBSET Item :
    counter' = [i \in Item |-> IF i \in reset THEN 0 ELSE (counter[i] + gain[i]) % Width]

\* The sensors that are updated: of the devices that were read, each new one gets
\* its own, and at last the total.
Update(new, read, d) ==
  LET rate == [t \in DOMAIN new |-> Rate(t, new[t], d)]
  IN  /\ sensors' = Over(rate, sensors)
      /\ KeepLast(new)
      /\ seen' = read
      /\ Record(new, rate, d)

\* The network's counters are those of all interfaces together.
PollNetwork(d) ==
  /\ worker = "network"
  /\ PollSensors(d)
  /\ CountersChange
  /\ \/ Fails
     \/ \E read \in SUBSET Item : Update([t \in {Total} |-> SumOf(counter', read)], read, d)
  /\ UNCHANGED <<worker, virtual, hwVars>>

\* The disks in the list of partitions, and those of them whose statistics can be read.
\* Item has disks with the minor number 0 only, the first one of each kind: the list
\* leaves out the others.
getDeviceNames == SUBSET Item
getDevice(names) == SUBSET names

\* What was read of the devices, and their total.
DiskStats(read) ==
  [t \in read \cup {Total} |-> IF t = Total THEN SumOf(counter', read) ELSE counter'[t]]

\* If there is no list, the poll fails; a device that cannot be read is left out.
PollDisks(d) ==
  /\ worker = "disk"
  /\ PollSensors(d)
  /\ CountersChange
  /\ \/ Fails
     \/ \E names \in getDeviceNames : \E read \in getDevice(names) :
          Update(DiskStats(read), read, d)
  /\ UNCHANGED <<worker, virtual, hwVars>>

-----------------------------------------------------------------------------
(* The other workers: what they report of what is there and can be read.   *)

\* The quotient of two floating-point numbers, as a percentage.
Percent(part, whole) == IF whole = 0 THEN NaN ELSE (100 * part) \div whole

\* newMemSensorPc.
PercentOrZero(part, whole) == IF whole = 0 THEN 0 ELSE Percent(part, whole)

\* What a core has spent for users, and otherwise, since the start.
Times == [user : 0..1, other : 0..1]

All(times, cores) == [user  |-> Sum([i \in cores |-> times[i].user], cores),
                      other |-> Sum([i \in cores |-> times[i].other], cores)]

\* The usage of a line of times, which has no value if the kernel has other columns than
\* the code: a time is always a number, without which it would panic.
CPUUsage(t, expected) == IF expected THEN Percent(t.user, t.user + t.other) ELSE Unknown

\* A core's frequency is in a file of its own.
Frequency(i, readable) == IF i \in readable THEN 1 ELSE Unknown

\* A line of /proc/stat per core, one of all of them, and counts.
CPUStats(there, readable, times, expected) ==
  LET usage == [n \in {"usage"} \X (there \cup {Total}) |->
                  CPUUsage(IF n[2] = Total THEN All(times, there) ELSE times[n[2]], expected)]
      frequency == [n \in {"frequency"} \X there |-> Frequency(n[2], readable)]
      count == [n \in {"count"} \X {Total} |-> 1]
  IN  Over(usage, Over(frequency, count))

\* A memory or a filesystem, and what of it is free (of the memory, also what is for
\* buffers or cached).  A statistic that is not there is 0.
Space == [total : {0, 2}, free : 0..2]

\* What is used is an unsigned difference: it wraps round where more is free than there is.
UsedSpace(s) == Diff(s.total, s.free)

\* What /proc/meminfo says.
getMemStats == Space

\* The memory's usage, and the swap's if there is swap space.
MemoryStats(memory, swap) ==
  [n \in {"usage"} \X ({"memory"} \cup IF swap.total > 0 THEN {"swap"} ELSE {}) |->
     LET s == IF n[2] = "swap" THEN swap ELSE memory IN PercentOrZero(UsedSpace(s), s.total)]

\* The mounts of a known filesystem, of which the space is known.
Mounts(there, readable) == there \cap readable

MountUsage(s) == Percent(UsedSpace(s), s.total)

\* A poll of a worker that keeps nothing.
Poll(w, d) ==
  /\ worker = w
  /\ PollSensors(d)
  /\ UNCHANGED <<worker, virtual, rateVars, hwVars>>

PollCPU(d) ==
  /\ Poll("cpu", d)
  /\ \/ Fails
     \/ \E there, readable \in SUBSET Item, times \in [Item -> Times], expected \in BOOLEAN :
          sensors' = CPUStats(there, readable, times, expected)

PollMemory(d) ==
  /\ Poll("memory", d)
  /\ \/ Fails
     \/ \E memory, swap \in getMemStats : sensors' = MemoryStats(memory, swap)

PollMounts(d) ==
  /\ Poll("mounts", d)
  /\ \/ Fails
     \/ \E there, readable \in SUBSET Item, space \in [Item -> Space] :
          sensors' = [n \in {"usage"} \X Mounts(there, readable) |-> MountUsage(space[n[2]])]

\* The load averages, if the file has as many fields as expected.
PollLoad(d) ==
  /\ Poll("load", d)
  /\ Fails \/ \E load \in 0..2 : sensors' = [n \in {"load"} \X {Total} |-> load]

\* The number of problems, and the details of those that have them.
PollProblems(d) ==
  /\ Poll("problems", d)
  /\ \/ Fails
     \/ \E there, readable \in SUBSET Item :
          sensors' = Over([n \in {"count"} \X {Total} |-> Cardinality(there)],
                          [n \in {"details"} \X (there \cap readable) |-> 1])

\* The uptime, 0 if it is not known, and with the first poll the time of the boot.
PollUptime(d) ==
  /\ Poll("uptime", d)
  /\ \E uptime \in 0..1 :
       sensors' = Over([n \in {"uptime"} \X {Total} |-> uptime],
                       [n \in {"last_reboot"} \X (IF polls = 0 THEN {Total} ELSE {}) |-> 1])

\* The hardware monitor's worker calls GetAllSensors, which takes its time,
BeginHWMon(d) ==
  /\ worker = "hwmon"
  /\ PollSensors(d)
  /\ GetAllChips
  /\ UNCHANGED <<worker, virtual, sensors, rateVars>>

\* and reports the sensors it returns, or nothing if it fails.
ReportHWMon ==
  /\ phase \in {"done", "failed"}
  /\ IF phase = "done"
       THEN sensors' = [n \in GetAllSensors |-> built[n[1]][n[2]].value]
       ELSE UNCHANGED sensors
  /\ phase' = "idle"
  /\ UNCHANGED <<worker, virtual, polls, rateVars, chips, content, taken, built>>

-----------------------------------------------------------------------------
Collect == HwNext /\ UNCHANGED <<worker, virtual, polls, sensors, rateVars>>

PollNext ==
  \/ \E d \in {0} \cup Interval :
       \/ PollNetwork(d) \/ PollDisks(d)
       \/ PollCPU(d) \/ PollMemory(d) \/ PollMounts(d)
       \/ PollLoad(d) \/ PollProblems(d) \/ PollUptime(d)
       \/ BeginHWMon(d)
  \/ Collect \/ ReportHWMon

PollSpec == PollInit /\ [][PollNext]_pollVars

\* The goroutines of a collection go on; files and chips can be read or not, but
\* the reading ends.
PollFairSpec == PollSpec /\ WF_pollVars(Collect)

-----------------------------------------------------------------------------
(* Properties.                                                             *)

\* What the rates of a device amount to, each over the time it is reported for, is
\* what its counter gained since the account began: no byte is billed twice, also
\* after polls that failed, and none is missing beyond what rounding and polls within
\* a second explain.  So a difference wraps round only when the value is smaller than
\* before, and the next rate is right again.
BilledOnce ==
  \A t \in DOMAIN account :
    LET gained == last[t] - account[t].base
    IN  gained - account[t].slack <= account[t].billed /\ account[t].billed <= gained

\* When a poll of the disks reads those of the one before, and perhaps some that were
\* never read, and no counter is smaller and no total wraps round, the rate of the total is
\* that of its devices, but for the rounding: also that of new ones, which the first time
\* get all they have counted.  A device that is not read, or comes back, disturbs it.
TotalsAgree ==
  [][LET parts == seen' \ virtual
         sum == Sum(sensors', parts)
     IN  /\ worker = "disk" /\ account' # account
         /\ seen \subseteq seen' /\ DOMAIN last \cap seen' \subseteq seen
         /\ \A t \in seen : last[t] <= last'[t]
         /\ Sum(last', parts) < Width
         => sum <= sensors'[Total] /\ sensors'[Total] <= sum + Cardinality(parts)]_pollVars
=============================================================================
