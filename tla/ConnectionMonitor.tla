-------------------------- MODULE ConnectionMonitor --------------------------
(***************************************************************************)
(* The network connection worker: which connections it monitors, and the   *)
(* goroutines that monitor one.                                            *)
(*                                                                         *)
(* Two callers hand connections to handleConnection: the loop over the     *)
(* StateChanged signals, and Events itself, for those that are active at   *)
(* the start.  The loop stores what that returns in the variable err of    *)
(* Events, which tests it after it has read the active connections: an     *)
(* error of the loop in between makes it pass over all of them.  For each  *)
(* connection that is not in the list, a monitor is started: a goroutine   *)
(* that adds it to the list and then passes on what two others send, one   *)
(* for the connection (its state and addresses), and one, for a wireless   *)
(* connection, for the access point it uses (here its strength).  Each of  *)
(* those first sends what it has read, in a goroutine of its own, and goes *)
(* on with signals; that of the state ends when the connection is offline, *)
(* and by doneCh the others with it.                                       *)
(*                                                                         *)
(* The state and the addresses are sent as pointers: whoever receives one  *)
(* sees the value of that moment.  A strength is sent as a value.  Signals *)
(* are delivered in any order.  No path is used again once its connection  *)
(* is offline, as NetworkManager numbers them.  It has no signal that is   *)
(* named ActiveAccessPoint, so a connection keeps the access point that    *)
(* is read first.                                                          *)
(***************************************************************************)
EXTENDS Naturals, FiniteSets

CONSTANTS
  Conn,        \* connections that NetworkManager may activate
  MaxLoops,    \* bound: loops of all monitors; one of a wireless connection has two
  MaxChanges   \* bound: changes of a connection's addresses and strength

ASSUME BoundsAssumption == MaxLoops \in Nat /\ MaxChanges \in Nat

Monitor == 1 .. MaxLoops
None    == "none"

ASSUME ConnAssumption == None \notin Conn

\* connState, and the state of a connection that is not yet there.  Deactivating is
\* left out: as offline, it is no reason to monitor, as online, none to stop.
Rank == [absent |-> 0, activating |-> 1, online |-> 2, offline |-> 4]
State == DOMAIN Rank

\* A monitor's sensors of the state and the addresses, the signals of them under way to
\* it, and what is received of a connection.
Sensors == [state : State \cup {"unknown"}, address : Nat]
Signals == [state : SUBSET State, address : SUBSET Nat]
Reports == [state : State \cup {"unknown"}, address : Nat, strength : Nat]

VARIABLES
  wireless,  \* the connections of type 802-11-wireless
  link,      \* the state of each connection
  address,   \* the version of its addresses
  strength,  \* the version of its access point's strength
  cancelled, \* the context is done
  crashed,   \* a panic ended the program
  events,    \* Events: not called, failed, has its watch, has the list of active
             \* connections and will test err, has tested it
  failed,    \* err of Events is an error; of no interest before and after that
  todo,      \* the active connections Events has not handled
  news,      \* the StateChanged signals under way to the loop
  closed,    \* the worker's channel is closed
  unread,    \* connections that could not be read when they were handled
  skipped,   \* connections of a list that could not be read, or was passed over
  list,      \* the list of tracked connections
  conn,      \* the connection of each monitor
  entry,     \* handleConnection's goroutine, by monitor
  wired,     \* monitorConnection
  value,     \* the sensors of the connection's state and addresses
  toSend,    \* the goroutine that sends them first
  pending,   \* the signals under way to monitorConnection
  spoiled,   \* a read or a watch failed, or a change came between the two
  raced,     \* two signals of state were under way at once
  ap,        \* the goroutines of the access point (records, below)
  reported   \* what was last received of each connection's sensors

envVars   == <<wireless, link, address, strength>>
endVars   == <<cancelled, crashed>>
trackVars == <<events, failed, todo, news, closed, unread, skipped, list, conn, entry>>
wiredVars == <<wired, value, toSend, pending, spoiled, raced>>
vars == <<envVars, endVars, trackVars, wiredVars, ap, reported>>

\* The goroutines of monitorWifi: init sends the first strength; loop handles signals;
\* watch is watchAccessPointProps; first sends it the access point; fwd is watchAP's,
\* which has signals under way to it and passes one on.  late: the strength changed
\* before all of these were set up, or while another change was under way.
ApState ==
  [init : {None, "reads", "sends", "done"}, read : Nat,
   loop : {None, "selects", "sends", "closed"}, next : Nat,
   watch : {None, "starts", "selects", "returned"},
   first : {None, "sends", "done"},
   fwd : {None, "receives", "sends", "returned"}, signal : Nat,
   pending : SUBSET Nat, late : BOOLEAN]
ApIdle == [init |-> None, read |-> 0, loop |-> None, next |-> 0, watch |-> None,
           first |-> None, fwd |-> None, signal |-> 0, pending |-> {}, late |-> FALSE]

TypeOK ==
  /\ wireless \subseteq Conn
  /\ link \in [Conn -> State]
  /\ address \in [Conn -> Nat] /\ strength \in [Conn -> Nat]
  /\ cancelled \in BOOLEAN /\ crashed \in BOOLEAN /\ closed \in BOOLEAN
  /\ events \in {"starting", "failed", "watching", "tests", "read"} /\ failed \in BOOLEAN
  /\ todo \subseteq Conn /\ unread \subseteq Conn /\ skipped \subseteq Conn /\ list \subseteq Conn
  /\ news \subseteq Conn \X State
  /\ conn \in [Monitor -> Conn \cup {None}]
  /\ entry \in [Monitor -> {None, "spawned", "ranges"}]
  /\ wired \in [Monitor -> {None, "sampled", "selects", "state", "address",
                       "closed", "failed"}]
  /\ value \in [Monitor -> Sensors]
  /\ toSend \in [Monitor -> {"nothing", "both", "address"}]
  /\ pending \in [Monitor -> Signals]
  /\ spoiled \in [Monitor -> BOOLEAN] /\ raced \in [Monitor -> BOOLEAN]
  /\ ap \in [Monitor -> ApState]
  /\ reported \in [Conn -> Reports]

Init ==
  /\ wireless \in SUBSET Conn
  /\ link \in [Conn -> {"absent", "online"}]
  /\ address = [c \in Conn |-> 1] /\ strength = [c \in Conn |-> 1]
  /\ cancelled = FALSE /\ crashed = FALSE
  /\ events = "starting" /\ failed = FALSE
  /\ todo = {} /\ news = {} /\ unread = {} /\ skipped = {} /\ list = {}
  /\ closed = FALSE
  /\ conn = [m \in Monitor |-> None]
  /\ entry = [m \in Monitor |-> None]
  /\ wired = [m \in Monitor |-> None]
  /\ value = [m \in Monitor |-> [state |-> "unknown", address |-> 0]]
  /\ toSend = [m \in Monitor |-> "nothing"]
  /\ pending = [m \in Monitor |-> [state |-> {}, address |-> {}]]
  /\ spoiled = [m \in Monitor |-> FALSE] /\ raced = [m \in Monitor |-> FALSE]
  /\ ap = [m \in Monitor |-> ApIdle]
  /\ reported = [c \in Conn |-> [state |-> "unknown", address |-> 0, strength |-> 0]]

-----------------------------------------------------------------------------
(* NetworkManager.  Nothing is asked of what it does once the context is   *)
(* done, so that is left out.                                              *)

Watches(m, c) == conn[m] = c /\ wired[m] \in {"selects", "state", "address"}

\* A monitor that has read the properties but does not watch them yet never gets to
\* know of a change.
Missed(c) == [m \in Monitor |-> spoiled[m] \/ (conn[m] = c /\ wired[m] = "sampled")]

\* A signal is under way to a watch, of the state or of the addresses.
StateSignalled(p, s)   == [p EXCEPT !.state = @ \cup {s}]
AddressSignalled(p, n) == [p EXCEPT !.address = @ \cup {n}]

\* The same of a strength, to those of the access point's goroutines that watch it.
StrengthSignalled(a, n) ==
  [a EXCEPT !.pending = IF a.fwd \in {"receives", "sends"} THEN @ \cup {n} ELSE @,
            !.late = @ \/ a.init # "done" \/ a.fwd # "receives" \/ a.pending # {}]

\* A connection changes its state.  The monitors' watches get a signal, and the worker's,
\* which only OtherSignal speaks of if the connection is in the list: none leaves that.
LinkChanges(c) ==
  /\ ~cancelled
  /\ \E s \in State :
       /\ Rank[s] > Rank[link[c]]
       /\ link[c] = "absent" => s = "activating"
       /\ link' = [link EXCEPT ![c] = s]
       /\ news' = IF events \in {"watching", "tests", "read"} /\ c \notin list
                    THEN news \cup {<<c, s>>} ELSE news
       /\ pending' = [m \in Monitor |->
            IF Watches(m, c) THEN StateSignalled(pending[m], s) ELSE pending[m]]
  /\ raced' = [m \in Monitor |-> raced[m] \/ (Watches(m, c) /\ pending[m].state # {})]
  /\ spoiled' = Missed(c)
  /\ UNCHANGED <<wireless, address, strength, endVars, events, failed, todo, closed, unread,
                 skipped, list, conn, entry, wired, value, toSend, ap, reported>>

\* Its addresses change: the signal tells where to read them.
AddressChanges(c) ==
  /\ ~cancelled
  /\ link[c] \in {"activating", "online"}
  /\ address[c] + strength[c] < MaxChanges + 2
  /\ address' = [address EXCEPT ![c] = @ + 1]
  /\ pending' = [m \in Monitor |->
       IF Watches(m, c) THEN AddressSignalled(pending[m], address[c] + 1) ELSE pending[m]]
  /\ spoiled' = Missed(c)
  /\ UNCHANGED <<wireless, link, strength, endVars, trackVars, wired, value, toSend, raced, ap, reported>>

\* The strength of its access point changes.
StrengthChanges(c) ==
  /\ ~cancelled
  /\ c \in wireless /\ link[c] \in {"activating", "online"}
  /\ address[c] + strength[c] < MaxChanges + 2
  /\ strength' = [strength EXCEPT ![c] = @ + 1]
  /\ ap' = [m \in Monitor |->
       IF conn[m] = c THEN StrengthSignalled(ap[m], strength[c] + 1) ELSE ap[m]]
  /\ UNCHANGED <<wireless, link, address, endVars, trackVars, wiredVars, reported>>

-----------------------------------------------------------------------------
(* connectionsWorker.                                                      *)

\* Events starts its watch and the loop, or fails and returns a closed channel.
Begin ==
  /\ events = "starting"
  /\ \/ events' = "watching" /\ UNCHANGED closed
     \/ events' = "failed" /\ closed' = TRUE
  /\ UNCHANGED <<envVars, endVars, failed, todo, news, unread, skipped, list, conn, entry, wiredVars,
                 ap, reported>>

\* Slip: a connection that is being activated is not active yet.
OnlineOnly == {c \in Conn : link[c] = "online"}

Active == {c \in Conn : link[c] \in {"activating", "online"}}

\* Events reads the connections that are active, or cannot.
ReadActive ==
  /\ events = "watching"
  /\ events' = "tests"
  /\ \E err \in BOOLEAN :
       /\ failed' = err
       /\ todo' = IF err THEN {} ELSE Active
       /\ skipped' = IF err THEN Active ELSE {}
  /\ UNCHANGED <<envVars, endVars, news, closed, unread, list, conn, entry, wiredVars, ap, reported>>

\* It tests err, which the loop may have set in the meantime, and passes over them all if
\* that is an error.
TestErr ==
  /\ events = "tests"
  /\ events' = "read"
  /\ failed' = FALSE
  /\ IF failed THEN todo' = {} /\ skipped' = skipped \cup todo ELSE UNCHANGED <<todo, skipped>>
  /\ UNCHANGED <<envVars, endVars, news, closed, unread, list, conn, entry, wiredVars, ap, reported>>

\* The loop sets err; Events will set it anew, or has tested it, but for the time between.
SetErr(err) == failed' = (events = "tests" /\ err)

LoopsOf(M) == Cardinality(M) + Cardinality({m \in M : conn[m] \in wireless})

\* A goroutine is started that will monitor the connection.
Spawn(c) ==
  LET busy == {m \in Monitor : conn[m] # None} IN
  /\ LoopsOf(busy) + (IF c \in wireless THEN 2 ELSE 1) <= MaxLoops
  /\ conn' = [conn EXCEPT ![Cardinality(busy) + 1] = c]
  /\ entry' = [entry EXCEPT ![Cardinality(busy) + 1] = "spawned"]

\* handleConnection: a connection whose name or type cannot be read is an error; one
\* that is in the list is ignored; any other gets a monitor.
Handle(c, err) ==
  IF err THEN /\ unread' = IF \E m \in Monitor : conn[m] = c THEN unread ELSE unread \cup {c}
              /\ UNCHANGED <<conn, entry>>
  ELSE /\ UNCHANGED unread
       /\ IF c \in list THEN UNCHANGED <<conn, entry>> ELSE Spawn(c)

\* Events handles a connection that was active.
HandleActive(c) ==
  /\ events = "read" /\ c \in todo
  /\ todo' = todo \ {c}
  /\ \E err \in BOOLEAN : Handle(c, err)
  /\ UNCHANGED <<envVars, endVars, events, failed, news, closed, skipped, list, wiredVars, ap, reported>>

\* The loop handles a signal, unless it is of a connection that goes away.
HandleSignal(c) ==
  /\ \E s \in State :
       /\ <<c, s>> \in news
       /\ news' = news \ {<<c, s>>}
       /\ IF Rank[s] > 2 THEN UNCHANGED <<failed, unread, conn, entry>>
          ELSE \E err \in BOOLEAN : Handle(c, err) /\ SetErr(err)
  /\ UNCHANGED <<envVars, endVars, events, todo, closed, skipped, list, wiredVars, ap, reported>>

\* It handles a signal of a connection that is in the list, or of one that is none of
\* Conn: all that comes of it here is err.
OtherSignal ==
  /\ events = "tests"
  /\ \E err \in BOOLEAN : SetErr(err)
  /\ UNCHANGED <<envVars, endVars, events, todo, news, closed, unread, skipped, list, conn, entry,
                 wiredVars, ap, reported>>

\* Slip: the loop ends when no signal is under way.
LoopEndsEarly ==
  /\ news = {} /\ events # "starting"
  /\ closed' = TRUE
  /\ crashed' \in {FALSE, \E m \in Monitor : entry[m] = "ranges"}
  /\ UNCHANGED <<envVars, cancelled, events, failed, todo, news, unread, skipped, list, conn, entry,
                 wiredVars, ap, reported>>

\* The watch ends with the context, and the loop with it: a goroutine that waits to send
\* on the worker's channel panics when that is closed.
LoopEnds ==
  /\ cancelled /\ events # "starting"
  /\ closed' = TRUE
  /\ crashed' \in {FALSE, \E m \in Monitor : entry[m] = "ranges"}
  /\ UNCHANGED <<envVars, cancelled, events, failed, todo, news, unread, skipped, list, conn, entry,
                 wiredVars, ap, reported>>

\* Those of a wireless connection are started.
ApStarts == [ApIdle EXCEPT !.init = "reads", !.loop = "selects", !.watch = "starts"]

\* The goroutine adds its connection to the list and starts to monitor it: the sensors'
\* first values are read, unless the bus fails, and a goroutine is started to send them.
Track(m) ==
  /\ entry[m] = "spawned"
  /\ entry' = [entry EXCEPT ![m] = "ranges"]
  /\ list' = list \cup {conn[m]}
  /\ news' = {n \in news : n[1] # conn[m]}
  /\ unread' = unread \ {conn[m]} /\ skipped' = skipped \ {conn[m]}
  /\ wired' = [wired EXCEPT ![m] = "sampled"]
  /\ \/ /\ value' = [value EXCEPT ![m] = [state |-> link[conn[m]], address |-> address[conn[m]]]]
        /\ spoiled' = [spoiled EXCEPT ![m] = link[conn[m]] = "offline"]
     \/ spoiled' = [spoiled EXCEPT ![m] = TRUE] /\ UNCHANGED value
  /\ toSend' = [toSend EXCEPT ![m] = "both"]
  /\ ap' = IF conn[m] \in wireless THEN [ap EXCEPT ![m] = ApStarts] ELSE ap
  /\ UNCHANGED <<envVars, endVars, events, failed, todo, closed, conn, pending, raced, reported>>

\* What a monitor sends goes through two goroutines to the worker's channel, one update
\* behind the other, and is received.
Receive(m, new) == reported' = [reported EXCEPT ![conn[m]] = new]

\* A pointer to a sensor of the connection is read when it is received.
Report(m, kind) ==
  LET old == reported[conn[m]] IN
  Receive(m, IF kind = "state" THEN [old EXCEPT !.state = value[m].state]
                               ELSE [old EXCEPT !.address = value[m].address])

-----------------------------------------------------------------------------
(* monitorConnection.                                                      *)

\* The watch is started; if that fails the channel is closed at once.
StartWatch(m) ==
  /\ wired[m] = "sampled"
  /\ \/ wired' = [wired EXCEPT ![m] = "selects"] /\ UNCHANGED <<crashed, spoiled>>
     \/ /\ wired' = [wired EXCEPT ![m] = "failed"]
        /\ spoiled' = [spoiled EXCEPT ![m] = TRUE]
        /\ crashed' = (toSend[m] # "nothing")
  /\ UNCHANGED <<envVars, cancelled, trackVars, value, toSend, pending, raced, ap, reported>>

\* The goroutine of the first values sends the next of them.
SendFirst(m) ==
  /\ toSend[m] # "nothing"
  /\ wired[m] \notin {"closed", "failed"}
  /\ Report(m, IF toSend[m] = "both" THEN "state" ELSE "address")
  /\ toSend' = [toSend EXCEPT ![m] = IF @ = "both" THEN "address" ELSE "nothing"]
  /\ UNCHANGED <<envVars, endVars, trackVars, wired, value, pending, spoiled, raced, ap>>

\* A signal of the state: the sensor has the value that the signal carries.
StateSignal(m) ==
  /\ wired[m] = "selects"
  /\ \E s \in pending[m].state :
       /\ pending' = [pending EXCEPT ![m].state = @ \ {s}]
       /\ value' = [value EXCEPT ![m].state = s]
  /\ wired' = [wired EXCEPT ![m] = "state"]
  /\ UNCHANGED <<envVars, endVars, trackVars, toSend, spoiled, raced, ap, reported>>

\* The loop goes on, or ends when the connection is offline: doneCh and its channel
\* are closed, under whoever still has first values to send on that.
GoOn(m) ==
  /\ wired' = [wired EXCEPT ![m] = IF value[m].state = "offline" THEN "closed" ELSE "selects"]
  /\ crashed' = (value[m].state = "offline" /\ toSend[m] # "nothing")

\* A signal of the addresses: they are read now.  If that fails nothing is sent.
AddressSignal(m) ==
  /\ wired[m] = "selects"
  /\ \E n \in pending[m].address : pending' = [pending EXCEPT ![m].address = @ \ {n}]
  /\ \/ /\ value' = [value EXCEPT ![m].address = address[conn[m]]]
        /\ wired' = [wired EXCEPT ![m] = "address"]
        /\ UNCHANGED <<crashed, spoiled>>
     \/ spoiled' = [spoiled EXCEPT ![m] = TRUE] /\ GoOn(m) /\ UNCHANGED value
  /\ UNCHANGED <<envVars, cancelled, trackVars, toSend, raced, ap, reported>>

\* Slip: a sensor is not sent while first values are, as these are pointers, too.
SendUnlessFirst(m) ==
  /\ wired[m] \in {"state", "address"}
  /\ IF toSend[m] = "nothing" THEN Report(m, wired[m]) ELSE UNCHANGED reported
  /\ GoOn(m)
  /\ UNCHANGED <<envVars, cancelled, trackVars, value, toSend, pending, spoiled, raced, ap>>

\* The loop sends the sensor.
SendChanged(m) ==
  /\ wired[m] \in {"state", "address"}
  /\ Report(m, wired[m])
  /\ GoOn(m)
  /\ UNCHANGED <<envVars, cancelled, trackVars, value, toSend, pending, spoiled, raced, ap>>

\* The context is done.
StopMonitor(m) ==
  /\ wired[m] = "selects"
  /\ cancelled
  /\ wired' = [wired EXCEPT ![m] = "closed"]
  /\ crashed' = (toSend[m] # "nothing")
  /\ UNCHANGED <<envVars, cancelled, trackVars, value, toSend, pending, spoiled, raced, ap, reported>>

-----------------------------------------------------------------------------
(* monitorWifi.                                                            *)

\* doneCh is closed when monitorConnection's loop has ended.
Done(m) == wired[m] = "closed"

Ap(m, new) == ap' = [ap EXCEPT ![m] = new]

\* The first strength is read, or the access point cannot be.
ReadFirstStrength(m) ==
  /\ ap[m].init = "reads"
  /\ \/ Ap(m, [ap[m] EXCEPT !.init = "sends", !.read = strength[conn[m]]])
     \/ Ap(m, [ap[m] EXCEPT !.init = "done", !.late = TRUE])
  /\ UNCHANGED <<envVars, endVars, trackVars, wiredVars, reported>>

\* It is sent, if the channel is not closed.
SendFirstStrength(m) ==
  /\ ap[m].init = "sends"
  /\ IF ap[m].loop = "closed"
       THEN crashed' = TRUE /\ UNCHANGED <<ap, reported>>
       ELSE /\ Receive(m, [reported[conn[m]] EXCEPT !.strength = ap[m].read])
            /\ Ap(m, [ap[m] EXCEPT !.init = "done"])
            /\ UNCHANGED crashed
  /\ UNCHANGED <<envVars, cancelled, trackVars, wiredVars>>

\* watchAccessPointProps reads the devices, or returns; a goroutine reads their access
\* point, or cannot.
StartApWatch(m) ==
  /\ ap[m].watch = "starts"
  /\ \/ Ap(m, [ap[m] EXCEPT !.watch = "selects", !.first = "sends"])
     \/ Ap(m, [ap[m] EXCEPT !.watch = "selects", !.first = "done", !.late = TRUE])
     \/ Ap(m, [ap[m] EXCEPT !.watch = "returned", !.late = TRUE])
  /\ UNCHANGED <<envVars, endVars, trackVars, wiredVars, reported>>

\* watchAccessPointProps receives it and starts a watch, which may fail; or its channel
\* is closed already.
WatchAp(m) ==
  /\ ap[m].first = "sends"
  /\ \/ /\ ap[m].watch = "selects"
        /\ \/ Ap(m, [ap[m] EXCEPT !.first = "done", !.fwd = "receives"])
           \/ Ap(m, [ap[m] EXCEPT !.first = "done", !.late = TRUE])
        /\ UNCHANGED crashed
     \/ ap[m].watch = "returned" /\ crashed' = TRUE /\ UNCHANGED ap
  /\ UNCHANGED <<envVars, cancelled, trackVars, wiredVars, reported>>

\* watchAP's goroutine takes a signal.
TakeSignal(m) ==
  /\ ap[m].fwd = "receives"
  /\ \E n \in ap[m].pending :
       Ap(m, [ap[m] EXCEPT !.fwd = "sends", !.signal = n, !.pending = @ \ {n}])
  /\ UNCHANGED <<envVars, endVars, trackVars, wiredVars, reported>>

\* The loop of monitorWifi receives it.
StrengthSignal(m) ==
  /\ ap[m].loop = "selects" /\ ap[m].fwd = "sends"
  /\ Ap(m, [ap[m] EXCEPT !.loop = "sends", !.next = ap[m].signal, !.fwd = "receives"])
  /\ UNCHANGED <<envVars, endVars, trackVars, wiredVars, reported>>

\* It sends a new sensor with the strength of the signal.
SendStrength(m) ==
  /\ ap[m].loop = "sends"
  /\ Receive(m, [reported[conn[m]] EXCEPT !.strength = ap[m].next])
  /\ Ap(m, [ap[m] EXCEPT !.loop = "selects"])
  /\ UNCHANGED <<envVars, endVars, trackVars, wiredVars>>

\* The connection is offline or the agent stops: the loop ends and closes its channel,
StopWifi(m) ==
  /\ ap[m].loop = "selects"
  /\ Done(m) \/ cancelled
  /\ Ap(m, [ap[m] EXCEPT !.loop = "closed"])
  /\ crashed' = (ap[m].init = "sends")
  /\ UNCHANGED <<envVars, cancelled, trackVars, wiredVars, reported>>

\* watchAccessPointProps ends and closes the one it receives access points from,
StopApWatch(m) ==
  /\ ap[m].watch = "selects"
  /\ Done(m) \/ cancelled
  /\ Ap(m, [ap[m] EXCEPT !.watch = "returned"])
  /\ crashed' = (ap[m].first = "sends")
  /\ UNCHANGED <<envVars, cancelled, trackVars, wiredVars, reported>>

\* and watchAP's goroutine returns, if it does not wait for the loop to receive.
StopForwarding(m) ==
  /\ ap[m].fwd = "receives"
  /\ Done(m)
  /\ Ap(m, [ap[m] EXCEPT !.fwd = "returned"])
  /\ UNCHANGED <<envVars, endVars, trackVars, wiredVars, reported>>

-----------------------------------------------------------------------------
Cancel ==
  /\ ~cancelled
  /\ cancelled' = TRUE
  /\ UNCHANGED <<envVars, crashed, trackVars, wiredVars, ap, reported>>

\* Nothing happens after a panic, and nothing is asked of what happens once the worker's
\* channel is closed.
Step(A) == ~crashed /\ ~closed /\ A

WiredLoop(m) == StartWatch(m) \/ StateSignal(m) \/ AddressSignal(m) \/ SendChanged(m) \/ StopMonitor(m)
WifiLoop(m) == StrengthSignal(m) \/ SendStrength(m) \/ StopWifi(m)
ApWatch(m) == StartApWatch(m) \/ WatchAp(m) \/ StopApWatch(m)

Next ==
  \/ Step(Cancel) \/ Step(Begin) \/ Step(ReadActive) \/ Step(TestErr) \/ Step(OtherSignal)
  \/ Step(LoopEnds)
  \/ \E c \in Conn :
       \/ Step(LinkChanges(c)) \/ Step(AddressChanges(c)) \/ Step(StrengthChanges(c))
       \/ Step(HandleActive(c)) \/ Step(HandleSignal(c))
  \/ \E m \in Monitor :
       \/ Step(Track(m))
       \/ Step(WiredLoop(m)) \/ Step(SendFirst(m))
       \/ Step(ReadFirstStrength(m)) \/ Step(SendFirstStrength(m))
       \/ Step(WifiLoop(m)) \/ Step(ApWatch(m)) \/ Step(TakeSignal(m)) \/ Step(StopForwarding(m))

Spec == Init /\ [][Next]_vars

-----------------------------------------------------------------------------
(* Properties.                                                             *)

\* A connection that is there is monitored as soon as no signal of it is under way
\* and Events has handled those it found: none is lost between the watch and the list
\* of active ones.  But for one that could not be read itself, and for those of the list,
\* if that could not be read or if Events took the loop's error for its own.
EveryConnectionMonitored ==
  \A c \in Conn :
    (/\ link[c] \in {"activating", "online"}
     /\ events = "read" /\ c \notin todo
     /\ \A s \in State : <<c, s>> \notin news)
      => c \in unread \cup skipped \/ \E m \in Monitor : conn[m] = c

\* Nothing is left that would change what was reported of a connection's state and
\* addresses, or of its strength, and nothing went wrong.
Settled(m) ==
  /\ wired[m] = "selects" /\ pending[m] = [state |-> {}, address |-> {}]
  /\ toSend[m] = "nothing" /\ ~spoiled[m]
SettledAp(m) ==
  /\ ap[m].init = "done" /\ ap[m].first = "done"
  /\ ap[m].loop = "selects" /\ ap[m].fwd = "receives" /\ ap[m].pending = {} /\ ~ap[m].late

\* What was reported last is what is, if it did not change between the first reading
\* and the watch.  First values that are late do no harm, as they are pointers.
\* Addresses are read when their signal comes, so the order of signals does not matter
\* to them; states must not overtake each other.  A strength is a value, so it must not
\* change before the first one is sent.
LastWordIsTruth ==
  \A c \in Conn :
    LET mine == {m \in Monitor : conn[m] = c /\ entry[m] # None} IN
    mine # {} =>
      /\ (\A m \in mine : Settled(m)) => reported[c].address = address[c]
      /\ (\A m \in mine : Settled(m) /\ ~raced[m]) => reported[c].state = link[c]
      /\ (\A m \in mine : SettledAp(m)) => reported[c].strength = strength[c]

\* The agent does not panic while it runs, but for a connection that is gone before
\* what was read of it first was received.
PanicOnlyInHaste ==
  crashed => cancelled \/ \E m \in Monitor :
    \/ wired[m] \in {"closed", "failed"} /\ toSend[m] # "nothing"
    \/ ap[m].loop = "closed" /\ ap[m].init = "sends"
    \/ ap[m].watch = "returned" /\ ap[m].first = "sends"

\* No connection is monitored twice.
MonitoredOnce ==
  \A m, k \in Monitor : conn[m] # None /\ conn[m] = conn[k] => m = k
=============================================================================
