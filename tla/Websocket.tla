------------------------------ MODULE Websocket ------------------------------
(***************************************************************************)
(* Notifications: runNotificationsWorker and its websocket.                *)
(*                                                                         *)
(* The worker connects, starts a goroutine that listens, and displays what *)
(* that one hands it until the connection ends; then it connects again.    *)
(* Listening runs OnMessage for one message after the other, which answers *)
(* some of them, and starts a goroutine that sends a ping at each tick.    *)
(* Each connection leaves a goroutine that waits for the context and then  *)
(* closes the websocket's current socket, whichever that is.               *)
(*                                                                         *)
(* Home Assistant wants ids to grow from command to command of a           *)
(* connection and refuses one that does not, and it wants no command       *)
(* before it has accepted the token.  The ids are those of a counter that  *)
(* counts the messages received, on all connections.                       *)
(*                                                                         *)
(* A connection that is over has no part in what follows: its pings fail,  *)
(* and with the first deadline that cannot be set its goroutine ends.      *)
(***************************************************************************)
EXTENDS Naturals, Sequences

CONSTANTS
  MaxNotes,   \* bound: notifications on a connection
  MaxPings,   \* bound: pings
  MaxLosses   \* bound: connections that break or are refused

ASSUME BoundsAssumption == MaxNotes \in Nat /\ MaxPings \in Nat /\ MaxLosses \in Nat

VARIABLES
  cancelled,  \* the context is done
  worker,     \* runNotificationsWorker
  closers,    \* the goroutines of Connect that wait for the context
  nextID,     \* the counter
  reader,     \* Listen and OnMessage: what they are at
  holds,      \* the message OnMessage has at hand, or its reply
  pinger,     \* keepAlive
  pingID,     \* the id of the ping it is about to send
  pings,      \* how many there were
  conn,       \* the connection made last
  incoming,   \* the messages on their way to the agent
  ha,         \* Home Assistant's part: it waits for the token, commands, or is registered
  last,       \* the id of the last command it accepted on the connection
  sent,       \* the notifications it sent on the connection
  shown,      \* those that were displayed
  losses      \* how many connections were lost

agentVars == <<worker, closers, nextID>>
readVars  == <<reader, holds>>
pingVars  == <<pinger, pingID, pings>>
haVars    == <<conn, incoming, ha, last, losses>>
noteVars  == <<sent, shown>>
socketVars == <<cancelled, agentVars, readVars, pingVars, haVars, noteVars>>

\* What is sent: number is a notification's, or a command's id.
Message(type, number) == [type |-> type, number |-> number]
Nothing == Message("nothing", 0)

SocketTypeOK ==
  /\ cancelled \in BOOLEAN
  /\ worker \in {"checks", "dials", "dialled", "ranges", "returned"}
  /\ closers \in Nat /\ nextID \in Nat
  /\ reader \in {"none", "reads", "hands", "replies", "ended"}
  /\ holds \in [type : {"nothing", "event", "auth", "registration"}, number : Nat]
  /\ pinger \in {"none", "waits", "sends"} /\ pingID \in Nat /\ pings \in 0..MaxPings
  /\ conn \in {"none", "open", "silent", "closed"}
  /\ incoming \in Seq([type : {"auth_required", "auth_ok", "auth_invalid", "result", "id_reuse", "pong", "event"},
                       number : Nat])
  /\ ha \in {"auth", "commands", "registered"}
  /\ last \in Nat /\ sent \in 0..MaxNotes /\ shown \in Nat /\ losses \in 0..MaxLosses

SocketInit ==
  /\ cancelled = FALSE
  /\ worker = "checks"
  /\ closers = 0 /\ nextID = 0
  /\ reader = "none" /\ holds = Nothing
  /\ pinger = "none" /\ pingID = 0 /\ pings = 0
  /\ conn = "none" /\ incoming = <<>> /\ ha = "auth" /\ last = 0 /\ losses = 0
  /\ sent = 0 /\ shown = 0

-----------------------------------------------------------------------------
(* Home Assistant and the network.                                         *)

Lose == losses < MaxLosses /\ losses' = losses + 1

\* It takes a message that was sent on a connection that is open.  Anything but a token
\* that it knows makes it close a connection that is not authorised.
Handle(request) ==
  \/ /\ ha = "auth" /\ request.type = "auth"
     /\ incoming' = Append(incoming, Message("auth_ok", 0))
     /\ ha' = "commands"
     /\ UNCHANGED <<conn, last, losses>>
  \/ /\ ha = "auth"
     /\ IF request.type = "auth" THEN Lose ELSE UNCHANGED losses
     /\ incoming' = Append(incoming, Message("auth_invalid", 0))
     /\ conn' = "closed"
     /\ UNCHANGED <<ha, last>>
  \/ /\ ha # "auth" /\ request.number <= last
     /\ incoming' = Append(incoming, Message("id_reuse", 0))
     /\ UNCHANGED <<conn, ha, last, losses>>
  \/ /\ ha # "auth" /\ request.number > last
     /\ incoming' = Append(incoming, Message(IF request.type = "ping" THEN "pong" ELSE "result", 0))
     /\ ha' = IF request.type = "registration" THEN "registered" ELSE ha
     /\ last' = request.number
     /\ UNCHANGED <<conn, losses>>

\* WriteMessage: on a connection that is not open nothing arrives, with an error or not.
Send(request) == IF conn = "open" THEN Handle(request) ELSE UNCHANGED haVars

\* A notification for the agent.
Notify ==
  /\ conn = "open" /\ ha = "registered"
  /\ sent < MaxNotes
  /\ sent' = sent + 1
  /\ incoming' = Append(incoming, Message("event", sent + 1))
  /\ UNCHANGED <<cancelled, agentVars, readVars, pingVars, conn, ha, last, losses, shown>>

\* The connection breaks, or is dead without a sign.
Break ==
  /\ conn = "open"
  /\ Lose
  /\ conn' \in {"closed", "silent"}
  /\ UNCHANGED <<cancelled, agentVars, readVars, pingVars, incoming, ha, last, noteVars>>

\* No one acknowledges the pings: the operating system ends the connection.  The deadline
\* does not, which each ping puts off before it is over.
Expire ==
  /\ conn = "silent"
  /\ conn' = "closed"
  /\ UNCHANGED <<cancelled, agentVars, readVars, pingVars, incoming, ha, last, losses, noteVars>>

-----------------------------------------------------------------------------
(* runNotificationsWorker and Connect.                                     *)

\* The select.
Check ==
  /\ worker = "checks"
  /\ worker' = IF cancelled THEN "returned" ELSE "dials"
  /\ UNCHANGED <<cancelled, closers, nextID, readVars, pingVars, haVars, noteVars>>

\* A new connection: Home Assistant asks for the token at once.
Dial ==
  /\ worker = "dials"
  /\ worker' = "dialled"
  /\ conn' = "open" /\ ha' = "auth" /\ last' = 0
  /\ incoming' = <<Message("auth_required", 0)>>
  /\ reader' = "none" /\ holds' = Nothing
  /\ pinger' = "none" /\ pingID' = 0
  /\ sent' = 0 /\ shown' = 0
  /\ UNCHANGED <<cancelled, closers, nextID, pings, losses>>

\* The backoff is over or the context done: an error, and the worker returns.
GiveUp ==
  /\ worker = "dials"
  /\ worker' = "returned"
  /\ UNCHANGED <<cancelled, closers, nextID, readVars, pingVars, haVars, noteVars>>

\* Slip: a goroutine that closes the current socket is there already.
ConnectOnce ==
  /\ worker = "dialled"
  /\ worker' = "ranges"
  /\ closers' = IF closers = 0 /\ ~cancelled THEN 1 ELSE closers
  /\ reader' = "reads" /\ pinger' = "waits"
  /\ UNCHANGED <<cancelled, nextID, holds, pingID, pings, haVars, noteVars>>

\* The rest of Connect sets the socket and its channel and starts the goroutine that
\* waits; listening starts the one that pings.
Connect ==
  /\ worker = "dialled"
  /\ worker' = "ranges"
  /\ closers' = closers + 1
  /\ reader' = "reads" /\ pinger' = "waits"
  /\ UNCHANGED <<cancelled, nextID, holds, pingID, pings, haVars, noteVars>>

\* The agent stops: each of these goroutines closes the socket that is set by now.
Close ==
  /\ cancelled /\ closers > 0
  /\ closers' = closers - 1
  /\ conn' = IF worker # "dialled" /\ conn # "none" THEN "closed" ELSE conn
  /\ UNCHANGED <<cancelled, worker, nextID, readVars, pingVars, incoming, ha, last, losses, noteVars>>

\* Slip: the next notification is received while this one is displayed.
DisplayTwice ==
  /\ worker = "ranges" /\ reader = "hands"
  /\ shown' = holds.number
  /\ \/ reader' = "reads" /\ holds' = Nothing
     \/ UNCHANGED readVars
  /\ UNCHANGED <<cancelled, agentVars, pingVars, haVars, sent>>

\* The worker displays the notification that OnMessage hands it.
Display ==
  /\ worker = "ranges" /\ reader = "hands"
  /\ shown' = holds.number
  /\ reader' = "reads" /\ holds' = Nothing
  /\ UNCHANGED <<cancelled, agentVars, pingVars, haVars, sent>>

\* The channel is closed.
RangeEnds ==
  /\ worker = "ranges" /\ reader = "ended"
  /\ worker' = "checks"
  /\ UNCHANGED <<cancelled, closers, nextID, readVars, pingVars, haVars, noteVars>>

-----------------------------------------------------------------------------
(* Listen, OnMessage and keepAlive.                                        *)

\* Slip: what answers a ping is not counted.
CountCommands(message) == nextID' = IF message.type = "pong" THEN nextID ELSE nextID + 1

\* A message counts, the one that tells of an id used before once more.
Count(message) == nextID' = nextID + (IF message.type = "id_reuse" THEN 2 ELSE 1)

\* OnMessage: a notification is for the worker, the token or the registration is the
\* reply; other messages need none.  One that cannot be unmarshalled (a notification
\* with a title that is no string) is logged and not counted: nothing is left of it but
\* a step that changes nothing, so it is not among those on their way.  What Home
\* Assistant answers itself always can be.
OnMessage ==
  /\ reader = "reads" /\ incoming # <<>>
  /\ incoming' = Tail(incoming)
  /\ LET message == Head(incoming) IN
     /\ Count(message)
     /\ CASE message.type = "event" ->
               reader' = "hands" /\ holds' = message
          [] message.type = "auth_required" ->
               reader' = "replies" /\ holds' = Message("auth", 0)
          [] message.type = "auth_ok" ->
               reader' = "replies" /\ holds' = Message("registration", nextID')
          [] OTHER -> UNCHANGED readVars
  /\ UNCHANGED <<cancelled, worker, closers, pingVars, conn, ha, last, losses, noteVars>>

Reply ==
  /\ reader = "replies"
  /\ Send(holds)
  /\ reader' = "reads" /\ holds' = Nothing
  /\ UNCHANGED <<cancelled, agentVars, pingVars, noteVars>>

\* Slip: the channel is left to the garbage collector.
ListenForgets ==
  /\ reader = "reads" /\ conn = "closed"
  /\ reader' = "none"
  /\ UNCHANGED <<cancelled, agentVars, holds, pingVars, haVars, noteVars>>

\* The connection is over, with or without what is still to be read from it: listening
\* ends and closes the channel.
ListenEnds ==
  /\ reader = "reads" /\ conn = "closed"
  /\ reader' = "ended"
  /\ UNCHANGED <<cancelled, agentVars, holds, pingVars, haVars, noteVars>>

\* keepAlive's ticker: the deadline is set, or cannot be, and the id is read
Tick ==
  /\ pinger = "waits"
  /\ IF conn = "closed"
       THEN pinger' = "none" /\ UNCHANGED <<pingID, pings>>
       ELSE /\ pings < MaxPings
            /\ pinger' = "sends" /\ pingID' = nextID /\ pings' = pings + 1
  /\ UNCHANGED <<cancelled, agentVars, readVars, haVars, noteVars>>

\* for a ping, which is sent.
Ping ==
  /\ pinger = "sends"
  /\ Send(Message("ping", pingID))
  /\ pinger' = "waits" /\ pingID' = 0
  /\ UNCHANGED <<cancelled, agentVars, readVars, pings, noteVars>>

-----------------------------------------------------------------------------
Cancel ==
  /\ ~cancelled
  /\ cancelled' = TRUE
  /\ UNCHANGED <<agentVars, readVars, pingVars, haVars, noteVars>>

SocketNext ==
  \/ Notify \/ Break \/ Expire
  \/ Check \/ Dial \/ GiveUp \/ Connect \/ Close \/ Display \/ RangeEnds
  \/ OnMessage \/ Reply \/ ListenEnds \/ Tick \/ Ping
  \/ Cancel

SocketSpec == SocketInit /\ [][SocketNext]_socketVars

\* The goroutines run, a connection is made or given up, and one without a peer ends.
\* Nobody has to send notifications or to stop the agent.
SocketFairSpec ==
  /\ SocketSpec
  /\ WF_socketVars(Expire)
  /\ WF_socketVars(Check) /\ WF_socketVars(Dial \/ GiveUp) /\ WF_socketVars(Connect)
  /\ WF_socketVars(Close) /\ WF_socketVars(Display) /\ WF_socketVars(RangeEnds)
  /\ WF_socketVars(OnMessage) /\ WF_socketVars(Reply) /\ WF_socketVars(ListenEnds)

-----------------------------------------------------------------------------
(* Properties.                                                             *)

\* The notifications among the messages on their way.
Notes == {i \in 1 .. Len(incoming) : incoming[i].type = "event"}

\* The last notification that OnMessage has taken.
Taken == shown + (IF reader = "hands" THEN 1 ELSE 0)

\* The notifications of a connection are displayed in their order, and none is lost
\* while the connection lives: the next one is at hand, and those after it are on their
\* way, each behind the one before.
DisplayedInOrder ==
  /\ reader = "hands" => holds.number = shown + 1
  /\ Taken <= sent
  /\ {incoming[i].number : i \in Notes} = Taken + 1 .. sent
  /\ \A i, j \in Notes : i < j => incoming[i].number < incoming[j].number

\* Once the agent has read every answer the id of the next command is one that Home
\* Assistant accepts, after a refusal, too.
FreshWhenQuiet ==
  conn = "open" /\ incoming = <<>> /\ worker = "ranges" /\ ha # "auth" => nextID > last

\* A ping came before the registration, which had read the same id.
Overtaken == ha = "commands" /\ last > 0

\* An agent whose connection is lost or refused registers for notifications on a new
\* one, unless it gives up or stops, or a ping took the registration's id: that is not
\* sent again.
RegistersAgain ==
  (worker = "ranges") ~>
    ((conn = "open" /\ ha = "registered") \/ Overtaken \/ worker = "returned" \/ cancelled)

\* When the agent stops the worker returns, with no connection open and nobody listening,
\* even if it was just making one.
EndsWhenDone ==
  cancelled ~> (worker = "returned" /\ conn \in {"none", "closed"} /\ reader \in {"none", "ended"})
=============================================================================
