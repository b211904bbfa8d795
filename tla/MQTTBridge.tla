----------------------------- MODULE MQTTBridge -----------------------------
(***************************************************************************)
(* runMQTTWorkers: from the goroutines that have MQTT messages to send to  *)
(* the client that publishes them.                                         *)
(*                                                                         *)
(* The loop of runMQTTWorkers evaluates mergeCh(ctx, msgCh...) each time   *)
(* it selects, so every message it handles is followed by a new merged     *)
(* channel with new forwarding goroutines, a new generation.  Those of     *)
(* earlier generations go on receiving from the controllers' channel, but  *)
(* nobody receives from them.                                              *)
(*                                                                         *)
(* On Linux one controller has a channel: the OS controller, on whose      *)
(* channel msgs the volume, media player and camera goroutines send, and   *)
(* which is closed when the context is done.  The commands controller has  *)
(* none, so its forwarding goroutines return at once.                      *)
(***************************************************************************)
EXTENDS Naturals, Sequences

CONSTANTS
  Sender,    \* the goroutines that send on msgs
  MaxMsgs,   \* bound: the messages of a sender
  MaxGens    \* bound: the generations

ASSUME BoundsAssumption == MaxMsgs \in Nat /\ MaxGens \in Nat \ {0}

Generation == 1 .. MaxGens
Message    == Sender \X (1 .. MaxMsgs)
NoMessage  == <<"nobody", 0>>

VARIABLES
  cancelled,   \* the context is done
  closed,      \* msgs is closed
  crashed,     \* a panic ended the program
  offered,     \* how many messages each sender has had
  blocked,     \* the senders that wait for their message to be received
  forwarder,   \* what each generation's forwarding goroutine is at
  held,        \* the message it holds
  gen,         \* the generation the loop receives from
  loop,        \* runMQTTWorkers
  current,     \* the message it publishes
  published    \* the messages that were passed to client.Publish

vars == <<cancelled, closed, crashed, offered, blocked, forwarder, held, gen, loop, current, published>>
senderVars == <<offered, blocked>>
loopVars   == <<gen, loop, current, published>>

TypeOK ==
  /\ cancelled \in BOOLEAN /\ closed \in BOOLEAN /\ crashed \in BOOLEAN
  /\ offered \in [Sender -> 0 .. MaxMsgs]
  /\ blocked \subseteq Sender
  /\ forwarder \in [Generation -> {"none", "receives", "sends", "returned", "closed"}]
  /\ held \in [Generation -> Message \cup {NoMessage}]
  /\ gen \in Generation
  /\ loop \in {"connects", "selects", "publishes", "returned"}
  /\ current \in Message \cup {NoMessage}
  /\ published \in Seq(Message)

Init ==
  /\ cancelled = FALSE /\ closed = FALSE /\ crashed = FALSE
  /\ offered = [s \in Sender |-> 0]
  /\ blocked = {}
  /\ forwarder = [g \in Generation |-> "none"]
  /\ held = [g \in Generation |-> NoMessage]
  /\ gen = 1
  /\ loop = "connects"
  /\ current = NoMessage
  /\ published = <<>>

-----------------------------------------------------------------------------
(* The senders and the channel.                                            *)

\* A sender has a message: sending on a closed channel is a panic.
Offer(s) ==
  /\ s \notin blocked
  /\ offered[s] < MaxMsgs
  /\ offered' = [offered EXCEPT ![s] = @ + 1]
  /\ blocked' = blocked \cup {s}
  /\ crashed' = closed
  /\ UNCHANGED <<cancelled, closed, forwarder, held, loopVars>>

\* The agent is done.
Cancel ==
  /\ ~cancelled
  /\ cancelled' = TRUE
  /\ UNCHANGED <<closed, crashed, senderVars, forwarder, held, loopVars>>

\* Slip: msgs is closed when the loop has returned.
CloseMsgsAfterLoop ==
  /\ loop = "returned"
  /\ ~closed
  /\ closed' = TRUE
  /\ crashed' = (blocked # {})
  /\ UNCHANGED <<cancelled, senderVars, forwarder, held, loopVars>>

\* msgs is closed: for a sender that is blocked this is a panic, too.
CloseMsgs ==
  /\ cancelled
  /\ ~closed
  /\ closed' = TRUE
  /\ crashed' = (blocked # {})
  /\ UNCHANGED <<cancelled, senderVars, forwarder, held, loopVars>>

-----------------------------------------------------------------------------
(* mergeCh, once per generation.                                           *)

\* A forwarding goroutine of any generation receives the message of a sender.
Take(g, s) ==
  /\ forwarder[g] = "receives"
  /\ s \in blocked
  /\ blocked' = blocked \ {s}
  /\ held' = [held EXCEPT ![g] = <<s, offered[s]>>]
  /\ forwarder' = [forwarder EXCEPT ![g] = "sends"]
  /\ UNCHANGED <<cancelled, closed, crashed, offered, loopVars>>

\* Slip: the select has a default case.
DropAnytime(g) ==
  /\ forwarder[g] = "sends"
  /\ held' = [held EXCEPT ![g] = NoMessage]
  /\ forwarder' = [forwarder EXCEPT ![g] = "returned"]
  /\ UNCHANGED <<cancelled, closed, crashed, senderVars, loopVars>>

\* The context is done: the message it holds is dropped.
Drop(g) ==
  /\ cancelled
  /\ forwarder[g] = "sends"
  /\ held' = [held EXCEPT ![g] = NoMessage]
  /\ forwarder' = [forwarder EXCEPT ![g] = "returned"]
  /\ UNCHANGED <<cancelled, closed, crashed, senderVars, loopVars>>

\* msgs is closed: the range over it ends.
SeesClose(g) ==
  /\ forwarder[g] = "receives"
  /\ closed
  /\ forwarder' = [forwarder EXCEPT ![g] = "returned"]
  /\ UNCHANGED <<cancelled, closed, crashed, senderVars, held, loopVars>>

\* Its wait group is done: the merged channel is closed.
CloseMerged(g) ==
  /\ forwarder[g] = "returned"
  /\ forwarder' = [forwarder EXCEPT ![g] = "closed"]
  /\ UNCHANGED <<cancelled, closed, crashed, senderVars, held, loopVars>>

-----------------------------------------------------------------------------
(* The loop.                                                               *)

\* The client connects, and the first generation is made; or it cannot connect.
Connect ==
  /\ loop = "connects"
  /\ \/ loop' = "selects" /\ forwarder' = [forwarder EXCEPT ![gen] = "receives"]
     \/ loop' = "returned" /\ UNCHANGED forwarder
  /\ UNCHANGED <<cancelled, closed, crashed, senderVars, held, gen, current, published>>

\* Slip: the loop receives from whichever generation has a message.
ReceiveFromAny(g) ==
  /\ loop = "selects"
  /\ forwarder[g] = "sends"
  /\ current' = held[g]
  /\ held' = [held EXCEPT ![g] = NoMessage]
  /\ forwarder' = [forwarder EXCEPT ![g] = "receives"]
  /\ loop' = "publishes"
  /\ UNCHANGED <<cancelled, closed, crashed, senderVars, gen, published>>

\* The loop receives a message: the one who sent it goes on to the next one.
Receive(g) ==
  /\ loop = "selects"
  /\ g = gen
  /\ forwarder[g] = "sends"
  /\ current' = held[g]
  /\ held' = [held EXCEPT ![g] = NoMessage]
  /\ forwarder' = [forwarder EXCEPT ![g] = "receives"]
  /\ loop' = "publishes"
  /\ UNCHANGED <<cancelled, closed, crashed, senderVars, gen, published>>

\* The loop selects again, from a new generation.
NextGeneration ==
  /\ gen < MaxGens
  /\ gen' = gen + 1
  /\ forwarder' = [forwarder EXCEPT ![gen + 1] = "receives"]
  /\ loop' = "selects"

\* Slip: a failure is retried, which is in vain when the client has disconnected.
PublishRetrying ==
  /\ loop = "publishes"
  /\ ~cancelled
  /\ published' = Append(published, current)
  /\ current' = NoMessage
  /\ NextGeneration
  /\ UNCHANGED <<cancelled, closed, crashed, senderVars, held>>

\* The message is published; a failure to do so is logged.
Publish ==
  /\ loop = "publishes"
  /\ published' = Append(published, current)
  /\ current' = NoMessage
  /\ NextGeneration
  /\ UNCHANGED <<cancelled, closed, crashed, senderVars, held>>

\* The merged channel is closed: the loop receives nil, and passes that to Publish,
\* which the warning that follows a failure dereferences.
ReceiveNil ==
  /\ loop = "selects"
  /\ forwarder[gen] = "closed"
  /\ \/ crashed' = TRUE /\ UNCHANGED <<gen, forwarder, loop>>
     \/ NextGeneration /\ UNCHANGED crashed
  /\ UNCHANGED <<cancelled, closed, senderVars, held, current, published>>

\* The context is done.
Stop ==
  /\ loop = "selects"
  /\ cancelled
  /\ loop' = "returned"
  /\ UNCHANGED <<cancelled, closed, crashed, senderVars, forwarder, held, gen, current, published>>

-----------------------------------------------------------------------------
\* Nothing happens after a panic.
Step(A) == ~crashed /\ A

Next ==
  \/ Step(Cancel) \/ Step(CloseMsgs)
  \/ Step(Connect) \/ Step(Publish) \/ Step(ReceiveNil) \/ Step(Stop)
  \/ \E s \in Sender : Step(Offer(s)) \/ \E g \in Generation : Step(Take(g, s))
  \/ \E g \in Generation :
       Step(Drop(g)) \/ Step(SeesClose(g)) \/ Step(CloseMerged(g)) \/ Step(Receive(g))

Spec == Init /\ [][Next]_vars

\* The goroutines run, the client connects or fails to, and Publish returns.  A
\* select that finds the context done again and again takes that case some time.
\* Blocked senders wait in a queue, so each is received from if any is.
Fairness ==
  /\ WF_vars(Step(CloseMsgs)) /\ WF_vars(Step(Connect)) /\ WF_vars(Step(Publish))
  /\ WF_vars(Step(ReceiveNil)) /\ SF_vars(Step(Stop))
  /\ \A s \in Sender : SF_vars(\E g \in Generation : Step(Take(g, s)))
  /\ \A g \in Generation :
       /\ WF_vars(Step(Drop(g))) /\ WF_vars(Step(SeesClose(g)))
       /\ WF_vars(Step(CloseMerged(g))) /\ WF_vars(Step(Receive(g)))

FairSpec == Spec /\ Fairness

-----------------------------------------------------------------------------
(* Properties.                                                             *)

Sent == {m \in Message : m[2] <= offered[m[1]] /\ ~(m[1] \in blocked /\ m[2] = offered[m[1]])}

\* The places in which a message that was sent may be.
Places(m) ==
  {<<"published", i>> : i \in {j \in 1 .. Len(published) : published[j] = m}}
    \cup {<<"held", g>> : g \in {h \in Generation : held[h] = m}}
    \cup {<<"current", 0>> : x \in {current} \cap {m}}

\* A message that was sent is in one place and no other: published, about to be, or
\* held by a forwarding goroutine.  Until the context is done, none is dropped.
Accounted ==
  \A m \in Message :
    /\ \A p, q \in Places(m) : p = q
    /\ Places(m) # {} => m \in Sent
    /\ m \in Sent /\ ~cancelled => Places(m) # {}

\* What is published of a sender is in the order in which it sent it, whatever the
\* generations that were abandoned hold: a state published is not older than the last.
PublishedInOrder ==
  \A i, j \in 1 .. Len(published) :
    i < j /\ published[i][1] = published[j][1] => published[i][2] < published[j][2]

\* The loop receives nil, which it does not check for, only when the context is done.
NilOnlyWhenDone == forwarder[gen] = "closed" => cancelled

\* runMQTTWorkers ends when its context does, whatever the senders and the
\* generations it has left behind are at.
EndsWhenDone == cancelled ~> (loop = "returned" \/ crashed)

\* Every message is published, unless the agent stops or cannot connect.
EveryMessagePublished ==
  \A m \in Message :
    m \in Sent ~>
      (cancelled \/ loop = "returned" \/ \E i \in 1 .. Len(published) : published[i] = m)

\* The senders and the loop panic only while the agent stops.
PanicOnlyWhenDone == crashed => cancelled
=============================================================================
