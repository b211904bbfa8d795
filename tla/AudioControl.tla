---------------------------- MODULE AudioControl ----------------------------
(***************************************************************************)
(* The volume and mute entities: from PulseAudio to the channel of MQTT    *)
(* messages.                                                               *)
(*                                                                         *)
(* A change of the default sink makes PulseAudio send an event, whose      *)
(* callback puts a token into EventCh, which has room for one, or drops it *)
(* if there is one.  Other events it discards, that of another sink        *)
(* becoming the default one, too.  A goroutine takes the token, reads the  *)
(* sink's state for each of the two entities and sends what it read.  A    *)
(* command from Home Assistant changes the sink and starts a goroutine     *)
(* that reads and sends the state of its entity, too.                      *)
(*                                                                         *)
(* Of the sink's state the module knows the version: every change makes a  *)
(* new one.  There is one goroutine of a command at a time.  MQTTBridge    *)
(* says what becomes of the messages; here somebody receives them at some  *)
(* time, or not.                                                           *)
(***************************************************************************)
EXTENDS Naturals

CONSTANT MaxVersion   \* bound: the changes of the sink

ASSUME MaxVersionAssumption == MaxVersion \in Nat

Entity == {"mute", "volume"}

VARIABLES
  ctxDone,     \* the context is done
  panicked,    \* a panic ended the program
  connected,   \* the connection to PulseAudio
  sink,        \* the version of the default sink's state
  due,         \* the events of the sink that PulseAudio has not told of yet
  switched,    \* the last version is that of another sink, which became the default one
  doneCh,      \* the client's channel doneCh is closed
  eventCh,     \* EventCh: empty, with its token, or closed
  msgsClosed,  \* the channel of messages is closed
  audio,       \* the goroutine that processes events
  entity,      \* the entity it is at
  read,        \* the version it has read
  command,     \* the goroutine of a command: what it is at, its entity and version
  told,        \* the version that was sent last of each entity
  stale        \* the entities the loop could not read last, or of which a command's
               \* goroutine sent an older version than the last

pulseVars  == <<connected, sink, due, switched, doneCh, eventCh>>
loopAudio  == <<audio, entity, read>>
toldVars   == <<told, stale>>
audioVars  == <<ctxDone, panicked, pulseVars, msgsClosed, loopAudio, command, toldVars>>

Version0  == 0 .. MaxVersion
NoCommand == [at |-> "none", entity |-> "mute", read |-> 0]

AudioTypeOK ==
  /\ ctxDone \in BOOLEAN /\ panicked \in BOOLEAN /\ connected \in BOOLEAN
  /\ sink \in Version0 /\ due \in Version0 /\ switched \in BOOLEAN
  /\ doneCh \in BOOLEAN /\ msgsClosed \in BOOLEAN
  /\ eventCh \in {"empty", "full", "closed"}
  /\ audio \in {"off", "reads", "sends", "waits", "returned"}
  /\ entity \in Entity /\ read \in Version0
  /\ command \in [at : {"none", "reads", "sends"}, entity : Entity, read : Version0]
  /\ told \in [Entity -> Version0] /\ stale \subseteq Entity

\* VolumeControl finds PulseAudio, or there will be no entities.  The goroutine starts
\* with an update of both.
AudioInit ==
  /\ connected \in BOOLEAN
  /\ audio = IF connected THEN "reads" ELSE "off"
  /\ ctxDone = FALSE /\ panicked = FALSE
  /\ sink = 0 /\ due = 0 /\ switched = FALSE /\ doneCh = FALSE /\ eventCh = "empty" /\ msgsClosed = FALSE
  /\ entity = "mute" /\ read = 0
  /\ command = NoCommand
  /\ told = [e \in Entity |-> 0] /\ stale = Entity

-----------------------------------------------------------------------------
(* PulseAudio and its client.                                              *)

\* The sink has a new state, of which PulseAudio will tell.
NewVersion ==
  /\ sink < MaxVersion
  /\ sink' = sink + 1
  /\ due' = due + 1
  /\ switched' = FALSE

SinkChanges ==
  /\ connected
  /\ NewVersion
  /\ UNCHANGED <<ctxDone, panicked, connected, doneCh, eventCh, msgsClosed, loopAudio, command, toldVars>>

\* Another sink becomes the default one: the state that is read is its from now on.
\* PulseAudio tells of that with an event of its server, which the callback discards.
DefaultSwitches ==
  /\ connected
  /\ sink < MaxVersion
  /\ sink' = sink + 1
  /\ switched' = TRUE
  /\ UNCHANGED <<ctxDone, panicked, connected, due, doneCh, eventCh, msgsClosed, loopAudio, command, toldVars>>

\* Slip: EventCh has no room: a token finds nobody unless the goroutine waits.
CallbackUnbuffered ==
  /\ connected
  /\ due > 0
  /\ due' = due - 1
  /\ \/ eventCh = "empty" /\ audio = "waits" /\ eventCh' = "full" /\ UNCHANGED panicked
     \/ eventCh = "empty" /\ audio # "waits" /\ UNCHANGED <<eventCh, panicked>>
     \/ doneCh /\ eventCh' = "closed" /\ panicked' = (eventCh = "closed")
     \/ eventCh = "closed" /\ panicked' = TRUE /\ UNCHANGED eventCh
     \/ eventCh = "full" /\ ~doneCh /\ UNCHANGED <<eventCh, panicked>>
  /\ UNCHANGED <<ctxDone, connected, sink, switched, doneCh, msgsClosed, loopAudio, command, toldVars>>

\* An event of a sink comes.  The select of its callback puts the token, or closes EventCh if
\* doneCh is closed, whichever is possible, and drops the event if nothing is.  It is
\* a panic to close EventCh again, or to put a token into it then.
Callback ==
  /\ connected
  /\ due > 0
  /\ due' = due - 1
  /\ \/ eventCh = "empty" /\ eventCh' = "full" /\ UNCHANGED panicked
     \/ doneCh /\ eventCh' = "closed" /\ panicked' = (eventCh = "closed")
     \/ eventCh = "closed" /\ panicked' = TRUE /\ UNCHANGED eventCh
     \/ eventCh = "full" /\ ~doneCh /\ UNCHANGED <<eventCh, panicked>>
  /\ UNCHANGED <<ctxDone, connected, sink, switched, doneCh, msgsClosed, loopAudio, command, toldVars>>

\* The agent stops.
ContextDone ==
  /\ audio # "off"
  /\ ~ctxDone
  /\ ctxDone' = TRUE
  /\ UNCHANGED <<panicked, pulseVars, msgsClosed, loopAudio, command, toldVars>>

\* The client's goroutine closes doneCh, and then the connection.
ClientDone ==
  /\ ctxDone /\ connected
  /\ IF doneCh THEN connected' = FALSE /\ UNCHANGED doneCh
               ELSE doneCh' = TRUE /\ UNCHANGED connected
  /\ UNCHANGED <<ctxDone, panicked, sink, due, switched, eventCh, msgsClosed, loopAudio, command, toldVars>>

\* The channel of messages is closed: a panic for those who send on it.
CloseMessages ==
  /\ ctxDone
  /\ ~msgsClosed
  /\ msgsClosed' = TRUE
  /\ panicked' = (audio = "sends" \/ command.at = "sends")
  /\ UNCHANGED <<ctxDone, pulseVars, loopAudio, command, toldVars>>

-----------------------------------------------------------------------------
(* The goroutine that processes events.                                    *)

\* Where update goes on after the entity it is at.
GoesOn ==
  IF entity = "mute" THEN audio' = "reads" /\ entity' = "volume"
                     ELSE audio' = "waits" /\ entity' = "mute"

\* MarshalState reads the state, each entity's with a request of its own, and
\* publishAudioState goes on to send it.
ReadState ==
  /\ audio = "reads"
  /\ connected
  /\ read' = sink
  /\ audio' = "sends"
  /\ panicked' = msgsClosed
  /\ UNCHANGED <<ctxDone, pulseVars, msgsClosed, entity, command, toldVars>>

\* The request fails: nothing is sent.
ReadStateFails ==
  /\ audio = "reads"
  /\ stale' = stale \cup {entity}
  /\ GoesOn
  /\ UNCHANGED <<ctxDone, panicked, pulseVars, msgsClosed, read, command, told>>

\* The message is received.
SendState ==
  /\ audio = "sends"
  /\ told' = [told EXCEPT ![entity] = read]
  /\ stale' = stale \ {entity}
  /\ GoesOn
  /\ UNCHANGED <<ctxDone, panicked, pulseVars, msgsClosed, read, command>>

\* There is a token, or EventCh is closed, which looks the same.
Token ==
  /\ audio = "waits"
  /\ eventCh # "empty"
  /\ eventCh' = IF eventCh = "full" THEN "empty" ELSE eventCh
  /\ audio' = "reads"
  /\ UNCHANGED <<ctxDone, panicked, connected, sink, due, switched, doneCh, msgsClosed, entity, read, command, toldVars>>

\* The context is done.
LoopReturns ==
  /\ audio = "waits"
  /\ ctxDone
  /\ audio' = "returned"
  /\ UNCHANGED <<ctxDone, panicked, pulseVars, msgsClosed, entity, read, command, toldVars>>

-----------------------------------------------------------------------------
(* A command from Home Assistant.                                          *)

\* SetVolume or SetMute succeeds.  The volume or mute state may be what it was.
SetState ==
  /\ connected
  /\ NewVersion \/ UNCHANGED <<sink, due, switched>>

\* The volume or mute state is set, and a goroutine started.  A volume that cannot be
\* parsed or is out of range and a request that fails end the callback; a payload
\* that is neither ON nor OFF leaves the mute state as it is and starts one, too.
Command(e) ==
  /\ command.at = "none"
  /\ SetState
  /\ command' = [at |-> "reads", entity |-> e, read |-> 0]
  /\ UNCHANGED <<ctxDone, panicked, connected, doneCh, eventCh, msgsClosed, loopAudio, toldVars>>

\* Its goroutine reads the state, or fails to.
CommandReads ==
  /\ command.at = "reads"
  /\ \/ /\ connected
        /\ command' = [at |-> "sends", entity |-> command.entity, read |-> sink]
        /\ panicked' = msgsClosed
     \/ /\ command' = NoCommand
        /\ UNCHANGED panicked
  /\ UNCHANGED <<ctxDone, pulseVars, msgsClosed, loopAudio, toldVars>>

\* Its message is received.
CommandSends ==
  /\ command.at = "sends"
  /\ command' = NoCommand
  /\ told' = [told EXCEPT ![command.entity] = command.read]
  /\ stale' = IF command.read < told[command.entity] THEN stale \cup {command.entity} ELSE stale
  /\ UNCHANGED <<ctxDone, panicked, pulseVars, msgsClosed, loopAudio>>

-----------------------------------------------------------------------------
AudioNext ==
  /\ ~panicked
  /\ \/ SinkChanges \/ DefaultSwitches \/ Callback \/ ContextDone \/ ClientDone \/ CloseMessages
     \/ ReadState \/ ReadStateFails \/ SendState \/ Token \/ LoopReturns
     \/ \E e \in Entity : Command(e)
     \/ CommandReads \/ CommandSends

\* Nothing is asked of PulseAudio, the receiver of the messages or Home Assistant.
AudioSpec == AudioInit /\ [][AudioNext]_audioVars

-----------------------------------------------------------------------------
(* Properties.                                                             *)

\* When PulseAudio has told of all changes and the goroutine waits for the next token,
\* the version that was sent last of each entity is the sink's: no change is lost for
\* an event that was dropped because a token was there, or that came while the
\* goroutine was reading and sending.  Excepted are an entity it could not read last,
\* one of which the goroutine of a command came with an older version, and all as long as
\* the last change was that another sink became the default one.
VolumeIsCurrent ==
  ~ctxDone /\ due = 0 /\ ~switched /\ audio = "waits" /\ eventCh = "empty" =>
    \A e \in Entity \ stale : told[e] = sink
=============================================================================
