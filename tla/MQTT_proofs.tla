---------------------------- MODULE MQTT_proofs ----------------------------
(***************************************************************************)
(* MQTT: what MQTTBridge publishes is in order and accounted for, for any  *)
(* senders and messages; AudioControl sends what is current, for any       *)
(* number of changes; and MQTTControls publishes, answers and takes back   *)
(* what it should, for any files, desktops and numbers of runs.            *)
(***************************************************************************)
EXTENDS MQTTBridge, AudioControl, MQTTControls, TLAPS

-----------------------------------------------------------------------------
(* MQTTBridge.                                                             *)
(*                                                                         *)
(* The messages that abandoned generations hold are never received, so the *)
(* order depends on two places only: what the forwarding goroutine of the  *)
(* present generation holds and what the loop is publishing.  The former   *)
(* was taken when it was its sender's last message, and nothing of its     *)
(* sender was published since that is newer: a message that is published   *)
(* ends the generation.                                                    *)

\* m was received of its sender, and is not the message it waits with.
Gone(m) ==
  /\ m[2] <= offered[m[1]]
  /\ m[1] \in blocked => m[2] < offered[m[1]]

\* Whatever is on its way or published has gone.
Origin ==
  /\ \A g \in Generation : forwarder[g] = "sends" => held[g] \in Message /\ Gone(held[g])
  /\ loop = "publishes" => current \in Message /\ Gone(current)
  /\ \A i \in 1 .. Len(published) : Gone(published[i])

\* No goroutine forwards for a generation that is still to come.
Fresh == \A g \in Generation : g > gen => forwarder[g] = "none"

\* m is newer than what was published of its sender.
Newer(m) ==
  \A i \in 1 .. Len(published) : published[i][1] = m[1] => published[i][2] < m[2]

\* What the loop publishes next is newer, and what it may receive next is newer still.
Order ==
  /\ forwarder[gen] = "sends" => Newer(held[gen])
  /\ loop = "publishes" => Newer(current)
  /\ forwarder[gen] = "sends" /\ loop = "publishes" /\ held[gen][1] = current[1] =>
       current[2] < held[gen][2]

\* The channels are closed, and forwarding goroutines end, only when the agent stops.
Quits ==
  /\ closed => cancelled
  /\ crashed => cancelled
  /\ \A g \in Generation : forwarder[g] \in {"returned", "closed"} => cancelled

\* A sender that waits has had a message.
Sends == \A s \in blocked : offered[s] > 0

OrderInv == TypeOK /\ Sends /\ Origin /\ Fresh /\ Order /\ PublishedInOrder

USE BoundsAssumption DEF BoundsAssumption, Generation

\* Before anything was sent all of it holds.
LEMMA OrderAtFirst == Init => OrderInv /\ Quits
<1> SUFFICES ASSUME Init PROVE OrderInv /\ Quits
  OBVIOUS
<1>1. TypeOK
  <2>1. published \in Seq(Message)
    BY DEF Init
  <2>2. held \in [Generation -> Message \cup {NoMessage}] /\ current \in Message \cup {NoMessage}
    BY DEF Init
  <2>3. offered \in [Sender -> 0 .. MaxMsgs]
    BY DEF Init
  <2>4. forwarder \in [Generation -> {"none", "receives", "sends", "returned", "closed"}]
    BY DEF Init
  <2>5. blocked \subseteq Sender /\ gen \in Generation
    BY DEF Init
  <2> QED
    BY <2>1, <2>2, <2>3, <2>4, <2>5 DEF Init, TypeOK
<1>2. Sends /\ Origin /\ Fresh /\ Order /\ PublishedInOrder /\ Quits
  BY DEF Init, Sends, Origin, Fresh, Order, PublishedInOrder, Quits
<1> QED
  BY <1>1, <1>2 DEF OrderInv

-----------------------------------------------------------------------------
(* Types.                                                                  *)

\* Steps that leave the loop and the published messages alone keep the types.
LEMMA SendersKeepTypes ==
  ASSUME TypeOK,
         Cancel \/ CloseMsgs \/ Connect \/ Stop \/ \E s \in Sender : Offer(s)
  PROVE  TypeOK'
<1> USE DEF TypeOK, senderVars, loopVars
<1>1. CASE Cancel
  BY <1>1 DEF Cancel
<1>2. CASE CloseMsgs
  <2>1. crashed' \in BOOLEAN
    BY <1>2 DEF CloseMsgs
  <2> QED
    BY <1>2, <2>1 DEF CloseMsgs
<1>3. CASE Connect
  <2>1. loop' \in {"selects", "returned"}
    BY <1>3 DEF Connect
  <2>2. forwarder' \in [Generation -> {"none", "receives", "sends", "returned", "closed"}]
    BY <1>3 DEF Connect
  <2> QED
    BY <1>3, <2>1, <2>2 DEF Connect
<1>4. CASE Stop
  BY <1>4 DEF Stop
<1>5. ASSUME NEW s \in Sender, Offer(s) PROVE TypeOK'
  <2> USE <1>5 DEF Offer
  <2>1. offered[s] < MaxMsgs
    OBVIOUS
  <2>2. offered' \in [Sender -> 0 .. MaxMsgs]
    BY <2>1
  <2>3. blocked' \subseteq Sender /\ crashed' \in BOOLEAN
    OBVIOUS
  <2> QED
    BY <2>2, <2>3
<1> QED
  BY <1>1, <1>2, <1>3, <1>4, <1>5

\* So do the steps of the forwarding goroutines, as long as they hold what was sent.
LEMMA ForwardersKeepTypes ==
  ASSUME TypeOK, Sends, Origin, NEW g \in Generation,
         \/ \E s \in Sender : Take(g, s)
         \/ Drop(g) \/ SeesClose(g) \/ CloseMerged(g) \/ Receive(g)
  PROVE  TypeOK'
<1> USE DEF TypeOK, senderVars, loopVars
<1>1. ASSUME NEW s \in Sender, Take(g, s) PROVE TypeOK'
  <2>1. offered[s] \in 1 .. MaxMsgs
    BY <1>1 DEF Take, Sends
  <2>2. <<s, offered[s]>> \in Message
    BY <2>1 DEF Message
  <2>3. held' \in [Generation -> Message \cup {NoMessage}]
    BY <1>1, <2>2 DEF Take
  <2>4. forwarder' \in [Generation -> {"none", "receives", "sends", "returned", "closed"}]
    BY <1>1 DEF Take
  <2> QED
    BY <1>1, <2>3, <2>4 DEF Take
<1>2. CASE Drop(g)
  <2>1. held' \in [Generation -> Message \cup {NoMessage}]
    BY <1>2 DEF Drop
  <2>2. forwarder' \in [Generation -> {"none", "receives", "sends", "returned", "closed"}]
    BY <1>2 DEF Drop
  <2> QED
    BY <1>2, <2>1, <2>2 DEF Drop
<1>3. CASE SeesClose(g)
  BY <1>3 DEF SeesClose
<1>4. CASE CloseMerged(g)
  BY <1>4 DEF CloseMerged
<1>5. CASE Receive(g)
  <2>1. held' \in [Generation -> Message \cup {NoMessage}]
    BY <1>5 DEF Receive
  <2>2. forwarder' \in [Generation -> {"none", "receives", "sends", "returned", "closed"}]
    BY <1>5 DEF Receive
  <2>3. current' \in Message \cup {NoMessage}
    BY <1>5 DEF Receive
  <2> QED
    BY <1>5, <2>1, <2>2, <2>3 DEF Receive
<1> QED
  BY <1>1, <1>2, <1>3, <1>4, <1>5

\* So do the steps that start another generation.
LEMMA LoopKeepsTypes ==
  ASSUME TypeOK, Origin, Publish \/ ReceiveNil
  PROVE  TypeOK'
<1> USE DEF TypeOK, senderVars
<1>1. ASSUME NextGeneration
      PROVE  /\ gen' \in Generation
             /\ forwarder' \in [Generation -> {"none", "receives", "sends", "returned", "closed"}]
             /\ loop' = "selects"
  BY <1>1 DEF NextGeneration
<1>2. CASE Publish
  <2>1. published' \in Seq(Message)
    BY <1>2 DEF Publish, Origin
  <2>2. current' \in Message \cup {NoMessage}
    BY <1>2 DEF Publish
  <2> QED
    BY <1>1, <1>2, <2>1, <2>2 DEF Publish
<1>3. CASE ReceiveNil
  <2>1. CASE crashed' = TRUE /\ UNCHANGED <<gen, forwarder, loop>>
    BY <1>3, <2>1 DEF ReceiveNil
  <2>2. CASE NextGeneration /\ UNCHANGED crashed
    BY <1>1, <1>3, <2>2 DEF ReceiveNil
  <2> QED
    BY <1>3, <2>1, <2>2 DEF ReceiveNil
<1> QED
  BY <1>2, <1>3

-----------------------------------------------------------------------------
(* Order.                                                                  *)

\* A step that changes neither what is held nor what is published, and under which no
\* goroutine takes a message or starts to forward, keeps the order.
LEMMA OthersKeepOrder ==
  ASSUME OrderInv, TypeOK',
         UNCHANGED <<held, gen, current, published>>,
         loop' = "publishes" => loop = "publishes",
         \A g \in Generation : forwarder'[g] = "sends" => forwarder[g] = "sends",
         \A g \in Generation : g > gen => forwarder'[g] = "none",
         Sends', \A m \in Message : Gone(m) => Gone(m)'
  PROVE  OrderInv'
<1> USE DEF OrderInv, TypeOK
<1>1. Origin'
  <2>1. \A i \in 1 .. Len(published) : published[i] \in Message
    OBVIOUS
  <2> QED
    BY <2>1 DEF Origin
<1>2. Fresh'
  BY DEF Fresh
<1>3. Order'
  BY DEF Order, Newer
<1>4. PublishedInOrder'
  BY DEF PublishedInOrder
<1> QED
  BY <1>1, <1>2, <1>3, <1>4

\* What the senders and the agent do keeps the order: a new message is one more that
\* waits.
LEMMA SendersKeepOrder ==
  ASSUME OrderInv,
         \/ Cancel \/ CloseMsgs \/ Connect \/ Stop
         \/ \E s \in Sender : Offer(s)
  PROVE  OrderInv'
<1>1. TypeOK'
  BY SendersKeepTypes DEF OrderInv
<1>2. ASSUME UNCHANGED senderVars PROVE Sends' /\ \A m \in Message : Gone(m) => Gone(m)'
  BY <1>2 DEF Gone, senderVars, Sends, OrderInv
<1>3. CASE Cancel
  BY <1>1, <1>2, <1>3, OthersKeepOrder DEF Cancel, loopVars, OrderInv, Fresh
<1>4. CASE CloseMsgs
  BY <1>1, <1>2, <1>4, OthersKeepOrder DEF CloseMsgs, loopVars, OrderInv, Fresh
<1>5. CASE Connect
  <2>1. \A g \in Generation : g # gen => forwarder'[g] = forwarder[g]
    BY <1>5 DEF Connect, OrderInv, TypeOK
  <2>2. forwarder'[gen] = "sends" => forwarder[gen] = "sends"
    BY <1>5 DEF Connect, OrderInv, TypeOK
  <2> QED
    BY <1>1, <1>2, <1>5, <2>1, <2>2, OthersKeepOrder DEF Connect, OrderInv, Fresh, TypeOK
<1>6. CASE Stop
  BY <1>1, <1>2, <1>6, OthersKeepOrder DEF Stop, OrderInv, Fresh
<1>7. ASSUME NEW s \in Sender, Offer(s) PROVE OrderInv'
  <2>1. \A m \in Message : Gone(m) => Gone(m)'
    BY <1>7 DEF Offer, OrderInv, TypeOK, Gone, Message
  <2>2. Sends'
    BY <1>7 DEF Offer, OrderInv, TypeOK, Sends
  <2> QED
    BY <1>1, <1>7, <2>1, <2>2, OthersKeepOrder DEF Offer, loopVars, OrderInv, Fresh
<1> QED
  BY <1>3, <1>4, <1>5, <1>6, <1>7

\* What the forwarding goroutines do keeps the order: a message that is taken is newer
\* than all that has gone, and one that is received was taken in this generation.
LEMMA ForwardersKeepOrder ==
  ASSUME OrderInv, NEW g \in Generation,
         \/ \E s \in Sender : Take(g, s)
         \/ Drop(g) \/ SeesClose(g) \/ CloseMerged(g) \/ Receive(g)
  PROVE  OrderInv'
<1>1. TypeOK'
  BY ForwardersKeepTypes DEF OrderInv
<1>2. CASE SeesClose(g)
  <2>1. \A h \in Generation : h # g => forwarder'[h] = forwarder[h]
    BY <1>2 DEF SeesClose, OrderInv, TypeOK
  <2>2. g <= gen /\ forwarder'[g] = "returned"
    BY <1>2 DEF SeesClose, OrderInv, TypeOK, Fresh
  <2>3. Sends' /\ \A m \in Message : Gone(m) => Gone(m)'
    BY <1>2 DEF SeesClose, Gone, senderVars, Sends, OrderInv
  <2> QED
    BY <1>1, <1>2, <2>1, <2>2, <2>3, OthersKeepOrder DEF SeesClose, loopVars, OrderInv, Fresh, TypeOK
<1>3. CASE CloseMerged(g)
  <2>1. \A h \in Generation : h # g => forwarder'[h] = forwarder[h]
    BY <1>3 DEF CloseMerged, OrderInv, TypeOK
  <2>2. g <= gen /\ forwarder'[g] = "closed"
    BY <1>3 DEF CloseMerged, OrderInv, TypeOK, Fresh
  <2>3. Sends' /\ \A m \in Message : Gone(m) => Gone(m)'
    BY <1>3 DEF CloseMerged, Gone, senderVars, Sends, OrderInv
  <2> QED
    BY <1>1, <1>3, <2>1, <2>2, <2>3, OthersKeepOrder DEF CloseMerged, loopVars, OrderInv, Fresh, TypeOK
<1>4. ASSUME NEW s \in Sender, Take(g, s) PROVE OrderInv'
  <2> DEFINE m == <<s, offered[s]>>
  <2>1. offered[s] \in 1 .. MaxMsgs /\ m \in Message
    BY <1>4 DEF Take, OrderInv, TypeOK, Sends, Message
  <2>2. /\ \A h \in Generation : h # g => forwarder'[h] = forwarder[h] /\ held'[h] = held[h]
        /\ forwarder'[g] = "sends" /\ held'[g] = m /\ g <= gen
    BY <1>4 DEF Take, OrderInv, TypeOK, Fresh
  <2>3. UNCHANGED <<offered, gen, loop, current, published>> /\ s \notin blocked' /\ blocked' \subseteq blocked
    BY <1>4 DEF Take, loopVars
  <2>4. Sends' /\ \A n \in Message : Gone(n) => Gone(n)'
    BY <2>3 DEF Gone, Sends, OrderInv
  <2>5. Gone(m)'
    BY <2>1, <2>3 DEF Gone
  <2>6. \A n \in Message : Gone(n) /\ n[1] = s => n[2] < m[2]
    BY <1>4 DEF Take, Gone
  <2>7. \A i \in 1 .. Len(published) : published[i] \in Message
    BY DEF OrderInv, TypeOK
  <2>8. m[1] = s /\ m' = m
    BY <2>3
  <2> HIDE DEF m
  <2>9. Origin'
    BY <2>1, <2>2, <2>3, <2>4, <2>5, <2>7, <2>8 DEF Origin, OrderInv
  <2>10. Fresh'
    BY <2>2, <2>3 DEF Fresh, OrderInv, TypeOK
  <2>11. Order'
    BY <2>2, <2>3, <2>6, <2>7, <2>8 DEF Order, Newer, Origin, OrderInv, TypeOK
  <2>12. PublishedInOrder'
    BY <2>3 DEF PublishedInOrder, OrderInv
  <2> QED
    BY <1>1, <2>4, <2>9, <2>10, <2>11, <2>12 DEF OrderInv
<1>5. CASE Drop(g)
  <2>1. /\ \A h \in Generation : h # g => forwarder'[h] = forwarder[h] /\ held'[h] = held[h]
        /\ forwarder'[g] = "returned" /\ g <= gen
    BY <1>5 DEF Drop, OrderInv, TypeOK, Fresh
  <2>2. UNCHANGED <<offered, blocked, gen, loop, current, published>>
    BY <1>5 DEF Drop, senderVars, loopVars
  <2>3. Origin' /\ Fresh'
    <3>1. \A m : Gone(m)' <=> Gone(m)
      BY <2>2 DEF Gone
    <3>2. Origin'
      BY <2>1, <2>2, <3>1 DEF Origin, OrderInv
    <3>3. Fresh'
      BY <2>1, <2>2 DEF Fresh, OrderInv, TypeOK
    <3> QED  BY <3>2, <3>3
  <2>4. Order'
    <3>1. \A m : Newer(m)' <=> Newer(m)
      BY <2>2 DEF Newer
    <3>2. gen \in Generation /\ (gen = g => forwarder'[gen] # "sends")
          /\ (gen # g => forwarder'[gen] = forwarder[gen] /\ held'[gen] = held[gen])
      BY <2>1 DEF OrderInv, TypeOK
    <3> QED  BY <2>2, <3>1, <3>2 DEF Order, OrderInv
  <2>5. PublishedInOrder' /\ Sends'
    BY <2>2 DEF PublishedInOrder, Sends, OrderInv
  <2> QED
    BY <1>1, <2>3, <2>4, <2>5 DEF OrderInv
<1>6. CASE Receive(g)
  <2>1. /\ \A h \in Generation : h # g => forwarder'[h] = forwarder[h] /\ held'[h] = held[h]
        /\ forwarder'[g] = "receives" /\ g = gen /\ forwarder[g] = "sends"
    BY <1>6 DEF Receive, OrderInv, TypeOK
  <2>2. UNCHANGED <<offered, blocked, gen, published>> /\ current' = held[g]
    BY <1>6 DEF Receive, senderVars
  <2>3. Origin' /\ Fresh' /\ Order' /\ PublishedInOrder' /\ Sends'
    BY <2>1, <2>2 DEF Origin, Gone, Fresh, Order, Newer, PublishedInOrder, Sends, OrderInv, TypeOK
  <2> QED
    BY <1>1, <2>3 DEF OrderInv
<1> QED
  BY <1>2, <1>3, <1>4, <1>5, <1>6

\* What the loop does keeps the order: it publishes what is newer, and forwards in a
\* new generation, which holds nothing yet.
LEMMA LoopKeepsOrder ==
  ASSUME OrderInv, Publish \/ ReceiveNil
  PROVE  OrderInv'
<1>1. TypeOK'
  BY LoopKeepsTypes DEF OrderInv
<1>2. ASSUME NextGeneration
      PROVE  /\ gen' = gen + 1 /\ loop' = "selects" /\ gen' \in Generation
             /\ \A g \in Generation : g # gen' => forwarder'[g] = forwarder[g]
             /\ forwarder'[gen'] = "receives" /\ Fresh'
  BY <1>2 DEF NextGeneration, OrderInv, TypeOK, Fresh
<1>3. \A i \in 1 .. Len(published) : published[i] \in Message
  BY DEF OrderInv, TypeOK
<1>4. CASE Publish
  <2>1. UNCHANGED <<offered, blocked, held>>
    BY <1>4 DEF Publish, senderVars
  <2>2. /\ loop = "publishes" /\ NextGeneration
        /\ current \in Message /\ Gone(current) /\ Newer(current)
    BY <1>4 DEF Publish, OrderInv, Origin, Order
  <2>3. /\ Len(published') = Len(published) + 1
        /\ \A i \in 1 .. Len(published) : published'[i] = published[i]
        /\ published'[Len(published) + 1] = current
        /\ Len(published) \in Nat
    BY <1>4, <2>2 DEF Publish, OrderInv, TypeOK
  <2>4. \A i \in 1 .. Len(published') : i \in 1 .. Len(published) \/ i = Len(published) + 1
    BY <2>3
  <2>5. Origin'
    BY <1>2, <2>1, <2>2, <2>3, <2>4 DEF Origin, Gone, OrderInv
  <2>6. Order'
    BY <1>2, <2>2 DEF Order
  <2>7. PublishedInOrder'
    <3> SUFFICES ASSUME NEW i \in 1 .. Len(published'), NEW j \in 1 .. Len(published'),
                        i < j, published'[i][1] = published'[j][1]
                 PROVE  published'[i][2] < published'[j][2]
      BY DEF PublishedInOrder
    <3>1. i \in 1 .. Len(published)
      BY <2>3, <2>4
    <3>2. CASE j \in 1 .. Len(published)
      BY <2>3, <3>1, <3>2 DEF PublishedInOrder, OrderInv
    <3>3. CASE j = Len(published) + 1
      BY <2>2, <2>3, <3>1, <3>3 DEF Newer
    <3> QED
      BY <2>4, <3>2, <3>3
  <2> QED
    BY <1>1, <1>2, <2>1, <2>2, <2>5, <2>6, <2>7 DEF OrderInv, Sends
<1>5. CASE ReceiveNil
  <2>1. UNCHANGED <<offered, blocked, held, current, published>>
    BY <1>5 DEF ReceiveNil, senderVars
  <2>2. CASE UNCHANGED <<gen, forwarder, loop>>
    BY <1>1, <2>1, <2>2 DEF OrderInv, Sends, Origin, Gone, Fresh, Order, Newer, PublishedInOrder
  <2>3. CASE NextGeneration
    <3>1. Origin' /\ Sends'
      BY <1>2, <2>1, <2>3 DEF Origin, Gone, Sends, OrderInv
    <3>2. Order'
      BY <1>2, <2>3 DEF Order
    <3> QED
      BY <1>1, <1>2, <2>1, <2>3, <3>1, <3>2 DEF OrderInv, PublishedInOrder
  <2> QED
    BY <1>5, <2>2, <2>3 DEF ReceiveNil
<1> QED
  BY <1>4, <1>5

-----------------------------------------------------------------------------
(* The ends.                                                               *)

\* Channels are closed and goroutines end when the agent stops only.
LEMMA QuitsKept ==
  ASSUME TypeOK, Quits, Next
  PROVE  Quits'
<1> USE DEF Step, TypeOK, Quits, senderVars, loopVars
<1>1. CASE Step(Cancel) \/ Step(CloseMsgs) \/ Step(Stop)
  BY <1>1 DEF Cancel, CloseMsgs, Stop
<1>2. CASE Step(Connect) \/ Step(Publish)
  BY <1>2 DEF Connect, Publish, NextGeneration
<1>3. CASE Step(ReceiveNil)
  BY <1>3 DEF ReceiveNil, NextGeneration
<1>4. ASSUME NEW s \in Sender, Step(Offer(s)) PROVE Quits'
  BY <1>4 DEF Offer
<1>5. ASSUME NEW s \in Sender, NEW g \in Generation, Step(Take(g, s)) PROVE Quits'
  BY <1>5 DEF Take
<1>6. ASSUME NEW g \in Generation, Step(Drop(g)) \/ Step(SeesClose(g)) PROVE Quits'
  BY <1>6 DEF Drop, SeesClose
<1>7. ASSUME NEW g \in Generation, Step(CloseMerged(g)) \/ Step(Receive(g)) PROVE Quits'
  BY <1>7 DEF CloseMerged, Receive
<1> QED
  BY <1>1, <1>2, <1>3, <1>4, <1>5, <1>6, <1>7 DEF Next

-----------------------------------------------------------------------------
(* The theorems.                                                           *)

\* The invariant is inductive.
THEOREM OrderAlways == Spec => [](OrderInv /\ Quits)
<1>1. OrderInv /\ Quits /\ [Next]_vars => (OrderInv /\ Quits)'
  <2> SUFFICES ASSUME OrderInv, Quits, [Next]_vars PROVE OrderInv' /\ Quits'
    OBVIOUS
  <2>1. CASE Next
    <3>1. OrderInv'
      BY <2>1, SendersKeepOrder, ForwardersKeepOrder, LoopKeepsOrder DEF Next, Step
    <3> QED
      BY <2>1, <3>1, QuitsKept DEF OrderInv
  <2>2. CASE UNCHANGED vars
    <3>1. TypeOK'
      BY <2>2 DEF vars, senderVars, loopVars, OrderInv, TypeOK
    <3>2. Sends' /\ Origin' /\ Fresh' /\ Order' /\ PublishedInOrder' /\ Quits'
      BY <2>2 DEF vars, OrderInv, Sends, Origin, Gone, Fresh, Order, Newer, PublishedInOrder, Quits
    <3> QED
      BY <3>1, <3>2 DEF OrderInv
  <2> QED
    BY <2>1, <2>2
<1> QED
  BY OrderAtFirst, <1>1, PTL DEF Spec

\* The state of the bridge keeps its type.
THEOREM TypeCorrect == Spec => []TypeOK
<1>1. OrderInv => TypeOK
  BY DEF OrderInv
<1> QED
  BY OrderAlways, <1>1, PTL

\* What is published of a sender is in the order in which it sent it, for any number
\* of generations that are left behind with messages of it.
THEOREM PublishesInOrder == Spec => []PublishedInOrder
<1>1. OrderInv => PublishedInOrder
  BY DEF OrderInv
<1> QED
  BY OrderAlways, <1>1, PTL

\* Neither a sender nor the loop panics before the agent stops.
THEOREM PanicsOnlyWhenDone == Spec => []PanicOnlyWhenDone
<1>1. Quits => PanicOnlyWhenDone
  BY DEF Quits, PanicOnlyWhenDone
<1> QED
  BY OrderAlways, <1>1, PTL

-----------------------------------------------------------------------------
(* Every message is in one place.                                          *)

\* Only a goroutine that forwards holds a message, which none does before the loop
\* selects, and only the loop that publishes.
Tidy ==
  /\ loop = "connects" => \A g \in Generation : forwarder[g] = "none"
  /\ \A g \in Generation : forwarder[g] # "sends" => held[g] = NoMessage
  /\ loop # "publishes" => current = NoMessage

\* No message is in two places.
HeldOnce ==
  \A g, h \in Generation :
    forwarder[g] = "sends" /\ forwarder[h] = "sends" /\ held[g] = held[h] => g = h

HeldUnpublished ==
  \A g \in Generation, i \in 1 .. Len(published) :
    forwarder[g] = "sends" => published[i] # held[g]

CurrentAlone ==
  loop = "publishes" =>
    /\ \A g \in Generation : forwarder[g] = "sends" => held[g] # current
    /\ \A i \in 1 .. Len(published) : published[i] # current

PublishedOnce ==
  \A i, j \in 1 .. Len(published) : published[i] = published[j] => i = j

Unique == HeldOnce /\ HeldUnpublished /\ CurrentAlone /\ PublishedOnce

\* A message that has gone is somewhere.
Somewhere(m) ==
  \/ \E g \in Generation : forwarder[g] = "sends" /\ held[g] = m
  \/ loop = "publishes" /\ current = m
  \/ \E i \in 1 .. Len(published) : published[i] = m

Whole == ~cancelled => \A m \in Message : Gone(m) => Somewhere(m)

PlaceInv == Tidy /\ Unique /\ Whole

\* Before anything was sent there is nothing to account for.
LEMMA InitAccounts == Init => PlaceInv
<1> SUFFICES ASSUME Init PROVE PlaceInv
  OBVIOUS
<1>1. Tidy /\ Unique
  BY DEF Init, Tidy, Unique, HeldOnce, HeldUnpublished, CurrentAlone, PublishedOnce
<1>2. Whole
  BY DEF Init, Whole, Gone, Message
<1> QED
  BY <1>1, <1>2 DEF PlaceInv

\* A step that moves no message keeps account of them.
LEMMA OthersAccount ==
  ASSUME PlaceInv,
         UNCHANGED <<held, current, published>>,
         loop' = "publishes" <=> loop = "publishes",
         loop' = "connects" => \A g \in Generation : forwarder'[g] = "none",
         \A g \in Generation : forwarder'[g] = "sends" <=> forwarder[g] = "sends",
         cancelled => cancelled',
         \A m \in Message : Gone(m)' => Gone(m)
  PROVE  PlaceInv'
<1>1. Tidy'
  BY DEF PlaceInv, Tidy
<1>2. Unique'
  BY DEF PlaceInv, Unique, HeldOnce, HeldUnpublished, CurrentAlone, PublishedOnce
<1>3. Whole'
  BY DEF PlaceInv, Whole, Somewhere
<1> QED
  BY <1>1, <1>2, <1>3 DEF PlaceInv

\* A message that is sent waits with its sender until it has gone, and the end of a
\* forwarding goroutine moves nothing.
LEMMA SendersAccount ==
  ASSUME OrderInv, PlaceInv,
         \/ Cancel \/ CloseMsgs \/ Connect \/ Stop
         \/ \E s \in Sender : Offer(s)
         \/ \E g \in Generation : SeesClose(g) \/ CloseMerged(g)
  PROVE  PlaceInv'
<1> USE DEF OrderInv, TypeOK
<1>1. ASSUME UNCHANGED senderVars PROVE \A m \in Message : Gone(m)' => Gone(m)
  BY <1>1 DEF Gone, senderVars
<1>2. CASE Cancel
  BY <1>1, <1>2, OthersAccount DEF Cancel, loopVars, PlaceInv, Tidy
<1>3. CASE CloseMsgs
  BY <1>1, <1>3, OthersAccount DEF CloseMsgs, loopVars, PlaceInv, Tidy
<1>4. CASE Connect
  <2>1. \A g \in Generation : forwarder'[g] = "sends" <=> forwarder[g] = "sends"
    <3>1. loop = "connects"
      BY <1>4 DEF Connect
    <3>2. forwarder[gen] # "sends"
      BY <3>1 DEF PlaceInv, Tidy
    <3> QED
      BY <1>4, <3>2 DEF Connect
  <2> QED
    BY <1>1, <1>4, <2>1, OthersAccount DEF Connect
<1>5. CASE Stop
  BY <1>1, <1>5, OthersAccount DEF Stop, PlaceInv, Tidy
<1>6. ASSUME NEW s \in Sender, Offer(s) PROVE PlaceInv'
  <2>1. \A m \in Message : Gone(m)' => Gone(m)
    BY <1>6 DEF Offer, Gone, Message
  <2> QED
    BY <1>6, <2>1, OthersAccount DEF Offer, loopVars, PlaceInv, Tidy
<1>7. ASSUME NEW g \in Generation, SeesClose(g) \/ CloseMerged(g) PROVE PlaceInv'
  <2>1. \A h \in Generation : forwarder'[h] = "sends" <=> forwarder[h] = "sends"
    BY <1>7 DEF SeesClose, CloseMerged
  <2> QED
    BY <1>1, <1>7, <2>1, OthersAccount DEF SeesClose, CloseMerged, loopVars, PlaceInv, Tidy
<1> QED
  BY <1>2, <1>3, <1>4, <1>5, <1>6, <1>7

\* A message moves from its sender to a forwarding goroutine, and from that to the
\* loop; when the agent stops it may be dropped.
LEMMA ForwardersAccount ==
  ASSUME OrderInv, PlaceInv, NEW g \in Generation,
         \/ \E s \in Sender : Take(g, s)
         \/ Drop(g) \/ Receive(g)
  PROVE  PlaceInv'
<1> USE DEF OrderInv, TypeOK
<1>1. ASSUME NEW s \in Sender, Take(g, s) PROVE PlaceInv'
  <2> DEFINE m == <<s, offered[s]>>
  <2>1. /\ \A h \in Generation : h # g => forwarder'[h] = forwarder[h] /\ held'[h] = held[h]
        /\ forwarder[g] = "receives" /\ forwarder'[g] = "sends" /\ held'[g] = m
    BY <1>1 DEF Take
  <2>2. UNCHANGED <<cancelled, offered, gen, loop, current, published>>
    BY <1>1 DEF Take, loopVars
  <2>3. ~Gone(m)
    BY <1>1 DEF Take, Gone
  <2>4. \A n \in Message : Gone(n)' => Gone(n) \/ n = m
    BY <1>1 DEF Take, Gone, Message
  <2> HIDE DEF m
  <2>5. Tidy'
    BY <2>1, <2>2 DEF PlaceInv, Tidy
  <2>6. Unique'
    <3>1. HeldOnce'
      <4>1. \A h \in Generation : forwarder[h] = "sends" => held[h] # m
        BY <2>3 DEF Origin
      <4> HIDE DEF OrderInv, TypeOK
      <4> QED  BY <2>1, <4>1 DEF PlaceInv, Unique, HeldOnce
    <3>2. HeldUnpublished'
      BY <2>1, <2>2, <2>3 DEF PlaceInv, Unique, Origin, HeldUnpublished, HeldOnce, CurrentAlone
    <3>3. CurrentAlone'
      BY <2>1, <2>2, <2>3 DEF PlaceInv, Unique, Origin, CurrentAlone, HeldUnpublished, HeldOnce, PublishedOnce
    <3>4. PublishedOnce'
      BY <2>1, <2>2, <2>3 DEF PlaceInv, Unique, Origin, PublishedOnce, CurrentAlone
    <3> QED
      BY <3>1, <3>2, <3>3, <3>4 DEF Unique
  <2>7. Whole'
    BY <2>1, <2>2, <2>4 DEF PlaceInv, Whole, Somewhere
  <2> QED
    BY <2>5, <2>6, <2>7 DEF PlaceInv
<1>2. CASE Drop(g)
  <2>1. /\ \A h \in Generation : h # g => forwarder'[h] = forwarder[h] /\ held'[h] = held[h]
        /\ forwarder'[g] = "returned" /\ held'[g] = NoMessage
    BY <1>2 DEF Drop
  <2>2. cancelled' /\ UNCHANGED <<gen, loop, current, published>>
    BY <1>2 DEF Drop, loopVars
  <2>3. Tidy' /\ Whole'
    <3>1. loop # "connects"
      BY <1>2 DEF Drop, PlaceInv, Tidy
    <3> QED
      BY <2>1, <2>2, <3>1 DEF PlaceInv, Tidy, Whole
  <2>4. Unique'
    <3>1. HeldOnce' /\ HeldUnpublished'
      BY <2>1, <2>2 DEF PlaceInv, Unique, HeldOnce, HeldUnpublished
    <3>2. CurrentAlone'
      BY <2>1, <2>2 DEF PlaceInv, Unique, CurrentAlone
    <3>3. PublishedOnce'
      BY <2>2 DEF PlaceInv, Unique, PublishedOnce
    <3> QED
      BY <3>1, <3>2, <3>3 DEF Unique
  <2> QED
    BY <2>3, <2>4 DEF PlaceInv
<1>3. CASE Receive(g)
  <2>1. /\ \A h \in Generation : h # g => forwarder'[h] = forwarder[h] /\ held'[h] = held[h]
        /\ forwarder[g] = "sends" /\ forwarder'[g] = "receives" /\ held'[g] = NoMessage
    BY <1>3 DEF Receive
  <2>2. /\ UNCHANGED <<cancelled, offered, blocked, published>>
        /\ loop = "selects" /\ loop' = "publishes" /\ current' = held[g]
    BY <1>3 DEF Receive, senderVars
  <2>3. Tidy'
    BY <2>1, <2>2 DEF PlaceInv, Tidy
  <2>4. Unique'
    <3>1. HeldOnce'
      BY <2>1, <2>2 DEF PlaceInv, Unique, HeldOnce
    <3>2. HeldUnpublished'
      BY <2>1, <2>2 DEF PlaceInv, Unique, HeldUnpublished, HeldOnce, CurrentAlone
    <3>3. CurrentAlone'
      BY <2>1, <2>2 DEF PlaceInv, Unique, CurrentAlone, HeldUnpublished, HeldOnce, PublishedOnce
    <3>4. PublishedOnce'
      BY <2>1, <2>2 DEF PlaceInv, Unique, PublishedOnce, CurrentAlone
    <3> QED
      BY <3>1, <3>2, <3>3, <3>4 DEF Unique
  <2>5. Whole'
    <3>1. \A m \in Message : Gone(m)' => Gone(m)
      BY <2>2 DEF Gone
    <3>2. \A m \in Message : Somewhere(m) => Somewhere(m)'
      BY <2>1, <2>2 DEF Somewhere
    <3> QED
      BY <2>2, <3>1, <3>2 DEF PlaceInv, Whole
  <2> QED
    BY <2>3, <2>4, <2>5 DEF PlaceInv
<1> QED
  BY <1>1, <1>2, <1>3

\* A message moves from the loop to those that are published.
LEMMA LoopAccounts ==
  ASSUME OrderInv, PlaceInv, Publish \/ ReceiveNil
  PROVE  PlaceInv'
<1> USE DEF OrderInv, TypeOK
<1>1. ASSUME NextGeneration
      PROVE  /\ loop' = "selects"
             /\ \A g \in Generation : forwarder'[g] = "sends" <=> forwarder[g] = "sends"
  BY <1>1 DEF NextGeneration, Fresh
<1>2. CASE Publish
  <2>1. /\ loop = "publishes" /\ current \in Message /\ current' = NoMessage /\ NextGeneration
        /\ UNCHANGED <<cancelled, offered, blocked, held>>
    BY <1>2 DEF Publish, Origin, senderVars
  <2>2. /\ Len(published') = Len(published) + 1
        /\ \A i \in 1 .. Len(published) : published'[i] = published[i]
        /\ published'[Len(published) + 1] = current
        /\ Len(published) \in Nat
    BY <1>2, <2>1 DEF Publish
  <2>3. \A i \in 1 .. Len(published') : i \in 1 .. Len(published) \/ i = Len(published) + 1
    BY <2>2
  <2>4. /\ 1 .. Len(published) \subseteq 1 .. Len(published')
        /\ Len(published) + 1 \in 1 .. Len(published')
    BY <2>2
  <2>5. Tidy'
    BY <1>1, <2>1 DEF PlaceInv, Tidy
  <2>6. Unique'
    <3>1. HeldOnce'
      BY <1>1, <2>1, <2>2, <2>3 DEF PlaceInv, Unique, HeldOnce
    <3>2. HeldUnpublished'
      BY <1>1, <2>1, <2>2, <2>3 DEF PlaceInv, Unique, HeldUnpublished, HeldOnce, CurrentAlone
    <3>3. CurrentAlone'
      BY <1>1, <2>1, <2>2, <2>3 DEF PlaceInv, Unique, CurrentAlone, HeldUnpublished, HeldOnce, PublishedOnce
    <3>4. PublishedOnce'
      <4> SUFFICES ASSUME NEW i \in 1 .. Len(published'), NEW j \in 1 .. Len(published'),
                          published'[i] = published'[j]
                   PROVE  i = j
        BY DEF PublishedOnce
      <4>1. \A k \in 1 .. Len(published) : published[k] # current
        BY <2>1 DEF PlaceInv, Unique, CurrentAlone
      <4>2. CASE i \in 1 .. Len(published) /\ j \in 1 .. Len(published)
        BY <2>2, <4>2 DEF PlaceInv, Unique, PublishedOnce
      <4>3. CASE i = Len(published) + 1
        BY <2>2, <2>3, <4>1, <4>3
      <4>4. CASE j = Len(published) + 1
        BY <2>2, <2>3, <4>1, <4>4
      <4> QED
        BY <2>3, <4>2, <4>3, <4>4
    <3> QED
      BY <3>1, <3>2, <3>3, <3>4 DEF Unique
  <2>7. Whole'
    BY <1>1, <2>1, <2>2, <2>4 DEF PlaceInv, Whole, Somewhere, Gone
  <2> QED
    BY <2>5, <2>6, <2>7 DEF PlaceInv
<1>3. CASE ReceiveNil
  <2>1. /\ UNCHANGED <<cancelled, offered, blocked, held, current, published>>
        /\ loop = "selects" /\ loop' = "selects"
        /\ \A g \in Generation : forwarder'[g] = "sends" <=> forwarder[g] = "sends"
    BY <1>1, <1>3 DEF ReceiveNil, senderVars
  <2>2. \A m \in Message : Gone(m)' => Gone(m)
    BY <2>1 DEF Gone
  <2> QED
    BY <2>1, <2>2, OthersAccount
<1> QED
  BY <1>2, <1>3

\* One place per message is what Accounted says.
LEMMA OnePlace == OrderInv /\ PlaceInv => Accounted
<1> SUFFICES ASSUME OrderInv, PlaceInv, NEW m \in Message
             PROVE  /\ \A p, q \in Places(m) : p = q
                    /\ Places(m) # {} => m \in Sent
                    /\ m \in Sent /\ ~cancelled => Places(m) # {}
  BY DEF Accounted
<1> USE DEF OrderInv, TypeOK
<1>1. m # NoMessage
  BY DEF Message, NoMessage
<1>2. ASSUME NEW p \in Places(m)
      PROVE  \/ \E i \in 1 .. Len(published) : p = <<"published", i>> /\ published[i] = m
             \/ \E g \in Generation : p = <<"held", g>> /\ held[g] = m /\ forwarder[g] = "sends"
             \/ p = <<"current", 0>> /\ current = m /\ loop = "publishes"
  BY <1>1 DEF Places, PlaceInv, Tidy
<1>3. m \in Sent <=> Gone(m)
  BY DEF Sent, Gone, Message
<1>4. \A p, q \in Places(m) : p = q
  BY <1>2 DEF PlaceInv, Unique, HeldOnce, HeldUnpublished, CurrentAlone, PublishedOnce
<1>5. Places(m) # {} => m \in Sent
  BY <1>2, <1>3 DEF Origin
<1>6. Somewhere(m) => Places(m) # {}
  <2>1. ASSUME NEW g \in Generation, held[g] = m PROVE <<"held", g>> \in Places(m)
    BY <2>1 DEF Places
  <2>2. ASSUME NEW i \in 1 .. Len(published), published[i] = m
        PROVE  <<"published", i>> \in Places(m)
    BY <2>2 DEF Places
  <2>3. current = m => <<"current", 0>> \in Places(m)
    BY DEF Places
  <2> QED
    BY <2>1, <2>2, <2>3 DEF Somewhere
<1> QED
  BY <1>3, <1>4, <1>5, <1>6 DEF PlaceInv, Whole

\* No message is duplicated, and none is lost before the agent stops.
THEOREM AccountsForAll == Spec => []Accounted
<1>1. OrderInv /\ PlaceInv /\ [Next]_vars => PlaceInv'
  <2> SUFFICES ASSUME OrderInv, PlaceInv, [Next]_vars PROVE PlaceInv'
    OBVIOUS
  <2>1. CASE Next
    BY <2>1, SendersAccount, ForwardersAccount, LoopAccounts DEF Next, Step
  <2>2. CASE UNCHANGED vars
    BY <2>2, OthersAccount DEF vars, Gone, PlaceInv, Tidy
  <2> QED
    BY <2>1, <2>2
<1> QED
  BY OrderAlways, InitAccounts, <1>1, OnePlace, PTL DEF Spec

-----------------------------------------------------------------------------
(* AudioControl.                                                           *)
(*                                                                         *)
(* VolumeIsCurrent speaks of the goroutine when it waits.  To get there it *)
(* has gone through both entities, and the invariant follows it: while no  *)
(* event is due and EventCh is empty, what it has read is current, and so  *)
(* is what was sent of the entities it has behind it.  Whatever makes that *)
(* untrue, a new version, makes an event due, and an event that is told    *)
(* leaves a token in EventCh.                                              *)

\* The goroutine has the entity behind it.
Behind(e) ==
  \/ audio = "waits"
  \/ e = "mute" /\ entity = "volume" /\ audio \in {"reads", "sends"}

\* Nothing says that there is a new version.
Quiet == ~ctxDone /\ due = 0 /\ ~switched /\ eventCh = "empty"

\* An event is due for a change that was made, nothing knows a version that is not
\* there yet, the loop waits between two rounds, and channels are closed at the end.
Bounds ==
  /\ due <= sink
  /\ audio = "sends" => read <= sink
  /\ command.at = "sends" => command.read <= sink
  /\ \A e \in Entity : told[e] <= sink
  /\ audio = "waits" => entity = "mute"
  /\ doneCh => ctxDone
  /\ eventCh = "closed" => doneCh

Current ==
  Quiet =>
    /\ audio = "sends" => read = sink
    /\ \A e \in Entity \ stale : Behind(e) => told[e] = sink

AudioInv == AudioTypeOK /\ Bounds /\ Current

USE MaxVersionAssumption DEF MaxVersionAssumption

\* The goroutine starts with all before it.
LEMMA AudioAtFirst == AudioInit => AudioInv
<1> SUFFICES ASSUME AudioInit PROVE AudioInv
  OBVIOUS
<1>1. AudioTypeOK
  <2>1. 0 \in Version0 /\ audio \in {"reads", "off"}
    BY DEF AudioInit, Version0
  <2>2. command \in [at : {"none", "reads", "sends"}, entity : Entity, read : Version0]
    BY <2>1 DEF AudioInit, NoCommand, Entity
  <2>3. told \in [Entity -> Version0] /\ stale \subseteq Entity
    BY <2>1 DEF AudioInit
  <2> QED
    BY <2>1, <2>2, <2>3 DEF AudioInit, AudioTypeOK, Entity
<1>2. Bounds
  BY DEF AudioInit, Bounds, NoCommand, Entity
<1>3. Current
  BY DEF AudioInit, Current, Quiet, Behind, Entity
<1> QED
  BY <1>1, <1>2, <1>3 DEF AudioInv

\* What PulseAudio, its client and the agent do: a new version makes an event due, and
\* an event leaves a token.
LEMMA OutsideKeeps ==
  ASSUME AudioInv,
         \/ SinkChanges \/ DefaultSwitches \/ Callback
         \/ ContextDone \/ ClientDone \/ CloseMessages
  PROVE  AudioInv'
<1> USE DEF AudioInv, loopAudio, toldVars, pulseVars
<1>1. CASE SinkChanges
  <2>1. AudioTypeOK'
    <3>1. sink' \in Version0 /\ due' \in Version0
      BY <1>1 DEF SinkChanges, NewVersion, AudioTypeOK, Bounds, Version0
    <3>2. switched' \in BOOLEAN
      BY <1>1 DEF SinkChanges, NewVersion
    <3> QED
      BY <1>1, <3>1, <3>2 DEF SinkChanges, AudioTypeOK
  <2>2. Bounds'
    BY <1>1 DEF SinkChanges, NewVersion, AudioTypeOK, Bounds, Version0, Entity
  <2>3. Current'
    BY <1>1 DEF SinkChanges, NewVersion, AudioTypeOK, Current, Quiet, Version0
  <2> QED
    BY <2>1, <2>2, <2>3
<1>2. CASE Callback
  <2>1. AudioTypeOK'
    <3>1. due' \in Version0 /\ eventCh' \in {"empty", "full", "closed"}
      BY <1>2 DEF Callback, AudioTypeOK, Version0
    <3>2. panicked' \in BOOLEAN
      BY <1>2 DEF Callback, AudioTypeOK
    <3> QED
      BY <1>2, <3>1, <3>2 DEF Callback, AudioTypeOK
  <2>2. Bounds'
    BY <1>2 DEF Callback, AudioTypeOK, Bounds, Version0, Entity
  <2>3. Current'
    BY <1>2 DEF Callback, AudioTypeOK, Bounds, Current, Quiet
  <2> QED
    BY <2>1, <2>2, <2>3
<1>3. CASE ContextDone
  BY <1>3 DEF ContextDone, AudioTypeOK, Bounds, Current, Quiet
<1>4. CASE ClientDone
  <2>1. AudioTypeOK'
    <3>1. connected' \in BOOLEAN /\ doneCh' \in BOOLEAN
      BY <1>4 DEF ClientDone, AudioTypeOK
    <3> QED
      BY <1>4, <3>1 DEF ClientDone, AudioTypeOK
  <2>2. Bounds'
    BY <1>4 DEF ClientDone, Bounds
  <2>3. Current'
    BY <1>4 DEF ClientDone, Current, Quiet, Behind
  <2> QED
    BY <2>1, <2>2, <2>3
<1>5. CASE CloseMessages
  BY <1>5 DEF CloseMessages, AudioTypeOK, Bounds, Current, Quiet
<1>6. CASE DefaultSwitches
  <2>1. AudioTypeOK'
    BY <1>6 DEF DefaultSwitches, AudioTypeOK, Version0
  <2>2. Bounds'
    BY <1>6 DEF DefaultSwitches, AudioTypeOK, Bounds, Version0
  <2>3. Current'
    BY <1>6 DEF DefaultSwitches, Current, Quiet
  <2> QED
    BY <2>1, <2>2, <2>3
<1> QED
  BY <1>1, <1>2, <1>3, <1>4, <1>5, <1>6

\* What the goroutine does: it gets behind an entity by sending what it read of it, or
\* by failing to.
LEMMA LoopKeeps ==
  ASSUME AudioInv,
         ReadState \/ ReadStateFails \/ SendState \/ Token \/ LoopReturns
  PROVE  AudioInv'
<1> USE DEF AudioInv, pulseVars, toldVars
<1>1. CASE ReadState
  BY <1>1 DEF ReadState, AudioTypeOK, Bounds, Current, Quiet, Behind, Version0
<1>2. CASE ReadStateFails
  <2>1. AudioTypeOK'
    BY <1>2 DEF ReadStateFails, GoesOn, AudioTypeOK, Entity
  <2>2. Bounds'
    BY <1>2 DEF ReadStateFails, GoesOn, AudioTypeOK, Bounds, Entity
  <2>3. Current'
    BY <1>2 DEF ReadStateFails, GoesOn, AudioTypeOK, Current, Quiet, Behind, Entity
  <2> QED
    BY <2>1, <2>2, <2>3
<1>3. CASE SendState
  <2>1. AudioTypeOK'
    BY <1>3 DEF SendState, GoesOn, AudioTypeOK, Entity
  <2>2. Bounds'
    BY <1>3 DEF SendState, GoesOn, AudioTypeOK, Bounds, Entity
  <2>3. Current'
    BY <1>3 DEF SendState, GoesOn, AudioTypeOK, Current, Quiet, Behind, Entity
  <2> QED
    BY <2>1, <2>2, <2>3
<1>4. CASE Token
  BY <1>4 DEF Token, AudioTypeOK, Bounds, Current, Quiet, Behind
<1>5. CASE LoopReturns
  BY <1>5 DEF LoopReturns, AudioTypeOK, Bounds, Current, Quiet, Behind
<1> QED
  BY <1>1, <1>2, <1>3, <1>4, <1>5

\* What a command does: its version makes an event due like any other, and of a
\* current one its goroutine has either this or an older version.
LEMMA CommandKeeps ==
  ASSUME AudioInv,
         (\E e \in Entity : Command(e)) \/ CommandReads \/ CommandSends
  PROVE  AudioInv'
<1> USE DEF AudioInv, loopAudio, toldVars, pulseVars
<1>1. ASSUME NEW e \in Entity, Command(e) PROVE AudioInv'
  <2>1. AudioTypeOK'
    <3>1. sink' \in Version0 /\ due' \in Version0
      BY <1>1 DEF Command, SetState, NewVersion, AudioTypeOK, Bounds, Version0
    <3>2. switched' \in BOOLEAN
      BY <1>1, Zenon DEF Command, SetState, NewVersion, AudioTypeOK
    <3>3. command' \in [at : {"none", "reads", "sends"}, entity : Entity, read : Version0]
      BY <1>1 DEF Command, AudioTypeOK, Version0
    <3> QED
      BY <1>1, <3>1, <3>2, <3>3 DEF Command, AudioTypeOK
  <2>2. Bounds'
    <3>1. command'.at # "sends"
      BY <1>1 DEF Command, AudioTypeOK
    <3> QED
      BY <1>1, <3>1 DEF Command, SetState, NewVersion, AudioTypeOK, Bounds, Version0
  <2>3. Current'
    <3>1. CASE NewVersion
      BY <1>1, <3>1 DEF Command, NewVersion, AudioTypeOK, Current, Quiet, Version0
    <3>2. CASE UNCHANGED <<sink, due, switched>>
      BY <1>1, <3>2 DEF Command, Current, Quiet, Behind
    <3> QED
      BY <1>1, <3>1, <3>2 DEF Command, SetState
  <2> QED
    BY <2>1, <2>2, <2>3
<1>2. CASE CommandReads
  <2>1. AudioTypeOK'
    <3>1. command' \in [at : {"none", "reads", "sends"}, entity : Entity, read : Version0]
      BY <1>2 DEF CommandReads, NoCommand, AudioTypeOK, Version0, Entity
    <3>2. panicked' \in BOOLEAN
      BY <1>2 DEF CommandReads, AudioTypeOK
    <3> QED
      BY <1>2, <3>1, <3>2 DEF CommandReads, AudioTypeOK
  <2>2. Bounds'
    <3>1. command'.at = "sends" => command'.read <= sink
      BY <1>2 DEF CommandReads, NoCommand, AudioTypeOK, Version0, Entity
    <3> QED
      BY <1>2, <3>1 DEF CommandReads, Bounds
  <2>3. Current'
    BY <1>2 DEF CommandReads, AudioTypeOK, Current, Quiet, Behind
  <2> QED
    BY <2>1, <2>2, <2>3
<1>3. CASE CommandSends
  <2>1. AudioTypeOK'
    <3>1. command' \in [at : {"none", "reads", "sends"}, entity : Entity, read : Version0]
      BY <1>3 DEF CommandSends, NoCommand, AudioTypeOK, Version0, Entity
    <3>2. told' \in [Entity -> Version0] /\ stale' \subseteq Entity
      BY <1>3 DEF CommandSends, AudioTypeOK
    <3> QED
      BY <1>3, <3>1, <3>2 DEF CommandSends, AudioTypeOK
  <2>2. Bounds'
    <3>1. command'.at = "none"
      BY <1>3 DEF CommandSends, NoCommand
    <3>2. \A e \in Entity : told'[e] <= sink
      BY <1>3 DEF CommandSends, AudioTypeOK, Bounds
    <3> QED
      BY <1>3, <3>1, <3>2 DEF CommandSends, Bounds
  <2>3. Current'
    <3>1. command.entity \in Entity /\ command.read <= sink /\ command.read \in Nat /\ sink \in Nat
      BY <1>3 DEF CommandSends, AudioTypeOK, Bounds, Version0
    <3>2. \A e \in Entity : told[e] \in Nat
      BY DEF AudioTypeOK, Version0
    <3>3. command.entity \notin stale' => told[command.entity] <= command.read
      BY <1>3, <3>1, <3>2 DEF CommandSends
    <3>4. \A e \in Entity : told'[e] = IF e = command.entity THEN command.read ELSE told[e]
      BY <1>3 DEF CommandSends, AudioTypeOK
    <3>5. stale \subseteq stale' /\ UNCHANGED <<sink, read, audio, entity, ctxDone, due, switched, eventCh>>
      BY <1>3 DEF CommandSends
    <3> QED
      BY <3>1, <3>2, <3>3, <3>4, <3>5 DEF Current, Quiet, Behind
  <2> QED
    BY <2>1, <2>2, <2>3
<1> QED
  BY <1>1, <1>2, <1>3

\* The invariant is inductive.
THEOREM AudioAlways == AudioSpec => []AudioInv
<1>1. AudioInv /\ [AudioNext]_audioVars => AudioInv'
  <2> SUFFICES ASSUME AudioInv, [AudioNext]_audioVars PROVE AudioInv'
    OBVIOUS
  <2>1. CASE AudioNext
    BY <2>1, OutsideKeeps, LoopKeeps, CommandKeeps DEF AudioNext
  <2>2. CASE UNCHANGED audioVars
    BY <2>2 DEF audioVars, pulseVars, loopAudio, toldVars, AudioInv, AudioTypeOK, Bounds,
                Current, Quiet, Behind
  <2> QED
    BY <2>1, <2>2
<1> QED
  BY AudioAtFirst, <1>1, PTL DEF AudioSpec

\* The state of the client and its goroutines keeps its type.
THEOREM AudioTypeCorrect == AudioSpec => []AudioTypeOK
<1>1. AudioInv => AudioTypeOK
  BY DEF AudioInv
<1> QED
  BY AudioAlways, <1>1, PTL

\* When PulseAudio has told of all changes and the goroutine waits, the versions that
\* were sent last are the sink's, but for the entities VolumeIsCurrent excepts: the
\* room for one token in EventCh loses no change.
THEOREM LosesNoChange == AudioSpec => []VolumeIsCurrent
<1>1. AudioInv => VolumeIsCurrent
  BY DEF AudioInv, Current, Quiet, Behind, VolumeIsCurrent
<1> QED
  BY AudioAlways, <1>1, PTL

-----------------------------------------------------------------------------
(* MQTTControls.                                                           *)

\* The bounds can be counted up to.
LEMMA ControlsBounds ==
  /\ MaxEdits \in Nat /\ MaxStarts \in Nat
  /\ \A n \in Nat : 0 \in 0 .. n /\ \A k \in 0 .. n : k < n => k + 1 \in 0 .. n
<1>1. MaxEdits \in Nat /\ MaxStarts \in Nat
  BY ControlsAssumption DEF ControlsAssumption
<1> QED
  BY <1>1

\* There are surroundings to choose.
LEMMA NoSetupIsSetup == NoSetup \in Setup
BY ControlsAssumption DEF ControlsAssumption, NoSetup, Setup

\* One step per action.
LEMMA ControlsTypeStep == ControlsTypeOK /\ [ControlsNext]_controlsVars => ControlsTypeOK'
<1> SUFFICES ASSUME ControlsTypeOK, [ControlsNext]_controlsVars PROVE ControlsTypeOK'
  OBVIOUS
<1> USE NoSetupIsSetup DEF ControlsTypeOK
<1>1. ASSUME NEW f \in CommandsFile, EditCommands(f) PROVE ControlsTypeOK'
  BY <1>1, ControlsBounds DEF EditCommands
<1>2. ASSUME NEW enabled \in BOOLEAN, SaveMQTTPreferences(enabled) PROVE ControlsTypeOK'
  BY <1>2 DEF SaveMQTTPreferences
<1>3. ASSUME NEW enabled \in BOOLEAN, ResetPreferences(enabled) PROVE ControlsTypeOK'
  BY <1>3 DEF ResetPreferences
<1>4. ASSUME NEW s \in Surroundings, SetupControllers(s) PROVE ControlsTypeOK'
  <2>1. [file |-> commandsFile, found |-> s] \in Setup
    BY DEF Setup
  <2>2. starts' \in 0 .. MaxStarts
    BY <1>4, ControlsBounds DEF SetupControllers
  <2> QED
    BY <1>4, <2>1, <2>2 DEF SetupControllers
<1>5. ASSUME NEW s \in Surroundings, ResetMQTTControllers(s) PROVE ControlsTypeOK'
  <2>1. [file |-> commandsFile, found |-> s] \in Setup
    BY DEF Setup
  <2>2. starts' \in 0 .. MaxStarts
    BY <1>5, ControlsBounds DEF ResetMQTTControllers
  <2> QED
    BY <1>5, <2>1, <2>2 DEF ResetMQTTControllers
<1>6. CASE RunMQTTWorkers
  BY <1>6 DEF RunMQTTWorkers
<1>7. CASE CouldNotConnect
  BY <1>7 DEF CouldNotConnect
<1>8. CASE AgentEnds
  BY <1>8 DEF AgentEnds
<1>9. ASSUME NEW e \in subscribed, NEW payload \in Payload, UseControl(e, payload) PROVE ControlsTypeOK'
  BY <1>9 DEF UseControl
<1>10. CASE Unpublish
  BY <1>10 DEF Unpublish
<1>11. ASSUME NEW some, CouldNotRemove(some) PROVE ControlsTypeOK'
  BY <1>11 DEF CouldNotRemove
<1>12. CASE UNCHANGED controlsVars
  BY <1>12 DEF controlsVars
<1> QED
  BY <1>1, <1>2, <1>3, <1>4, <1>5, <1>6, <1>7, <1>8, <1>9, <1>10, <1>11, <1>12 DEF ControlsNext

\* The process, its setup and what the broker keeps have their types.
THEOREM ControlsTypeCorrect == ControlsSpec => []ControlsTypeOK
<1>1. ControlsInit => ControlsTypeOK
  BY NoSetupIsSetup, ControlsBounds DEF ControlsInit, ControlsTypeOK
<1> QED
  BY <1>1, ControlsTypeStep, PTL DEF ControlsSpec

\* A connected agent has published its setup, and subscribed to what it subscribes to.
Connected ==
  process = "listens" =>
    /\ setup \in known
    /\ Configs(setup) \subseteq retained
    /\ subscribed = Subscriptions(setup)

\* Only a connected agent has subscriptions.
Disconnected == process # "listens" => subscribed = {}

ControlsInv == Connected /\ Disconnected /\ OwnCommand /\ ResetUnregisters

\* Each subscription of a setup executes the command of the entity's own name: the
\* closures of the commands do not share a variable.
LEMMA SubscriptionsAreOwn ==
  ASSUME NEW u, NEW e \in Subscriptions(u)
  PROVE  e.callback = e.id
<1>1. CASE e \in OSSubscriptions(u)
  <2>1. e \in NewOSController(u.found) /\ e.list \notin {"sensors", "cameras"}
    BY <1>1 DEF OSSubscriptions
  <2>2. \A ids, list : \A o \in Own(ids, list) : o.callback = o.id
    BY DEF Own, Control
  <2>3. ASSUME NEW o \in MediaEntities(u.found) PROVE o.list = "sensors"
    <3>1. o = [id |-> "Media State", list |-> "sensors", callback |-> Nobody]
      BY DEF MediaEntities, Control
    <3> QED
      BY <3>1
  <2>4. ASSUME NEW o \in NewCameraControl PROVE o.callback = o.id \/ o.list \in {"sensors", "cameras"}
    <3>1. \/ o \in Own({"Start Webcam", "Stop Webcam"}, "buttons")
          \/ o = [id |-> "Webcam", list |-> "cameras", callback |-> Nobody]
          \/ o = [id |-> "Webcam Status", list |-> "sensors", callback |-> Nobody]
      BY DEF NewCameraControl, Control
    <3>2. CASE o \in Own({"Start Webcam", "Stop Webcam"}, "buttons")
      BY <2>2, <3>2
    <3>3. CASE o = [id |-> "Webcam", list |-> "cameras", callback |-> Nobody]
      BY <3>3
    <3>4. CASE o = [id |-> "Webcam Status", list |-> "sensors", callback |-> Nobody]
      BY <3>4
    <3> QED
      BY <3>1, <3>2, <3>3, <3>4
  <2>5. ASSUME NEW o \in NewPowerControl(u.found) PROVE o.callback = o.id
    BY <2>2 DEF NewPowerControl
  <2>6. ASSUME NEW o \in NewScreenLockControl(u.found) PROVE o.callback = o.id
    BY <2>2 DEF NewScreenLockControl
  <2>7. ASSUME NEW o \in VolumeEntities(u.found) PROVE o.callback = o.id
    BY <2>2 DEF VolumeEntities
  <2>8. ASSUME NEW o \in NewDBusCommandSubscription(u.found) PROVE o.callback = o.id
    BY <2>2 DEF NewDBusCommandSubscription
  <2> QED
    BY <2>1, <2>3, <2>4, <2>5, <2>6, <2>7, <2>8 DEF NewOSController
<1>2. CASE e \in CommandSubscriptions(u)
  <2>1. \A tables, list : \A c \in Generate(tables, list) : c.callback = c.id
    BY DEF Generate, Control, ExecutedBy
  <2>2. \A tables : \A c \in GenerateNumbers(tables) : c.callback = c.id
    BY DEF GenerateNumbers, Control, ExecutedBy
  <2>3. \A c \in NewCommandsController(u.file) : c.callback = c.id
    BY <2>1, <2>2 DEF NewCommandsController, GenerateButtons, GenerateSwitches
  <2> QED
    BY <1>2, <2>3 DEF CommandSubscriptions
<1> QED
  BY <1>1, <1>2 DEF Subscriptions

\* Each control that a setup configures is one it subscribes to: the lists in the
\* controllers' Subscriptions and Configs agree.
LEMMA ConfigsAreSubscribed ==
  ASSUME NEW u, NEW c \in Configs(u)
  PROVE  c.list \in {"sensors", "cameras"} \/ c \in Ids(Subscriptions(u))
<1>1. CASE c \in OSConfigs(u)
  BY <1>1 DEF OSConfigs, Ids, Subscriptions, OSSubscriptions
<1>2. CASE c \in CommandConfigs(u)
  BY <1>2 DEF CommandConfigs, Ids, Subscriptions, CommandSubscriptions
<1> QED
  BY <1>1, <1>2 DEF Configs

\* Nothing is published or subscribed at first.
LEMMA ControlsStart == ControlsInit => ControlsInv
BY DEF ControlsInit, ControlsInv, Connected, Disconnected, OwnCommand, ResetUnregisters

\* One step per action: publishing adds to both sides, a reset takes from both.
LEMMA ControlsStep == ControlsInv /\ [ControlsNext]_controlsVars => ControlsInv'
<1> SUFFICES ASSUME ControlsInv, [ControlsNext]_controlsVars PROVE ControlsInv'
  OBVIOUS
<1> USE DEF ControlsInv, Connected, Disconnected, OwnCommand, ResetUnregisters
<1>1. ASSUME NEW f \in CommandsFile, EditCommands(f) PROVE ControlsInv'
  BY <1>1 DEF EditCommands
<1>2. ASSUME NEW enabled \in BOOLEAN, SaveMQTTPreferences(enabled) PROVE ControlsInv'
  BY <1>2 DEF SaveMQTTPreferences
<1>3. ASSUME NEW enabled \in BOOLEAN, ResetPreferences(enabled) PROVE ControlsInv'
  BY <1>3 DEF ResetPreferences
<1>4. ASSUME NEW s \in Surroundings, SetupControllers(s) PROVE ControlsInv'
  BY <1>4 DEF SetupControllers
<1>5. ASSUME NEW s \in Surroundings, ResetMQTTControllers(s) PROVE ControlsInv'
  BY <1>5 DEF ResetMQTTControllers
<1>6. CASE RunMQTTWorkers
  BY <1>6 DEF RunMQTTWorkers
<1>7. CASE CouldNotConnect
  BY <1>7 DEF CouldNotConnect
<1>8. CASE AgentEnds
  BY <1>8 DEF AgentEnds
<1>9. ASSUME NEW e \in subscribed, NEW payload \in Payload, UseControl(e, payload) PROVE ControlsInv'
  <2>1. e.callback = e.id
    BY <1>9, SubscriptionsAreOwn DEF UseControl
  <2> QED
    BY <1>9, <2>1 DEF UseControl
<1>10. CASE Unpublish
  BY <1>10 DEF Unpublish
<1>11. ASSUME NEW some, CouldNotRemove(some) PROVE ControlsInv'
  BY <1>11 DEF CouldNotRemove
<1>12. CASE UNCHANGED controlsVars
  BY <1>12 DEF controlsVars
<1> QED
  BY <1>1, <1>2, <1>3, <1>4, <1>5, <1>6, <1>7, <1>8, <1>9, <1>10, <1>11, <1>12 DEF ControlsNext

\* What a connected agent offers is shown and answered, by its own command, and what is
\* shown was published under a setup that no reset has taken back, for any files, desktops,
\* edits and numbers of runs.
THEOREM BrokerIsRight == ControlsSpec => []BrokerAgrees
<1>1. ControlsInv => BrokerAgrees
  <2> SUFFICES ASSUME ControlsInv PROVE ControlsAnswer
    BY DEF ControlsInv, BrokerAgrees
  <2> SUFFICES ASSUME process = "listens", NEW c \in retained
               PROVE  \/ c.list \in {"sensors", "cameras"} \/ c \in Ids(subscribed)
                      \/ \E u \in known \ {setup} : c \in Configs(u)
    BY DEF ControlsAnswer, ControlsInv, Connected
  <2>1. PICK u \in known : c \in Configs(u)
    BY DEF ControlsInv, ResetUnregisters
  <2>2. CASE u = setup
    BY <2>1, <2>2, ConfigsAreSubscribed DEF ControlsInv, Connected
  <2> QED
    BY <2>1, <2>2
<1> QED
  BY ControlsStart, ControlsStep, <1>1, PTL DEF ControlsSpec
=============================================================================
