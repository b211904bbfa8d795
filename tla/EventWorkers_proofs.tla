------------------------ MODULE EventWorkers_proofs ------------------------
(***************************************************************************)
(* What holds of every worker on D-Bus signals, for any number of changes, *)
(* signals and goroutines.                                                 *)
(***************************************************************************)
EXTENDS EventWorkers, SequenceTheorems, TLAPS

\* The loop and the goroutine of the first update are reporters, and not the same.
LEMMA Reporters == Loop \in Reporter /\ First \in Reporter /\ Loop # First
BY BoundsAssumption DEF Loop, First, Reporter

\* Initially all variables have their types.
LEMMA InitTypeOK == Init => TypeOK
<1> SUFFICES ASSUME Init PROVE TypeOK
  OBVIOUS
<1> USE BoundsAssumption, Reporters DEF Init, Version
<1>1. bus \in Seq(Signal)
  OBVIOUS
<1>2. held \in {NoSignal} \cup [ours : {TRUE}, version : Version]
  OBVIOUS
<1>3. pc \in [Reporter -> {"idle", "reads", "stores", "sends", "done"}]
  OBVIOUS
<1>4. got \in [Reporter -> Version]
  OBVIOUS
<1>5. item \in [by : Reporter, version : Version]
  BY DEF NoItem
<1>6. truth \in Version /\ foreign \in 0 .. MaxForeign /\ shared \in Version /\ alike \in Version
      /\ heard \in Version
  OBVIOUS
<1>7. style \in Worker /\ receiver \in {"receives", "holds", "gone"}
  OBVIOUS
<1>8. /\ cancelled \in BOOLEAN /\ crashed \in BOOLEAN
      /\ registered \in BOOLEAN /\ open \in BOOLEAN /\ raced \in BOOLEAN
  OBVIOUS
<1> HIDE DEF Init, Version
<1> QED
  BY <1>1, <1>2, <1>3, <1>4, <1>5, <1>6, <1>7, <1>8 DEF TypeOK

\* A reporter that starts keeps the types of the reporters' variables.
LEMMA StartsTypeOK ==
  ASSUME TypeOK, NEW r \in Reporter, NEW v \in Version, Starts(r, v)
  PROVE  /\ pc' \in [Reporter -> {"idle", "reads", "stores", "sends", "done"}]
         /\ got' \in [Reporter -> Version]
         /\ shared' \in Version /\ alike' \in Version
         /\ raced' \in BOOLEAN
BY BoundsAssumption DEF TypeOK, Starts, Version, sensorVars

\* Every step keeps the types.
LEMMA NextTypeOK == TypeOK /\ [Next]_vars => TypeOK'
<1> SUFFICES ASSUME TypeOK, [Next]_vars PROVE TypeOK'
  OBVIOUS
<1>n. 0 \in Version /\ MaxChanges \in Version /\ Version \subseteq Nat /\ MaxForeign \in Nat
  BY BoundsAssumption DEF Version
<1>h. held \in Signal /\ held.version \in Version
  <2>1. CASE held = NoSignal
    BY <2>1, <1>n DEF NoSignal, Signal
  <2>2. CASE held \in [ours : {TRUE}, version : Version]
    BY <2>2 DEF Signal
  <2> QED  BY <2>1, <2>2 DEF TypeOK
<1>i. NoItem \in [by : Reporter, version : Version]
  BY Reporters, <1>n DEF NoItem
<1> USE <1>n, Reporters DEF TypeOK, sensorVars
<1>1. CASE Change
  <2>1. truth' \in Version
    BY <1>1, BoundsAssumption DEF Change, Version
  <2>2. bus' \in Seq(Signal)
    <3>1. [ours |-> TRUE, version |-> truth'] \in Signal
      BY <2>1 DEF Signal
    <3> QED  BY <1>1, <3>1 DEF Change
  <2> QED  BY <1>1, <2>1, <2>2 DEF Change, reportVars, receiverVars
<1>2. CASE ForeignSignal
  <2>1. bus' \in Seq(Signal)
    <3>1. [ours |-> FALSE, version |-> MaxChanges] \in Signal
      BY DEF Signal
    <3> QED  BY <1>2, <3>1 DEF ForeignSignal
  <2>2. foreign' \in 0 .. MaxForeign
    BY <1>2 DEF ForeignSignal
  <2> QED  BY <1>2, <2>1, <2>2 DEF ForeignSignal, reportVars, receiverVars
<1>3. ASSUME NEW i \in 1 .. MaxChanges + MaxForeign, Deliver(i) PROVE TypeOK'
  <2>1. i \in 1 .. Len(bus) /\ bus[i] \in Signal
    BY <1>3 DEF Deliver
  <2>2. bus' \in Seq(Signal)
    <3>1. SubSeq(bus, 1, i - 1) \in Seq(Signal)
      BY <2>1
    <3>2. SubSeq(bus, i + 1, Len(bus)) \in Seq(Signal)
      BY <2>1
    <3> QED  BY <1>3, <3>1, <3>2 DEF Deliver
  <2>3. held' \in {NoSignal} \cup [ours : {TRUE}, version : Version]
    BY <1>3, <2>1 DEF Deliver, Signal
  <2>4. raced' \in BOOLEAN /\ crashed' \in BOOLEAN
    BY <1>3 DEF Deliver
  <2> QED  BY <1>3, <2>2, <2>3, <2>4 DEF Deliver, receiverVars
<1>4. CASE CloseTriggers
  BY <1>4 DEF CloseTriggers, reportVars, receiverVars
<1>5. CASE Deregister
  <2>1. bus' = <<>> /\ registered' = FALSE
    BY <1>5 DEF Deregister
  <2>2. <<>> \in Seq(Signal)
    OBVIOUS
  <2>3. bus' \in Seq(Signal)
    BY <2>1, <2>2
  <2> QED  BY <1>5, <2>1, <2>3 DEF Deregister, reportVars, receiverVars
<1>6. CASE Trigger
  <2>1. CASE style.hears
    <3>1. PICK r \in Reporter : Starts(r, held.version)
      BY <1>6, <2>1 DEF Trigger
    <3> QED  BY <1>6, <1>h, <3>1, StartsTypeOK DEF Trigger, receiverVars
  <2>2. CASE ~style.hears
    BY <1>6, <2>2 DEF Trigger, reportVars, receiverVars
  <2> QED  BY <2>1, <2>2
<1>7. CASE EmptyTrigger
  <2>1. CASE UNCHANGED crashed /\ \E r \in Reporter : Starts(r, 0)
    <3>1. PICK r \in Reporter : Starts(r, 0)
      BY <2>1
    <3> QED  BY <1>7, <2>1, <3>1, StartsTypeOK DEF EmptyTrigger, watchVars, receiverVars
  <2>2. CASE crashed' = TRUE /\ UNCHANGED reportVars
    BY <1>7, <2>2 DEF EmptyTrigger, watchVars, reportVars, receiverVars
  <2> QED  BY <1>7, <2>1, <2>2 DEF EmptyTrigger
<1>8. CASE Leave
  BY <1>8 DEF Leave, watchVars, receiverVars
<1>9. ASSUME NEW r \in Reporter, Read(r) PROVE TypeOK'
  <2>1. crashed' \in BOOLEAN
    BY <1>9 DEF Read, Closed
  <2>2. pc' \in [Reporter -> {"idle", "reads", "stores", "sends", "done"}] /\ got' \in [Reporter -> Version]
    BY <1>9 DEF Read
  <2> QED  BY <1>9, <2>1, <2>2 DEF Read, watchVars, receiverVars
<1>10. ASSUME NEW r \in Reporter, ReadFails(r) PROVE TypeOK'
  <2>1. raced' \in BOOLEAN
    BY <1>10 DEF ReadFails
  <2> QED  BY <1>10, <2>1 DEF ReadFails, Finishes, watchVars, receiverVars
<1>11. ASSUME NEW r \in Reporter, Store(r) PROVE TypeOK'
  <2>1. crashed' \in BOOLEAN
    BY <1>11 DEF Store, Closed
  <2>2. /\ pc' \in [Reporter -> {"idle", "reads", "stores", "sends", "done"}]
        /\ got' \in [Reporter -> Version]
        /\ shared' \in Version /\ alike' \in Version
    BY <1>11 DEF Store, Finishes
  <2> QED  BY <1>11, <2>1, <2>2 DEF Store, watchVars, receiverVars
<1>12. ASSUME NEW r \in Reporter, Send(r) PROVE TypeOK'
  <2>1. item' \in [by : Reporter, version : Version]
    BY <1>12 DEF Send
  <2> QED  BY <1>12, <2>1 DEF Send, Finishes, watchVars
<1>13. CASE PassOn
  <2>1. item.version \in Version
    OBVIOUS
  <2> QED  BY <1>13, <2>1, <1>i DEF PassOn, watchVars, reportVars
<1>14. CASE GiveUp
  BY <1>14, <1>i DEF GiveUp, watchVars, reportVars
<1>15. CASE Cancel
  BY <1>15 DEF Cancel, watchVars, reportVars, receiverVars
<1>16. CASE UNCHANGED vars
  BY <1>16 DEF vars, watchVars, reportVars, receiverVars
<1> QED
  BY <1>1, <1>2, <1>3, <1>4, <1>5, <1>6, <1>7, <1>8, <1>9, <1>10, <1>11, <1>12, <1>13, <1>14,
     <1>15, <1>16 DEF Next

\* The variables keep their types; in particular the watch never forwards a signal
\* of another path.
THEOREM TypeCorrect == Spec => []TypeOK
BY InitTypeOK, NextTypeOK, PTL DEF Spec

-----------------------------------------------------------------------------
\* What was closed was closed because the agent stops: the channel of triggers,
\* and the loop that has left.
ClosedWhenDone ==
  /\ ~open => cancelled
  /\ pc[Loop] = "done" => cancelled

\* The inductive invariant: reporters have a state, and all that panics comes after
\* something was closed.
PanicInv ==
  /\ pc \in [Reporter -> {"idle", "reads", "stores", "sends", "done"}]
  /\ ClosedWhenDone
  /\ PanicOnlyWhenDone

\* Initially nothing is closed.
LEMMA InitPanicInv == Init => PanicInv
BY Reporters DEF Init, PanicInv, ClosedWhenDone, PanicOnlyWhenDone

\* A reporter that starts is not the loop that has left, nor does the loop leave by it.
LEMMA StartsKeeps ==
  ASSUME PanicInv, NEW r \in Reporter, NEW v, Starts(r, v)
  PROVE  /\ pc' \in [Reporter -> {"idle", "reads", "stores", "sends", "done"}]
         /\ pc'[Loop] = "done" => pc[Loop] = "done"
BY Reporters DEF PanicInv, Starts, Free

\* Every step keeps the invariant.
LEMMA NextPanicInv == PanicInv /\ [Next]_vars => PanicInv'
<1> SUFFICES ASSUME PanicInv, [Next]_vars PROVE PanicInv'
  OBVIOUS
<1> USE Reporters DEF PanicInv, ClosedWhenDone, PanicOnlyWhenDone
<1>1. CASE Change \/ ForeignSignal \/ Cancel
  BY <1>1 DEF Change, ForeignSignal, Cancel, reportVars
<1>2. ASSUME NEW i \in 1 .. MaxChanges + MaxForeign, Deliver(i) PROVE PanicInv'
  BY <1>2 DEF Deliver
<1>3. CASE CloseTriggers
  BY <1>3 DEF CloseTriggers, reportVars
<1>4. CASE Deregister
  BY <1>4 DEF Deregister, reportVars
<1>5. CASE Trigger
  <2>1. CASE style.hears
    <3>1. PICK r \in Reporter : Starts(r, held.version)
      BY <1>5, <2>1 DEF Trigger
    <3> QED  BY <1>5, <3>1, StartsKeeps DEF Trigger
  <2>2. CASE ~style.hears
    BY <1>5, <2>2 DEF Trigger, reportVars
  <2> QED  BY <2>1, <2>2
<1>6. CASE EmptyTrigger
  <2>1. CASE \E r \in Reporter : Starts(r, 0)
    <3>1. PICK r \in Reporter : Starts(r, 0)
      BY <2>1
    <3> QED  BY <1>6, <3>1, StartsKeeps DEF EmptyTrigger, watchVars
  <2>2. CASE UNCHANGED reportVars
    BY <1>6, <2>2 DEF EmptyTrigger, watchVars, reportVars
  <2> QED  BY <1>6, <2>1, <2>2 DEF EmptyTrigger
<1>7. CASE Leave
  BY <1>7 DEF Leave, watchVars
<1>8. ASSUME NEW r \in Reporter, Read(r) PROVE PanicInv'
  BY <1>8 DEF Read, Closed, watchVars
<1>9. ASSUME NEW r \in Reporter, ReadFails(r) PROVE PanicInv'
  BY <1>9 DEF ReadFails, Finishes, watchVars
<1>10. ASSUME NEW r \in Reporter, Store(r) PROVE PanicInv'
  <2>1. /\ pc[r] = "stores" /\ cancelled' = cancelled /\ open' = open
        /\ pc' = [pc EXCEPT ![r] = "idle"] \/ pc' = [pc EXCEPT ![r] = "sends"]
        /\ crashed' = crashed \/ crashed' = Closed
    BY <1>10 DEF Store, Finishes, watchVars
  <2>2. ClosedWhenDone' /\ pc' \in [Reporter -> {"idle", "reads", "stores", "sends", "done"}]
    BY <2>1
  <2>3. PanicOnlyWhenDone'
    BY <2>1 DEF Closed
  <2> QED  BY <2>2, <2>3
<1>11. ASSUME NEW r \in Reporter, Send(r) PROVE PanicInv'
  BY <1>11 DEF Send, Finishes, watchVars
<1>12. CASE PassOn \/ GiveUp
  BY <1>12 DEF PassOn, GiveUp, watchVars, reportVars
<1>13. CASE UNCHANGED vars
  BY <1>13 DEF vars, watchVars, reportVars
<1> QED
  BY <1>1, <1>2, <1>3, <1>4, <1>5, <1>6, <1>7, <1>8, <1>9, <1>10, <1>11, <1>12, <1>13 DEF Next

\* A worker on D-Bus signals, or its watch, may end the program in a panic when the
\* agent stops and channels are closed under their senders, but never before.
THEOREM PanicsOnlyWhenDone == Spec => []PanicOnlyWhenDone
<1>1. PanicInv => PanicOnlyWhenDone
  BY DEF PanicInv
<1> QED
  BY InitPanicInv, NextPanicInv, <1>1, PTL DEF Spec

-----------------------------------------------------------------------------
(* The last word.                                                          *)

\* The signals of the worker that the bus has to deliver, and whether there is
\* anything the loop does not know yet.
Ours == {i \in DOMAIN bus : bus[i].ours}
Pending == Ours # {} \/ held # NoSignal

\* Those who report triggers.
Others == Reporter \ {First}

\* Until the agent stops the connection delivers and somebody receives.
Alive == registered /\ open /\ receiver # "gone"

\* Goroutines that did not race take turns, and those of a worker that reports the
\* triggers have nothing to read.
TakeTurns ==
  /\ style.rereads \/ style.spawns =>
       \A q, r \in Reporter : pc[q] # "idle" /\ pc[r] # "idle" => q = r
  /\ ~style.rereads /\ ~style.spawns => \A r \in Others : pc[r] # "idle" => r = Loop
  /\ ~style.rereads => \A r \in Others : pc[r] \in {"idle", "sends"}
  /\ pc[Loop] # "done"

\* A worker that reports the triggers: the newest version is that of the last signal on
\* its way, or of the trigger at hand, or it is with who reports, with the receiver, or
\* passed on.
Reports ==
  /\ \A i \in Ours : (\A j \in Ours : j <= i) => bus[i].version = truth
  /\ Ours = {} /\ held # NoSignal => held.version = truth
  /\ ~Pending =>
       /\ \A r \in Others : pc[r] = "sends" => got[r] = truth
       /\ (\A r \in Others : pc[r] = "idle") =>
            IF receiver = "holds" /\ item.by # First THEN item.version = truth ELSE heard = truth

\* A worker that rereads: without a signal on its way, what was read is the state, and
\* so is what was stored, or else what was compared with it; and unless it is being sent,
\* what is stored was passed on.
Rereads ==
  /\ (\A r \in Reporter : pc[r] # "sends") /\ receiver # "holds" => heard = shared
  /\ ~Pending =>
       /\ \A r \in Reporter : pc[r] = "stores" => got[r] = truth
       /\ (\A r \in Reporter : pc[r] \in {"idle", "sends"}) =>
            shared = truth \/ (style.dedups /\ alike = truth)

WordParts == TakeTurns /\ (style.hears => IF style.rereads THEN Rereads ELSE Reports)
WordInv == ~cancelled => Alive /\ (~raced => WordParts)

\* A sequence without its i-th element.
Without(s, i) == SubSeq(s, 1, i - 1) \o SubSeq(s, i + 1, Len(s))

\* What comes before the element stays, what follows moves up.
LEMMA WithoutProperties ==
  ASSUME NEW S, NEW s \in Seq(S), NEW i \in 1 .. Len(s)
  PROVE  /\ Without(s, i) \in Seq(S) /\ Len(Without(s, i)) = Len(s) - 1
         /\ \A k \in 1 .. Len(s) - 1 : Without(s, i)[k] = IF k < i THEN s[k] ELSE s[k + 1]
<1> DEFINE a == SubSeq(s, 1, i - 1)
           b == SubSeq(s, i + 1, Len(s))
           t == Without(s, i)
<1>0. Len(s) \in Nat /\ i \in Nat /\ 1 <= i /\ i <= Len(s)
  OBVIOUS
<1>1. a \in Seq(S) /\ Len(a) = i - 1 /\ \A k \in 1 .. i - 1 : a[k] = s[k]
  OBVIOUS
<1>2. b \in Seq(S) /\ Len(b) = Len(s) - i /\ \A k \in 1 .. Len(s) - i : b[k] = s[i + k]
  OBVIOUS
<1>3. t = a \o b
  BY DEF Without
<1> HIDE DEF a, b, t
<1>4. /\ t \in Seq(S) /\ Len(t) = Len(a) + Len(b)
      /\ \A k \in 1 .. Len(a) + Len(b) : t[k] = IF k <= Len(a) THEN a[k] ELSE b[k - Len(a)]
  BY <1>1, <1>2, <1>3, ConcatProperties, Zenon
<1>5. t \in Seq(S) /\ Len(t) = Len(s) - 1
  BY <1>0, <1>1, <1>2, <1>4
<1>6. ASSUME NEW k \in 1 .. Len(s) - 1 PROVE t[k] = IF k < i THEN s[k] ELSE s[k + 1]
  <2>1. t[k] = IF k <= i - 1 THEN a[k] ELSE b[k - (i - 1)]
    <3>1. Len(a) = i - 1 /\ Len(a) + Len(b) = Len(s) - 1
      BY <1>0, <1>1, <1>2
    <3>2. k \in 1 .. Len(a) + Len(b)
      BY <3>1
    <3> QED BY <1>4, <3>1, <3>2
  <2>2. CASE k < i
    BY <1>0, <1>1, <2>1, <2>2
  <2>3. CASE ~(k < i)
    <3>1. k - (i - 1) \in 1 .. Len(s) - i /\ i + (k - (i - 1)) = k + 1 /\ ~(k <= i - 1)
      BY <1>0, <2>3
    <3> QED BY <1>2, <2>1, <2>3, <3>1
  <2> QED BY <2>2, <2>3
<1> QED BY <1>5, <1>6 DEF t

\* What a worker is.
LEMMA Styles == ASSUME TypeOK PROVE style \in Style
  BY WorkerAssumption DEF TypeOK

\* A signal that the bus delivers is not lost.
LEMMA DeliverOurs ==
  ASSUME TypeOK, NEW i, Deliver(i)
  PROVE  /\ ~Pending' => ~Pending
         /\ i \in 1 .. Len(bus) /\ Len(bus') = Len(bus) - 1
         /\ \A k \in 1 .. Len(bus') : bus'[k] = IF k < i THEN bus[k] ELSE bus[k + 1]
<1>1. bus \in Seq(Signal) /\ i \in 1 .. Len(bus)
  BY DEF TypeOK, Deliver
<1>2. /\ bus' \in Seq(Signal) /\ Len(bus') = Len(bus) - 1
      /\ \A k \in 1 .. Len(bus') : bus'[k] = IF k < i THEN bus[k] ELSE bus[k + 1]
  <2>1. bus' = Without(bus, i)
    BY DEF Deliver, Without
  <2> QED BY <1>1, <2>1, WithoutProperties
<1>3. ASSUME NEW j \in Ours PROVE Pending'
  <2>1. CASE j = i
    BY <1>1, <2>1 DEF Deliver, Ours, Pending, NoSignal
  <2>2. CASE j < i
    <3>1. j \in 1 .. Len(bus') /\ bus'[j] = bus[j]
      BY <1>1, <1>2, <2>2 DEF Ours
    <3> QED BY <1>2, <3>1 DEF Ours, Pending
  <2>3. CASE j > i
    <3>1. j - 1 \in 1 .. Len(bus') /\ bus'[j - 1] = bus[j]
      BY <1>1, <1>2, <2>3 DEF Ours
    <3> QED BY <1>2, <3>1 DEF Ours, Pending
  <2> QED BY <1>1, <2>1, <2>2, <2>3 DEF Ours
<1>4. held = NoSignal
  BY DEF Deliver
<1> QED BY <1>1, <1>2, <1>3, <1>4 DEF Pending

\* The agent does not start again.
LEMMA CancelledStays == [Next]_vars /\ ~cancelled' => ~cancelled
<1> SUFFICES ASSUME [Next]_vars, cancelled' # cancelled PROVE cancelled'
  OBVIOUS
<1> USE DEF watchVars, reportVars, sensorVars, receiverVars
<1>1. ASSUME Change \/ ForeignSignal \/ CloseTriggers \/ Deregister \/ Trigger \/ EmptyTrigger
             \/ Leave \/ PassOn \/ GiveUp \/ UNCHANGED vars
      PROVE  FALSE
  BY <1>1 DEF Change, ForeignSignal, CloseTriggers, Deregister, Trigger, EmptyTrigger, Leave,
     PassOn, GiveUp, vars
<1>2. ASSUME NEW i \in 1 .. MaxChanges + MaxForeign, Deliver(i) PROVE FALSE
  BY <1>2 DEF Deliver
<1>3. ASSUME NEW r \in Reporter, Read(r) \/ ReadFails(r) \/ Store(r) \/ Send(r) PROVE FALSE
  BY <1>3 DEF Read, ReadFails, Store, Send
<1>4. CASE Cancel
  BY <1>4 DEF Cancel
<1> QED BY <1>1, <1>2, <1>3, <1>4 DEF Next

\* What a step that keeps the agent running leaves alone.
LEMMA StepAlive ==
  ASSUME TypeOK, Alive, [Next]_vars, ~cancelled, ~cancelled'
  PROVE  Alive' /\ style' = style /\ (raced => raced')
<1>0. raced \in BOOLEAN /\ cancelled \in BOOLEAN
  BY DEF TypeOK
<1> USE <1>0 DEF Alive, watchVars, reportVars, sensorVars, receiverVars
<1>1. CASE Change \/ ForeignSignal \/ Cancel
  BY <1>1 DEF Change, ForeignSignal, Cancel
<1>2. ASSUME NEW i \in 1 .. MaxChanges + MaxForeign, Deliver(i)
      PROVE  Alive' /\ style' = style /\ (raced => raced')
  BY <1>2 DEF Deliver
<1>3. CASE CloseTriggers \/ Deregister \/ EmptyTrigger \/ GiveUp
  BY <1>3 DEF CloseTriggers, Deregister, EmptyTrigger, GiveUp
<1>4. CASE Trigger
  <2>1. raced => raced'
    BY <1>4 DEF Trigger, Starts
  <2> QED BY <1>4, <2>1 DEF Trigger
<1>5. CASE Leave
  BY <1>5 DEF Leave
<1>6. ASSUME NEW r \in Reporter, Read(r) \/ ReadFails(r) \/ Store(r) \/ Send(r)
      PROVE  Alive' /\ style' = style /\ (raced => raced')
  BY <1>6 DEF Read, ReadFails, Store, Send
<1>7. CASE PassOn
  BY <1>7 DEF PassOn
<1>8. CASE UNCHANGED vars
  BY <1>8 DEF vars
<1> QED BY <1>1, <1>2, <1>3, <1>4, <1>5, <1>6, <1>7, <1>8 DEF Next

\* A signal that the connection delivers to the watch.
LEMMA ChangePends ==
  ASSUME TypeOK, Alive, Change
  PROVE  /\ Len(bus') = Len(bus) + 1 /\ Len(bus') \in Ours' /\ bus'[Len(bus')].version = truth'
         /\ Pending'
<1>1. bus' = Append(bus, [ours |-> TRUE, version |-> truth']) /\ bus \in Seq(Signal)
  BY DEF Change, Alive, TypeOK
<1>2. Len(bus') = Len(bus) + 1 /\ Len(bus') \in DOMAIN bus' /\ bus'[Len(bus')] = [ours |-> TRUE, version |-> truth']
  BY <1>1
<1> QED BY <1>2 DEF Ours, Pending

\* Another watch's signal makes no difference.
LEMMA ForeignIgnored ==
  ASSUME TypeOK, ForeignSignal
  PROVE  Ours' = Ours /\ (Pending' <=> Pending) /\ \A i \in Ours : bus'[i] = bus[i]
<1>1. bus' = Append(bus, [ours |-> FALSE, version |-> MaxChanges]) /\ bus \in Seq(Signal) /\ held' = held
  BY DEF ForeignSignal, TypeOK
<1>2. /\ Len(bus) \in Nat /\ DOMAIN bus' = 1 .. Len(bus) + 1 /\ DOMAIN bus = 1 .. Len(bus)
      /\ \A i \in 1 .. Len(bus) : bus'[i] = bus[i]
      /\ ~bus'[Len(bus) + 1].ours
  BY <1>1
<1>3. Ours' = Ours /\ \A i \in Ours : bus'[i] = bus[i]
  BY <1>2 DEF Ours
<1> QED BY <1>1, <1>3 DEF Pending

\* The newest version stays where it is, or moves on.
LEMMA StepWord ==
  ASSUME TypeOK, TypeOK', ~cancelled, Alive, WordParts, style' = style, ~raced', [Next]_vars, ~cancelled'
  PROVE  WordParts'
<1>s. /\ style.rereads \in BOOLEAN /\ style.spawns \in BOOLEAN /\ style.hears \in BOOLEAN
      /\ style.dedups \in BOOLEAN
  BY Styles DEF Style
<1> USE <1>s DEF watchVars, reportVars, sensorVars, receiverVars
<1>o. UNCHANGED <<pc, raced>> => TakeTurns'
  BY DEF WordParts, TakeTurns
<1>1. CASE Change
  <2>1. Reports' \/ style.rereads
    <3>1. /\ Len(bus') = Len(bus) + 1 /\ Len(bus') \in Ours' /\ bus'[Len(bus')].version = truth'
          /\ Pending'
      BY <1>1, ChangePends
    <3>2. \A i \in Ours' : (\A j \in Ours' : j <= i) => i = Len(bus')
      BY <3>1 DEF Ours, TypeOK
    <3> QED BY <1>1, <3>1, <3>2 DEF Reports, Change
  <2>2. style.hears /\ style.rereads => Rereads'
    BY <1>1, ChangePends DEF Change, WordParts, Rereads
  <2> QED BY <1>1, <1>o, <2>1, <2>2 DEF Change, WordParts
<1>2. CASE ForeignSignal
  <2>1. style.hears /\ ~style.rereads => Reports'
    BY <1>2, ForeignIgnored DEF ForeignSignal, WordParts, Reports
  <2>2. style.hears /\ style.rereads => Rereads'
    BY <1>2, ForeignIgnored DEF ForeignSignal, WordParts, Rereads
  <2> QED BY <1>2, <1>o, <2>1, <2>2 DEF ForeignSignal, WordParts
<1>3. ASSUME NEW i \in 1 .. MaxChanges + MaxForeign, Deliver(i) PROVE WordParts'
  <2>1. ~raced /\ (i = 1 \/ style.rereads)
    BY <1>3 DEF Deliver, TypeOK
  <2>2. TakeTurns'
    BY <1>3 DEF WordParts, TakeTurns, Deliver
  <2>3. style.hears /\ style.rereads => Rereads'
    BY <1>3, DeliverOurs DEF WordParts, Rereads, Deliver
  <2>4. ASSUME style.hears, ~style.rereads PROVE Reports'
    <3>1. /\ ~Pending' => ~Pending
          /\ Len(bus') = Len(bus) - 1
          /\ \A k \in 1 .. Len(bus') : bus'[k] = bus[k + 1]
      BY <1>3, <2>1, <2>4, DeliverOurs
    <3>2. DOMAIN bus = 1 .. Len(bus) /\ DOMAIN bus' = 1 .. Len(bus') /\ Len(bus) \in Nat /\ 1 \in DOMAIN bus
      BY <1>3, <2>1, <2>4 DEF TypeOK, Deliver
    <3>3. \A k \in Ours' : k + 1 \in Ours
      BY <3>1, <3>2 DEF Ours
    <3>4. \A j \in Ours : j = 1 \/ j - 1 \in Ours'
      BY <3>1, <3>2 DEF Ours
    <3>5. Ours \subseteq Nat /\ Ours' \subseteq Nat
      BY <3>2 DEF Ours
    <3>6. ASSUME NEW k \in Ours', \A j \in Ours' : j <= k PROVE bus'[k].version = truth'
      <4>1. k + 1 \in Ours /\ \A j \in Ours : j <= k + 1
        BY <3>3, <3>4, <3>5, <3>6
      <4>2. bus'[k] = bus[k + 1]
        BY <3>1, <3>2 DEF Ours
      <4> QED BY <1>3, <2>4, <4>1, <4>2 DEF WordParts, Reports, Deliver
    <3>7. ASSUME Ours' = {}, held' # NoSignal PROVE held'.version = truth'
      <4>1. held' = bus[1] /\ 1 \in Ours
        BY <1>3, <2>1, <2>4, <3>7 DEF Deliver, Ours
      <4>2. \A j \in Ours : j <= 1
        BY <3>4, <3>7
      <4> QED BY <1>3, <2>4, <4>1, <4>2 DEF WordParts, Reports, Deliver
    <3>8. ~Pending' => ~Pending /\ UNCHANGED <<truth, pc, got, receiver, item, heard>>
      BY <1>3, <3>1 DEF Deliver
    <3> QED BY <2>4, <3>6, <3>7, <3>8 DEF WordParts, Reports
  <2> QED BY <1>3, <2>2, <2>3, <2>4 DEF Deliver, WordParts
<1>4. CASE Trigger
  <2>1. CASE ~style.hears
    BY <1>4, <1>o, <2>1 DEF Trigger, WordParts
  <2>2. ASSUME style.hears, NEW r \in Reporter, Starts(r, held.version) PROVE WordParts'
    <3>1. /\ pc[r] = "idle" /\ pc[Loop] = "idle"
          /\ style.rereads \/ style.spawns => \A q \in Reporter : pc[q] = "idle"
          /\ r \in Others
          /\ ~style.spawns => r = Loop
          /\ style.spawns => r # Loop
      BY <1>4, <2>2, Reporters, BoundsAssumption DEF Trigger, Starts, Free, Others, Loop, First, TypeOK
    <3>2. /\ pc' = [pc EXCEPT ![r] = IF style.rereads THEN "reads" ELSE "sends"]
          /\ got' = [got EXCEPT ![r] = IF style.rereads THEN 0 ELSE held.version]
          /\ UNCHANGED <<bus, truth, shared, alike, receiverVars>>
          /\ held # NoSignal /\ held' = NoSignal
      BY <1>4, <2>2 DEF Trigger, Starts
    <3>3. TakeTurns'
      BY <3>1, <3>2, Reporters DEF WordParts, TakeTurns, TypeOK, Others
    <3>4. ASSUME ~style.rereads PROVE Reports'
      <4>1. ASSUME ~Pending', NEW q \in Others, pc'[q] = "sends" PROVE got'[q] = truth
        <5>1. q = r
          BY <3>1, <3>2, <3>4, <4>1 DEF WordParts, TakeTurns, Others, TypeOK
        <5>2. held.version = truth
          BY <2>2, <3>2, <3>4, <4>1 DEF WordParts, Reports, Pending, Ours
        <5> QED BY <3>2, <3>4, <4>1, <5>1, <5>2 DEF Others, TypeOK
      <4>2. pc'[r] # "idle"
        BY <3>2 DEF TypeOK
      <4> QED BY <2>2, <3>1, <3>2, <3>4, <4>1, <4>2 DEF WordParts, Reports, Ours
    <3>5. ASSUME style.rereads PROVE Rereads'
      BY <2>2, <3>1, <3>2, <3>5 DEF WordParts, Rereads, TypeOK
    <3> QED BY <1>4, <2>2, <3>3, <3>4, <3>5 DEF WordParts
  <2> QED BY <1>4, <2>1, <2>2 DEF Trigger
<1>5. CASE CloseTriggers \/ Deregister \/ EmptyTrigger \/ GiveUp
  BY <1>5 DEF CloseTriggers, Deregister, EmptyTrigger, GiveUp, Alive
<1>6. CASE Leave
  BY <1>6 DEF Leave, Alive
<1>p. UNCHANGED <<bus, held>> => Ours' = Ours /\ (Pending' <=> Pending)
  BY DEF Ours, Pending
<1>7. ASSUME NEW r \in Reporter, Read(r) PROVE WordParts'
  <2>1. /\ pc[r] = "reads"
        /\ pc' = [pc EXCEPT ![r] = IF style.rereads THEN "stores" ELSE "sends"]
        /\ got' = [got EXCEPT ![r] = truth]
        /\ UNCHANGED <<bus, held, truth, shared, alike, receiverVars>>
    BY <1>7 DEF Read
  <2>2. TakeTurns'
    BY <2>1 DEF WordParts, TakeTurns, TypeOK, Others
  <2>3. ASSUME style.hears, ~style.rereads PROVE Reports'
    <3>1. \A q \in Others : pc'[q] = pc[q] /\ got'[q] = got[q]
      BY <2>1, <2>3 DEF WordParts, TakeTurns, TypeOK, Others
    <3> QED BY <1>p, <2>1, <2>3, <3>1 DEF WordParts, Reports
  <2>4. ASSUME style.hears, style.rereads PROVE Rereads'
    BY <1>p, <2>1, <2>4 DEF WordParts, TakeTurns, Rereads, TypeOK
  <2> QED BY <1>7, <2>2, <2>3, <2>4 DEF Read, WordParts
<1>8. ASSUME NEW r \in Reporter, ReadFails(r) PROVE WordParts'
  <2>1. /\ pc[r] = "reads" /\ ~style.rereads
        /\ pc' = [pc EXCEPT ![r] = "idle"]
        /\ got' = [got EXCEPT ![r] = 0]
        /\ UNCHANGED <<bus, held, truth, shared, alike, receiverVars>>
    BY <1>8 DEF ReadFails, Finishes
  <2>2. TakeTurns'
    BY <2>1 DEF WordParts, TakeTurns, TypeOK, Others
  <2>3. ASSUME style.hears PROVE Reports'
    <3>1. \A q \in Others : pc'[q] = pc[q] /\ got'[q] = got[q]
      BY <2>1 DEF WordParts, TakeTurns, TypeOK, Others
    <3> QED BY <1>p, <2>1, <2>3, <3>1 DEF WordParts, Reports
  <2> QED BY <1>8, <2>1, <2>2, <2>3 DEF ReadFails, WordParts
<1>9. ASSUME NEW r \in Reporter, Store(r) PROVE WordParts'
  <2>1. /\ pc[r] = "stores"
        /\ \/ /\ pc' = [pc EXCEPT ![r] = "idle"]
              /\ style.dedups /\ alike' = got[r] /\ shared' = shared
           \/ /\ pc' = [pc EXCEPT ![r] = "sends"]
              /\ shared' = got[r]
        /\ got' = [got EXCEPT ![r] = 0]
        /\ UNCHANGED <<bus, held, truth, receiverVars>>
    BY <1>9 DEF Store, Finishes
  <2>2. TakeTurns'
    <3>1. \A q \in Reporter : pc'[q] # "idle" => pc[q] # "idle"
      BY <2>1 DEF TypeOK
    <3>2. ~style.rereads => \A q \in Others : pc'[q] = pc[q]
      BY <2>1 DEF WordParts, TakeTurns, TypeOK, Others
    <3>3. pc'[Loop] # "done"
      BY <2>1, Reporters DEF WordParts, TakeTurns, TypeOK
    <3> QED BY <3>1, <3>2, <3>3 DEF WordParts, TakeTurns
  <2>3. ASSUME style.hears, ~style.rereads PROVE Reports'
    <3>1. \A q \in Others : pc'[q] = pc[q] /\ got'[q] = got[q]
      BY <2>1, <2>3 DEF WordParts, TakeTurns, TypeOK, Others
    <3> QED BY <1>p, <2>1, <2>3, <3>1 DEF WordParts, Reports
  <2>4. ASSUME style.hears, style.rereads PROVE Rereads'
    <3>1. \A q \in Reporter : q # r => pc[q] = "idle"
      BY <2>1, <2>4 DEF WordParts, TakeTurns
    <3> QED BY <1>p, <2>1, <2>4, <3>1 DEF WordParts, Rereads, TypeOK
  <2> QED BY <1>9, <2>2, <2>3, <2>4 DEF Store, WordParts
<1>10. ASSUME NEW r \in Reporter, Send(r) PROVE WordParts'
  <2>1. /\ pc[r] = "sends" /\ receiver = "receives" /\ receiver' = "holds"
        /\ item' = [by |-> r, version |-> got[r]]
        /\ pc' = [pc EXCEPT ![r] = "idle"]
        /\ got' = [got EXCEPT ![r] = 0]
        /\ UNCHANGED <<bus, held, truth, shared, alike, heard>>
    BY <1>10 DEF Send, Finishes
  <2>2. TakeTurns'
    BY <2>1 DEF WordParts, TakeTurns, TypeOK, Others
  <2>3. ASSUME style.hears, ~style.rereads PROVE Reports'
    <3>1. \A q \in Others \ {r} : pc'[q] = pc[q] /\ got'[q] = got[q]
      BY <2>1 DEF TypeOK, Others
    <3>2. pc'[r] = "idle"
      BY <2>1 DEF TypeOK
    <3>3. CASE r = First
      BY <1>p, <2>1, <2>3, <3>1, <3>3 DEF WordParts, Reports, Others
    <3>4. CASE r # First
      BY <1>p, <2>1, <2>3, <3>1, <3>2, <3>4 DEF WordParts, Reports, Others
    <3> QED BY <3>3, <3>4
  <2>4. ASSUME style.hears, style.rereads PROVE Rereads'
    <3>1. \A q \in Reporter : q # r => pc[q] = "idle"
      BY <2>1, <2>4 DEF WordParts, TakeTurns
    <3> QED BY <1>p, <2>1, <2>4, <3>1 DEF WordParts, Rereads, TypeOK
  <2> QED BY <1>10, <2>2, <2>3, <2>4 DEF Send, WordParts
<1>11. CASE PassOn
  <2>1. /\ receiver = "holds" /\ receiver' = "receives"
        /\ heard' = IF style.rereads THEN shared ELSE IF item.by = First THEN heard ELSE item.version
        /\ UNCHANGED <<bus, held, truth, pc, got, shared, alike, raced>>
    BY <1>11 DEF PassOn
  <2>2. ASSUME style.hears, ~style.rereads PROVE Reports'
    BY <1>p, <2>1, <2>2 DEF WordParts, Reports
  <2>3. ASSUME style.hears, style.rereads PROVE Rereads'
    BY <1>p, <2>1, <2>3 DEF WordParts, Rereads
  <2> QED BY <1>11, <1>o, <2>1, <2>2, <2>3 DEF PassOn, WordParts
<1>12. CASE UNCHANGED vars
  <2>1. Reports => Reports'
    BY <1>12, <1>p DEF vars, Reports
  <2>2. Rereads => Rereads'
    BY <1>12, <1>p DEF vars, Rereads
  <2> QED BY <1>12, <1>o, <2>1, <2>2 DEF vars, WordParts
<1>13. CASE Cancel
  BY <1>13 DEF Cancel
<1> QED BY <1>1, <1>2, <1>3, <1>4, <1>5, <1>6, <1>7, <1>8, <1>9, <1>10, <1>11, <1>12, <1>13 DEF Next

\* For every worker, and any number of changes, signals and goroutines: once nothing is
\* under way, the update that a trigger caused last is the state as it is, or the worker
\* has compared that state with its sensors and found no difference, unless it does not
\* hear its triggers at all, signals or the worker's own goroutines may have overtaken
\* each other, or a read failed.
THEOREM LastWord == Spec => []LastWordIsTruth
<1>1. Init => WordInv
  <2> SUFFICES ASSUME Init PROVE Alive /\ WordParts
    BY DEF WordInv
  <2>1. Alive /\ Ours = {} /\ ~Pending
    BY DEF Init, Alive, Ours, Pending
  <2>2. TakeTurns
    BY Reporters DEF Init, TakeTurns, Others
  <2>3. Reports /\ Rereads
    BY <2>1, Reporters DEF Init, Reports, Rereads, Others
  <2> QED BY <2>1, <2>2, <2>3 DEF WordParts
<1>2. TypeOK /\ WordInv /\ [Next]_vars => WordInv'
  <2> SUFFICES ASSUME TypeOK, WordInv, [Next]_vars, ~cancelled' PROVE Alive' /\ (~raced' => WordParts')
    BY DEF WordInv
  <2>1. TypeOK' /\ ~cancelled /\ Alive
    BY NextTypeOK, CancelledStays DEF WordInv
  <2>2. Alive' /\ style' = style /\ (raced => raced')
    BY <2>1, StepAlive
  <2>3. ASSUME ~raced' PROVE WordParts'
    <3>1. WordParts
      BY <2>1, <2>2, <2>3 DEF WordInv
    <3> QED BY <2>1, <2>2, <2>3, <3>1, StepWord
  <2> QED BY <2>2, <2>3
<1>3. TypeOK /\ WordInv => LastWordIsTruth
  <2> SUFFICES ASSUME TypeOK, WordInv, Settled, ~raced, style.hears
               PROVE  heard = truth \/ (style.dedups /\ alike = truth)
    BY DEF LastWordIsTruth
  <2>1. WordParts /\ ~Pending
    BY DEF Settled, WordInv, Pending, Ours
  <2> QED BY <2>1 DEF Settled, WordParts, Reports, Rereads, Others
<1> QED BY InitTypeOK, NextTypeOK, <1>1, <1>2, <1>3, PTL DEF Spec
=============================================================================
