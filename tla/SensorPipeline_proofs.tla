----------------------- MODULE SensorPipeline_proofs -----------------------
(***************************************************************************)
(* Proofs about SensorPipeline: its type (no channel is closed twice), no  *)
(* send on a closed channel, no update lost before the agent stops, and    *)
(* the order of delivery.  They rest on PipelineInv: the updates of a      *)
(* worker that are under way are in line, in the goroutines that hold      *)
(* them.                                                                   *)
(***************************************************************************)
EXTENDS SensorPipeline, TLAPS

\* The controllers and the scripts controllers differ, and own their workers.
LEMMA Owners ==
  /\ \A w \in Worker : Owner[w] \in Controller /\ Owner[w] \in Source /\ Owner[w] \notin Scripts
  /\ Nobody \notin Worker
  /\ Source # {}
BY WorkersAssumption, ControllersAssumption DEF Source

-----------------------------------------------------------------------------
\* The steps of the workers and of their goroutines keep the type.
LEMMA WorkerType ==
  ASSUME TypeOK, NEW w \in Worker,
         Offer(w) \/ CloseUpdates(w) \/ Receive(w) \/ SeesClose(w) \/ Forward(w) \/ Drop(w)
  PROVE  TypeOK'
<1> USE DEF TypeOK, agentVars, workerVars, scriptVars, Goroutine
<1>1. CASE Offer(w)
  BY <1>1 DEF Offer
<1>2. CASE CloseUpdates(w)
  BY <1>2 DEF CloseUpdates
<1>3. CASE Receive(w)
  BY <1>3 DEF Receive
<1>4. CASE SeesClose(w)
  BY <1>4 DEF SeesClose
<1>5. CASE Forward(w)
  <2>1. [from |-> w, number |-> item[w]] \in Update
    BY DEF Update
  <2>2. held' \in [Source -> Update] /\ up' \in [Source -> Goroutine]
    BY <1>5, <2>1, Owners DEF Forward
  <2> QED BY <1>5, <2>2 DEF Forward
<1>6. CASE Drop(w)
  BY <1>6 DEF Drop
<1> QED BY <1>1, <1>2, <1>3, <1>4, <1>5, <1>6

\* The other steps keep the type.
LEMMA AgentType ==
  ASSUME TypeOK,
         \/ \E c \in Controller : CloseOut(c)
         \/ \E s \in Scripts : Execute(s) \/ ScriptSends(s)
         \/ \E s \in Source : StartAll(s) \/ Deliver(s) \/ UpDrop(s) \/ UpSeesClose(s)
         \/ Begin \/ StopAll \/ CloseMerged \/ Return
         \/ Cancel
  PROVE  TypeOK'
<1> USE DEF TypeOK, agentVars, workerVars, scriptVars, Goroutine
<1>0. NoUpdate \in Update
  BY DEF NoUpdate, Update
<1>1. ASSUME NEW c \in Controller, CloseOut(c) PROVE TypeOK'
  BY <1>1 DEF CloseOut
<1>2. ASSUME NEW s \in Source, UpSeesClose(s) PROVE TypeOK'
  BY <1>2 DEF UpSeesClose
<1>3. ASSUME NEW s \in Scripts, Execute(s) PROVE TypeOK'
  <2>1. PICK n \in AfterRun(s) : waiting' = [waiting EXCEPT ![s] = n]
    BY <1>3 DEF Execute
  <2>2. n \in Nat
    BY DEF AfterRun
  <2> QED BY <1>3, <2>1, <2>2 DEF Execute
<1>4. ASSUME NEW s \in Scripts, ScriptSends(s) PROVE TypeOK'
  <2>1. s \in Source
    BY DEF Source
  <2>2. waiting' \in [Scripts -> Nat]
    BY <1>4 DEF ScriptSends
  <2>3. held' \in [Source -> Update] /\ up' \in [Source -> Goroutine]
    BY <1>0, <1>4, <2>1 DEF ScriptSends
  <2> QED BY <1>4, <2>2, <2>3 DEF ScriptSends
<1>5. ASSUME NEW s \in Source, StartAll(s) PROVE TypeOK'
  BY <1>5 DEF StartAll
<1>6. ASSUME NEW s \in Source, Deliver(s) PROVE TypeOK'
  <2>1. held[s].number \in Nat
    BY DEF Update
  <2>2. delivered' \in [Worker -> Nat]
    BY <1>6, <2>1 DEF Deliver
  <2> QED BY <1>0, <1>6, <2>2 DEF Deliver
<1>7. ASSUME NEW s \in Source, UpDrop(s) PROVE TypeOK'
  BY <1>0, <1>7 DEF UpDrop
<1>8. CASE Begin
  BY <1>8 DEF Begin
<1>9. CASE StopAll
  BY <1>9 DEF StopAll
<1>10. CASE CloseMerged
  BY <1>10 DEF CloseMerged
<1>11. CASE Return
  BY <1>11 DEF Return
<1>12. CASE Cancel
  BY <1>12 DEF Cancel
<1> QED BY <1>1, <1>2, <1>3, <1>4, <1>5, <1>6, <1>7, <1>8, <1>9, <1>10, <1>11, <1>12

\* Every step keeps the type.
LEMMA StepType == TypeOK /\ [Next]_vars => TypeOK'
<1>1. TypeOK /\ UNCHANGED vars => TypeOK'
  BY DEF TypeOK, vars, agentVars, workerVars, scriptVars
<1>2. ASSUME TypeOK, Next PROVE TypeOK'
  <2>1. CASE \E w \in Worker :
               \/ Offer(w) \/ CloseUpdates(w)
               \/ Receive(w) \/ SeesClose(w) \/ Forward(w) \/ Drop(w)
    BY <1>2, <2>1, WorkerType
  <2>2. CASE ~\E w \in Worker :
               \/ Offer(w) \/ CloseUpdates(w)
               \/ Receive(w) \/ SeesClose(w) \/ Forward(w) \/ Drop(w)
    <3>1. \/ \E c \in Controller : CloseOut(c)
          \/ \E s \in Scripts : Execute(s) \/ ScriptSends(s)
          \/ \E s \in Source : StartAll(s) \/ Deliver(s) \/ UpDrop(s) \/ UpSeesClose(s)
          \/ Begin \/ StopAll \/ CloseMerged \/ Return
          \/ Cancel
      BY <1>2, <2>2 DEF Next
    <3> QED BY <1>2, <3>1, AgentType
  <2> QED BY <2>1, <2>2
<1> QED BY <1>1, <1>2

\* The pipeline keeps its type: no channel is closed twice.
THEOREM TypeCorrect == Spec => []TypeOK
<1>1. Init => TypeOK
  <2>1. NoUpdate \in Update
    BY DEF Update, NoUpdate
  <2> SUFFICES ASSUME Init PROVE TypeOK
    OBVIOUS
  <2>2. fwd \in [Worker -> Goroutine] /\ up \in [Source -> Goroutine] /\ held \in [Source -> Update]
    BY <2>1 DEF Init, Goroutine
  <2>3. closes \in [Controller -> 0..1] /\ merged \in 0..1
    BY DEF Init
  <2>4. /\ offered \in [Worker -> Nat] /\ item \in [Worker -> Nat] /\ delivered \in [Worker -> Nat]
        /\ runs \in [Scripts -> Nat] /\ waiting \in [Scripts -> Nat]
    BY DEF Init
  <2>5. producer \in [Worker -> {"idle", "sends", "closed"}]
    BY DEF Init
  <2> QED BY <2>2, <2>3, <2>4, <2>5 DEF Init, FindScripts, TypeOK
<1> QED BY <1>1, StepType, PTL DEF Spec

-----------------------------------------------------------------------------
\* What PipelineInv says of one worker.
WorkerInv(w) == InLine(w) /\ UnderWay(w) /\ NotStarted(w)

\* A step that leaves a worker, its forwarder and its updates alone keeps what
\* is said of it.
LEMMA Untouched ==
  ASSUME NEW w \in Worker, WorkerInv(w),
         cancelled' = cancelled, started' = started,
         offered'[w] = offered[w], delivered'[w] = delivered[w], fwd'[w] = fwd[w],
         item'[w] = item[w], producer'[w] = producer[w],
         InAgent(w)' <=> InAgent(w),
         InAgent(w) => held'[Owner[w]] = held[Owner[w]],
         up'[Owner[w]] = "done" <=> up[Owner[w]] = "done"
  PROVE  WorkerInv(w)'
<1>1. Unit(InAgent(w))' = Unit(InAgent(w))
  BY DEF Unit
<1>2. InLine(w)'
  BY <1>1, Zenon DEF WorkerInv, InLine, Unit
<1>3. UnderWay(w)'
  BY <1>1 DEF WorkerInv, UnderWay, Unit
<1>4. NotStarted(w)'
  BY DEF WorkerInv, NotStarted
<1> QED BY <1>2, <1>3, <1>4 DEF WorkerInv

\* The steps of a worker and of its forwarder keep what is said of each worker.
LEMMA WorkerSteps ==
  ASSUME TypeOK, AgentInv, NoSendOnClosed, NEW v \in Worker, NEW w \in Worker, WorkerInv(w),
         Offer(v) \/ CloseUpdates(v) \/ Receive(v) \/ SeesClose(v) \/ Forward(v) \/ Drop(v)
  PROVE  WorkerInv(w)'
<1> USE DEF agentVars, workerVars, scriptVars
<1>t. /\ offered \in [Worker -> Nat] /\ delivered \in [Worker -> Nat] /\ item \in [Worker -> Nat]
      /\ DOMAIN fwd = Worker /\ DOMAIN producer = Worker
      /\ DOMAIN up = Source /\ DOMAIN held = Source
      /\ Owner[w] \in Source /\ Owner[v] \in Source
  BY Owners DEF TypeOK
<1>1. CASE v # w
  <2>1. /\ cancelled' = cancelled /\ started' = started
        /\ offered'[w] = offered[w] /\ delivered'[w] = delivered[w] /\ fwd'[w] = fwd[w]
        /\ item'[w] = item[w] /\ producer'[w] = producer[w]
    BY <1>t, <1>1 DEF Offer, CloseUpdates, Receive, SeesClose, Forward, Drop
  <2>2. /\ InAgent(w)' <=> InAgent(w)
        /\ InAgent(w) => held'[Owner[w]] = held[Owner[w]]
        /\ up'[Owner[w]] = "done" <=> up[Owner[w]] = "done"
    <3>1. CASE Forward(v)
      BY <1>t, <1>1, <3>1 DEF Forward, InAgent
    <3>2. CASE ~Forward(v)
      BY <3>2 DEF Offer, CloseUpdates, Receive, SeesClose, Drop, InAgent
    <3> QED BY <3>1, <3>2
  <2> QED BY <2>1, <2>2, Untouched
<1>2. CASE v = w
  <2> USE <1>2, <1>t DEF WorkerInv, InLine, UnderWay, NotStarted, InAgent, Unit
  <2>1. CASE Offer(v)
    BY <2>1 DEF Offer
  <2>2. CASE CloseUpdates(v)
    BY <2>2 DEF CloseUpdates
  <2>3. CASE Receive(v)
    BY <2>3 DEF Receive
  <2>4. CASE SeesClose(v)
    BY <2>4 DEF SeesClose
  <2>5. CASE Forward(v)
    <3>1. Owner[w] \in started
      BY <2>5 DEF Forward
    <3>2. /\ held'[Owner[w]] = [from |-> w, number |-> item[w]]
          /\ up'[Owner[w]] = "sends" /\ fwd'[w] = "receives" /\ fwd[w] = "sends"
          /\ up[Owner[w]] = "receives"
          /\ UNCHANGED <<cancelled, started, offered, delivered, producer>>
      BY <2>5 DEF Forward
    <3>3. InLine(w)'
      BY <3>2
    <3>4. UnderWay(w)' /\ NotStarted(w)'
      BY <3>1, <3>2
    <3> QED BY <3>3, <3>4
  <2>6. CASE Drop(v)
    BY <2>6 DEF Drop
  <2> QED BY <2>1, <2>2, <2>3, <2>4, <2>5, <2>6
<1> QED BY <1>1, <1>2

\* The steps of the agent, of its goroutines and of the scripts keep what is said
\* of each worker.
LEMMA AgentSteps ==
  ASSUME TypeOK, AgentInv, NoSendOnClosed, NEW w \in Worker, WorkerInv(w),
         \/ \E c \in Controller : CloseOut(c)
         \/ \E s \in Scripts : Execute(s) \/ ScriptSends(s)
         \/ \E s \in Source : StartAll(s) \/ Deliver(s) \/ UpDrop(s) \/ UpSeesClose(s)
         \/ Begin \/ StopAll \/ CloseMerged \/ Return
         \/ Cancel
  PROVE  WorkerInv(w)'
<1> USE DEF agentVars, workerVars, scriptVars
<1>t. /\ offered \in [Worker -> Nat] /\ delivered \in [Worker -> Nat] /\ item \in [Worker -> Nat]
      /\ held \in [Source -> Update] /\ \A s \in Source : held[s].number \in Nat
      /\ DOMAIN fwd = Worker /\ DOMAIN producer = Worker
      /\ DOMAIN up = Source
      /\ Owner[w] \in Source /\ Owner[w] \in Controller /\ Owner[w] \notin Scripts
  BY Owners DEF TypeOK, Update
<1>1. ASSUME NEW c \in Controller, CloseOut(c) PROVE WorkerInv(w)'
  BY <1>1, Untouched DEF CloseOut, InAgent
<1>2. ASSUME NEW c \in Source, UpSeesClose(c) PROVE WorkerInv(w)'
  <2>1. CASE c = Owner[w]
    <3>1. fwd[w] = "done" /\ up[Owner[w]] = "receives" /\ up'[Owner[w]] = "done"
      BY <1>2, <1>t, <2>1 DEF UpSeesClose, Closed, NoSendOnClosed
    <3> QED BY <1>2, <1>t, <3>1
            DEF UpSeesClose, WorkerInv, InLine, UnderWay, NotStarted, InAgent, Unit
  <2>2. CASE c # Owner[w]
    BY <1>2, <1>t, <2>2, Untouched DEF UpSeesClose, InAgent
  <2> QED BY <2>1, <2>2
<1>3. ASSUME NEW s \in Scripts, Execute(s) PROVE WorkerInv(w)'
  BY <1>3, Untouched DEF Execute, InAgent
<1>4. ASSUME NEW s \in Scripts, ScriptSends(s) PROVE WorkerInv(w)'
  <2>1. s # Owner[w]
    BY <1>t
  <2> QED BY <1>4, <1>t, <2>1, Untouched DEF ScriptSends, InAgent
<1>5. ASSUME NEW s \in Source, StartAll(s) PROVE WorkerInv(w)'
  <2>1. up[Owner[w]] = "none"
    BY <1>5, <1>t DEF StartAll, AgentInv
  <2>2. CASE s = Owner[w]
    <3>1. fwd[w] = "none" /\ producer[w] = "idle" /\ fwd'[w] = "receives"
      BY <1>5, <2>2 DEF StartAll, WorkerInv, NotStarted
    <3> QED BY <1>5, <1>t, <2>1, <2>2, <3>1
            DEF StartAll, WorkerInv, InLine, UnderWay, NotStarted, InAgent, Unit
  <2>3. CASE s # Owner[w]
    <3>1. fwd'[w] = fwd[w]
      BY <1>5, <2>3 DEF StartAll
    <3>2. InLine(w)' /\ UnderWay(w)'
      BY <1>5, <1>t, <3>1 DEF StartAll, WorkerInv, InLine, UnderWay, InAgent, Unit
    <3>3. NotStarted(w)'
      BY <1>5, <2>3, <3>1 DEF StartAll, WorkerInv, NotStarted
    <3> QED BY <3>2, <3>3 DEF WorkerInv
  <2> QED BY <2>2, <2>3
<1>6. ASSUME NEW s \in Source, Deliver(s) PROVE WorkerInv(w)'
  <2>1. CASE w = held[s].from
    <3>1. s = Owner[w]
      BY <2>1, Owners DEF AgentInv
    <3>2. /\ InAgent(w) /\ ~InAgent(w)' /\ delivered'[w] = delivered[w] + 1
          /\ up[Owner[w]] = "sends" /\ up'[Owner[w]] = "receives"
      <4>1. up[s] = "sends" /\ up'[s] = "receives"
        BY <1>6, <1>t DEF Deliver
      <4>2. delivered'[w] = held[s].number
        <5>1. delivered' = [v \in Worker |-> IF v = held[s].from THEN held[s].number ELSE delivered[v]]
          BY <1>6, Zenon DEF Deliver
        <5> QED BY <2>1, <5>1, Zenon
      <4>3. InAgent(w) /\ ~InAgent(w)'
        BY <2>1, <3>1, <4>1 DEF InAgent
      <4> QED BY <3>1, <4>1, <4>2, <4>3 DEF WorkerInv, InLine
    <3>3. UNCHANGED <<cancelled, started, offered, producer, fwd, item>>
      BY <1>6 DEF Deliver
    <3>4. InLine(w)'
      BY <1>t, <3>2, <3>3 DEF WorkerInv, InLine, Unit
    <3>5. UnderWay(w)' /\ NotStarted(w)'
      BY <1>t, <3>2, <3>3 DEF WorkerInv, UnderWay, NotStarted, Unit
    <3> QED BY <3>4, <3>5 DEF WorkerInv
  <2>2. CASE w # held[s].from
    <3>1. delivered'[w] = delivered[w]
      BY <1>6, <2>2 DEF Deliver
    <3>2. InAgent(w)' <=> InAgent(w)
      BY <1>6, <1>t, <2>2 DEF Deliver, InAgent
    <3>3. InAgent(w) => held'[Owner[w]] = held[Owner[w]]
      BY <1>6, <1>t, <2>2 DEF Deliver, InAgent
    <3>4. up'[Owner[w]] = "done" <=> up[Owner[w]] = "done"
      BY <1>6, <1>t DEF Deliver
    <3> QED BY <1>6, <3>1, <3>2, <3>3, <3>4, Untouched DEF Deliver
  <2> QED BY <2>1, <2>2
<1>7. ASSUME NEW s \in Source, UpDrop(s) PROVE WorkerInv(w)'
  <2>1. CASE s = Owner[w]
    <3>1. cancelled /\ up'[Owner[w]] = "done" /\ ~InAgent(w)'
      BY <1>7, <1>t, <2>1 DEF UpDrop, InAgent
    <3>2. UNCHANGED <<cancelled, started, offered, producer, fwd, item, delivered>>
      BY <1>7 DEF UpDrop
    <3>3. InLine(w)' /\ NotStarted(w)'
      BY <3>1, <3>2 DEF WorkerInv, InLine, NotStarted
    <3>4. UnderWay(w)'
      BY <1>t, <3>1, <3>2 DEF WorkerInv, UnderWay, Unit
    <3> QED BY <3>3, <3>4 DEF WorkerInv
  <2>2. CASE s # Owner[w]
    BY <1>7, <1>t, <2>2, Untouched DEF UpDrop, InAgent
  <2> QED BY <2>1, <2>2
<1>8. CASE Begin
  <2>1. /\ InAgent(w)' <=> InAgent(w)
        /\ up'[Owner[w]] = "done" <=> up[Owner[w]] = "done"
    BY <1>8, <1>t DEF Begin, AgentInv, InAgent
  <2> QED BY <1>8, <2>1, Untouched DEF Begin
<1>9. CASE StopAll
  BY <1>9, Untouched DEF StopAll, InAgent
<1>10. CASE CloseMerged
  BY <1>10, Untouched DEF CloseMerged, InAgent
<1>11. CASE Return
  BY <1>11, Untouched DEF Return, InAgent
<1>12. CASE Cancel
  BY <1>12, <1>t DEF Cancel, WorkerInv, InLine, UnderWay, NotStarted, InAgent, Unit
<1> QED BY <1>1, <1>2, <1>3, <1>4, <1>5, <1>6, <1>7, <1>8, <1>9, <1>10, <1>11, <1>12

\* What is said of the agent's goroutines and of the closed channels is kept.
LEMMA StepAgent ==
  ASSUME TypeOK, AgentInv, NoSendOnClosed, \A w \in Worker : NotStarted(w), Next
  PROVE  AgentInv' /\ NoSendOnClosed'
<1> USE DEF agentVars, workerVars, scriptVars, AgentInv, NoSendOnClosed
<1>t. /\ DOMAIN fwd = Worker /\ DOMAIN producer = Worker /\ DOMAIN closes = Controller
      /\ DOMAIN up = Source /\ DOMAIN held = Source /\ started \subseteq Source
      /\ closes \in [Controller -> 0..1] /\ merged \in 0..1
  BY DEF TypeOK
<1>1. ASSUME NEW w \in Worker,
             Offer(w) \/ CloseUpdates(w) \/ Receive(w) \/ SeesClose(w) \/ Drop(w)
      PROVE  AgentInv' /\ NoSendOnClosed'
  <2>1. UNCHANGED <<cancelled, agentVars, closes>>
    BY <1>1 DEF Offer, CloseUpdates, Receive, SeesClose, Drop
  <2>2. \A v \in Worker : fwd[v] = "done" => fwd'[v] = "done"
    BY <1>1, <1>t DEF Offer, CloseUpdates, Receive, SeesClose, Drop
  <2> QED BY <2>1, <2>2
<1>2. ASSUME NEW w \in Worker, Forward(w) PROVE AgentInv' /\ NoSendOnClosed'
  <2>1. /\ Owner[w] \in Source /\ up[Owner[w]] = "receives" /\ pc # "starting"
        /\ UNCHANGED <<pc, started, closes, merged>>
    BY <1>2, Owners DEF Forward
  <2>2. \A v \in Worker : fwd[v] = "done" => fwd'[v] = "done"
    BY <1>2, <1>t DEF Forward
  <2>3. \A s \in Source : held'[s].from # Nobody => Owner[held'[s].from] = s
    BY <1>2, <1>t DEF Forward
  <2>4. merged # 1
    BY <2>1
  <2> QED BY <2>1, <2>2, <2>3, <2>4
<1>3. ASSUME NEW c \in Controller, CloseOut(c) PROVE AgentInv' /\ NoSendOnClosed'
  BY <1>3, <1>t DEF CloseOut
<1>4. ASSUME NEW s \in Source, UpSeesClose(s) PROVE AgentInv' /\ NoSendOnClosed'
  BY <1>4, <1>t DEF UpSeesClose, Source
<1>5. ASSUME NEW s \in Scripts, Execute(s) PROVE AgentInv' /\ NoSendOnClosed'
  BY <1>5 DEF Execute
<1>6. ASSUME NEW s \in Scripts, ScriptSends(s) PROVE AgentInv' /\ NoSendOnClosed'
  <2>1. s \in Source /\ up[s] = "receives" /\ pc # "starting" /\ merged # 1
    BY <1>6 DEF ScriptSends, Source
  <2>2. \A t \in Source : held'[t].from # Nobody => Owner[held'[t].from] = t
    BY <1>6, <1>t DEF ScriptSends, NoUpdate
  <2> QED BY <1>6, <1>t, <2>1, <2>2 DEF ScriptSends
<1>7. ASSUME NEW s \in Source, StartAll(s) PROVE AgentInv' /\ NoSendOnClosed'
  <2>1. \A w \in Worker : closes[Owner[w]] = 1 => fwd'[w] = "done"
    BY <1>7, Owners DEF StartAll
  <2> QED BY <1>7, <2>1 DEF StartAll
<1>8. ASSUME NEW s \in Source, Deliver(s) PROVE AgentInv' /\ NoSendOnClosed'
  <2>1. merged # 1 /\ \A t \in Source : held'[t].from # Nobody => Owner[held'[t].from] = t
    BY <1>8, <1>t DEF Deliver, NoUpdate
  <2> QED BY <1>8, <1>t, <2>1 DEF Deliver
<1>9. ASSUME NEW s \in Source, UpDrop(s) PROVE AgentInv' /\ NoSendOnClosed'
  <2>1. \A t \in Source : held'[t].from # Nobody => Owner[held'[t].from] = t
    BY <1>9, <1>t DEF UpDrop, NoUpdate
  <2> QED BY <1>9, <1>t, <2>1 DEF UpDrop
<1>10. CASE Begin
  <2>1. merged # 1
    BY <1>10, Owners DEF Begin
  <2> QED BY <1>10, <2>1 DEF Begin
<1>11. CASE StopAll
  BY <1>11 DEF StopAll
<1>12. CASE CloseMerged
  BY <1>12 DEF CloseMerged
<1>13. CASE Return
  BY <1>13 DEF Return
<1>14. CASE Cancel
  BY <1>14 DEF Cancel
<1> QED BY <1>1, <1>2, <1>3, <1>4, <1>5, <1>6, <1>7, <1>8, <1>9, <1>10, <1>11, <1>12,
           <1>13, <1>14 DEF Next

-----------------------------------------------------------------------------
\* PipelineInv is inductive.
LEMMA StepPipeline == TypeOK /\ PipelineInv /\ [Next]_vars => PipelineInv'
<1>1. ASSUME TypeOK, PipelineInv, Next PROVE PipelineInv'
  <2>1. AgentInv' /\ NoSendOnClosed'
    BY <1>1, StepAgent DEF PipelineInv
  <2>2. ASSUME NEW w \in Worker PROVE WorkerInv(w)'
    <3>0. AgentInv /\ NoSendOnClosed /\ WorkerInv(w)
      BY <1>1 DEF PipelineInv, WorkerInv
    <3>1. CASE \E v \in Worker :
                 \/ Offer(v) \/ CloseUpdates(v)
                 \/ Receive(v) \/ SeesClose(v) \/ Forward(v) \/ Drop(v)
      BY <1>1, <3>0, <3>1, WorkerSteps
    <3>2. CASE ~\E v \in Worker :
                 \/ Offer(v) \/ CloseUpdates(v)
                 \/ Receive(v) \/ SeesClose(v) \/ Forward(v) \/ Drop(v)
      <4>1. \/ \E c \in Controller : CloseOut(c)
            \/ \E s \in Scripts : Execute(s) \/ ScriptSends(s)
            \/ \E s \in Source : StartAll(s) \/ Deliver(s) \/ UpDrop(s) \/ UpSeesClose(s)
            \/ Begin \/ StopAll \/ CloseMerged \/ Return
            \/ Cancel
        BY <1>1, <3>2 DEF Next
      <4> QED BY <1>1, <3>0, <4>1, AgentSteps
    <3> QED BY <3>1, <3>2
  <2> QED BY <2>1, <2>2 DEF PipelineInv, WorkerInv
<1>2. ASSUME PipelineInv, UNCHANGED vars PROVE PipelineInv'
  BY <1>2 DEF PipelineInv, vars, agentVars, workerVars, scriptVars, NoSendOnClosed,
              AgentInv, InLine, UnderWay, NotStarted, InAgent, Unit
<1> QED BY <1>1, <1>2

\* PipelineInv holds in every state.
LEMMA PipelineInvHolds == Spec => [](TypeOK /\ PipelineInv)
<1>1. Init => PipelineInv
  BY Owners DEF Init, PipelineInv, NoSendOnClosed, AgentInv, InLine, UnderWay, NotStarted,
                InAgent, Unit, NoUpdate
<1> QED BY <1>1, TypeCorrect, StepPipeline, PTL DEF Spec

\* No goroutine sends on a channel that is closed.
THEOREM NeverSendsOnClosed == Spec => []NoSendOnClosed
<1>1. PipelineInv => NoSendOnClosed
  BY DEF PipelineInv
<1> QED BY <1>1, PipelineInvHolds, PTL

\* Until the agent stops, no update is lost.
THEOREM LosesNothing == Spec => []NothingLost
<1>1. PipelineInv => NothingLost
  BY DEF PipelineInv, InLine, NothingLost
<1> QED BY <1>1, PipelineInvHolds, PTL

-----------------------------------------------------------------------------
\* Only Offer makes an update and only Deliver processes one, the next in line.
LEMMA StepDelivery ==
  ASSUME TypeOK, PipelineInv, [Next]_vars
  PROVE  [Delivery!Next]_(Delivery!vars)
<1> USE DEF agentVars, workerVars, scriptVars
<1>1. ASSUME NEW w \in Worker, Offer(w) PROVE Delivery!Next
  BY <1>1 DEF Offer, Delivery!Next, Delivery!Offer
<1>2. ASSUME NEW s \in Source, Deliver(s) PROVE [Delivery!Next]_(Delivery!vars)
  <2>1. offered' = offered /\ delivered \in [Worker -> Nat] /\ offered \in [Worker -> Nat]
    BY <1>2 DEF Deliver, TypeOK
  <2>2. CASE held[s].from \in Worker
    <3> DEFINE w == held[s].from
    <3>1. w # Nobody
      BY <2>2, Owners
    <3>2. Owner[w] = s
      BY <3>1 DEF PipelineInv, AgentInv
    <3>3. InAgent(w)
      BY <1>2, <3>2 DEF Deliver, InAgent
    <3>4. held[s].number = delivered[w] + 1
      BY <2>2, <3>2, <3>3 DEF PipelineInv, InLine
    <3>5. delivered[w] < offered[w]
      BY <2>1, <2>2, <3>3 DEF PipelineInv, UnderWay, Unit
    <3>6. delivered' = [delivered EXCEPT ![w] = @ + 1]
      BY <1>2, <2>1, <3>4 DEF Deliver
    <3>7. Delivery!Deliver(w)
      BY <2>1, <3>5, <3>6 DEF Delivery!Deliver
    <3> QED BY <2>2, <3>7 DEF Delivery!Next
  <2>3. CASE held[s].from \notin Worker
    <3>1. delivered' = delivered
      BY <1>2, <2>1, <2>3 DEF Deliver
    <3> QED BY <2>1, <3>1 DEF Delivery!vars
  <2> QED BY <2>2, <2>3
<1>3. CASE /\ ~\E w \in Worker : Offer(w)
           /\ ~\E s \in Source : Deliver(s)
  <2>1. UNCHANGED <<offered, delivered>>
    BY <1>3 DEF Next, vars, CloseUpdates, Receive, SeesClose, Forward, Drop, CloseOut,
                UpSeesClose, Execute, ScriptSends, StartAll, UpDrop, Begin, StopAll,
                CloseMerged, Return, Cancel
  <2> QED BY <2>1 DEF Delivery!vars
<1> QED BY <1>1, <1>2, <1>3

\* Every worker's updates are processed in its order and without a gap.
THEOREM Implements == Spec => ImplementsDelivery
<1>1. Init => Delivery!Init
  BY DEF Init, Delivery!Init
<1> QED BY <1>1, StepDelivery, PipelineInvHolds, PTL
        DEF Spec, ImplementsDelivery, Delivery!Spec
=============================================================================
