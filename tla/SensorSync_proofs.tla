-------------------------- MODULE SensorSync_proofs --------------------------
(***************************************************************************)
(* Proofs about SensorSync, for every set of sensors, goroutines and       *)
(* values and any number of restarts.                                      *)
(***************************************************************************)
EXTENDS SensorSync, TLAPS

(***************************************************************************)
(* Types.                                                                  *)
(***************************************************************************)

\* What a send leaves behind is well typed.
LEMMA SendType ==
  ASSUME NEW t \in Task, NEW kind \in Kind, TypeOK, Send(t, kind)
  PROVE  /\ task' \in [Task -> [pc : Pc, sensor : Sensor, value : Value, answer : Answer]]
         /\ wire' \subseteq Request
<1>1. /\ task[t].sensor \in Sensor
      /\ task[t].value \in Value
      /\ kind \in Pc
      /\ "none" \in Answer
  BY DEF TypeOK, Pc, Waiting, Answer
<1>2. [kind |-> kind, sensor |-> task[t].sensor, value |-> task[t].value, task |-> t] \in Request
  BY <1>1 DEF Request
<1>3. wire' \subseteq Request
  BY <1>2 DEF Send, SensorOf, TypeOK
<1>4. task' \in [Task -> [pc : Pc, sensor : Sensor, value : Value, answer : Answer]]
  BY <1>1 DEF Send, Goto, TypeOK
<1> QED BY <1>3, <1>4

\* Moving a goroutine on keeps the tasks well typed.
LEMMA GotoType ==
  ASSUME NEW t \in Task, NEW p \in Pc, TypeOK
  PROVE  Goto(t, p) \in [Task -> [pc : Pc, sensor : Sensor, value : Value, answer : Answer]]
<1>1. "none" \in Answer
  BY DEF Answer
<1> QED BY <1>1 DEF TypeOK, Goto

\* A request nobody waits for is a request.
LEMMA AbandonedType ==
  ASSUME NEW r \in Request
  PROVE  Abandoned(r) \in Request
BY DEF Abandoned, Request

\* A changed entry of the registry is an entry.
LEMMA FlagsType ==
  ASSUME NEW s \in Sensor, NEW b \in BOOLEAN, TypeOK
  PROVE  /\ [registry[s] EXCEPT !.disabled = b] \in Flags
         /\ [registry[s] EXCEPT !.registered = b] \in Flags
BY DEF TypeOK, Flags

\* The registry's writers keep the map and its file well typed.
LEMMA SetFlagsType ==
  ASSUME NEW s \in Sensor, NEW b \in BOOLEAN, NEW saved \in BOOLEAN, TypeOK,
         SetDisabled(s, b, saved) \/ SetRegistered(s, b, saved)
  PROVE  /\ registry' \in [Sensor -> Flags]
         /\ file' \in [Sensor -> Flags]
         /\ faulty' \in BOOLEAN
<1>3. PICK f \in Flags : SetFlags(s, f, saved)
  BY FlagsType DEF SetDisabled, SetRegistered
<1>4. registry' \in [Sensor -> Flags]
  BY <1>3 DEF SetFlags, TypeOK
<1>5. file' \in [Sensor -> Flags]
  BY <1>3, <1>4 DEF SetFlags, TypeOK
<1>6. faulty' \in BOOLEAN
  BY <1>3 DEF SetFlags, TypeOK
<1> QED BY <1>4, <1>5, <1>6

\* Type correctness is preserved by every step of a goroutine.
LEMMA StepType ==
  ASSUME NEW t \in Task, TypeOK, Step(t)
  PROVE  TypeOK'
<1> USE DEF TypeOK, haVars
<1>1. CASE CheckDisabled(t)
  BY <1>1, SendType, GotoType DEF CheckDisabled, Kind, Pc
<1>2. CASE StillDisabled(t)
  BY <1>2, GotoType DEF StillDisabled, Pc
<1>3. ASSUME NEW saved \in BOOLEAN, Reenable(t, saved)
      PROVE  TypeOK'
  <2>1. SensorOf(t) \in Sensor
    BY DEF SensorOf
  <2>2. SetDisabled(SensorOf(t), FALSE, saved)
    BY <1>3 DEF Reenable
  <2>3. /\ registry' \in [Sensor -> Flags]
        /\ file' \in [Sensor -> Flags]
        /\ faulty' \in BOOLEAN
    BY <2>1, <2>2, SetFlagsType
  <2> QED BY <1>3, <2>3, GotoType DEF Reenable, Pc
<1>4. ASSUME NEW saved \in BOOLEAN, StoreDisabled(t, saved)
      PROVE  TypeOK'
  <2>1. SensorOf(t) \in Sensor /\ ReportsDisabled(t) \in BOOLEAN
    BY DEF SensorOf, ReportsDisabled
  <2>2. SetDisabled(SensorOf(t), ReportsDisabled(t), saved)
    BY <1>4 DEF StoreDisabled
  <2>3. /\ registry' \in [Sensor -> Flags]
        /\ file' \in [Sensor -> Flags]
        /\ faulty' \in BOOLEAN
    BY <2>1, <2>2, SetFlagsType
  <2> QED BY <1>4, <2>3 DEF StoreDisabled, Pc
<1>5. ASSUME NEW saved \in BOOLEAN, RegistrationDone(t, saved)
      PROVE  TypeOK'
  <2>1. SensorOf(t) \in Sensor
    BY DEF SensorOf
  <2>2. SetRegistered(SensorOf(t), TRUE, saved)
    BY <1>5 DEF RegistrationDone
  <2>3. /\ registry' \in [Sensor -> Flags]
        /\ file' \in [Sensor -> Flags]
        /\ faulty' \in BOOLEAN
    BY <2>1, <2>2, SetFlagsType
  <2> QED BY <1>5, <2>3 DEF RegistrationDone, Pc
<1>6. CASE Route(t)
  BY <1>6, SendType DEF Route, Kind
<1>7. CASE LocationAnswered(t)
  BY <1>7, GotoType DEF LocationAnswered, Pc
<1>8. CASE UpdateLost(t)
  BY <1>8, GotoType DEF UpdateLost, Pc
<1>9. CASE UpdateAnswered(t)
  BY <1>9 DEF UpdateAnswered, Pc
<1>10. CASE RegistrationFailed(t)
  BY <1>10, GotoType DEF RegistrationFailed, Pc
<1>11. CASE Track(t)
  BY <1>11, GotoType DEF Track, Pc, SensorOf
<1> QED
  BY <1>1, <1>2, <1>3, <1>4, <1>5, <1>6, <1>7, <1>8, <1>9, <1>10, <1>11 DEF Step

\* ... and by everything else that can happen.
LEMMA OtherType ==
  ASSUME TypeOK,
         \/ \E t \in Task : Timeout(t)
         \/ \E t \in Task, s \in Sensor, v \in Value : NewUpdate(t, s, v)
         \/ \E r \in wire : Handle(r)
         \/ Restart
         \/ User
  PROVE  TypeOK'
<1> USE DEF TypeOK, haVars, agentVars
<1>1. ASSUME NEW t \in Task, Timeout(t)
      PROVE  TypeOK'
  <2>1. wire' \subseteq Request
    BY <1>1, AbandonedType DEF Timeout
  <2> QED BY <1>1, <2>1 DEF Timeout, Answer
<1>2. ASSUME NEW t \in Task, NEW s \in Sensor, NEW v \in Value, NewUpdate(t, s, v)
      PROVE  TypeOK'
  BY <1>2 DEF NewUpdate, Pc, Answer
<1>3. ASSUME NEW r \in wire, Handle(r)
      PROVE  TypeOK'
  <2>1. /\ r.sensor \in Sensor
        /\ r.value \in Value
        /\ r.task \in Task \cup {NoTask}
        /\ AnswerTo(r) \in Answer
    BY DEF Request, AnswerTo, Answer
  <2>2. task' \in [Task -> [pc : Pc, sensor : Sensor, value : Value, answer : Answer]]
    BY <1>3, <2>1 DEF Handle
  <2>3. accepted' \in [Sensor -> SUBSET Value]
    BY <1>3, <2>1 DEF Handle
  <2> QED BY <1>3, <2>1, <2>2, <2>3 DEF Handle
<1>4. CASE Restart
  <2>1. tracker' \in [Sensor -> Value \cup {NoValue}]
    BY <1>4 DEF Restart
  <2>2. task' \in [Task -> [pc : Pc, sensor : Sensor, value : Value, answer : Answer]]
    BY <1>4 DEF Restart, Pc, Answer
  <2>3. wire' \subseteq Request
    BY <1>4, AbandonedType DEF Restart
  <2>4. restarts' \in 0..MaxRestarts
    <3>1. restarts \in 0..MaxRestarts /\ restarts < MaxRestarts /\ restarts' = restarts + 1
      BY <1>4 DEF Restart
    <3> HIDE DEF TypeOK
    <3> QED BY <3>1, ConstantsAssumption DEF ConstantsAssumption
  <2> QED BY <1>4, <2>1, <2>2, <2>3, <2>4 DEF Restart
<1>5. CASE User
  BY <1>5 DEF User, UserDisables, UserEnables, UserForgets
<1> QED
  BY <1>1, <1>2, <1>3, <1>4, <1>5

\* The variables of SensorSync hold what their declarations say.
THEOREM TypeCorrect == Spec => []TypeOK
<1>1. Init => TypeOK
  <2> SUFFICES ASSUME Init PROVE TypeOK
    OBVIOUS
  <2>1. task \in [Task -> [pc : Pc, sensor : Sensor, value : Value, answer : Answer]]
    <3>1. PICK s \in Sensor, v \in Value :
            task = [t \in Task |->
                      [pc |-> "idle", sensor |-> s, value |-> v, answer |-> "none"]]
      BY DEF Init
    <3>2. "idle" \in Pc /\ "none" \in Answer
      BY DEF Pc, Answer
    <3> QED BY <3>1, <3>2
  <2>2. /\ registry \in [Sensor -> Flags]
        /\ file \in [Sensor -> Flags]
    BY DEF Init, NoFlags, Flags
  <2>3. restarts \in 0..MaxRestarts
    BY ConstantsAssumption DEF Init
  <2> QED BY <2>1, <2>2, <2>3 DEF Init, TypeOK
<1>2. TypeOK /\ [Next]_vars => TypeOK'
  <2>1. ASSUME TypeOK, UNCHANGED vars
        PROVE  TypeOK'
    BY <2>1 DEF TypeOK, vars, agentVars, haVars
  <2> QED BY <2>1, StepType, OtherType DEF Next
<1> QED BY <1>1, <1>2, PTL DEF Spec

(***************************************************************************)
(* The registry.                                                           *)
(***************************************************************************)

\* Nothing is on the wire for a goroutine that is not waiting.
LEMMA NotWaiting ==
  ASSUME NEW t \in Task, TypeOK, RegistryInv,
         task[t].pc \notin Waiting \/ task[t].answer # "none"
  PROVE  \A r \in wire : r.task # t
<1>1. SUFFICES ASSUME NEW r \in wire, r.task = t PROVE FALSE
  OBVIOUS
<1>2. r.task # NoTask
  BY <1>1, ConstantsAssumption
<1>3. task[t].pc = r.kind /\ task[t].answer = "none"
  BY <1>1, <1>2 DEF RegistryInv, WireMatchesTasks
<1>4. r.kind \in Waiting
  BY DEF TypeOK, Request, Waiting
<1> QED BY <1>3, <1>4

\* A goroutine that moves on without sending leaves the wire's shape intact.
LEMMA MovesOn ==
  ASSUME NEW t \in Task, NEW p \in Pc \ Waiting, NEW a \in Answer, TypeOK, RegistryInv,
         task[t].pc \notin Waiting \/ task[t].answer # "none",
         task' = [task EXCEPT ![t].pc = p, ![t].answer = a],
         UNCHANGED <<wire, everKnown>>
  PROVE  (WireMatchesTasks /\ AnswersHeard)'
<1>1. \A u \in Task : u # t => task'[u] = task[u]
  BY DEF TypeOK
<1>2. task'[t].pc \notin Waiting
  BY DEF TypeOK
<1>3. \A r \in wire : r.task # t
  BY NotWaiting
<1>4. WireMatchesTasks'
  <2>1. \A r \in wire : r.task # NoTask => r.task \in Task
    BY DEF TypeOK, Request
  <2> QED BY <1>1, <1>3, <2>1 DEF RegistryInv, WireMatchesTasks
<1>5. AnswersHeard'
  <2>1. everKnown' = everKnown /\ task'[t].pc # "register"
    BY <1>2 DEF Waiting, Kind
  <2>2. \A u \in Task : task[u].pc = "register" /\ task[u].answer = "ok"
                         => task[u].sensor \in everKnown
    BY DEF RegistryInv, AnswersHeard
  <2>3. \A u \in Task : task'[u].pc = "register" /\ task'[u].answer = "ok"
                         => task'[u].sensor \in everKnown'
    BY <1>1, <2>1, <2>2
  <2> QED BY <2>3 DEF AnswersHeard
<1> QED BY <1>4, <1>5

\* A request sent by a goroutine that was not waiting is the only one it has.
LEMMA Sends ==
  ASSUME NEW t \in Task, NEW kind \in Kind, TypeOK, RegistryInv,
         task[t].pc \notin Waiting,
         Send(t, kind), UNCHANGED everKnown
  PROVE  (WireMatchesTasks /\ AnswersHeard)'
<1> DEFINE req == [kind |-> kind, sensor |-> SensorOf(t), value |-> task[t].value, task |-> t]
<1>1. \A u \in Task : u # t => task'[u] = task[u]
  BY DEF TypeOK, Send, Goto
<1>2. /\ task'[t].pc = kind
      /\ task'[t].answer = "none"
      /\ task'[t].sensor = task[t].sensor
  BY DEF TypeOK, Send, Goto
<1>3. \A r \in wire : r.task # t
  BY NotWaiting
<1>4. wire' = wire \cup {req}
  BY DEF Send
<1>5. WireMatchesTasks'
  <2>1. \A r \in wire : r.task # NoTask => r.task \in Task
    BY DEF TypeOK, Request
  <2>2. /\ req.task = t
        /\ req.kind = kind
        /\ req.sensor = task[t].sensor
    BY DEF SensorOf
  <2>3. \A r \in wire' : r.task # NoTask =>
          /\ task'[r.task].pc = r.kind
          /\ task'[r.task].answer = "none"
          /\ task'[r.task].sensor = r.sensor
    BY <1>1, <1>2, <1>3, <1>4, <2>1, <2>2 DEF RegistryInv, WireMatchesTasks
  <2>4. \A r1, r2 \in wire' : r1.task = r2.task /\ r1.task # NoTask => r1 = r2
    BY <1>3, <1>4, <2>2 DEF RegistryInv, WireMatchesTasks
  <2> QED BY <2>3, <2>4 DEF WireMatchesTasks
<1>6. AnswersHeard'
  <2>1. everKnown' = everKnown /\ task'[t].answer # "ok"
    BY <1>2
  <2>2. \A u \in Task : task[u].pc = "register" /\ task[u].answer = "ok"
                         => task[u].sensor \in everKnown
    BY DEF RegistryInv, AnswersHeard
  <2>3. \A u \in Task : task'[u].pc = "register" /\ task'[u].answer = "ok"
                         => task'[u].sensor \in everKnown'
    BY <1>1, <2>1, <2>2
  <2> QED BY <2>3 DEF AnswersHeard
<1> QED BY <1>5, <1>6

\* SetDisabled, and SetRegistered of a sensor Home Assistant accepted, keep the
\* registry sound and its file behind it.
LEMMA WritesFlags ==
  ASSUME NEW s \in Sensor, NEW b \in BOOLEAN, NEW saved \in BOOLEAN, TypeOK, RegistryInv,
         \/ SetDisabled(s, b, saved)
         \/ SetRegistered(s, TRUE, saved) /\ s \in everKnown,
         UNCHANGED everKnown
  PROVE  (RegistryHeard /\ FileBehindRegistry)'
<1>1. PICK f \in Flags :
        /\ SetFlags(s, f, saved)
        /\ f.registered => registry[s].registered \/ s \in everKnown
        /\ registry[s].registered => f.registered
  <2>1. CASE SetDisabled(s, b, saved)
    <3>1. [registry[s] EXCEPT !.disabled = b] \in Flags
      BY FlagsType
    <3>2. [registry[s] EXCEPT !.disabled = b].registered = registry[s].registered
      BY DEF TypeOK, Flags
    <3> QED BY <2>1, <3>1, <3>2 DEF SetDisabled
  <2>2. CASE SetRegistered(s, TRUE, saved) /\ s \in everKnown
    <3>1. [registry[s] EXCEPT !.registered = TRUE] \in Flags
      BY FlagsType
    <3>2. [registry[s] EXCEPT !.registered = TRUE].registered
      BY DEF TypeOK, Flags
    <3> QED BY <2>2, <3>1, <3>2 DEF SetRegistered
  <2> QED BY <2>1, <2>2
<1>2. registry' = [registry EXCEPT ![s] = f] /\ (file' = registry' \/ file' = file)
  BY <1>1 DEF SetFlags
<1>3. registry'[s] = f /\ \A u \in Sensor : u # s => registry'[u] = registry[u]
  BY <1>2 DEF TypeOK
<1>4. \A u \in Sensor : registry'[u].registered => u \in everKnown
  BY <1>1, <1>3 DEF RegistryInv, RegistryHeard
<1>5. RegistryHeard'
  BY <1>2, <1>4 DEF RegistryInv, RegistryHeard
<1>6. FileBehindRegistry'
  BY <1>1, <1>2, <1>3 DEF RegistryInv, FileBehindRegistry
<1> QED BY <1>5, <1>6

\* With the registry untouched, what it says stays true.
LEMMA KeepsFlags ==
  ASSUME RegistryInv, UNCHANGED <<registry, file>>, everKnown \subseteq everKnown'
  PROVE  (RegistryHeard /\ FileBehindRegistry)'
BY DEF RegistryInv, RegistryHeard, FileBehindRegistry

\* The registry's invariant is preserved by every step of a goroutine.
LEMMA StepRegistry ==
  ASSUME NEW t \in Task, TypeOK, RegistryInv, Step(t)
  PROVE  RegistryInv'
<1> USE DEF haVars
<1> DEFINE Tasks == WireMatchesTasks /\ AnswersHeard
           RegistryUntouched == UNCHANGED <<registry, file, everKnown>>
<1>0. /\ SensorOf(t) \in Sensor
      /\ task[t].answer \in Answer
      /\ "none" \in Answer
  BY DEF TypeOK, SensorOf, Answer
<1>1. CASE CheckDisabled(t)
  <2>1. task[t].pc = "check" /\ RegistryUntouched
    BY <1>1 DEF CheckDisabled
  <2>2. CASE registry[SensorOf(t)].disabled
    BY <1>1, <2>1, <2>2, Sends, KeepsFlags DEF CheckDisabled, RegistryInv, Kind, Waiting
  <2>3. CASE ~registry[SensorOf(t)].disabled
    <3>1. task' = [task EXCEPT ![t].pc = "route", ![t].answer = "none"] /\ UNCHANGED wire
      BY <1>1, <2>3 DEF CheckDisabled, Goto
    <3>2. Tasks'
      BY <1>0, <2>1, <3>1, MovesOn DEF Pc, Waiting, Kind
    <3> QED BY <2>1, <3>2, KeepsFlags DEF RegistryInv
  <2> QED BY <2>2, <2>3
<1>2. CASE \/ StillDisabled(t)
           \/ LocationAnswered(t)
           \/ UpdateLost(t)
           \/ RegistrationFailed(t)
  <2>1. /\ task[t].answer # "none"
        /\ task' = [task EXCEPT ![t].pc = "idle", ![t].answer = "none"]
        /\ RegistryUntouched
        /\ UNCHANGED wire
    BY <1>2 DEF StillDisabled, LocationAnswered, UpdateLost, RegistrationFailed, Answered, Goto
  <2>2. Tasks'
    BY <1>0, <2>1, MovesOn DEF Pc, Waiting, Kind
  <2> QED BY <2>1, <2>2, KeepsFlags DEF RegistryInv
<1>3. ASSUME NEW saved \in BOOLEAN, Reenable(t, saved)
      PROVE  RegistryInv'
  <2>1. PICK p \in {"route", "idle"} :
          /\ task[t].answer # "none"
          /\ task' = [task EXCEPT ![t].pc = p, ![t].answer = "none"]
          /\ SetDisabled(SensorOf(t), FALSE, saved)
          /\ UNCHANGED <<wire, everKnown>>
    BY <1>3 DEF Reenable, Answered, Goto
  <2>2. Tasks'
    BY <1>0, <2>1, MovesOn DEF Pc, Waiting, Kind
  <2> QED BY <1>0, <2>1, <2>2, WritesFlags DEF RegistryInv
<1>4. ASSUME NEW saved \in BOOLEAN, StoreDisabled(t, saved)
      PROVE  RegistryInv'
  <2>1. /\ task[t].pc = "setDisabled"
        /\ task' = [task EXCEPT ![t].pc = "track"]
        /\ SetDisabled(SensorOf(t), ReportsDisabled(t), saved)
        /\ UNCHANGED <<wire, everKnown>>
    BY <1>4 DEF StoreDisabled
  <2>2. task' = [task EXCEPT ![t].pc = "track", ![t].answer = task[t].answer]
    BY <2>1 DEF TypeOK
  <2>3. Tasks'
    <3>1. "track" \in Pc \ Waiting
      BY DEF Pc, Waiting, Kind
    <3>2. task[t].pc \notin Waiting \/ task[t].answer # "none"
      BY <2>1 DEF Waiting, Kind
    <3> QED BY <1>0, <2>1, <2>2, <3>1, <3>2, MovesOn
  <2>4. ReportsDisabled(t) \in BOOLEAN
    BY DEF ReportsDisabled
  <2> QED BY <1>0, <2>1, <2>3, <2>4, WritesFlags DEF RegistryInv
<1>5. ASSUME NEW saved \in BOOLEAN, RegistrationDone(t, saved)
      PROVE  RegistryInv'
  <2>1. /\ task[t].pc = "register"
        /\ task[t].answer = "ok"
        /\ task' = [task EXCEPT ![t].pc = "track"]
        /\ SetRegistered(SensorOf(t), TRUE, saved)
        /\ UNCHANGED <<wire, everKnown>>
    BY <1>5 DEF RegistrationDone, Answered
  <2>2. task' = [task EXCEPT ![t].pc = "track", ![t].answer = task[t].answer]
    BY <2>1 DEF TypeOK
  <2>3. Tasks'
    <3>1. "track" \in Pc \ Waiting
      BY DEF Pc, Waiting, Kind
    <3>2. task[t].pc \notin Waiting \/ task[t].answer # "none"
      BY <2>1 DEF Waiting, Kind
    <3> QED BY <1>0, <2>1, <2>2, <3>1, <3>2, MovesOn
  <2>4. SensorOf(t) \in everKnown
    BY <2>1 DEF RegistryInv, AnswersHeard, SensorOf
  <2> QED BY <1>0, <2>1, <2>3, <2>4, WritesFlags DEF RegistryInv
<1>6. CASE Route(t)
  <2>1. PICK kind \in Kind :
          task[t].pc = "route" /\ Send(t, kind) /\ RegistryUntouched
    BY <1>6 DEF Route, Kind
  <2>2. Tasks'
    BY <2>1, Sends DEF Waiting, Kind
  <2> QED BY <2>1, <2>2, KeepsFlags DEF RegistryInv
<1>7. CASE UpdateAnswered(t)
  <2>1. PICK p \in {"setDisabled", "track"} :
          /\ task[t].answer # "none"
          /\ task' = [task EXCEPT ![t].pc = p]
          /\ RegistryUntouched
          /\ UNCHANGED wire
    BY <1>7 DEF UpdateAnswered, Answered
  <2>2. task' = [task EXCEPT ![t].pc = p, ![t].answer = task[t].answer]
    BY <2>1 DEF TypeOK
  <2>3. Tasks'
    BY <1>0, <2>1, <2>2, MovesOn DEF Pc, Waiting, Kind
  <2> QED BY <2>1, <2>3, KeepsFlags DEF RegistryInv
<1>8. CASE Track(t)
  <2>1. /\ task[t].pc = "track"
        /\ task' = [task EXCEPT ![t].pc = "idle", ![t].answer = "none"]
        /\ RegistryUntouched
        /\ UNCHANGED wire
    BY <1>8 DEF Track, Goto
  <2>2. Tasks'
    BY <1>0, <2>1, MovesOn DEF Pc, Waiting, Kind
  <2> QED BY <2>1, <2>2, KeepsFlags DEF RegistryInv
<1> QED
  BY <1>1, <1>2, <1>3, <1>4, <1>5, <1>6, <1>7, <1>8 DEF Step

\* A request somebody waits for, after some were abandoned, was there before.
LEMMA AbandonedUnowned ==
  ASSUME NEW r \in Request
  PROVE  Abandoned(r).task = NoTask
BY DEF Abandoned, Request

\* A task that times out leaves its request behind, which is nobody's then.
LEMMA TimeoutRegistry ==
  ASSUME NEW t \in Task, TypeOK, RegistryInv, Timeout(t)
  PROVE  RegistryInv'
<1>1. /\ task' = [task EXCEPT ![t].answer = "zero"]
      /\ wire' = {IF r.task = t THEN Abandoned(r) ELSE r : r \in wire}
      /\ UNCHANGED <<registry, file, everKnown>>
  BY DEF Timeout, haVars
<1>2. /\ \A u \in Task : u # t => task'[u] = task[u]
      /\ task'[t].answer = "zero"
  BY <1>1 DEF TypeOK
<1>3. \A r \in wire' : r.task # NoTask => r \in wire /\ r.task # t /\ r.task \in Task
  <2>1. \A r \in wire : r \in Request
    BY DEF TypeOK
  <2>2. \A r \in Request : r.task # NoTask => r.task \in Task
    BY DEF Request
  <2> QED BY <1>1, <2>1, <2>2, AbandonedUnowned
<1>4. WireMatchesTasks'
  BY <1>2, <1>3 DEF RegistryInv, WireMatchesTasks
<1>5. AnswersHeard'
  <2>1. \A u \in Task : task[u].pc = "register" /\ task[u].answer = "ok"
                         => task[u].sensor \in everKnown
    BY DEF RegistryInv, AnswersHeard
  <2>2. \A u \in Task : task'[u].pc = "register" /\ task'[u].answer = "ok"
                         => task'[u].sensor \in everKnown'
    BY <1>1, <1>2, <2>1
  <2> QED BY <2>2 DEF AnswersHeard
<1> QED BY <1>1, <1>4, <1>5, KeepsFlags DEF RegistryInv

\* A task that starts has no request yet.
LEMMA NewUpdateRegistry ==
  ASSUME NEW t \in Task, NEW s \in Sensor, NEW v \in Value, TypeOK, RegistryInv,
         NewUpdate(t, s, v)
  PROVE  RegistryInv'
<1>1. /\ task[t].pc \notin Waiting
      /\ task'[t].pc = "check"
      /\ \A u \in Task : u # t => task'[u] = task[u]
      /\ UNCHANGED <<wire, registry, file, everKnown>>
  BY DEF NewUpdate, TypeOK, haVars, Waiting, Kind
<1>2. \A r \in wire : r.task # t
  BY <1>1, NotWaiting
<1>3. \A r \in wire : r.task # NoTask => r.task \in Task
  BY DEF TypeOK, Request
<1>4. WireMatchesTasks'
  BY <1>1, <1>2, <1>3 DEF RegistryInv, WireMatchesTasks
<1>5. AnswersHeard'
  <2>1. \A u \in Task : task[u].pc = "register" /\ task[u].answer = "ok"
                         => task[u].sensor \in everKnown
    BY DEF RegistryInv, AnswersHeard
  <2>2. \A u \in Task : task'[u].pc = "register" /\ task'[u].answer = "ok"
                         => task'[u].sensor \in everKnown'
    BY <1>1, <2>1
  <2> QED BY <2>2 DEF AnswersHeard
<1> QED BY <1>1, <1>4, <1>5, KeepsFlags DEF RegistryInv

\* Home Assistant's answer reaches the goroutine that asked, about the sensor it
\* asked for; a registration's success comes with Home Assistant knowing it.
LEMMA HandleRegistry ==
  ASSUME NEW r \in wire, TypeOK, RegistryInv, Handle(r)
  PROVE  RegistryInv'
<1>1. /\ wire' = wire \ {r}
      /\ everKnown \subseteq everKnown'
      /\ r.kind = "register" => r.sensor \in everKnown'
      /\ UNCHANGED <<registry, file>>
  BY DEF Handle
<1>2. CASE r.task = NoTask
  <2>1. task' = task
    BY <1>2 DEF Handle
  <2> QED
    BY <1>1, <2>1, KeepsFlags DEF RegistryInv, WireMatchesTasks, AnswersHeard
<1>3. CASE r.task # NoTask
  <2>1. r.task \in Task
    BY <1>3 DEF TypeOK, Request
  <2>2. /\ \A u \in Task : u # r.task => task'[u] = task[u]
        /\ task'[r.task].pc = r.kind
        /\ task'[r.task].sensor = r.sensor
    BY <1>3, <2>1 DEF Handle, TypeOK, RegistryInv, WireMatchesTasks
  <2>3. \A q \in wire' : q \in wire /\ q.task # r.task
                          /\ (q.task # NoTask => q.task \in Task)
    BY <1>1, <1>3 DEF RegistryInv, WireMatchesTasks, TypeOK, Request
  <2>4. WireMatchesTasks'
    BY <2>2, <2>3 DEF RegistryInv, WireMatchesTasks
  <2>5. AnswersHeard'
    <3>1. \A u \in Task : task[u].pc = "register" /\ task[u].answer = "ok"
                           => task[u].sensor \in everKnown
      BY DEF RegistryInv, AnswersHeard
    <3>2. \A u \in Task : task'[u].pc = "register" /\ task'[u].answer = "ok"
                           => task'[u].sensor \in everKnown'
      BY <1>1, <2>1, <2>2, <3>1
    <3> QED BY <3>2 DEF AnswersHeard
  <2> QED BY <1>1, <2>4, <2>5, KeepsFlags DEF RegistryInv
<1> QED BY <1>2, <1>3

\* A restart takes the registry from the file; the requests of its tasks are nobody's.
LEMMA RestartRegistry ==
  ASSUME TypeOK, RegistryInv, Restart
  PROVE  RegistryInv'
<1>1. /\ registry' = file
      /\ UNCHANGED <<file, everKnown>>
      /\ wire' = {Abandoned(r) : r \in wire}
      /\ \A t \in Task : task'[t].answer = "none"
  BY DEF Restart, haVars, TypeOK
<1>2. (RegistryHeard /\ FileBehindRegistry)'
  BY <1>1 DEF RegistryInv, RegistryHeard, FileBehindRegistry
<1>3. \A r \in wire' : r.task = NoTask
  BY <1>1, AbandonedUnowned DEF TypeOK
<1>4. (WireMatchesTasks /\ AnswersHeard)'
  BY <1>1, <1>3 DEF WireMatchesTasks, AnswersHeard
<1> QED BY <1>2, <1>4 DEF RegistryInv

\* What the user does in Home Assistant changes neither map nor the history.
LEMMA UserRegistry ==
  ASSUME RegistryInv, User
  PROVE  RegistryInv'
<1>1. UNCHANGED <<registry, file, task, wire, everKnown>>
  BY DEF User, UserDisables, UserEnables, UserForgets, agentVars
<1> QED
  BY <1>1 DEF RegistryInv, RegistryHeard, FileBehindRegistry, WireMatchesTasks, AnswersHeard

\* The strengthening is inductive.
LEMMA RegistryInductive == TypeOK /\ RegistryInv /\ [Next]_vars => RegistryInv'
<1>1. ASSUME TypeOK, RegistryInv, Next
      PROVE  RegistryInv'
  BY <1>1, StepRegistry, TimeoutRegistry, NewUpdateRegistry, HandleRegistry,
     RestartRegistry, UserRegistry DEF Next
<1>2. ASSUME RegistryInv, UNCHANGED vars
      PROVE  RegistryInv'
  BY <1>2 DEF vars, agentVars, haVars, RegistryInv, RegistryHeard,
              FileBehindRegistry, WireMatchesTasks, AnswersHeard
<1> QED BY <1>1, <1>2

\* The strengthening holds in every state.
LEMMA RegistryInvHolds == Spec => []RegistryInv
<1>1. Init => RegistryInv
  BY DEF Init, NoFlags, RegistryInv, RegistryHeard, FileBehindRegistry,
         WireMatchesTasks, AnswersHeard
<1> QED BY <1>1, RegistryInductive, TypeCorrect, PTL DEF Spec

\* The agent never takes a sensor for registered that Home Assistant did not
\* accept: neither in memory nor after a restart.
THEOREM RegistryIsHeard == Spec => []RegistryHeard
<1>1. RegistryInv => RegistryHeard
  BY DEF RegistryInv
<1> QED BY <1>1, RegistryInvHolds, PTL

\* The registry file never has a registration that the running agent lacks.
THEOREM FileIsBehind == Spec => []FileBehindRegistry
<1>1. RegistryInv => FileBehindRegistry
  BY DEF RegistryInv
<1> QED BY <1>1, RegistryInvHolds, PTL

(***************************************************************************)
(* Refinement: SensorSync implements SensorLifecycle.                      *)
(***************************************************************************)

\* The phases depend on the registered flags and on what Home Assistant accepted.
LEMMA PhaseStutters ==
  ASSUME \A s \in Sensor : /\ registry'[s].registered <=> registry[s].registered
                           /\ file'[s].registered <=> file[s].registered
                           /\ s \in everKnown' <=> s \in everKnown
  PROVE  phase' = phase
BY DEF phase

\* A saved registry, in which the sensors of S are newly registered.
LEMMA SaveStep ==
  ASSUME RegistryInv,
         NEW S \in SUBSET Sensor, S \subseteq everKnown,
         \A s \in Sensor : registry'[s].registered <=> registry[s].registered \/ s \in S,
         \A s \in Sensor : file'[s].registered <=> registry'[s].registered,
         UNCHANGED everKnown
  PROVE  Lifecycle!Next
<1> DEFINE A == {s \in S : ~registry[s].registered}
<1>1. \A s \in Sensor : file[s].registered => registry[s].registered
  BY DEF RegistryInv, FileBehindRegistry
<1>2. A \subseteq Lifecycle!In("accepted")
  BY <1>1 DEF Lifecycle!In, phase
<1>3. phase' = Lifecycle!Moved(A \cup Lifecycle!In("recorded"), "durable")
  <2>1. \A s \in Sensor : s \in A \cup Lifecycle!In("recorded")
                           <=> ~file[s].registered /\ file'[s].registered
    BY <1>1 DEF Lifecycle!In, phase
  <2>2. \A s \in Sensor : file[s].registered => file'[s].registered
    BY <1>1
  <2>3. \A s \in Sensor : phase'[s] = IF ~file[s].registered /\ file'[s].registered
                                      THEN "durable" ELSE phase[s]
    BY <2>1, <2>2 DEF phase
  <2>4. phase' = [s \in Sensor |-> phase'[s]]
    BY DEF phase
  <2> QED BY <2>1, <2>3, <2>4 DEF Lifecycle!Moved
<1>4. Lifecycle!Save(A)
  BY <1>2, <1>3 DEF Lifecycle!Save
<1> QED BY <1>4 DEF Lifecycle!Next

\* A registration recorded without being saved.
LEMMA RecordStep ==
  ASSUME RegistryInv,
         NEW s \in Sensor, s \in everKnown,
         registry'[s].registered,
         \A u \in Sensor : u # s => registry'[u].registered = registry[u].registered,
         UNCHANGED <<file, everKnown>>
  PROVE  Lifecycle!Next \/ phase' = phase
<1>1. CASE registry[s].registered
  BY <1>1, PhaseStutters
<1>2. CASE ~registry[s].registered
  <2>1. ~file[s].registered
    BY <1>2 DEF RegistryInv, FileBehindRegistry
  <2>2. phase[s] = "accepted"
    BY <1>2, <2>1 DEF phase
  <2>3. phase' = Lifecycle!Moved({s}, "recorded")
    <3>1. \A u \in Sensor : phase'[u] = IF u = s THEN "recorded" ELSE phase[u]
      BY <2>1 DEF phase
    <3>2. phase' = [u \in Sensor |-> phase'[u]]
      BY DEF phase
    <3> QED BY <3>1, <3>2 DEF Lifecycle!Moved
  <2>4. Lifecycle!Record(s)
    BY <2>2, <2>3 DEF Lifecycle!Record
  <2> QED BY <2>4 DEF Lifecycle!Next
<1> QED BY <1>1, <1>2

\* SetDisabled saves what is recorded, or changes no phase.
LEMMA SetDisabledStep ==
  ASSUME NEW s \in Sensor, NEW b \in BOOLEAN, NEW saved \in BOOLEAN, TypeOK, RegistryInv,
         SetDisabled(s, b, saved), UNCHANGED everKnown
  PROVE  Lifecycle!Next \/ phase' = phase
<1>1. \A u \in Sensor : registry'[u].registered = registry[u].registered
  BY DEF SetDisabled, SetFlags, TypeOK, Flags
<1>2. CASE saved
  <2>1. file' = registry'
    BY <1>2 DEF SetDisabled, SetFlags
  <2>2. {} \in SUBSET Sensor /\ {} \subseteq everKnown
    OBVIOUS
  <2>3. /\ \A u \in Sensor : registry'[u].registered <=> registry[u].registered \/ u \in {}
        /\ \A u \in Sensor : file'[u].registered <=> registry'[u].registered
    BY <1>1, <2>1
  <2> QED BY <2>2, <2>3, SaveStep
<1>3. CASE ~saved
  <2>1. file' = file
    BY <1>3 DEF SetDisabled, SetFlags
  <2> QED BY <1>1, <2>1, PhaseStutters
<1> QED BY <1>2, <1>3

\* SetRegistered of a sensor that Home Assistant accepted records or saves it.
LEMMA SetRegisteredStep ==
  ASSUME NEW s \in Sensor, NEW saved \in BOOLEAN, TypeOK, RegistryInv,
         SetRegistered(s, TRUE, saved), s \in everKnown, UNCHANGED everKnown
  PROVE  Lifecycle!Next \/ phase' = phase
<1>1. /\ registry'[s].registered = TRUE
      /\ \A u \in Sensor : u # s => registry'[u].registered = registry[u].registered
  BY DEF SetRegistered, SetFlags, TypeOK, Flags
<1>2. CASE saved
  <2>1. file' = registry'
    BY <1>2 DEF SetRegistered, SetFlags
  <2>2. {s} \in SUBSET Sensor /\ {s} \subseteq everKnown
    OBVIOUS
  <2>3. /\ \A u \in Sensor : registry'[u].registered <=> registry[u].registered \/ u \in {s}
        /\ \A u \in Sensor : file'[u].registered <=> registry'[u].registered
    BY <1>1, <2>1
  <2> QED BY <2>2, <2>3, SaveStep
<1>3. CASE ~saved
  <2>1. file' = file
    BY <1>3 DEF SetRegistered, SetFlags
  <2> QED BY <1>1, <2>1, RecordStep
<1> QED BY <1>2, <1>3

\* Home Assistant accepts a registration, or answers something else.
LEMMA HandleStep ==
  ASSUME NEW r \in wire, TypeOK, RegistryInv, Handle(r)
  PROVE  Lifecycle!Next \/ phase' = phase
<1>0. UNCHANGED <<registry, file>> /\ r.sensor \in Sensor
  BY DEF Handle, TypeOK, Request
<1>1. CASE r.kind = "register" /\ r.sensor \notin everKnown
  <2>1. everKnown' = everKnown \cup {r.sensor}
    BY <1>1 DEF Handle
  <2>2. ~registry[r.sensor].registered /\ ~file[r.sensor].registered
    BY <1>0, <1>1 DEF RegistryInv, RegistryHeard
  <2>3. phase[r.sensor] = "new"
    BY <1>0, <1>1, <2>2 DEF phase
  <2>4. phase' = Lifecycle!Moved({r.sensor}, "accepted")
    <3>1. \A u \in Sensor : phase'[u] = IF u = r.sensor THEN "accepted" ELSE phase[u]
      BY <1>0, <2>1, <2>2 DEF phase
    <3>2. phase' = [u \in Sensor |-> phase'[u]]
      BY DEF phase
    <3> QED BY <3>1, <3>2 DEF Lifecycle!Moved
  <2>5. Lifecycle!Accept(r.sensor)
    BY <2>3, <2>4 DEF Lifecycle!Accept
  <2> QED BY <1>0, <2>5 DEF Lifecycle!Next
<1>2. CASE ~(r.kind = "register" /\ r.sensor \notin everKnown)
  <2>1. \A s \in Sensor : s \in everKnown' <=> s \in everKnown
    BY <1>2 DEF Handle
  <2> QED BY <1>0, <2>1, PhaseStutters
<1> QED BY <1>1, <1>2

\* A restart forgets what is not in the file.
LEMMA RestartStep ==
  ASSUME RegistryInv, Restart
  PROVE  Lifecycle!Next
<1>1. registry' = file /\ UNCHANGED <<file, everKnown>>
  BY DEF Restart, haVars
<1>2. \A s \in Sensor : registry[s].registered => s \in everKnown
  BY DEF RegistryInv, RegistryHeard
<1>3. \A s \in Sensor : phase'[s] = IF s \in Lifecycle!In("recorded")
                                    THEN "accepted" ELSE phase[s]
  BY <1>1, <1>2 DEF phase, Lifecycle!In
<1>4. phase' = [s \in Sensor |-> phase'[s]]
  BY DEF phase
<1>5. Lifecycle!Restart
  BY <1>3, <1>4 DEF Lifecycle!Restart, Lifecycle!Moved
<1> QED BY <1>5 DEF Lifecycle!Next

\* Every step moves each sensor's registration as SensorLifecycle allows.
LEMMA LifecycleStep ==
  ASSUME TypeOK, RegistryInv, [Next]_vars
  PROVE  Lifecycle!Next \/ phase' = phase
<1> USE DEF haVars
<1>1. ASSUME UNCHANGED <<registry, file, everKnown>>
      PROVE  phase' = phase
  BY <1>1, PhaseStutters
<1>2. ASSUME NEW t \in Task, Step(t)
      PROVE  Lifecycle!Next \/ phase' = phase
  <2>0. SensorOf(t) \in Sensor /\ ReportsDisabled(t) \in BOOLEAN
    BY DEF TypeOK, SensorOf, ReportsDisabled
  <2>1. ASSUME NEW saved \in BOOLEAN, Reenable(t, saved)
        PROVE  Lifecycle!Next \/ phase' = phase
    BY <2>0, <2>1, SetDisabledStep DEF Reenable
  <2>2. ASSUME NEW saved \in BOOLEAN, StoreDisabled(t, saved)
        PROVE  Lifecycle!Next \/ phase' = phase
    BY <2>0, <2>2, SetDisabledStep DEF StoreDisabled
  <2>3. ASSUME NEW saved \in BOOLEAN, RegistrationDone(t, saved)
        PROVE  Lifecycle!Next \/ phase' = phase
    <3>1. SensorOf(t) \in everKnown
      BY <2>3 DEF RegistrationDone, Answered, RegistryInv, AnswersHeard, SensorOf
    <3> QED BY <2>0, <2>3, <3>1, SetRegisteredStep DEF RegistrationDone
  <2>4. CASE \/ CheckDisabled(t)
             \/ StillDisabled(t)
             \/ Route(t)
             \/ LocationAnswered(t)
             \/ UpdateLost(t)
             \/ UpdateAnswered(t)
             \/ RegistrationFailed(t)
             \/ Track(t)
    BY <1>1, <2>4 DEF CheckDisabled, StillDisabled, Route, LocationAnswered,
                      UpdateLost, UpdateAnswered, RegistrationFailed, Track
  <2> QED BY <1>2, <2>1, <2>2, <2>3, <2>4 DEF Step
<1>3. ASSUME NEW t \in Task, Timeout(t)
      PROVE  phase' = phase
  BY <1>1, <1>3 DEF Timeout
<1>4. ASSUME NEW t \in Task, NEW s \in Sensor, NEW v \in Value, NewUpdate(t, s, v)
      PROVE  phase' = phase
  BY <1>1, <1>4 DEF NewUpdate
<1>5. CASE User
  BY <1>1, <1>5 DEF User, UserDisables, UserEnables, UserForgets, agentVars
<1>6. CASE UNCHANGED vars
  BY <1>1, <1>6 DEF vars, agentVars
<1> QED
  BY <1>2, <1>3, <1>4, <1>5, <1>6, HandleStep, RestartStep DEF Next

\* Goroutines, lost answers, failed writes and restarts move the registration of
\* every sensor through the phases of SensorLifecycle, in that order.
THEOREM Implements == Spec => ImplementsLifecycle
<1>1. Init => Lifecycle!Init
  BY DEF Init, Lifecycle!Init, phase, NoFlags
<1>2. TypeOK /\ RegistryInv /\ [Next]_vars => [Lifecycle!Next]_phase
  BY LifecycleStep
<1> QED BY <1>1, <1>2, TypeCorrect, RegistryInvHolds, PTL
        DEF Spec, ImplementsLifecycle, Lifecycle!Spec
=============================================================================
