---------------------------- MODULE Agent_proofs ----------------------------
(***************************************************************************)
(* What holds of the agent's life cycle, and of the sensor registry that   *)
(* it loads, saves and removes.                                            *)
(*                                                                         *)
(* Of AgentLifecycle: its type, that Run waits for all it started, and     *)
(* that workers run only once registration is over.                        *)
(*                                                                         *)
(* Of GobRegistry: its type, that a registry which was saved once can be   *)
(* read and is the last one saved, and that it implements AtomicRegistry.  *)
(* The strengthening is FileInv: which messages the file may hold, and     *)
(* when the value it holds is the last one saved.                          *)
(***************************************************************************)
EXTENDS AgentLifecycle, GobRegistry, TLAPS

-----------------------------------------------------------------------------
(* The life cycle.                                                         *)

\* Every step keeps the type.
LEMMA StepType == TypeOK /\ [Next]_vars => TypeOK'
<1> SUFFICES ASSUME TypeOK, [Next]_vars PROVE TypeOK'
  OBVIOUS
<1> USE DEF TypeOK, doneVars, signalVars, regVars, workVars, uiVars, CloseDone, Step
<1>1. CASE Step(Signal)
  BY <1>1 DEF Signal
<1>2. CASE Step(HandleSignal)
  <2>1. signalled' \in BOOLEAN /\ handler' \in {"waits", "closes", "gone"}
    BY <1>2 DEF HandleSignal
  <2>2. UNCHANGED <<config, doneVars, regVars, workVars, uiVars>>
    BY <1>2 DEF HandleSignal
  <2> QED BY <2>1, <2>2
<1>3. CASE Step(HandlerCloses)
  BY <1>3 DEF HandlerCloses
<1>4. CASE Step(CheckRegistration)
  <2>1. reg' \in {"starts", "prompts", "requests", "closes", "ended"} /\ window' \in BOOLEAN
    BY <1>4 DEF CheckRegistration, Succeeded
  <2>2. UNCHANGED <<config, doneVars, signalVars, registered, workVars, uiVars>>
    BY <1>4 DEF CheckRegistration
  <2> QED BY <2>1, <2>2
<1>5. CASE Step(Answer)
  <2>1. window' \in BOOLEAN /\ reg' \in {"starts", "prompts", "requests", "closes", "ended"}
    BY <1>5 DEF Answer
  <2>2. UNCHANGED <<config, doneVars, signalVars, registered, workVars, uiVars>>
    BY <1>5 DEF Answer
  <2> QED BY <2>1, <2>2
<1>6. CASE Step(CloseWindow)
  <2>1. window' \in BOOLEAN
    BY <1>6 DEF CloseWindow
  <2>2. UNCHANGED <<config, doneVars, signalVars, registered, reg, workVars, uiVars>>
    BY <1>6 DEF CloseWindow
  <2> QED BY <2>1, <2>2
<1>7. CASE Step(Registers)
  BY <1>7 DEF Registers, Succeeded
<1>8. CASE Step(RegistrationFails)
  BY <1>8 DEF RegistrationFails
<1>9. CASE Step(RegistrationCloses)
  BY <1>9 DEF RegistrationCloses
<1>10. CASE Step(SetUp)
  BY <1>10 DEF SetUp, Worker
<1>11. CASE Step(StarterEnds)
  BY <1>11 DEF StarterEnds
<1>12. CASE Step(CancelWorkers)
  BY <1>12 DEF CancelWorkers
<1>13. ASSUME NEW w \in Worker, Step(Start(w)) PROVE TypeOK'
  <2>1. After(w) \in Worker \cup {"ends"}
    <3>1. CASE w = "sensors"
      <4>1. CASE MQTTControllers # {}
        BY <3>1, <4>1 DEF After, Worker
      <4>2. CASE MQTTControllers = {}
        BY <3>1, <4>2 DEF After, Worker
      <4> QED BY <4>1, <4>2
    <3>2. CASE w = "mqtt"
      BY <3>2 DEF After, Worker
    <3>3. CASE w = "notifications"
      BY <3>3 DEF After, Worker
    <3> QED BY <3>1, <3>2, <3>3 DEF Worker
  <2> QED BY <1>13, <2>1 DEF Start
<1>14. ASSUME NEW w \in Worker, Step(WorkerReturns(w)) PROVE TypeOK'
  BY <1>14 DEF WorkerReturns
<1>15. CASE Step(Quit)
  BY <1>15 DEF Quit
<1>16. CASE Step(StopCloses)
  BY <1>16 DEF StopCloses
<1>17. CASE Step(LeaveUI)
  BY <1>17 DEF LeaveUI
<1>18. CASE Step(Return)
  BY <1>18 DEF Return
<1>19. CASE UNCHANGED vars
  BY <1>19 DEF vars
<1> QED BY <1>1, <1>2, <1>3, <1>4, <1>5, <1>6, <1>7, <1>8, <1>9, <1>10, <1>11, <1>12,
           <1>13, <1>14, <1>15, <1>16, <1>17, <1>18, <1>19 DEF Next

\* The agent keeps its type.
THEOREM TypeCorrect == Spec => []TypeOK
<1>1. Init => TypeOK
  <2> SUFFICES ASSUME Init PROVE TypeOK
    OBVIOUS
  <2>1. config \in Config /\ registered \in BOOLEAN
    BY ConfigAssumption DEF Init
  <2>2. done \in BOOLEAN /\ crashed \in BOOLEAN /\ signalled \in BOOLEAN /\ window \in BOOLEAN
        /\ cancelled \in BOOLEAN
    BY Zenon DEF Init
  <2>3. worker \in [Worker -> {"none", "runs", "returned"}]
    BY DEF Init
  <2>4. /\ handler \in {"waits", "closes", "gone"}
        /\ starter \in Worker \cup {"waits", "ends", "gone"}
        /\ wg \subseteq Worker \cup {"starter", "registration"}
    BY DEF Init
  <2> QED BY <2>1, <2>2, <2>3, <2>4 DEF Init, TypeOK
<1> QED BY <1>1, StepType, PTL DEF Spec

-----------------------------------------------------------------------------
\* LifecycleInv is inductive.
LEMMA StepLifecycle == TypeOK /\ LifecycleInv /\ [Next]_vars => LifecycleInv'
<1> SUFFICES ASSUME TypeOK, LifecycleInv, [Next]_vars PROVE LifecycleInv'
  OBVIOUS
<1>t. DOMAIN worker = Worker /\ starter \in Worker \cup {"waits", "ends", "gone"}
  BY DEF TypeOK
<1> USE DEF LifecycleInv, doneVars, signalVars, regVars, workVars, uiVars, CloseDone, Step, Ended
<1>1. CASE Step(Signal)
  BY <1>1 DEF Signal
<1>2. CASE Step(HandleSignal)
  BY <1>2 DEF HandleSignal
<1>3. CASE Step(HandlerCloses)
  BY <1>3 DEF HandlerCloses
<1>4. CASE Step(CheckRegistration)
  BY <1>4 DEF CheckRegistration, Succeeded
<1>5. CASE Step(Answer)
  BY <1>5 DEF Answer
<1>6. CASE Step(CloseWindow)
  BY <1>6 DEF CloseWindow
<1>7. CASE Step(Registers)
  BY <1>7 DEF Registers, Succeeded
<1>8. CASE Step(RegistrationFails)
  BY <1>8 DEF RegistrationFails
<1>9. CASE Step(RegistrationCloses)
  <2>1. "registration" \notin Worker
    BY DEF Worker
  <2> QED BY <1>9, <2>1 DEF RegistrationCloses
<1>10. CASE Step(SetUp)
  BY <1>10 DEF SetUp
<1>11. CASE Step(StarterEnds)
  <2>1. "starter" \notin Worker
    BY DEF Worker
  <2> QED BY <1>11, <2>1 DEF StarterEnds
<1>12. CASE Step(CancelWorkers)
  BY <1>12 DEF CancelWorkers
<1>13. ASSUME NEW w \in Worker, Step(Start(w)) PROVE LifecycleInv'
  <2>1. starter = w /\ starter # "gone" /\ starter # "waits"
    BY <1>13 DEF Start, Worker
  <2>2. starter' # "gone" /\ starter' # "waits"
    <3>1. CASE w = "sensors"
      <4>1. CASE MQTTControllers # {}
        BY <1>13, <3>1, <4>1 DEF Start, After
      <4>2. CASE MQTTControllers = {}
        BY <1>13, <3>1, <4>2 DEF Start, After
      <4> QED BY <4>1, <4>2
    <3>2. CASE w = "mqtt"
      BY <1>13, <3>2 DEF Start, After
    <3>3. CASE w = "notifications"
      BY <1>13, <3>3 DEF Start, After
    <3> QED BY <3>1, <3>2, <3>3 DEF Worker
  <2>3. wg' = wg \cup {w} /\ worker' = [worker EXCEPT ![w] = "runs"] /\ main # "returned"
    BY <1>13 DEF Start
  <2>4. UNCHANGED <<config, reg, registered, done, main>> /\ ~config.register
    BY <1>13, <2>1 DEF Start
  <2> QED BY <1>t, <2>1, <2>2, <2>3, <2>4
<1>14. ASSUME NEW w \in Worker, Step(WorkerReturns(w)) PROVE LifecycleInv'
  <2>1. w # "starter" /\ w # "registration"
    BY DEF Worker
  <2> QED BY <1>14, <1>t, <2>1 DEF WorkerReturns
<1>15. CASE Step(Quit)
  BY <1>15 DEF Quit
<1>16. CASE Step(StopCloses)
  BY <1>16 DEF StopCloses
<1>17. CASE Step(LeaveUI)
  BY <1>17 DEF LeaveUI
<1>18. CASE Step(Return)
  BY <1>18 DEF Return
<1>19. CASE UNCHANGED vars
  BY <1>19 DEF vars
<1> QED BY <1>1, <1>2, <1>3, <1>4, <1>5, <1>6, <1>7, <1>8, <1>9, <1>10, <1>11, <1>12,
           <1>13, <1>14, <1>15, <1>16, <1>17, <1>18, <1>19 DEF Next

\* LifecycleInv holds in every state.
LEMMA LifecycleInvHolds == Spec => [](TypeOK /\ LifecycleInv)
<1>1. Init => LifecycleInv
  BY DEF Init, LifecycleInv, Worker
<1> QED BY <1>1, TypeCorrect, StepLifecycle, PTL DEF Spec

\* Run returns only when everything it started has.
THEOREM RunWaits == Spec => []WaitsForWorkers
<1>1. TypeOK /\ LifecycleInv => WaitsForWorkers
  BY DEF LifecycleInv, WaitsForWorkers
<1> QED BY <1>1, LifecycleInvHolds, PTL

\* No worker runs before registration is over.
THEOREM WorkersRegistered == Spec => []WorksRegistered
<1>1. TypeOK /\ LifecycleInv => WorksRegistered
  <2>1. SUFFICES ASSUME TypeOK, LifecycleInv, NEW w \in Worker, worker[w] = "runs"
                 PROVE  reg = "ended" /\ (registered \/ done)
    BY DEF WorksRegistered
  <2>2. starter # "waits" /\ ~config.register
    BY <2>1 DEF LifecycleInv
  <2> QED BY <2>1, <2>2 DEF LifecycleInv
<1> QED BY <1>1, LifecycleInvHolds, PTL

-----------------------------------------------------------------------------
(* The sensor registry.                                                    *)

\* An empty map is a map, and so is a map with one flag of one entry changed.
LEMMA MapFacts ==
  /\ Empty \in Map
  /\ \A m \in Map, s \in Sensor, b \in BOOLEAN :
       /\ [m EXCEPT ![s].disabled = b] \in Map
       /\ [m EXCEPT ![s].registered = b] \in Map
BY DEF Empty, Map, Flags, NoFlags

\* A flag that is set leaves a map.
LEMMA SetType == \A s \in Sensor : RegistryTypeOK /\ Set(s) => sensors' \in Map
<1> SUFFICES ASSUME NEW s \in Sensor, RegistryTypeOK, Set(s) PROVE sensors' \in Map
  OBVIOUS
<1>1. PICK b \in BOOLEAN : \/ sensors' = [sensors EXCEPT ![s].disabled = b]
                           \/ sensors' = [sensors EXCEPT ![s].registered = b]
  BY DEF Set
<1>2. sensors \in Map
  BY DEF RegistryTypeOK
<1>3. CASE sensors' = [sensors EXCEPT ![s].disabled = b]
  BY <1>2, <1>3, MapFacts, Zenon
<1>4. CASE sensors' = [sensors EXCEPT ![s].registered = b]
  BY <1>2, <1>4, MapFacts, Zenon
<1> QED BY <1>1, <1>3, <1>4

\* What the encoder writes, and what replaces a message, are messages.
LEMMA MessageFacts ==
  /\ \A k \in Kind : Plain(k) \in Message
  /\ \A m \in Map, n \in 1..3 : Encoding(m, n) \in Message
  /\ EmptyFile \in [Place -> Message]
<1>1. \A k \in Kind : Plain(k) \in Message
  BY MapFacts DEF Plain, Message
<1>2. ASSUME NEW m \in Map, NEW n \in 1..3 PROVE Encoding(m, n) \in Message
  <2>1. CASE n = 1
    BY <2>1, <1>1 DEF Encoding, Kind
  <2>2. CASE n = 2
    BY <2>2, <1>1 DEF Encoding, Kind
  <2>3. CASE n = 3
    BY <2>3 DEF Encoding, Message, Kind
  <2> QED BY <2>1, <2>2, <2>3
<1>3. EmptyFile \in [Place -> Message]
  BY <1>1 DEF EmptyFile, Kind
<1> QED BY <1>1, <1>2, <1>3

\* What each write puts in the file.
LEMMA Encodings ==
  \A m : /\ Encoding(m, 1).kind = "mapType"
         /\ Encoding(m, 2).kind = "entryType"
         /\ Encoding(m, 3).kind = "value"
         /\ Encoding(m, 3).map = m
BY DEF Encoding, Plain

\* A map that is read is a map.
LEMMA DecodedType == RegistryTypeOK => Decoded \in Map
BY MapFacts DEF RegistryTypeOK, Decoded, Message, Place

-----------------------------------------------------------------------------
\* Every step keeps the type.
LEMMA RegistryStepType == RegistryTypeOK /\ [RegistryNext]_registryVars => RegistryTypeOK'
<1> SUFFICES ASSUME RegistryTypeOK, [RegistryNext]_registryVars PROVE RegistryTypeOK'
  OBVIOUS
<1> USE DEF RegistryTypeOK, history
<1>1. ASSUME NEW s \in Sensor, Set(s) PROVE RegistryTypeOK'
  <2>1. sensors' \in Map
    BY <1>1, SetType
  <2> QED BY <1>1, <2>1 DEF Set
<1>2. CASE OpenFails
  BY <1>2 DEF OpenFails
<1>3. ASSUME NEW n \in 1..2, WriteType(n) PROVE RegistryTypeOK'
  <2>1. Encoding(sensors, n) \in Message
    BY MessageFacts
  <2>2. file' \in [Place -> Message]
    BY <1>3, <2>1 DEF WriteType
  <2> QED BY <1>3, <2>2 DEF WriteType
<1>4. CASE WriteValue
  <2>1. Encoding(sensors, 3) \in Message /\ Plain("bytes") \in Message
    BY MessageFacts DEF Kind
  <2>2. file[4] \in Message
    BY DEF Place
  <2>3. file' \in [Place -> Message]
    BY <1>4, <2>1, <2>2 DEF WriteValue
  <2> QED BY <1>4, <2>3 DEF WriteValue
<1>5. CASE TearValue
  <2>1. Plain("bytes") \in Message /\ \A m \in Map : Encoding(m, 3) \in Message
    BY MessageFacts DEF Kind
  <2>2. file' \in [Place -> Message]
    BY <1>5, <2>1 DEF TearValue
  <2> QED BY <1>5, <2>2 DEF TearValue
<1>6. CASE Stop
  BY <1>6 DEF Stop
<1>7. CASE Load
  BY <1>7, DecodedType DEF Load
<1>8. CASE Reset
  BY <1>8, MapFacts, MessageFacts DEF Reset
<1>9. CASE UNCHANGED registryVars
  BY <1>9 DEF registryVars
<1> QED BY <1>1, <1>2, <1>3, <1>4, <1>5, <1>6, <1>7, <1>8, <1>9 DEF RegistryNext

\* The registry and its file keep their types.
THEOREM RegistryTypeCorrect == RegistrySpec => []RegistryTypeOK
<1>1. RegistryInit => RegistryTypeOK
  BY MapFacts, MessageFacts DEF RegistryInit, RegistryTypeOK
<1> QED BY <1>1, RegistryStepType, PTL DEF RegistrySpec

-----------------------------------------------------------------------------
\* FileInv is inductive.
LEMMA StepFile == RegistryTypeOK /\ FileInv /\ [RegistryNext]_registryVars => FileInv'
<1> SUFFICES ASSUME RegistryTypeOK, FileInv, [RegistryNext]_registryVars PROVE FileInv'
  OBVIOUS
<1>0. DOMAIN file = Place
  BY DEF RegistryTypeOK
<1> USE DEF FileInv, history, Readable
<1>1. ASSUME NEW s \in Sensor, Set(s) PROVE FileInv'
  BY <1>1 DEF Set
<1>2. CASE OpenFails
  BY <1>2 DEF OpenFails
<1>3. ASSUME NEW n \in 1..2, WriteType(n) PROVE FileInv'
  <2>1. CASE n = 1
    <3>1. file'[1].kind = "mapType" /\ file'[3] = file[3] /\ pc' = "write2"
      BY <1>0, <1>3, <2>1, Encodings DEF WriteType, Place
    <3> QED BY <1>3, <3>1 DEF WriteType
  <2>2. CASE n = 2
    <3>1. file'[1] = file[1] /\ file'[3] = file[3] /\ pc = "write2" /\ pc' = "write3"
      BY <1>0, <1>3, <2>2 DEF WriteType, Place
    <3> QED BY <1>3, <3>1 DEF WriteType
  <2> QED BY <2>1, <2>2
<1>4. CASE WriteValue
  <2>1. file'[1] = file[1] /\ file'[3] = Encoding(sensors, 3)
    BY <1>0, <1>4 DEF WriteValue, Place
  <2> QED BY <1>4, <2>1, Encodings DEF WriteValue
<1>5. CASE TearValue
  <2>1. file'[1] = file[1]
    BY <1>0, <1>5 DEF TearValue, Place
  <2>2. file[1].kind = "mapType" /\ torn' /\ pc' # "failed"
    BY <1>5 DEF TearValue
  <2>3. UNCHANGED <<saved, written>>
    BY <1>5 DEF TearValue
  <2> QED BY <2>1, <2>2, <2>3
<1>6. CASE Stop
  BY <1>6 DEF Stop
<1>7. CASE Load
  BY <1>7 DEF Load
<1>8. CASE Reset
  <2>1. file'[1].kind = "absent" /\ file'[3].kind = "absent"
    BY <1>8 DEF Reset, EmptyFile, Place, Plain
  <2> QED BY <1>8, <2>1 DEF Reset
<1>9. CASE UNCHANGED registryVars
  BY <1>9 DEF registryVars
<1> QED BY <1>1, <1>2, <1>3, <1>4, <1>5, <1>6, <1>7, <1>8, <1>9 DEF RegistryNext

\* FileInv holds in every state.
LEMMA FileInvHolds == RegistrySpec => [](RegistryTypeOK /\ FileInv)
<1>1. RegistryInit => FileInv
  BY DEF RegistryInit, FileInv, EmptyFile, Place, Plain
<1> QED BY <1>1, RegistryTypeCorrect, StepFile, PTL DEF RegistrySpec

\* Once a write has been completed, the agent can start again, wherever a later
\* one is interrupted between two messages.
THEOREM CanStartAgain == RegistrySpec => []StartsAfterSave
<1>1. FileInv => StartsAfterSave
  BY DEF FileInv, StartsAfterSave, Readable
<1> QED BY <1>1, FileInvHolds, PTL

\* What a restart reads is the last registry that was written completely.
THEOREM LastSavedIsRead == RegistrySpec => []ReadsLastSaved
<1>1. FileInv => ReadsLastSaved
  <2>1. SUFFICES ASSUME FileInv, Readable, ~torn PROVE Decoded = saved
    BY DEF ReadsLastSaved
  <2>2. CASE file[1].kind = "absent"
    BY <2>1, <2>2 DEF FileInv, Decoded
  <2>3. CASE file[1].kind # "absent"
    BY <2>1, <2>3 DEF FileInv, Readable, Decoded
  <2> QED BY <2>2, <2>3
<1> QED BY <1>1, FileInvHolds, PTL

-----------------------------------------------------------------------------
\* Every step of the registry is a step of AtomicRegistry or changes nothing it
\* sees: only the write of the value changes what a restart brings back.
LEMMA StepAtomic ==
  RegistryTypeOK /\ FileInv /\ [RegistryNext]_registryVars => [Atomic!Next]_(Atomic!vars)
<1> SUFFICES ASSUME RegistryTypeOK, FileInv, [RegistryNext]_registryVars
             PROVE  [Atomic!Next]_(Atomic!vars)
  OBVIOUS
<1>0. DOMAIN file = Place
  BY DEF RegistryTypeOK
<1> USE DEF history, Atomic!Next, Atomic!vars, Running
<1>1. ASSUME NEW s \in Sensor, Set(s) PROVE Atomic!Set
  <2>1. sensors' \in Map
    BY <1>1, SetType
  <2> QED BY <1>1, <2>1 DEF Set, Atomic!Set, Visible, Readable, Decoded
<1>2. CASE OpenFails
  BY <1>2 DEF OpenFails, Visible, Readable, Decoded
<1>3. ASSUME NEW n \in 1..2, WriteType(n) PROVE UNCHANGED Atomic!vars
  <2>1. UNCHANGED <<sensors, torn>> /\ Running /\ Running'
    BY <1>3 DEF WriteType
  <2>2. file'[3] = file[3]
    BY <1>0, <1>3 DEF WriteType, Place
  <2>3. file'[1].kind = "mapType"
    <3>1. CASE n = 1
      BY <1>0, <1>3, <3>1, Encodings DEF WriteType, Place
    <3>2. CASE n = 2
      <4>1. file'[1] = file[1] /\ pc = "write2"
        BY <1>0, <1>3, <3>2 DEF WriteType, Place
      <4> QED BY <4>1 DEF FileInv
    <3> QED BY <3>1, <3>2
  <2>4. Visible' = Visible
    BY <2>2, <2>3 DEF Visible, Readable, Decoded, FileInv
  <2> QED BY <2>1, <2>4
<1>4. CASE WriteValue
  <2>1. file'[1] = file[1] /\ file'[3] = Encoding(sensors, 3) /\ file[1].kind = "mapType"
    BY <1>0, <1>4 DEF WriteValue, Place, FileInv
  <2>2. Visible' = sensors
    BY <2>1, Encodings DEF Visible, Readable, Decoded
  <2>3. Atomic!Save
    BY <1>4, <2>2 DEF WriteValue, Atomic!Save
  <2> QED BY <2>3
<1>5. CASE TearValue
  <2>1. Visible' \in Map
    <3>1. RegistryTypeOK'
      BY RegistryStepType
    <3>2. Decoded' \in Map
      BY <3>1, MapFacts DEF RegistryTypeOK, Decoded, Message, Place
    <3> QED BY <3>2, MapFacts DEF Visible
  <2>2. Running /\ UNCHANGED sensors /\ torn'
    BY <1>5 DEF TearValue
  <2>3. torn' = TRUE
    BY <1>5 DEF TearValue
  <2>4. Running' \in BOOLEAN
    OBVIOUS
  <2>5. Atomic!Tear
    BY <2>1, <2>2, <2>3, <2>4 DEF Atomic!Tear
  <2> QED BY <2>5
<1>6. CASE Stop
  <2>1. Atomic!Stop
    BY <1>6 DEF Stop, Atomic!Stop, Visible, Readable, Decoded
  <2> QED BY <2>1
<1>7. CASE Load
  <2>1. Visible' = Visible
    BY <1>7 DEF Load, Visible, Readable, Decoded
  <2>2. CASE Readable
    <3>1. Atomic!Start
      BY <1>7, <2>1, <2>2 DEF Load, Atomic!Start, Visible
    <3> QED BY <3>1
  <2>3. CASE ~Readable
    BY <1>7, <2>1, <2>3 DEF Load
  <2> QED BY <2>2, <2>3
<1>8. CASE Reset
  <2>1. Visible' = Empty
    BY <1>8 DEF Reset, Visible, Readable, Decoded, EmptyFile, Place, Plain
  <2>2. Atomic!Reset
    BY <1>8, <2>1 DEF Reset, Atomic!Reset
  <2> QED BY <2>2
<1>9. CASE UNCHANGED registryVars
  BY <1>9 DEF registryVars, Visible, Readable, Decoded
<1> QED BY <1>1, <1>2, <1>3, <1>4, <1>5, <1>6, <1>7, <1>8, <1>9 DEF RegistryNext

\* The file that is rewritten message by message behaves as a map that is saved
\* in one step, until a value is cut short and from the next save on.
THEOREM Implements == RegistrySpec => ImplementsAtomic
<1>1. RegistryInit => Atomic!Init
  BY DEF RegistryInit, Atomic!Init, Running, Visible, Readable, Decoded, EmptyFile, Place, Plain
<1> QED BY <1>1, StepAtomic, FileInvHolds, PTL DEF RegistrySpec, ImplementsAtomic, Atomic!Spec
=============================================================================
