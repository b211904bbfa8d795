------------------------ MODULE HomeAssistant_proofs ------------------------
(***************************************************************************)
(* Proofs about what the agent keeps for Home Assistant and how it hears   *)
(* from it: Configuration's types, that what was saved last is what the    *)
(* next start finds and that the registry's sensors are registered with    *)
(* the webhook the agent sends to; Websocket's types, that notifications   *)
(* are displayed in their order and that the ids of commands are fresh.    *)
(***************************************************************************)
EXTENDS Configuration, Websocket, SequenceTheorems, TLAPS

-----------------------------------------------------------------------------
(* The configuration: preferences, their file and the registry.            *)

\* Each call of Save belongs to one command: the settings window and Stop to a
\* running agent, the upgrade's to its command, and a registration's is where its
\* command waits.  So nobody is saving when a command removes the file.
SaversBelong ==
  /\ saver["settings"].pc # "idle" => command = "run"
  /\ saver["stop"].pc # "idle" => command = "run"
  /\ saver["registration"].pc # "idle" => command \in {"run", "register"} /\ step = "saves"
  /\ saver["upgrade"].pc # "idle" => command = "upgrade" /\ step = "saves"
  /\ forced => command = "register"
  /\ step = "resets" => command = "register"
  /\ step = "removes" => command = "reset"
  /\ step \in {"checks", "asks"} => command \in {"run", "register"}

\* As long as no save was harmed there is at most one, and the file is the one that
\* was saved until it is truncated.
OneSaver ==
  ~harmed =>
    /\ \A s, t \in Busy : s = t
    /\ (\A s \in Saver : saver[s].pc # "writes") => file = saved
    /\ (\E s \in Saver : saver[s].pc = "writes") => file.state = "empty"

SaveInv == TypeOK /\ SaversBelong /\ OneSaver

\* The webhooks by number are webhooks, and so is the next one.
LEMMA HookNumbers ==
  /\ DefaultHook \in Hook /\ OldHook \in Hook /\ Empty \in Hook /\ OldHook \in Given
  /\ Given \subseteq Hook
  /\ \A h \in Given : h < MaxHooks => h + 1 \in Given
  BY ConstantsAssumption, SMT DEF DefaultHook, OldHook, Empty, Hook, Given

\* Preferences are saved and loaded with their type.
LEMMA PrefsTypes ==
  /\ Defaults \in Prefs
  /\ \A p \in Prefs : Whole(p) \in File
  /\ Absent \in File
  /\ Idle \in [pc : {"idle", "opens", "writes"}, prefs : Prefs]
  BY HookNumbers, SMT DEF Defaults, Prefs, Whole, File, Absent, Idle

-----------------------------------------------------------------------------
(* Types.                                                                  *)

\* A call of Save that begins keeps the savers' type.
LEMMA EncodesType ==
  ASSUME NEW s \in Saver, NEW p \in Prefs, TypeOK, Encodes(s, p)
  PROVE  saver' \in [Saver -> [pc : {"idle", "opens", "writes"}, prefs : Prefs]] /\ harmed' \in BOOLEAN
<1>1. [pc |-> "opens", prefs |-> p] \in [pc : {"idle", "opens", "writes"}, prefs : Prefs]
  OBVIOUS
<1> QED BY <1>1 DEF TypeOK, Encodes

\* Every way to save, and every end of a command, keeps the type.
LEMMA StepType == TypeOK /\ [Next]_vars => TypeOK'
<1> SUFFICES ASSUME TypeOK, [Next]_vars PROVE TypeOK'
  OBVIOUS
<1> USE HookNumbers, PrefsTypes DEF TypeOK, diskVars, processVars, histVars
<1>1. ASSUME NEW p \in Prefs, Run(p) PROVE TypeOK'
  BY <1>1 DEF Run, Starts
<1>2. ASSUME NEW p \in Prefs, Upgrade(p) PROVE TypeOK'
  <2>1. mem' \in Prefs
    BY <1>2 DEF Upgrade, Starts, Prefs
  <2>2. saver' \in [Saver -> [pc : {"idle", "opens", "writes"}, prefs : Prefs]] /\ harmed' \in BOOLEAN
    BY <1>2, <2>1 DEF Upgrade, Encodes
  <2> QED BY <1>2, <2>1, <2>2 DEF Upgrade, Starts
<1>3. ASSUME NEW p \in Prefs, Reset(p) PROVE TypeOK'
  BY <1>3 DEF Reset, Starts
<1>4. ASSUME NEW p \in Prefs, NEW force \in BOOLEAN, Register(p, force) PROVE TypeOK'
  <2>1. mem' \in Prefs
    BY <1>4 DEF Register, Starts, Prefs
  <2> QED BY <1>4, <2>1 DEF Register, Starts
<1>5. CASE CheckRegistration
  BY <1>5 DEF CheckRegistration
<1>6. CASE Registered
  <2>1. hooks' \in Given /\ mem' \in Prefs
    BY <1>6 DEF Registered, Prefs
  <2>2. saver' \in [Saver -> [pc : {"idle", "opens", "writes"}, prefs : Prefs]] /\ harmed' \in BOOLEAN
    BY <1>6, <2>1, EncodesType DEF Registered, Saver
  <2> QED BY <1>6, <2>1, <2>2 DEF Registered
<1>7. CASE NotHeard
  <2>1. mem' \in Prefs
    BY <1>7 DEF NotHeard, Prefs
  <2> QED BY <1>7, <2>1 DEF NotHeard
<1>8. CASE Refused
  BY <1>8 DEF Refused
<1>9. CASE ResetRegistry
  BY <1>9 DEF ResetRegistry
<1>10. CASE SetEndpoint
  BY <1>10 DEF SetEndpoint, Prefs
<1>11. CASE RegisterSensor
  BY <1>11 DEF RegisterSensor
<1>12. ASSUME NEW enabled \in BOOLEAN, SaveMQTTPreferences(enabled) PROVE TypeOK'
  <2>1. mem' \in Prefs
    BY <1>12 DEF SaveMQTTPreferences, Prefs
  <2>2. saver' \in [Saver -> [pc : {"idle", "opens", "writes"}, prefs : Prefs]] /\ harmed' \in BOOLEAN
    <3>1. CASE Valid(mem)
      BY <1>12, <2>1, <3>1, EncodesType DEF SaveMQTTPreferences, Saver
    <3>2. CASE ~Valid(mem)
      BY <1>12, <3>2 DEF SaveMQTTPreferences
    <3> QED BY <3>1, <3>2
  <2> QED BY <1>12, <2>1, <2>2 DEF SaveMQTTPreferences
<1>13. CASE Stop
  <2>1. saver' \in [Saver -> [pc : {"idle", "opens", "writes"}, prefs : Prefs]] /\ harmed' \in BOOLEAN
    <3>1. CASE Valid(mem)
      BY <1>13, <3>1, EncodesType DEF Stop, Saver
    <3>2. CASE ~Valid(mem)
      BY <1>13, <3>2 DEF Stop
    <3> QED BY <3>1, <3>2
  <2>2. stopping' \in BOOLEAN
    BY <1>13 DEF Stop
  <2> QED BY <1>13, <2>1, <2>2 DEF Stop
<1>14. CASE Signal
  BY <1>14 DEF Signal
<1>15. CASE MakeDirectory
  BY <1>15 DEF MakeDirectory
<1>16. CASE CopyRegistry
  BY <1>16 DEF CopyRegistry
<1>17. CASE RemovePreferences
  BY <1>17 DEF RemovePreferences
<1>18. ASSUME NEW s \in Saver, Open(s) PROVE TypeOK'
  <2>1. saver' \in [Saver -> [pc : {"idle", "opens", "writes"}, prefs : Prefs]]
    BY <1>18 DEF Open
  <2>2. file' \in File
    BY <1>18 DEF Open, File
  <2> QED BY <1>18, <2>1, <2>2 DEF Open
<1>19. ASSUME NEW s \in Saver, Write(s) PROVE TypeOK'
  <2>1. saver' \in [Saver -> [pc : {"idle", "opens", "writes"}, prefs : Prefs]]
    BY <1>19 DEF Write
  <2>2. file' \in File /\ saved' \in File
    BY <1>19 DEF Write, File, Whole
  <2>3. step' \in {step, "resets", "works", "ends", "mkdirs"} /\ stopping' \in BOOLEAN
    BY <1>19 DEF Write, After
  <2> QED BY <1>19, <2>1, <2>2, <2>3 DEF Write
<1>20. ASSUME NEW s \in Saver, SaveFails(s) PROVE TypeOK'
  <2>1. saver' \in [Saver -> [pc : {"idle", "opens", "writes"}, prefs : Prefs]]
    BY <1>20 DEF SaveFails
  <2>2. file' \in File
    BY <1>20 DEF SaveFails, File
  <2>3. step' \in {step, "failed"} /\ stopping' \in BOOLEAN
    BY <1>20 DEF SaveFails
  <2> QED BY <1>20, <2>1, <2>2, <2>3 DEF SaveFails
<1>21. CASE Return
  BY <1>21 DEF Return, Ends
<1>22. CASE Kill
  <2>1. file' \in File
    BY <1>22 DEF Kill, File
  <2> QED BY <1>22, <2>1 DEF Kill, Ends
<1>23. CASE UNCHANGED vars
  BY <1>23 DEF vars
<1> QED BY <1>1, <1>2, <1>3, <1>4, <1>5, <1>6, <1>7, <1>8, <1>9, <1>10, <1>11, <1>12,
           <1>13, <1>14, <1>15, <1>16, <1>17, <1>18, <1>19, <1>20, <1>21, <1>22, <1>23 DEF Next

\* An installation starts with its type.
LEMMA InitType == Init => TypeOK
<1> SUFFICES ASSUME Init PROVE TypeOK
  OBVIOUS
<1>1. saver \in [Saver -> [pc : {"idle", "opens", "writes"}, prefs : Prefs]]
  BY PrefsTypes DEF Init
<1>2. file \in File /\ saved \in File /\ mem \in Prefs
  BY PrefsTypes DEF Init
<1>3. registry \in [exists : BOOLEAN, hook : Hook] /\ hooks \in Given /\ endpoint \in Hook
  BY HookNumbers DEF Init
<1> QED BY <1>1, <1>2, <1>3 DEF Init, TypeOK

\* The files, the command that runs and its savers keep their types.
THEOREM TypeCorrect == Spec => []TypeOK
<1>1. QED BY InitType, StepType, PTL DEF Spec

-----------------------------------------------------------------------------
(* What was saved last is there.                                           *)

\* At the start and at the end of a command nobody saves.
LEMMA NobodySaves ==
  ASSUME SaversBelong, TypeOK, command \in {"none", "register", "reset"},
         step \in {"resets", "removes"} \/ command = "none"
  PROVE  Busy = {}
  BY DEF SaversBelong, Busy, Saver, TypeOK

\* Each step leaves the savers with their commands.
LEMMA StepBelong == SaversBelong /\ TypeOK /\ [Next]_vars => SaversBelong'
<1> SUFFICES ASSUME SaversBelong, TypeOK, [Next]_vars PROVE SaversBelong'
  OBVIOUS
<1> USE DEF SaversBelong, diskVars, processVars, histVars
<1>1. ASSUME NEW p \in Prefs, Run(p) PROVE SaversBelong'
  BY <1>1 DEF Run, Starts
<1>2. ASSUME NEW p \in Prefs, Upgrade(p) PROVE SaversBelong'
  <2>1. \A s \in Saver \ {"upgrade"} : saver'[s] = saver[s]
    BY <1>2 DEF Upgrade, Encodes, TypeOK
  <2> QED BY <1>2, <2>1 DEF Upgrade, Starts, Saver
<1>3. ASSUME NEW p \in Prefs, Reset(p) PROVE SaversBelong'
  BY <1>3 DEF Reset, Starts
<1>4. ASSUME NEW p \in Prefs, NEW force \in BOOLEAN, Register(p, force) PROVE SaversBelong'
  BY <1>4 DEF Register, Starts
<1>5. CASE CheckRegistration
  BY <1>5 DEF CheckRegistration
<1>6. CASE Registered
  <2>1. \A s \in Saver \ {"registration"} : saver'[s] = saver[s]
    BY <1>6 DEF Registered, Encodes, TypeOK
  <2> QED BY <1>6, <2>1 DEF Registered, Saver
<1>7. CASE NotHeard
  BY <1>7 DEF NotHeard
<1>8. CASE Refused
  BY <1>8 DEF Refused
<1>9. CASE ResetRegistry
  BY <1>9 DEF ResetRegistry
<1>10. CASE SetEndpoint
  BY <1>10 DEF SetEndpoint
<1>11. CASE RegisterSensor
  BY <1>11 DEF RegisterSensor
<1>12. ASSUME NEW enabled \in BOOLEAN, SaveMQTTPreferences(enabled) PROVE SaversBelong'
  <2>1. \A s \in Saver \ {"settings"} : saver'[s] = saver[s]
    BY <1>12 DEF SaveMQTTPreferences, Encodes, TypeOK
  <2> QED BY <1>12, <2>1 DEF SaveMQTTPreferences, Saver
<1>13. CASE Stop
  <2>1. \A s \in Saver \ {"stop"} : saver'[s] = saver[s]
    BY <1>13 DEF Stop, Encodes, TypeOK
  <2> QED BY <1>13, <2>1 DEF Stop, Saver
<1>14. CASE Signal
  BY <1>14 DEF Signal
<1>15. CASE MakeDirectory
  BY <1>15 DEF MakeDirectory
<1>16. CASE CopyRegistry
  BY <1>16 DEF CopyRegistry
<1>17. CASE RemovePreferences
  BY <1>17 DEF RemovePreferences
<1>18. ASSUME NEW s \in Saver, Open(s) PROVE SaversBelong'
  <2>1. saver'[s].pc = "writes" /\ \A t \in Saver \ {s} : saver'[t] = saver[t]
    BY <1>18 DEF Open, TypeOK
  <2>2. \A t \in Saver : saver'[t].pc # "idle" => saver[t].pc # "idle"
    BY <1>18, <2>1 DEF Open
  <2> QED BY <1>18, <2>2 DEF Open, Saver
<1>19. ASSUME NEW s \in Saver, Write(s) PROVE SaversBelong'
  <2>1. \A t \in Saver : saver'[t].pc # "idle" => saver[t].pc # "idle" /\ t # s
    BY <1>19 DEF Write, Idle, TypeOK
  <2>2. CASE s \in {"settings", "stop"}
    <3>1. step' = step
      BY <1>19, <2>2 DEF Write, After
    <3> QED BY <1>19, <2>1, <3>1 DEF Write, Saver
  <2>3. CASE s = "registration"
    <3>1. saver["upgrade"].pc = "idle" /\ command \in {"run", "register"}
      BY <1>19, <2>3 DEF Write
    <3>2. step' \in {"resets", "works", "ends"} /\ (step' = "resets" => forced)
      BY <1>19, <2>3 DEF Write, After
    <3> QED BY <1>19, <2>1, <2>3, <3>1, <3>2 DEF Write, Saver
  <2>4. CASE s = "upgrade"
    <3>1. saver["registration"].pc = "idle"
      BY <1>19, <2>4 DEF Write
    <3>2. step' = "mkdirs"
      BY <1>19, <2>4 DEF Write, After
    <3> QED BY <1>19, <2>1, <2>4, <3>1, <3>2 DEF Write, Saver
  <2> QED BY <2>2, <2>3, <2>4 DEF Saver
<1>20. ASSUME NEW s \in Saver, SaveFails(s) PROVE SaversBelong'
  <2>1. \A t \in Saver : saver'[t].pc # "idle" => saver[t].pc # "idle" /\ t # s
    BY <1>20 DEF SaveFails, Idle, TypeOK
  <2>2. CASE s \in {"settings", "stop"}
    BY <1>20, <2>1, <2>2 DEF SaveFails, Saver
  <2>3. CASE s \in {"registration", "upgrade"}
    <3>1. saver'["registration"].pc = "idle" /\ saver'["upgrade"].pc = "idle"
      BY <1>20, <2>1, <2>3 DEF SaveFails, Busy, Saver
    <3> QED BY <1>20, <2>1, <2>3, <3>1 DEF SaveFails, Saver
  <2> QED BY <2>2, <2>3 DEF Saver
<1>21. CASE Return
  BY <1>21 DEF Return, Ends, Idle, Saver
<1>22. CASE Kill
  BY <1>22 DEF Kill, Ends, Idle, Saver
<1>23. CASE UNCHANGED vars
  BY <1>23 DEF vars
<1> QED BY <1>1, <1>2, <1>3, <1>4, <1>5, <1>6, <1>7, <1>8, <1>9, <1>10, <1>11, <1>12,
           <1>13, <1>14, <1>15, <1>16, <1>17, <1>18, <1>19, <1>20, <1>21, <1>22, <1>23 DEF Next

\* A call of Save that begins without harm is the only one.
LEMMA EncodesAlone ==
  ASSUME NEW s \in Saver, NEW p, TypeOK, OneSaver, Encodes(s, p), UNCHANGED <<file, saved>>
  PROVE  OneSaver'
<1> SUFFICES ASSUME ~harmed' PROVE OneSaver'
  BY DEF OneSaver
<1>1. ~harmed /\ Busy = {}
  BY DEF Encodes
<1>2. file = saved
  BY <1>1 DEF OneSaver, Busy
<1>3. saver'[s].pc = "opens" /\ \A t \in Saver \ {s} : saver'[t].pc = "idle"
  BY <1>1 DEF Encodes, TypeOK, Busy
<1>4. Busy' = {s}
  BY <1>3 DEF Busy
<1>5. \A t \in Saver : saver'[t].pc # "writes"
  BY <1>3
<1> QED BY <1>2, <1>4, <1>5 DEF OneSaver

\* Each step leaves at most one saver and the file as it was saved.
LEMMA StepOne == SaversBelong /\ TypeOK /\ OneSaver /\ [Next]_vars => OneSaver'
<1> SUFFICES ASSUME SaversBelong, TypeOK, OneSaver, [Next]_vars PROVE OneSaver'
  OBVIOUS
<1> USE DEF diskVars, processVars, histVars
<1>0. UNCHANGED <<file, saved, saver, harmed>> => OneSaver'
  BY DEF OneSaver, Busy
<1>1. ASSUME NEW p \in Prefs, Run(p) PROVE OneSaver'
  BY <1>0, <1>1 DEF Run
<1>2. ASSUME NEW p \in Prefs, Upgrade(p) PROVE OneSaver'
  <2>1. Encodes("upgrade", mem') /\ UNCHANGED <<file, saved>>
    BY <1>2 DEF Upgrade
  <2> QED BY <2>1, EncodesAlone DEF Saver
<1>3. ASSUME NEW p \in Prefs, Reset(p) PROVE OneSaver'
  BY <1>0, <1>3 DEF Reset
<1>4. ASSUME NEW p \in Prefs, NEW force \in BOOLEAN, Register(p, force) PROVE OneSaver'
  BY <1>0, <1>4 DEF Register
<1>5. CASE CheckRegistration \/ NotHeard \/ Refused
  BY <1>0, <1>5 DEF CheckRegistration, NotHeard, Refused
<1>6. CASE Registered
  <2>1. Encodes("registration", mem') /\ UNCHANGED <<file, saved>>
    BY <1>6 DEF Registered
  <2> QED BY <2>1, EncodesAlone DEF Saver
<1>7. CASE ResetRegistry
  <2>1. Busy = {}
    BY <1>7, NobodySaves DEF ResetRegistry, SaversBelong
  <2> QED BY <1>7, <2>1 DEF ResetRegistry, OneSaver, Busy
<1>8. CASE SetEndpoint \/ RegisterSensor \/ Signal \/ MakeDirectory \/ CopyRegistry
  BY <1>0, <1>8 DEF SetEndpoint, RegisterSensor, Signal, MakeDirectory, CopyRegistry
<1>9. ASSUME NEW enabled \in BOOLEAN, SaveMQTTPreferences(enabled) PROVE OneSaver'
  <2>1. CASE Valid(mem)
    <3>1. Encodes("settings", mem') /\ UNCHANGED <<file, saved>>
      BY <1>9, <2>1 DEF SaveMQTTPreferences
    <3> QED BY <3>1, EncodesAlone DEF Saver
  <2>2. CASE ~Valid(mem)
    BY <1>0, <1>9, <2>2 DEF SaveMQTTPreferences
  <2> QED BY <2>1, <2>2
<1>10. CASE Stop
  <2>1. CASE Valid(mem)
    <3>1. Encodes("stop", mem) /\ UNCHANGED <<file, saved>>
      BY <1>10, <2>1 DEF Stop
    <3> QED BY <3>1, EncodesAlone DEF Saver
  <2>2. CASE ~Valid(mem)
    BY <1>0, <1>10, <2>2 DEF Stop
  <2> QED BY <2>1, <2>2
<1>11. CASE RemovePreferences
  <2>1. Busy = {}
    BY <1>11, NobodySaves DEF RemovePreferences, SaversBelong
  <2> QED BY <1>11, <2>1 DEF RemovePreferences, OneSaver, Busy
<1>12. ASSUME NEW s \in Saver, Open(s) PROVE OneSaver'
  <2>1. saver'[s].pc = "writes" /\ \A t \in Saver \ {s} : saver'[t] = saver[t]
    BY <1>12 DEF Open, TypeOK
  <2>2. Busy' = Busy
    BY <1>12, <2>1 DEF Open, Busy
  <2> QED BY <1>12, <2>1, <2>2 DEF Open, OneSaver
<1>13. ASSUME NEW s \in Saver, Write(s), ~harmed PROVE OneSaver'
  <2>1. Busy = {s} /\ file.state = "empty"
    BY <1>13 DEF Write, OneSaver, Busy
  <2>2. \A t \in Saver : saver'[t].pc = "idle"
    BY <1>13, <2>1 DEF Write, Busy, Idle, TypeOK
  <2>3. file' = saved'
    BY <1>13, <2>1 DEF Write
  <2> QED BY <2>2, <2>3 DEF OneSaver, Busy
<1>14. ASSUME NEW s \in Saver, SaveFails(s) PROVE OneSaver'
  BY <1>14 DEF SaveFails, OneSaver
<1>15. CASE Return \/ Kill
  <2> SUFFICES ASSUME ~harmed' PROVE OneSaver'
    BY DEF OneSaver
  <2>1. ~harmed /\ Busy = {}
    BY <1>15 DEF Return, Kill
  <2>2. UNCHANGED <<file, saved>>
    BY <1>15, <2>1 DEF Return, Kill, Busy
  <2>3. \A t \in Saver : saver'[t].pc = "idle"
    BY <1>15 DEF Return, Kill, Ends, Idle
  <2>4. file = saved
    BY <2>1 DEF OneSaver, Busy
  <2> QED BY <2>2, <2>3, <2>4 DEF OneSaver, Busy
<1>16. CASE UNCHANGED vars
  BY <1>0, <1>16 DEF vars
<1>17. ASSUME NEW s \in Saver, Write(s) PROVE OneSaver'
  <2>1. CASE harmed
    BY <1>17, <2>1 DEF Write, OneSaver
  <2> QED BY <1>13, <1>17, <2>1
<1> QED BY <1>1, <1>2, <1>3, <1>4, <1>5, <1>6, <1>7, <1>8, <1>9, <1>10, <1>11, <1>12, <1>14,
           <1>15, <1>16, <1>17 DEF Next

\* Nobody saves at first.
LEMMA InitSaveInv == Init => SaveInv
<1>1. Init => SaversBelong
  BY DEF Init, SaversBelong, Idle, Saver
<1>2. Init => OneSaver
  BY DEF Init, OneSaver, Busy, Idle
<1> QED BY <1>1, <1>2, InitType DEF SaveInv

\* For any number of webhooks: what was saved last is what the next start finds,
\* unless a save failed, was killed or met another.
THEOREM LastSaveIsThere == Spec => []SavedIsThere
<1>1. Init => SaveInv
  BY InitSaveInv
<1>2. SaveInv /\ [Next]_vars => SaveInv'
  BY StepType, StepBelong, StepOne DEF SaveInv
<1>3. SaveInv => SavedIsThere
  <2> SUFFICES ASSUME SaveInv, ~harmed, Busy = {} PROVE file = saved
    BY DEF SavedIsThere
  <2> QED BY DEF SaveInv, OneSaver, Busy
<1> QED BY <1>1, <1>2, <1>3, PTL DEF Spec

-----------------------------------------------------------------------------
(* The registry is current.                                                *)

\* The same registration.
Alike(p, q) == p.registered = q.registered /\ p.hook = q.hook

\* Preferences that fit the registry: of a registered agent, with the webhook that the
\* sensors registered with, if any did; or of one that is not, and no sensor is.
Fits(p) ==
  IF p.registered
    THEN /\ p.hook \in 1 .. hooks
         /\ registry.hook \in {Empty, p.hook}
         /\ p.hook = OldHook => old.registered
    ELSE p.hook = DefaultHook /\ registry.hook = Empty

\* What was saved last fits, but in a forced registration before it resets the registry;
\* and so do no preferences while reset is about to remove them.
SavedFits ==
  /\ saved = Absent \/ saved.state = "whole"
  /\ step # "resets" => Fits(saved.prefs)
  /\ step = "removes" => registry.hook = Empty

\* A running agent has the registration that is saved, and so has what is being saved;
\* one that could not register has none that could be saved.
RunKeeps ==
  command = "run" =>
    /\ step \in {"checks", "asks", "saves", "works", "failed"}
    /\ step \in {"checks", "asks", "works"} =>
         Alike(mem, saved.prefs) /\ \A s \in Busy : Alike(saver[s].prefs, mem)
    /\ step = "works" => mem.registered
    /\ step = "failed" =>
         /\ mem.hook = Empty \/ (~mem.registered /\ mem.hook = DefaultHook)
         /\ registry.hook = Empty
         /\ \A s \in Busy : ~saver[s].prefs.registered /\ saver[s].prefs.hook = DefaultHook

\* Who asks for a registration has none that is saved, or is forced to; what it gets is
\* new, and nothing is registered with another.
Registering ==
  /\ command = "register" /\ step = "checks" => mem.registered = saved.prefs.registered
  /\ step = "asks" /\ ~forced => ~saved.prefs.registered
  /\ step = "saves" /\ command \in {"run", "register"} =>
       /\ saver["registration"].pc # "idle"
       /\ saver["registration"].prefs = mem
       /\ mem.registered /\ mem.hook \in 2 .. hooks
       /\ ~forced => registry.hook = Empty

\* An upgrade saves the previous version's registration before it copies the registry.
Upgrading ==
  /\ command = "upgrade" =>
       /\ mem.registered = old.registered
       /\ mem.hook = IF old.registered THEN OldHook ELSE DefaultHook
       /\ step = "saves" => saver["upgrade"].prefs = mem /\ registry.hook \in {OldHook, Empty}
  /\ step \in {"mkdirs", "copies"} => command = "upgrade" /\ saved = Whole(mem)

\* Only a running agent sends, and to the webhook it has.
Sends ==
  endpoint # Empty => command = "run" /\ step \in {"works", "failed"} /\ endpoint = mem.hook

\* The inductive invariant: all of this while nothing harmed a save and no upgrade
\* replaced a newer registration.
RegistryParts == SavedFits /\ RunKeeps /\ Registering /\ Upgrading /\ Sends
RegistryInv ==
  /\ old.registry => old.registered
  /\ ~harmed /\ ~replaced => RegistryParts

\* What the numbers of the webhooks tell apart.
LEMMA HooksDiffer ==
  ASSUME TypeOK
  PROVE  /\ hooks \in Nat /\ hooks >= 1 /\ MaxHooks \in Nat /\ hooks <= MaxHooks
         /\ DefaultHook = 0 /\ OldHook = 1 /\ Empty = MaxHooks + 1
         /\ Empty \notin 1 .. hooks /\ DefaultHook \notin 1 .. hooks
  BY ConstantsAssumption, SMT DEF TypeOK, Given, DefaultHook, OldHook, Empty

\* A command that starts finds what was saved.
LEMMA LoadsSaved ==
  ASSUME SaveInv, RegistryParts, ~harmed, command = "none", NEW p \in Loads
  PROVE  p = saved.prefs /\ Fits(p) /\ Busy = {}
<1>1. Busy = {}
  BY NobodySaves DEF SaveInv
<1>2. file = saved
  BY <1>1 DEF SaveInv, OneSaver, Busy
<1>3. p = saved.prefs
  <2>1. CASE saved = Absent
    BY <1>2, <2>1 DEF Loads, Absent
  <2>2. CASE saved.state = "whole"
    BY <1>2, <2>2 DEF Loads
  <2> QED BY <2>1, <2>2 DEF RegistryParts, SavedFits
<1>4. step # "resets"
  BY DEF SaveInv, SaversBelong
<1> QED BY <1>1, <1>3, <1>4 DEF RegistryParts, SavedFits

\* A command that starts, and that is neither a running agent nor an upgrade, keeps
\* the invariant if it keeps the registry or empties it.
LEMMA StartsKeeps ==
  ASSUME RegistryParts, step # "resets", UNCHANGED <<old, hooks, saved>>,
         command' \in {"none", "register", "reset"}, endpoint' = Empty,
         step' \in {"checks", "removes", "ends"}, registry'.hook \in {registry.hook, Empty},
         step' = "removes" => registry'.hook = Empty,
         command' = "register" /\ step' = "checks" => mem'.registered = saved.prefs.registered
  PROVE  RegistryParts'
<1>1. SavedFits'
  BY DEF RegistryParts, SavedFits, Fits
<1>2. RunKeeps' /\ Registering' /\ Upgrading' /\ Sends'
  BY DEF RunKeeps, Registering, Upgrading, Sends
<1> QED BY <1>1, <1>2 DEF RegistryParts

\* Harm stays, and the previous version's installation is what it was.
LEMMA HarmStays ==
  ASSUME TypeOK, [Next]_vars
  PROVE  (harmed => harmed') /\ (replaced => replaced') /\ old' = old
<1>0. harmed \in BOOLEAN /\ replaced \in BOOLEAN
  BY DEF TypeOK
<1> USE <1>0 DEF diskVars, processVars, histVars
<1>1. ASSUME NEW p \in Prefs, Run(p) \/ Reset(p)
      PROVE  (harmed => harmed') /\ (replaced => replaced') /\ old' = old
  BY <1>1 DEF Run, Reset
<1>2. ASSUME NEW p \in Prefs, Upgrade(p)
      PROVE  (harmed => harmed') /\ (replaced => replaced') /\ old' = old
  BY <1>2 DEF Upgrade, Encodes
<1>3. ASSUME NEW p \in Prefs, NEW force \in BOOLEAN, Register(p, force)
      PROVE  (harmed => harmed') /\ (replaced => replaced') /\ old' = old
  BY <1>3 DEF Register
<1>4. ASSUME CheckRegistration \/ Registered \/ NotHeard \/ Refused \/ ResetRegistry
             \/ SetEndpoint \/ RegisterSensor
      PROVE  (harmed => harmed') /\ (replaced => replaced') /\ old' = old
  BY <1>4 DEF CheckRegistration, Registered, Encodes, NotHeard, Refused, ResetRegistry,
             SetEndpoint, RegisterSensor
<1>5. ASSUME (\E enabled \in BOOLEAN : SaveMQTTPreferences(enabled)) \/ Stop \/ Signal
             \/ MakeDirectory \/ CopyRegistry \/ RemovePreferences
      PROVE  (harmed => harmed') /\ (replaced => replaced') /\ old' = old
  BY <1>5 DEF SaveMQTTPreferences, Stop, Encodes, Signal, MakeDirectory, CopyRegistry,
             RemovePreferences
<1>6. ASSUME NEW s \in Saver, Open(s) \/ Write(s) \/ SaveFails(s)
      PROVE  (harmed => harmed') /\ (replaced => replaced') /\ old' = old
  BY <1>6 DEF Open, Write, SaveFails
<1>7. ASSUME Return \/ Kill \/ UNCHANGED vars
      PROVE  (harmed => harmed') /\ (replaced => replaced') /\ old' = old
  BY <1>7 DEF Return, Kill, vars
<1> QED BY <1>1, <1>2, <1>3, <1>4, <1>5, <1>6, <1>7 DEF Next

\* Each step keeps what is saved, what is sent and the registry together.
LEMMA StepRegistry == SaveInv /\ RegistryInv /\ [Next]_vars => RegistryInv'
<1> SUFFICES ASSUME SaveInv, RegistryInv, [Next]_vars PROVE RegistryInv'
  OBVIOUS
<1>a. SaveInv'
  BY StepType, StepBelong, StepOne DEF SaveInv
<1>b. old' = old /\ (old.registry => old.registered)
  BY HarmStays DEF RegistryInv, SaveInv
<1> SUFFICES ASSUME ~harmed', ~replaced' PROVE RegistryParts'
  BY <1>b DEF RegistryInv
<1>c. ~harmed /\ ~replaced /\ RegistryParts
  BY HarmStays DEF RegistryInv, SaveInv
<1>t. TypeOK /\ SaversBelong /\ OneSaver /\ TypeOK' /\ SaversBelong' /\ OneSaver'
  BY <1>a DEF SaveInv
<1>n. /\ hooks \in Nat /\ hooks >= 1 /\ MaxHooks \in Nat /\ hooks <= MaxHooks
      /\ DefaultHook = 0 /\ OldHook = 1 /\ Empty = MaxHooks + 1
      /\ Empty \notin 1 .. hooks /\ DefaultHook \notin 1 .. hooks
  BY <1>t, HooksDiffer
<1>v. command = "run" /\ step = "saves" => Busy # {} /\ Valid(mem)
  BY <1>c, <1>n DEF RegistryParts, Registering, Busy, Saver, Valid
<1>w. ASSUME NEW s \in Saver, NEW p, Encodes(s, p)
      PROVE  saver'[s].prefs = p /\ \A t \in Saver \ {s} : saver'[t] = saver[t]
  BY <1>t, <1>w DEF Encodes, TypeOK
<1>u. UNCHANGED <<hooks, registry, command, forced, step, mem, endpoint, saver, saved>> => RegistryParts'
  BY <1>b, <1>c DEF RegistryParts, SavedFits, Fits, RunKeeps, Registering, Upgrading, Sends, Busy
<1> USE DEF diskVars, processVars, histVars
<1>1. ASSUME NEW p \in Prefs, Run(p) PROVE RegistryParts'
  <2>1. p = saved.prefs /\ Fits(p) /\ Busy = {}
    BY <1>1, <1>c, LoadsSaved DEF Run, Starts
  <2>2. SavedFits'
    BY <1>1, <1>b, <1>c, <1>t, <2>1 DEF Run, Starts, RegistryParts, SavedFits, Fits, TypeOK
  <2>3. RunKeeps'
    BY <1>1, <2>1 DEF Run, Starts, RunKeeps, Alike, Busy
  <2>4. Registering' /\ Upgrading' /\ Sends'
    BY <1>1 DEF Run, Starts, Registering, Upgrading, Sends
  <2> QED BY <2>2, <2>3, <2>4 DEF RegistryParts
<1>2. ASSUME NEW p \in Prefs, Upgrade(p) PROVE RegistryParts'
  <2>1. p = saved.prefs /\ Fits(p) /\ Busy = {}
    BY <1>2, <1>c, LoadsSaved DEF Upgrade, Starts
  <2>2. SavedFits'
    BY <1>2, <1>b, <1>c, <2>1 DEF Upgrade, Starts, RegistryParts, SavedFits, Fits
  <2>3. registry.hook \in {OldHook, Empty}
    BY <1>2 DEF Upgrade
  <2>4. saver'["upgrade"].prefs = mem'
    BY <1>2, <1>t DEF Upgrade, Encodes, TypeOK, Saver
  <2>5. Upgrading'
    BY <1>2, <1>b, <2>3, <2>4 DEF Upgrade, Starts, Upgrading
  <2>6. RunKeeps' /\ Registering' /\ Sends'
    BY <1>2 DEF Upgrade, Starts, RunKeeps, Registering, Sends
  <2> QED BY <2>2, <2>5, <2>6 DEF RegistryParts
<1>3. ASSUME NEW p \in Prefs, Reset(p) PROVE RegistryParts'
  BY <1>3, <1>b, <1>c, <1>t, StartsKeeps DEF Reset, Starts, SaversBelong
<1>4. ASSUME NEW p \in Prefs, NEW force \in BOOLEAN, Register(p, force) PROVE RegistryParts'
  <2>1. p = saved.prefs
    BY <1>4, <1>c, LoadsSaved DEF Register, Starts
  <2>2. mem'.registered = saved.prefs.registered
    BY <1>4, <2>1 DEF Register, Starts, Prefs
  <2> QED BY <1>4, <1>b, <1>c, <1>t, <2>2, StartsKeeps DEF Register, Starts, SaversBelong
<1>5. CASE CheckRegistration
  <2>1. SavedFits'
    BY <1>5, <1>b, <1>c DEF CheckRegistration, RegistryParts, SavedFits, Fits
  <2>2. RunKeeps'
    BY <1>5, <1>c, <1>t DEF CheckRegistration, RegistryParts, RunKeeps, Busy, SaversBelong
  <2>3. Registering'
    BY <1>5, <1>c, <1>t DEF CheckRegistration, RegistryParts, RunKeeps, Registering, Alike, SaversBelong
  <2>4. Upgrading' /\ Sends'
    BY <1>5, <1>c DEF CheckRegistration, RegistryParts, Upgrading, Sends
  <2> QED BY <2>1, <2>2, <2>3, <2>4 DEF RegistryParts
<1>6. CASE Registered
  <2>1. saver'["registration"].pc = "opens" /\ saver'["registration"].prefs = mem'
    BY <1>6, <1>t DEF Registered, Encodes, TypeOK, Saver
  <2>2. mem'.registered /\ mem'.hook = hooks + 1
    BY <1>6, <1>t DEF Registered, TypeOK, Prefs
  <2>3. SavedFits'
    BY <1>6, <1>b, <1>c, <1>n DEF Registered, RegistryParts, SavedFits, Fits
  <2>4. command \in {"run", "register"} /\ endpoint = Empty
    BY <1>6, <1>c, <1>t DEF Registered, SaversBelong, RegistryParts, Sends
  <2>5. RunKeeps' /\ Upgrading' /\ Sends'
    BY <1>6, <1>n, <2>4 DEF Registered, RunKeeps, Upgrading, Sends
  <2>6. ~forced => registry.hook = Empty
    BY <1>6, <1>c DEF Registered, RegistryParts, Registering, SavedFits, Fits
  <2>7. Registering'
    BY <1>6, <1>n, <2>1, <2>2, <2>6 DEF Registered, Registering
  <2> QED BY <2>3, <2>5, <2>7 DEF RegistryParts
<1>7. CASE NotHeard \/ Refused
  <2>1. /\ step = "asks" /\ step' = "failed"
        /\ UNCHANGED <<old, registry, hooks, command, forced, endpoint, saver, saved>>
        /\ mem' = mem \/ mem'.hook = Empty
    BY <1>7, <1>t DEF NotHeard, Refused, TypeOK, Prefs
  <2>2. SavedFits'
    BY <1>c, <2>1 DEF RegistryParts, SavedFits, Fits
  <2>3. command = "run" => ~forced /\ ~saved.prefs.registered /\ registry.hook = Empty
                           /\ saved.prefs.hook = DefaultHook
    BY <1>c, <1>t, <2>1 DEF RegistryParts, SaversBelong, Registering, SavedFits, Fits
  <2>4. RunKeeps'
    BY <1>c, <2>1, <2>3 DEF RegistryParts, RunKeeps, Alike, Busy
  <2>5. Registering' /\ Sends'
    BY <1>c, <2>1 DEF RegistryParts, Registering, Sends
  <2>6. Upgrading'
    BY <1>t, <2>1 DEF Upgrading, SaversBelong
  <2> QED BY <2>2, <2>4, <2>5, <2>6 DEF RegistryParts
<1>8. CASE ResetRegistry
  <2>1. command = "register"
    BY <1>8, <1>t DEF ResetRegistry, SaversBelong
  <2>2. SavedFits'
    BY <1>8 DEF ResetRegistry, SavedFits, Fits, Absent, Defaults
  <2>3. RunKeeps' /\ Registering' /\ Upgrading' /\ Sends'
    BY <1>8, <1>c, <2>1 DEF ResetRegistry, RegistryParts, RunKeeps, Registering, Upgrading, Sends
  <2> QED BY <2>2, <2>3 DEF RegistryParts
<1>9. CASE SetEndpoint
  BY <1>9, <1>b, <1>c DEF SetEndpoint, RegistryParts, SavedFits, Fits, RunKeeps, Registering,
     Upgrading, Sends, Busy
<1>10. CASE RegisterSensor
  <2>1. command = "run" /\ step \in {"works", "failed"} /\ endpoint = mem.hook
    BY <1>10, <1>c, <1>n DEF RegisterSensor, RegistryParts, Sends
  <2>2. step = "works"
    BY <1>10, <1>c, <1>n, <2>1 DEF RegisterSensor, RegistryParts, RunKeeps
  <2>3. saved.prefs.registered /\ saved.prefs.hook = endpoint
    BY <1>c, <2>1, <2>2 DEF RegistryParts, RunKeeps, Alike
  <2>4. registry'.hook = endpoint
    BY <1>10, <1>t DEF RegisterSensor, TypeOK
  <2>5. SavedFits'
    BY <1>10, <1>b, <1>c, <2>2, <2>3, <2>4 DEF RegisterSensor, RegistryParts, SavedFits, Fits
  <2>6. RunKeeps' /\ Registering' /\ Upgrading' /\ Sends'
    BY <1>10, <1>c, <2>1, <2>2 DEF RegisterSensor, RegistryParts, RunKeeps, Registering, Upgrading,
       Sends, Busy
  <2> QED BY <2>5, <2>6 DEF RegistryParts
<1>11. ASSUME NEW enabled \in BOOLEAN, SaveMQTTPreferences(enabled) PROVE RegistryParts'
  <2>1. Alike(mem', mem) /\ command = "run" /\ UNCHANGED <<registry, hooks, command, forced, step, endpoint, saved>>
    BY <1>11, <1>t DEF SaveMQTTPreferences, TypeOK, Prefs, Alike
  <2>2. SavedFits'
    BY <1>b, <1>c, <2>1 DEF RegistryParts, SavedFits, Fits
  <2>3. step # "saves"
    BY <1>11, <1>v, <2>1 DEF SaveMQTTPreferences, Encodes
  <2>4. \A s \in Busy' : \/ s \in Busy /\ saver'[s] = saver[s]
                         \/ saver'[s].prefs = mem' /\ mem.hook # Empty
    BY <1>11, <1>w DEF SaveMQTTPreferences, Valid, Busy, Saver
  <2>5. RunKeeps'
    BY <1>c, <2>1, <2>4 DEF RegistryParts, RunKeeps, Alike
  <2>6. Registering' /\ Upgrading' /\ Sends'
    BY <1>c, <1>t, <2>1, <2>3 DEF RegistryParts, Registering, Upgrading, Sends, Alike, SaversBelong
  <2> QED BY <2>2, <2>5, <2>6 DEF RegistryParts
<1>12. CASE Stop
  <2>1. command = "run" /\ UNCHANGED <<registry, hooks, command, forced, step, mem, endpoint, saved>>
    BY <1>12 DEF Stop
  <2>2. SavedFits'
    BY <1>b, <1>c, <2>1 DEF RegistryParts, SavedFits, Fits
  <2>3. step # "saves"
    BY <1>12, <1>v DEF Stop, Encodes
  <2>4. \A s \in Busy' : \/ s \in Busy /\ saver'[s] = saver[s]
                         \/ saver'[s].prefs = mem /\ mem.hook # Empty
    BY <1>12, <1>w DEF Stop, Valid, Busy, Saver
  <2>5. RunKeeps'
    BY <1>c, <2>1, <2>4 DEF RegistryParts, RunKeeps, Alike
  <2>6. Registering' /\ Upgrading' /\ Sends'
    BY <1>c, <1>t, <2>1, <2>3 DEF RegistryParts, Registering, Upgrading, Sends, SaversBelong
  <2> QED BY <2>2, <2>5, <2>6 DEF RegistryParts
<1>13. CASE Signal
  BY <1>13, <1>u DEF Signal
<1>14. CASE MakeDirectory
  <2>1. registry'.hook = registry.hook
    BY <1>14, <1>t DEF MakeDirectory, TypeOK
  <2>2. SavedFits'
    BY <1>14, <1>b, <1>c, <2>1 DEF MakeDirectory, RegistryParts, SavedFits, Fits
  <2>3. RunKeeps' /\ Registering' /\ Upgrading' /\ Sends'
    BY <1>14, <1>c, <2>1 DEF MakeDirectory, RegistryParts, RunKeeps, Registering, Upgrading, Sends
  <2> QED BY <2>2, <2>3 DEF RegistryParts
<1>15. CASE CopyRegistry
  <2>0. command = "upgrade"
    BY <1>15, <1>c DEF CopyRegistry, RegistryParts, Upgrading
  <2>1. SavedFits'
    BY <1>15, <1>b, <1>c, <1>n, <2>0 DEF CopyRegistry, RegistryParts, SavedFits, Fits, Upgrading, Whole
  <2>2. RunKeeps' /\ Registering' /\ Upgrading' /\ Sends'
    BY <1>15, <1>c, <2>0 DEF CopyRegistry, RegistryParts, RunKeeps, Registering, Upgrading, Sends
  <2> QED BY <2>1, <2>2 DEF RegistryParts
<1>16. CASE RemovePreferences
  <2>1. command = "reset"
    BY <1>16, <1>t DEF RemovePreferences, SaversBelong
  <2>2. SavedFits'
    BY <1>16, <1>c DEF RemovePreferences, RegistryParts, SavedFits, Fits, Absent, Defaults
  <2>3. RunKeeps' /\ Registering' /\ Upgrading' /\ Sends'
    BY <1>16, <1>c, <2>1 DEF RemovePreferences, RegistryParts, RunKeeps, Registering, Upgrading, Sends
  <2> QED BY <2>2, <2>3 DEF RegistryParts
<1>17. ASSUME NEW s \in Saver, Open(s) PROVE RegistryParts'
  <2>1. Busy' = Busy /\ \A t \in Saver : saver'[t].prefs = saver[t].prefs /\ (saver'[t].pc = "idle" <=> saver[t].pc = "idle")
    BY <1>17, <1>t DEF Open, TypeOK, Busy
  <2>2. UNCHANGED <<registry, hooks, command, forced, step, mem, endpoint, saved>>
    BY <1>17 DEF Open
  <2>3. SavedFits' /\ Upgrading' /\ Sends'
    BY <1>b, <1>c, <2>1, <2>2 DEF RegistryParts, SavedFits, Fits, Upgrading, Sends, Saver
  <2>4. RunKeeps' /\ Registering'
    BY <1>c, <2>1, <2>2 DEF RegistryParts, RunKeeps, Registering, Alike, Busy, Saver
  <2> QED BY <2>3, <2>4 DEF RegistryParts
<1>18. ASSUME NEW s \in Saver, Write(s) PROVE RegistryParts'
  <2>1. Busy = {s}
    BY <1>18, <1>c, <1>t DEF Write, OneSaver, Busy
  <2>2. Busy' = {}
    BY <1>18, <1>t, <2>1 DEF Write, Busy, Idle, TypeOK
  <2>3. saved' = Whole(saver[s].prefs) /\ UNCHANGED <<registry, hooks, command, forced, mem, endpoint>>
    BY <1>18 DEF Write
  <2>4. CASE s \in {"settings", "stop"}
    <3>0. command = "run" /\ step' = step
      BY <1>18, <1>t, <2>4 DEF Write, After, SaversBelong
    <3>1. command = "run" /\ step' = step /\ step # "saves"
      BY <1>c, <2>1, <2>4, <3>0 DEF RegistryParts, Registering, Busy, Saver
    <3>2. SavedFits'
      BY <1>b, <1>c, <2>1, <2>3, <3>1 DEF RegistryParts, SavedFits, RunKeeps, Fits, Alike, Whole
    <3>3. RunKeeps'
      BY <1>c, <2>1, <2>2, <2>3, <3>1 DEF RegistryParts, RunKeeps, Alike, Whole
    <3>4. Registering' /\ Upgrading' /\ Sends'
      BY <1>c, <2>1, <2>3, <3>1 DEF RegistryParts, RunKeeps, Registering, Upgrading, Sends, Alike, Whole
    <3> QED BY <3>2, <3>3, <3>4 DEF RegistryParts
  <2>5. CASE s = "registration"
    <3>1. command \in {"run", "register"} /\ step = "saves"
      BY <1>18, <1>t, <2>5 DEF Write, SaversBelong
    <3>2. /\ forced => step' = "resets"
          /\ ~forced /\ command = "run" => step' = "works"
          /\ ~forced /\ command # "run" => step' = "ends"
      <4>1. After("registration")
        BY <1>18, <2>5 DEF Write
      <4>2. CASE forced
        BY <4>1, <4>2 DEF After
      <4>3. CASE ~forced /\ command = "run"
        BY <4>1, <4>3 DEF After
      <4>4. CASE ~forced /\ command # "run"
        BY <4>1, <4>4 DEF After
      <4> QED BY <4>2, <4>3, <4>4
    <3>3. saver[s].prefs = mem /\ mem.registered /\ mem.hook \in 2 .. hooks
          /\ (~forced => registry.hook = Empty) /\ endpoint = Empty
      BY <1>c, <2>5, <3>1 DEF RegistryParts, Registering, Sends
    <3>4. SavedFits'
      BY <1>b, <1>n, <2>3, <3>2, <3>3 DEF SavedFits, Fits, Whole
    <3>5. RunKeeps'
      BY <1>t, <2>2, <2>3, <3>2, <3>3 DEF RunKeeps, Alike, Whole, SaversBelong
    <3>6. Registering' /\ Upgrading' /\ Sends'
      BY <2>3, <3>1, <3>2, <3>3 DEF Registering, Upgrading, Sends
    <3> QED BY <3>4, <3>5, <3>6 DEF RegistryParts
  <2>6. CASE s = "upgrade"
    <3>1. command = "upgrade" /\ step = "saves" /\ step' = "mkdirs"
      BY <1>18, <1>t, <2>6 DEF Write, After, SaversBelong
    <3>2. saver[s].prefs = mem /\ registry.hook \in {OldHook, Empty} /\ endpoint = Empty
      BY <1>c, <2>6, <3>1 DEF RegistryParts, Upgrading, Sends
    <3>3. old.registered \/ registry.hook = Empty
      BY <1>c, <1>n, <3>1, <3>2 DEF RegistryParts, SavedFits, Fits
    <3>4. SavedFits'
      BY <1>b, <1>c, <1>n, <2>3, <3>1, <3>2, <3>3 DEF RegistryParts, SavedFits, Fits, Whole, Upgrading
    <3>5. RunKeeps' /\ Registering' /\ Upgrading' /\ Sends'
      BY <1>b, <1>c, <2>3, <3>1, <3>2 DEF RegistryParts, RunKeeps, Registering, Upgrading, Sends
    <3> QED BY <3>4, <3>5 DEF RegistryParts
  <2> QED BY <2>4, <2>5, <2>6 DEF Saver
<1>19. ASSUME NEW s \in Saver, SaveFails(s) PROVE RegistryParts'
  BY <1>19 DEF SaveFails
<1>20. CASE Return \/ Kill
  <2>1. step # "resets"
    BY <1>20, <1>t DEF Return, Kill, SaversBelong
  <2> QED BY <1>20, <1>b, <1>c, <2>1, StartsKeeps DEF Return, Kill, Ends
<1>21. CASE UNCHANGED vars
  BY <1>21, <1>u DEF vars
<1> QED BY <1>1, <1>2, <1>3, <1>4, <1>5, <1>6, <1>7, <1>8, <1>9, <1>10, <1>11, <1>12, <1>13,
           <1>14, <1>15, <1>16, <1>17, <1>18, <1>19, <1>20, <1>21 DEF Next

\* For any number of webhooks: the registry never takes sensors for registered that are
\* registered with another webhook than the one the agent sends to, unless a save was
\* harmed or an upgrade replaced a newer registration.
THEOREM RegistryStaysCurrent == Spec => []RegistryIsCurrent
<1>1. Init => SaveInv /\ RegistryInv
  <2>1. Init => SaveInv
    BY InitSaveInv
  <2>2. ASSUME Init PROVE RegistryInv
    BY <2>2 DEF Init, RegistryInv, RegistryParts, SavedFits, Fits, RunKeeps, Registering, Upgrading,
       Sends, Absent, Defaults
  <2> QED BY <2>1, <2>2
<1>2. SaveInv /\ RegistryInv /\ [Next]_vars => SaveInv' /\ RegistryInv'
  BY StepType, StepBelong, StepOne, StepRegistry DEF SaveInv
<1>3. SaveInv /\ RegistryInv => RegistryIsCurrent
  <2> SUFFICES ASSUME SaveInv, RegistryParts, endpoint \in 1 .. hooks
               PROVE  registry.hook \in {Empty, endpoint}
    BY DEF RegistryIsCurrent, RegistryInv
  <2>1. Empty \notin 1 .. hooks /\ DefaultHook \notin 1 .. hooks
    BY HooksDiffer DEF SaveInv
  <2>2. command = "run" /\ step = "works" /\ endpoint = mem.hook
    BY <2>1 DEF RegistryParts, Sends, RunKeeps
  <2>3. mem.registered /\ Alike(mem, saved.prefs) /\ Fits(saved.prefs)
    BY <2>2 DEF RegistryParts, RunKeeps, SavedFits
  <2> QED BY <2>2, <2>3 DEF Alike, Fits
<1> QED BY <1>1, <1>2, <1>3, PTL DEF Spec

-----------------------------------------------------------------------------
(* The websocket.                                                          *)

Answer == [type : {"auth_required", "auth_ok", "auth_invalid", "result", "id_reuse", "pong", "event"},
           number : Nat]

\* An id that is about to be sent was the counter's once, and as many messages are still
\* to be counted as the last id that was accepted is ahead of it.
IdInv ==
  /\ reader = "replies" => holds.number <= nextID
  /\ pinger = "sends" => pingID <= nextID
  /\ ha = "auth" => last = 0
  /\ ha # "auth" => last < nextID + Len(incoming)

\* What is behind a sequence with one more element.
LEMMA AppendsOne ==
  ASSUME NEW s \in Seq(Answer), NEW m \in Answer
  PROVE  /\ Append(s, m) \in Seq(Answer) /\ Len(Append(s, m)) = Len(s) + 1
         /\ Append(s, m)[Len(s) + 1] = m
         /\ \A i \in 1 .. Len(s) : Append(s, m)[i] = s[i]
         /\ Len(s) \in Nat
OBVIOUS

\* A sequence without its first element.
LEMMA TakesOne ==
  ASSUME NEW s \in Seq(Answer), s # <<>>
  PROVE  /\ Tail(s) \in Seq(Answer) /\ Len(Tail(s)) = Len(s) - 1
         /\ Head(s) = s[1] /\ s[1] \in Answer
         /\ \A i \in 1 .. Len(Tail(s)) : Tail(s)[i] = s[i + 1]
         /\ Len(s) \in Nat \ {0}
OBVIOUS

\* Messages that are no notifications do not count among them.
LEMMA AppendsOther ==
  ASSUME SocketTypeOK, DisplayedInOrder, NEW m \in Answer, m.type # "event",
         incoming' = Append(incoming, m), Taken' = Taken, sent' = sent,
         reader' = "hands" => reader = "hands" /\ holds' = holds /\ shown' = shown
  PROVE  DisplayedInOrder'
<1> DEFINE n == Len(incoming)
<1>1. /\ n \in Nat /\ Len(incoming') = n + 1 /\ incoming'[n + 1] = m
      /\ \A i \in 1 .. n : incoming'[i] = incoming[i]
  BY AppendsOne DEF SocketTypeOK, Answer
<1>2. Notes' = Notes /\ \A i \in Notes : i \in 1 .. n /\ incoming'[i] = incoming[i]
  <2> HIDE DEF n
  <2>1. Notes = {i \in 1 .. n : incoming[i].type = "event"}
    BY DEF Notes, n
  <2>2. Notes' = {i \in 1 .. n + 1 : incoming'[i].type = "event"}
    BY <1>1 DEF Notes
  <2> QED  BY <1>1, <2>1, <2>2
<1> QED  BY <1>2 DEF DisplayedInOrder

\* An interval with the number after its last.
LEMMA ExtendsUp ==
  ASSUME NEW a \in Nat, NEW b \in Nat, a <= b
  PROVE  (a + 1 .. b) \cup {b + 1} = a + 1 .. b + 1
OBVIOUS

\* The steps that leave the messages alone.
LEMMA OrderRests ==
  ASSUME DisplayedInOrder, incoming' = incoming, Taken' = Taken, sent' = sent,
         reader' = "hands" => reader = "hands" /\ holds' = holds /\ shown' = shown
  PROVE  DisplayedInOrder'
BY DEF DisplayedInOrder, Notes

\* A notification is behind those on their way.
LEMMA NotifyKeepsOrder ==
  ASSUME SocketTypeOK, DisplayedInOrder, Notify
  PROVE  DisplayedInOrder'
<1> DEFINE n == Len(incoming)
           m == Message("event", sent + 1)
<1>1. /\ sent \in Nat /\ shown \in Nat /\ sent' = sent + 1 /\ UNCHANGED <<reader, holds, shown>>
      /\ incoming' = Append(incoming, m)
  BY BoundsAssumption DEF Notify, SocketTypeOK, readVars
<1>2. m \in Answer /\ m.type = "event" /\ m.number = sent + 1
  BY <1>1 DEF Message, Answer
<1> HIDE DEF m
<1>3. /\ n \in Nat /\ Len(incoming') = n + 1 /\ incoming'[n + 1] = m
      /\ \A i \in 1 .. n : incoming'[i] = incoming[i]
  BY <1>1, <1>2, AppendsOne DEF SocketTypeOK, Answer
<1> HIDE DEF n
<1>4. /\ Notes' = Notes \cup {n + 1} /\ incoming'[n + 1].number = sent + 1
      /\ \A i \in Notes : i \in 1 .. n /\ incoming'[i] = incoming[i]
  <2>1. Notes = {i \in 1 .. n : incoming[i].type = "event"}
    BY DEF Notes, n
  <2>2. Notes' = {i \in 1 .. n + 1 : incoming'[i].type = "event"}
    BY <1>3 DEF Notes
  <2> QED  BY <1>2, <1>3, <2>1, <2>2
<1>5. Taken' = Taken /\ Taken \in Nat
  BY <1>1 DEF Taken
<1>6. /\ Taken <= sent /\ {incoming[i].number : i \in Notes} = Taken + 1 .. sent
      /\ \A i, j \in Notes : i < j => incoming[i].number < incoming[j].number
  BY DEF DisplayedInOrder
<1>7. {incoming'[i].number : i \in Notes'} = Taken + 1 .. sent + 1
  <2>1. {incoming'[i].number : i \in Notes'} = (Taken + 1 .. sent) \cup {sent + 1}
    BY <1>4, <1>6
  <2>2. (Taken + 1 .. sent) \cup {sent + 1} = Taken + 1 .. sent + 1
    <3>1. Taken <= sent
      BY <1>6
    <3> QED  BY <1>1, <1>5, <3>1, ExtendsUp
  <2> QED  BY <2>1, <2>2
<1>8. \A i, j \in Notes' : i < j => incoming'[i].number < incoming'[j].number
  <2> TAKE i, j \in Notes'
  <2> SUFFICES ASSUME i < j PROVE incoming'[i].number < incoming'[j].number
    OBVIOUS
  <2>1. i \in Notes
    BY <1>3, <1>4
  <2>2. CASE j \in Notes
    BY <1>4, <1>6, <2>1, <2>2
  <2>3. CASE j = n + 1
    <3>1. incoming[i].number \in Taken + 1 .. sent
      BY <1>6, <2>1
    <3>2. incoming[i].number < sent + 1
      BY <1>1, <1>5, <3>1
    <3> QED  BY <1>4, <2>1, <2>3, <3>2
  <2> QED  BY <1>4, <2>2, <2>3
<1>9. /\ reader' = "hands" => holds'.number = shown' + 1
      /\ Taken' <= sent'
  BY <1>1, <1>5, <1>6 DEF DisplayedInOrder
<1>10. {incoming'[i].number : i \in Notes'} = Taken' + 1 .. sent'
  BY <1>1, <1>5, <1>7
<1> QED  BY <1>8, <1>9, <1>10 DEF DisplayedInOrder

\* Whoever takes the first message takes the next notification, if it is one.
LEMMA OnMessageKeepsOrder ==
  ASSUME SocketTypeOK, DisplayedInOrder, OnMessage
  PROVE  DisplayedInOrder'
<1> DEFINE n == Len(incoming)
           m == Head(incoming)
           rest == Tail(incoming)
<1>1. /\ reader = "reads" /\ incoming # <<>> /\ incoming' = rest /\ UNCHANGED <<sent, shown>>
      /\ IF m.type = "event" THEN reader' = "hands" /\ holds' = m ELSE reader' # "hands"
  BY DEF OnMessage, noteVars, readVars
<1>2. sent \in Nat /\ shown \in Nat
  BY BoundsAssumption DEF SocketTypeOK
<1>3. /\ n \in Nat \ {0} /\ Len(rest) = n - 1 /\ m = incoming[1]
      /\ \A i \in 1 .. n - 1 : rest[i] = incoming[i + 1]
      /\ m \in Answer
  BY <1>1, TakesOne DEF SocketTypeOK, Answer
<1>4. Notes = {i \in 1 .. n : incoming[i].type = "event"}
  BY DEF Notes
<1>5. Notes' = {i \in 1 .. n - 1 : incoming'[i].type = "event"}
  BY <1>1, <1>3 DEF Notes
<1> HIDE DEF n, m, rest
<1>6. /\ \A i \in Notes' : i \in Int /\ i + 1 \in Notes /\ incoming'[i] = incoming[i + 1]
      /\ \A i \in Notes : i \in Int /\ (i # 1 => i - 1 \in Notes' /\ incoming'[i - 1] = incoming[i])
      /\ 1 \in Notes <=> m.type = "event"
  BY <1>1, <1>3, <1>4, <1>5
<1>7. /\ shown <= sent /\ {incoming[i].number : i \in Notes} = shown + 1 .. sent
      /\ \A i, j \in Notes : i < j => incoming[i].number < incoming[j].number
  BY <1>1, <1>2 DEF DisplayedInOrder, Taken
<1>8. \A i, j \in Notes' : i < j => incoming'[i].number < incoming'[j].number
  BY <1>6, <1>7
<1>9. CASE m.type # "event"
  <2>1. {incoming'[i].number : i \in Notes'} = {incoming[i].number : i \in Notes}
    BY <1>6, <1>9
  <2>2. reader' # "hands" /\ Taken' = shown
    BY <1>1, <1>2, <1>9 DEF Taken
  <2> QED  BY <1>1, <1>7, <1>8, <2>1, <2>2 DEF DisplayedInOrder
<1>10. CASE m.type = "event"
  <2>1. 1 \in Notes /\ incoming[1].number \in shown + 1 .. sent
    BY <1>6, <1>7, <1>10
  <2>2. PICK i \in Notes : incoming[i].number = shown + 1
    <3>1. shown + 1 \in shown + 1 .. sent
      BY <1>2, <2>1
    <3> QED  BY <1>7, <3>1
  <2>3. incoming[1].number = shown + 1
    <3>1. i # 1 => 1 < i
      BY <1>3, <1>4
    <3> QED  BY <1>2, <1>7, <2>1, <2>2, <3>1
  <2>4. \A j \in Notes : j # 1 => incoming[j].number \in shown + 2 .. sent
    <3> TAKE j \in Notes
    <3> SUFFICES ASSUME j # 1 PROVE incoming[j].number \in shown + 2 .. sent
      OBVIOUS
    <3>1. 1 < j
      BY <1>3, <1>4
    <3>2. incoming[1].number < incoming[j].number /\ incoming[j].number \in shown + 1 .. sent
      BY <1>7, <2>1, <3>1
    <3> QED  BY <1>2, <2>3, <3>2
  <2>5. {incoming'[j].number : j \in Notes'} = shown + 2 .. sent
    <3>1. ASSUME NEW j \in Notes' PROVE incoming'[j].number \in shown + 2 .. sent
      <4>1. j + 1 \in Notes /\ j + 1 # 1 /\ incoming'[j] = incoming[j + 1]
        BY <1>3, <1>5, <1>6
      <4> QED  BY <2>4, <4>1
    <3>2. ASSUME NEW k \in shown + 2 .. sent PROVE \E j \in Notes' : incoming'[j].number = k
      <4>1. PICK j \in Notes : incoming[j].number = k
        <5>1. k \in shown + 1 .. sent
          BY <1>2
        <5> QED  BY <1>7, <5>1
      <4>2. j # 1
        BY <1>2, <2>3, <4>1
      <4> QED  BY <1>6, <4>1, <4>2
    <3> QED  BY <3>1, <3>2
  <2>6. reader' = "hands" /\ Taken' = shown + 1 /\ holds'.number = shown + 1
    BY <1>1, <1>3, <1>10, <2>3 DEF Taken
  <2>7. shown + 1 <= sent /\ (shown + 1) + 1 = shown + 2
    BY <1>2, <2>1
  <2> QED  BY <1>1, <1>8, <2>5, <2>6, <2>7 DEF DisplayedInOrder
<1> QED  BY <1>9, <1>10

\* What becomes of a command, whichever way Home Assistant takes it: there is one more
\* message on its way, no notification, and it has accepted this id or none.
Answered(id) ==
  /\ \E m \in Answer : m.type # "event" /\ incoming' = Append(incoming, m)
  /\ conn' \in {"open", "closed"} /\ ha' \in {"auth", "commands", "registered"}
  /\ last' \in Nat /\ losses' \in 0 .. MaxLosses
  /\ ha' = "auth" => ha = "auth"
  /\ last' = last \/ (last' = id /\ ha # "auth")

\* Home Assistant takes a command.
LEMMA HandleAnswers ==
  ASSUME SocketTypeOK, NEW request, request.number \in Nat, conn = "open", Handle(request)
  PROVE  Answered(request.number)
<1> USE DEF SocketTypeOK, Answered
<1>1. /\ Message("auth_ok", 0) \in Answer /\ Message("auth_ok", 0).type # "event"
      /\ Message("auth_invalid", 0) \in Answer /\ Message("auth_invalid", 0).type # "event"
      /\ Message("id_reuse", 0) \in Answer /\ Message("id_reuse", 0).type # "event"
      /\ Message("pong", 0) \in Answer /\ Message("pong", 0).type # "event"
      /\ Message("result", 0) \in Answer /\ Message("result", 0).type # "event"
  BY DEF Message, Answer
<1>2. Lose => losses' \in 0 .. MaxLosses
  BY BoundsAssumption DEF Lose
<1> QED  BY <1>1, <1>2 DEF Handle

\* WriteMessage, on a connection that is open or is not.
LEMMA SendAnswers ==
  ASSUME SocketTypeOK, NEW request, request.number \in Nat, Send(request)
  PROVE  (UNCHANGED haVars) \/ Answered(request.number)
<1>1. CASE conn = "open"
  <2>1. Handle(request)
    BY <1>1 DEF Send
  <2> QED  BY <1>1, <2>1, HandleAnswers
<1>2. CASE conn # "open"
  BY <1>2 DEF Send
<1> QED  BY <1>1, <1>2

\* Each step keeps the types.
LEMMA SocketTypesRest ==
  ASSUME SocketTypeOK, [SocketNext]_socketVars
  PROVE  SocketTypeOK'
<1> USE DEF agentVars, readVars, pingVars, haVars, noteVars
<1>0. SocketTypeOK /\ incoming \in Seq(Answer)
  BY DEF SocketTypeOK, Answer
<1>1. CASE Notify
  <2>1. Message("event", sent + 1) \in Answer
    BY <1>0, BoundsAssumption DEF SocketTypeOK, Message, Answer
  <2>2. incoming' \in Seq(Answer)
    BY <1>0, <1>1, <2>1, AppendsOne DEF Notify
  <2>3. sent' \in 0 .. MaxNotes
    BY <1>0, <1>1, BoundsAssumption DEF Notify, SocketTypeOK
  <2> QED  BY <1>0, <1>1, <2>2, <2>3 DEF Notify, SocketTypeOK, Answer
<1>2. CASE Break
  <2>1. losses' \in 0 .. MaxLosses
    BY <1>0, <1>2, BoundsAssumption DEF Break, Lose, SocketTypeOK
  <2> QED  BY <1>0, <1>2, <2>1 DEF Break, SocketTypeOK
<1>3. CASE Expire
  BY <1>0, <1>3 DEF Expire, SocketTypeOK
<1>4. CASE Check
  BY <1>0, <1>4 DEF Check, SocketTypeOK
<1>5. CASE Dial
  <2>1. Message("auth_required", 0) \in Answer
    BY DEF Message, Answer
  <2>2. incoming' \in Seq(Answer)
    BY <1>5, <2>1 DEF Dial
  <2>3. Nothing \in [type : {"nothing", "event", "auth", "registration"}, number : Nat]
    BY DEF Nothing, Message
  <2> QED  BY <1>0, <1>5, <2>2, <2>3, BoundsAssumption DEF Dial, SocketTypeOK, Answer
<1>6. CASE GiveUp
  BY <1>0, <1>6 DEF GiveUp, SocketTypeOK
<1>7. CASE Connect
  BY <1>0, <1>7 DEF Connect, SocketTypeOK
<1>8. CASE Close
  BY <1>0, <1>8 DEF Close, SocketTypeOK
<1>9. CASE Display
  <2>1. Nothing \in [type : {"nothing", "event", "auth", "registration"}, number : Nat]
    BY DEF Nothing, Message
  <2> QED  BY <1>0, <1>9, <2>1 DEF Display, SocketTypeOK
<1>10. CASE RangeEnds
  BY <1>0, <1>10 DEF RangeEnds, SocketTypeOK
<1>11. CASE OnMessage
  <2> DEFINE message == Head(incoming)
  <2>1. message \in Answer /\ Tail(incoming) \in Seq(Answer)
    BY <1>0, <1>11, TakesOne DEF OnMessage
  <2>2. nextID' \in Nat
    BY <1>0, <1>11 DEF OnMessage, Count, SocketTypeOK
  <2>3. holds' \in [type : {"nothing", "event", "auth", "registration"}, number : Nat]
    <3>1. message.type = "event" => message \in [type : {"nothing", "event", "auth", "registration"}, number : Nat]
      BY <2>1 DEF Answer
    <3>2. /\ Message("auth", 0) \in [type : {"nothing", "event", "auth", "registration"}, number : Nat]
          /\ Message("registration", nextID') \in [type : {"nothing", "event", "auth", "registration"}, number : Nat]
      BY <2>2 DEF Message
    <3> QED  BY <1>0, <1>11, <3>1, <3>2 DEF OnMessage, SocketTypeOK
  <2>4. reader' \in {"none", "reads", "hands", "replies", "ended"}
    BY <1>0, <1>11 DEF OnMessage, SocketTypeOK
  <2>5. incoming' \in Seq(Answer)
    BY <1>11, <2>1 DEF OnMessage
  <2> QED  BY <1>0, <1>11, <2>2, <2>3, <2>4, <2>5 DEF OnMessage, SocketTypeOK, Answer
<1>12. ASSUME NEW id \in Nat, (UNCHANGED haVars) \/ Answered(id)
       PROVE  /\ incoming' \in Seq(Answer) /\ conn' \in {"none", "open", "silent", "closed"}
              /\ ha' \in {"auth", "commands", "registered"} /\ last' \in Nat /\ losses' \in 0 .. MaxLosses
  <2>1. CASE UNCHANGED haVars
    BY <1>0, <2>1 DEF SocketTypeOK
  <2>2. CASE Answered(id)
    <3>1. incoming' \in Seq(Answer)
      BY <1>0, <2>2, AppendsOne DEF Answered
    <3> QED  BY <2>2, <3>1 DEF Answered
  <2> QED  BY <1>12, <2>1, <2>2
<1>13. CASE Reply
  <2>1. holds.number \in Nat /\ Send(holds)
    BY <1>0, <1>13 DEF Reply, SocketTypeOK
  <2>2. (UNCHANGED haVars) \/ Answered(holds.number)
    BY <1>0, <2>1, SendAnswers
  <2>3. Nothing \in [type : {"nothing", "event", "auth", "registration"}, number : Nat]
    BY DEF Nothing, Message
  <2> QED  BY <1>0, <1>12, <1>13, <2>1, <2>2, <2>3 DEF Reply, SocketTypeOK, Answer
<1>14. CASE ListenEnds
  BY <1>0, <1>14 DEF ListenEnds, SocketTypeOK
<1>15. CASE Tick
  <2>1. pings' \in 0 .. MaxPings
    BY <1>0, <1>15, BoundsAssumption DEF Tick, SocketTypeOK
  <2> QED  BY <1>0, <1>15, <2>1 DEF Tick, SocketTypeOK
<1>16. CASE Ping
  <2> DEFINE request == Message("ping", pingID)
  <2>1. request.number = pingID /\ pingID \in Nat /\ Send(request)
    BY <1>0, <1>16 DEF Ping, SocketTypeOK, Message
  <2> HIDE DEF request
  <2>2. (UNCHANGED haVars) \/ Answered(pingID)
    BY <1>0, <2>1, SendAnswers
  <2> QED  BY <1>0, <1>12, <1>16, <2>1, <2>2 DEF Ping, SocketTypeOK, Answer
<1>17. CASE Cancel
  BY <1>0, <1>17 DEF Cancel, SocketTypeOK
<1>18. CASE UNCHANGED socketVars
  BY <1>0, <1>18 DEF socketVars, SocketTypeOK
<1> QED
  BY <1>1, <1>2, <1>3, <1>4, <1>5, <1>6, <1>7, <1>8, <1>9, <1>10, <1>11, <1>13, <1>14,
     <1>15, <1>16, <1>17, <1>18 DEF SocketNext

\* Each step keeps the ids behind the counter.
LEMMA IdsStayBehind ==
  ASSUME SocketTypeOK, IdInv, [SocketNext]_socketVars
  PROVE  IdInv'
<1> USE DEF agentVars, readVars, pingVars, haVars, noteVars
<1>0. SocketTypeOK /\ IdInv /\ incoming \in Seq(Answer)
  BY DEF SocketTypeOK, Answer
<1>1. CASE Notify
  <2>1. Message("event", sent + 1) \in Answer
    BY <1>0, BoundsAssumption DEF SocketTypeOK, Message, Answer
  <2>2. Len(incoming') = Len(incoming) + 1 /\ Len(incoming) \in Nat
    BY <1>0, <1>1, <2>1, AppendsOne DEF Notify
  <2> QED  BY <1>0, <1>1, <2>2 DEF Notify, IdInv, SocketTypeOK
<1>2. CASE OnMessage
  <2> DEFINE message == Head(incoming)
  <2>1. Len(incoming') = Len(incoming) - 1 /\ Len(incoming) \in Nat \ {0}
    BY <1>0, <1>2, TakesOne DEF OnMessage
  <2>2. nextID' \in Nat /\ nextID' >= nextID + 1
    <3>1. nextID \in Nat
      BY <1>0 DEF SocketTypeOK
    <3>2. nextID' = nextID + 2 \/ nextID' = nextID + 1
      BY <1>2 DEF OnMessage, Count
    <3> QED  BY <3>1, <3>2
  <2>3. reader' = "replies" => holds'.number <= nextID'
    <3>1. Message("auth", 0).number <= nextID' /\ Message("registration", nextID').number <= nextID'
      BY <2>2 DEF Message
    <3> QED  BY <1>2, <3>1 DEF OnMessage
  <2>4. UNCHANGED <<pinger, pingID, ha, last>>
    BY <1>2 DEF OnMessage
  <2>5. last \in Nat /\ pingID \in Nat /\ nextID \in Nat
    BY <1>0 DEF SocketTypeOK
  <2>6. ha # "auth" => last < nextID' + Len(incoming')
    BY <1>0, <2>1, <2>2, <2>5 DEF IdInv
  <2> QED  BY <1>0, <2>2, <2>3, <2>4, <2>5, <2>6 DEF IdInv
<1>3. ASSUME NEW id \in Nat, id <= nextID, (UNCHANGED haVars) \/ Answered(id), nextID' = nextID
      PROVE  /\ ha' = "auth" => last' = 0
             /\ ha' # "auth" => last' < nextID' + Len(incoming')
  <2>1. CASE UNCHANGED haVars
    BY <1>0, <1>3, <2>1 DEF IdInv
  <2>2. CASE Answered(id)
    <3>1. Len(incoming') = Len(incoming) + 1 /\ Len(incoming) \in Nat
      BY <1>0, <2>2, AppendsOne DEF Answered
    <3> QED  BY <1>0, <1>3, <2>2, <3>1 DEF Answered, IdInv, SocketTypeOK
  <2> QED  BY <1>3, <2>1, <2>2
<1>4. CASE Reply
  <2>1. holds.number \in Nat /\ Send(holds) /\ holds.number <= nextID
    BY <1>0, <1>4 DEF Reply, SocketTypeOK, IdInv
  <2>2. (UNCHANGED haVars) \/ Answered(holds.number)
    BY <1>0, <2>1, SendAnswers
  <2> QED  BY <1>0, <1>3, <1>4, <2>1, <2>2 DEF Reply, IdInv
<1>5. CASE Ping
  <2> DEFINE request == Message("ping", pingID)
  <2>1. request.number = pingID /\ pingID \in Nat /\ Send(request) /\ pingID <= nextID
    BY <1>0, <1>5 DEF Ping, SocketTypeOK, Message, IdInv
  <2> HIDE DEF request
  <2>2. (UNCHANGED haVars) \/ Answered(pingID)
    BY <1>0, <2>1, SendAnswers
  <2> QED  BY <1>0, <1>3, <1>5, <2>1, <2>2 DEF Ping, IdInv
<1>6. CASE Break \/ Expire \/ Check \/ GiveUp \/ RangeEnds \/ Cancel \/ UNCHANGED socketVars
  BY <1>0, <1>6 DEF Break, Expire, Check, GiveUp, RangeEnds, Cancel, socketVars, IdInv
<1>7. CASE Dial \/ Connect \/ Close \/ Display \/ ListenEnds
  BY <1>0, <1>7 DEF Dial, Connect, Close, Display, ListenEnds, IdInv
<1>8. CASE Tick
  BY <1>0, <1>8 DEF Tick, IdInv, SocketTypeOK
<1> QED
  BY <1>1, <1>2, <1>4, <1>5, <1>6, <1>7, <1>8 DEF SocketNext

\* A connection that was just made is not read yet.
Unread == worker = "dialled" => reader = "none"

\* Nor is it, until listening begins.
LEMMA NobodyReads ==
  ASSUME Unread, [SocketNext]_socketVars
  PROVE  Unread'
<1> USE DEF agentVars, readVars, pingVars, haVars, noteVars, Unread
<1>1. CASE Notify \/ Break \/ Expire \/ Close \/ Tick \/ Ping \/ Cancel \/ UNCHANGED socketVars
  BY <1>1 DEF Notify, Break, Expire, Close, Tick, Ping, Cancel, socketVars
<1>2. CASE Check \/ Dial \/ GiveUp \/ Connect \/ RangeEnds
  BY <1>2 DEF Check, Dial, GiveUp, Connect, RangeEnds
<1>3. CASE Display \/ OnMessage \/ Reply \/ ListenEnds
  BY <1>3 DEF Display, OnMessage, Reply, ListenEnds
<1> QED  BY <1>1, <1>2, <1>3 DEF SocketNext

\* Each step keeps the notifications in their order.
LEMMA OrderStays ==
  ASSUME SocketTypeOK, Unread, DisplayedInOrder, [SocketNext]_socketVars
  PROVE  DisplayedInOrder'
<1> USE DEF agentVars, readVars, pingVars, haVars, noteVars
<1>0. SocketTypeOK /\ DisplayedInOrder /\ sent \in Nat /\ shown \in Nat
  BY BoundsAssumption DEF SocketTypeOK
<1>1. CASE Notify
  BY <1>0, <1>1, NotifyKeepsOrder
<1>2. CASE OnMessage
  BY <1>0, <1>2, OnMessageKeepsOrder
<1>3. CASE Dial
  <2> DEFINE m == Message("auth_required", 0)
  <2>1. /\ incoming' = <<m>> /\ m.type # "event" /\ sent' = 0 /\ shown' = 0 /\ reader' = "none"
    BY <1>3 DEF Dial, Message
  <2> HIDE DEF m
  <2>2. Notes' = {} /\ Taken' = 0
    BY <2>1 DEF Notes, Taken
  <2> QED  BY <2>1, <2>2 DEF DisplayedInOrder
<1>4. ASSUME NEW id \in Nat, (UNCHANGED haVars) \/ Answered(id), Taken' = Taken, sent' = sent, reader' # "hands"
      PROVE  DisplayedInOrder'
  <2>1. CASE UNCHANGED haVars
    BY <1>0, <1>4, <2>1, OrderRests
  <2>2. CASE Answered(id)
    BY <1>0, <1>4, <2>2, AppendsOther DEF Answered
  <2> QED  BY <1>4, <2>1, <2>2
<1>5. CASE Reply
  <2>1. holds.number \in Nat /\ Send(holds)
    BY <1>0, <1>5 DEF Reply, SocketTypeOK
  <2>2. (UNCHANGED haVars) \/ Answered(holds.number)
    BY <1>0, <2>1, SendAnswers
  <2>3. Taken' = Taken /\ sent' = sent /\ reader' # "hands"
    BY <1>5 DEF Reply, Taken
  <2> QED  BY <1>4, <2>1, <2>2, <2>3
<1>6. CASE Ping
  <2> DEFINE request == Message("ping", pingID)
  <2>1. request.number = pingID /\ pingID \in Nat /\ Send(request)
    BY <1>0, <1>6 DEF Ping, SocketTypeOK, Message
  <2> HIDE DEF request
  <2>2. (UNCHANGED haVars) \/ Answered(pingID)
    BY <1>0, <2>1, SendAnswers
  <2>3. /\ Taken' = Taken /\ sent' = sent
        /\ reader' = "hands" => reader = "hands" /\ holds' = holds /\ shown' = shown
    BY <1>6 DEF Ping, Taken
  <2>4. CASE UNCHANGED haVars
    BY <1>0, <2>3, <2>4, OrderRests
  <2>5. CASE Answered(pingID)
    BY <1>0, <2>3, <2>5, AppendsOther DEF Answered
  <2> QED  BY <2>2, <2>4, <2>5
<1>7. CASE Display
  <2>1. incoming' = incoming /\ sent' = sent /\ reader' # "hands" /\ reader = "hands"
    BY <1>7 DEF Display
  <2>2. Taken' = Taken
    BY <1>0, <1>7, <2>1 DEF Display, Taken, DisplayedInOrder
  <2> QED  BY <1>0, <2>1, <2>2, OrderRests
<1>8. CASE Connect \/ ListenEnds
  <2>1. CASE ListenEnds
    <3>1. /\ incoming' = incoming /\ sent' = sent /\ reader' # "hands"
          /\ Taken' = Taken
      BY <2>1 DEF ListenEnds, Taken
    <3> QED  BY <1>0, <3>1, OrderRests
  <2>2. CASE Connect
    <3>1. /\ incoming' = incoming /\ sent' = sent /\ reader' # "hands"
          /\ Taken' = Taken
      BY <2>2 DEF Connect, Unread, Taken
    <3> QED  BY <1>0, <3>1, OrderRests
  <2> QED  BY <1>8, <2>1, <2>2
<1>9. CASE Break \/ Expire \/ Check \/ GiveUp \/ RangeEnds \/ Close \/ Tick \/ Cancel \/ UNCHANGED socketVars
  <2>1. UNCHANGED <<incoming, reader, holds, sent, shown>>
    BY <1>9 DEF Break, Expire, Check, GiveUp, RangeEnds, Close, Tick, Cancel, socketVars
  <2>2. Taken' = Taken
    BY <2>1 DEF Taken
  <2> QED  BY <1>0, <2>1, <2>2, OrderRests
<1> QED
  BY <1>1, <1>2, <1>3, <1>5, <1>6, <1>7, <1>8, <1>9 DEF SocketNext

\* The inductive invariant.
SocketInv == SocketTypeOK /\ IdInv /\ Unread /\ DisplayedInOrder

\* It holds at the start, and each step keeps it.
LEMMA SocketAlways == SocketSpec => []SocketInv
<1>1. SocketInit => SocketInv
  <2> SUFFICES ASSUME SocketInit PROVE SocketInv
    OBVIOUS
  <2> USE DEF SocketInit
  <2>1. SocketTypeOK
    <3>1. Nothing \in [type : {"nothing", "event", "auth", "registration"}, number : Nat]
      BY DEF Nothing, Message
    <3>2. pings \in 0 .. MaxPings /\ sent \in 0 .. MaxNotes /\ losses \in 0 .. MaxLosses
      BY BoundsAssumption
    <3>3. incoming \in Seq(Answer)
      OBVIOUS
    <3> QED  BY <3>1, <3>2, <3>3 DEF SocketTypeOK, Answer
  <2>2. IdInv /\ Unread
    BY DEF IdInv, Unread
  <2>3. Notes = {} /\ Taken = 0
    BY DEF Notes, Taken
  <2>4. DisplayedInOrder
    BY <2>3 DEF DisplayedInOrder
  <2> QED  BY <2>1, <2>2, <2>4 DEF SocketInv
<1>2. SocketInv /\ [SocketNext]_socketVars => SocketInv'
  BY SocketTypesRest, IdsStayBehind, NobodyReads, OrderStays DEF SocketInv
<1> QED  BY <1>1, <1>2, PTL DEF SocketSpec

\* Whatever the notifications, the pings and the losses the variables keep their types.
THEOREM SocketTypes == SocketSpec => []SocketTypeOK
<1>1. SocketInv => SocketTypeOK
  BY DEF SocketInv
<1> QED  BY <1>1, SocketAlways, PTL

\* However a connection, its listener and its pinger take turns, the worker displays the
\* notifications of a connection in their order and none is lost while it lives.
THEOREM NotificationsInOrder == SocketSpec => []DisplayedInOrder
<1>1. SocketInv => DisplayedInOrder
  BY DEF SocketInv
<1> QED  BY <1>1, SocketAlways, PTL

\* Once every answer is read the counter is past each id that Home Assistant accepted on
\* the connection, however many pings and refusals there were.
THEOREM IdsAreFresh == SocketSpec => []FreshWhenQuiet
<1>1. SocketInv => FreshWhenQuiet
  BY DEF SocketInv, SocketTypeOK, IdInv, FreshWhenQuiet
<1> QED  BY <1>1, SocketAlways, PTL
=============================================================================
