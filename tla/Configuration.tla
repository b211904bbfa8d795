---------------------------- MODULE Configuration ----------------------------
(***************************************************************************)
(* What an installation keeps on disk, and the commands that change it:    *)
(* run, register, upgrade and reset, one process at a time.                *)
(*                                                                         *)
(* The preferences file is written by Preferences.Save: the preferences    *)
(* are encoded, the file is truncated, and then written.  In a running     *)
(* agent the goroutine of the registration, the settings window and Stop   *)
(* may save at the same time.  The sensor registry knows which sensors are *)
(* registered, but not with which registration of the device; that is the  *)
(* webhook in the preferences.                                             *)
(*                                                                         *)
(* Of the preferences the model keeps what other parts depend on: whether  *)
(* the agent is registered, its webhook, and whether MQTT is enabled.      *)
(* Copying the previous version's registry file is one step.               *)
(***************************************************************************)
EXTENDS Naturals

CONSTANTS
  MaxHooks,  \* bound: the webhooks that Home Assistant gives out
  Faults     \* the process may be killed, and writing may fail

ASSUME ConstantsAssumption == MaxHooks \in Nat \ {0} /\ Faults \in BOOLEAN

\* Webhooks by number: the default, which Home Assistant does not know, that of the
\* previous version's installation, the ones given out since, and the empty one,
\* which is not valid.
DefaultHook == 0
OldHook     == 1
Empty       == MaxHooks + 1
Given       == 1 .. MaxHooks
Hook        == 0 .. MaxHooks + 1

Prefs    == [registered : BOOLEAN, mqtt : BOOLEAN, hook : Hook]
Defaults == [registered |-> FALSE, mqtt |-> FALSE, hook |-> DefaultHook]

\* What Validate accepts.
Valid(p) == p.hook # Empty

\* The file: "empty" has been truncated, "cut" was written in part, or by two.
File   == [state : {"absent", "empty", "whole", "cut"}, prefs : Prefs]
Absent == [state |-> "absent", prefs |-> Defaults]
Whole(p) == [state |-> "whole", prefs |-> p]

Saver == {"registration", "settings", "stop", "upgrade"}

VARIABLES
  old,       \* the previous version's installation
  file,      \* preferences.toml
  registry,  \* the registry's directory, and the webhook its sensors registered with
  hooks,     \* how many webhooks were given out
  command,   \* the process that runs
  forced,    \* register --force
  step,      \* where it is
  stopping,  \* done is closed
  mem,       \* its preferences
  saver,     \* the calls of Save, and the preferences they encoded
  endpoint,  \* the webhook the running agent sends to
  saved,     \* history: what the last Save that returned, or removal, left
  harmed,    \* history: a save failed, was killed, or overlapped another, or a forced
             \* registration was killed
  replaced   \* history: an upgrade replaced a newer registration

diskVars    == <<old, file, registry, hooks>>
processVars == <<command, forced, step, stopping, mem, endpoint>>
histVars    == <<saved, harmed, replaced>>
vars == <<diskVars, processVars, saver, histVars>>

Idle == [pc |-> "idle", prefs |-> Defaults]

TypeOK ==
  /\ old \in [exists : BOOLEAN, registered : BOOLEAN, mqtt : BOOLEAN, registry : BOOLEAN]
  /\ file \in File
  /\ registry \in [exists : BOOLEAN, hook : Hook]
  /\ hooks \in Given
  /\ command \in {"none", "run", "register", "upgrade", "reset"}
  /\ forced \in BOOLEAN /\ stopping \in BOOLEAN
  /\ step \in {"checks", "asks", "saves", "resets", "works", "mkdirs", "copies",
               "removes", "ends", "failed"}
  /\ mem \in Prefs
  /\ saver \in [Saver -> [pc : {"idle", "opens", "writes"}, prefs : Prefs]]
  /\ endpoint \in Hook
  /\ saved \in File
  /\ harmed \in BOOLEAN /\ replaced \in BOOLEAN

\* Nothing is there but, perhaps, an installation of the previous version, whose
\* sensors were registered with its webhook.
Init ==
  /\ old \in [exists : BOOLEAN, registered : BOOLEAN, mqtt : BOOLEAN, registry : BOOLEAN]
  /\ old.registry => old.registered
  /\ old.registered => old.exists
  /\ old.mqtt => old.exists
  /\ file = Absent
  /\ registry = [exists |-> FALSE, hook |-> Empty]
  /\ hooks = OldHook
  /\ command = "none" /\ forced = FALSE /\ step = "ends" /\ stopping = FALSE
  /\ mem = Defaults
  /\ saver = [s \in Saver |-> Idle]
  /\ endpoint = Empty
  /\ saved = Absent /\ harmed = FALSE /\ replaced = FALSE

-----------------------------------------------------------------------------
(* Load and Save.                                                          *)

\* The preferences that Load may return without an error.  A file that is not there
\* or that is empty gives the defaults.  A part of a file is an error, or the fields
\* up to where it ends.
Loads ==
  CASE file.state = "whole" -> {file.prefs}
    [] file.state = "cut" ->
         {Defaults, [Defaults EXCEPT !.registered = file.prefs.registered],
          [file.prefs EXCEPT !.hook = DefaultHook], file.prefs}
    [] OTHER -> {Defaults}

Busy == {s \in Saver : saver[s].pc # "idle"}

\* Save, up to the encoded preferences p.
Encodes(s, p) ==
  /\ saver[s].pc = "idle"
  /\ Valid(p)
  /\ saver' = [saver EXCEPT ![s] = [pc |-> "opens", prefs |-> p]]
  /\ harmed' = (harmed \/ Busy # {})

\* WriteFile opens the file and truncates it.
Open(s) ==
  /\ saver[s].pc = "opens"
  /\ saver' = [saver EXCEPT ![s] = [pc |-> "writes", prefs |-> saver[s].prefs]]
  /\ file' = [state |-> "empty", prefs |-> Defaults]
  /\ UNCHANGED <<old, registry, hooks, processVars, histVars>>

\* Where the command goes on when s has saved.
After(s) ==
  /\ step' = CASE s = "registration" /\ forced                       -> "resets"
               [] s = "registration" /\ ~forced /\ command = "run"   -> "works"
               [] s = "registration" /\ ~forced /\ command # "run"   -> "ends"
               [] s = "upgrade"                                      -> "mkdirs"
               [] OTHER                                              -> step
  /\ stopping' = (stopping \/ s = "stop")

\* Slip: the preferences are encoded without the MQTT settings.
WritePart(s) ==
  /\ saver[s].pc = "writes"
  /\ saver' = [saver EXCEPT ![s] = Idle]
  /\ file' = Whole([saver[s].prefs EXCEPT !.mqtt = FALSE])
  /\ saved' = Whole(saver[s].prefs)
  /\ After(s)
  /\ UNCHANGED <<old, registry, hooks, command, forced, mem, endpoint, harmed, replaced>>

\* It writes the preferences from the start of the file; what another call has
\* written in the meantime may be longer.
Write(s) ==
  /\ saver[s].pc = "writes"
  /\ saver' = [saver EXCEPT ![s] = Idle]
  /\ file' \in {Whole(saver[s].prefs)} \cup
               IF file.state = "empty" THEN {} ELSE {[state |-> "cut", prefs |-> saver[s].prefs]}
  /\ saved' = Whole(saver[s].prefs)
  /\ After(s)
  /\ UNCHANGED <<old, registry, hooks, command, forced, mem, endpoint, harmed, replaced>>

\* Save returns an error: the file could not be opened, or not be written.
SaveFails(s) ==
  /\ Faults
  /\ s \in Busy
  /\ saver' = [saver EXCEPT ![s] = Idle]
  /\ file' \in {file} \cup
               IF saver[s].pc = "opens" THEN {} ELSE {[state |-> "cut", prefs |-> saver[s].prefs]}
  /\ harmed' = TRUE
  /\ step' = IF s \in {"registration", "upgrade"} THEN "failed" ELSE step
  /\ stopping' = (stopping \/ s = "stop")
  /\ UNCHANGED <<old, registry, hooks, command, forced, mem, endpoint, saved, replaced>>

-----------------------------------------------------------------------------
(* run and register.                                                       *)

Starts(c, first, p) ==
  /\ command = "none"
  /\ command' = c
  /\ step' = first
  /\ stopping' = FALSE
  /\ mem' = p
  /\ endpoint' = Empty

\* The agent loads its preferences, and then the registry, whose directory is made.
Run(p) ==
  /\ p \in Loads
  /\ Starts("run", "checks", p)
  /\ forced' = FALSE
  /\ registry' = [registry EXCEPT !.exists = TRUE]
  /\ UNCHANGED <<old, file, hooks, saver, histVars>>

\* The details of the command line replace those of the file, webhook included.
Register(p, force) ==
  /\ p \in Loads
  /\ Starts("register", "checks", [p EXCEPT !.hook = Empty])
  /\ forced' = force
  /\ UNCHANGED <<diskVars, saver, histVars>>

\* checkRegistration: nothing to do, or a registration to ask for.
CheckRegistration ==
  /\ command \in {"run", "register"}
  /\ step = "checks"
  /\ step' = IF ~mem.registered \/ forced THEN "asks"
             ELSE IF command = "run" THEN "works" ELSE "ends"
  /\ UNCHANGED <<diskVars, command, forced, stopping, mem, endpoint, saver, histVars>>

\* Home Assistant registers the device and gives out a webhook, and saveRegistration
\* saves it.
Registered ==
  /\ step = "asks"
  /\ hooks < MaxHooks
  /\ hooks' = hooks + 1
  /\ mem' = [mem EXCEPT !.registered = TRUE, !.hook = hooks']
  /\ step' = "saves"
  /\ Encodes("registration", mem')
  /\ UNCHANGED <<old, file, registry, command, forced, stopping, endpoint, saved, replaced>>

\* The request is lost: send returns an empty response and no error.  saveRegistration
\* sets it, and finds that it cannot be saved.
NotHeard ==
  /\ step = "asks"
  /\ mem' = [mem EXCEPT !.registered = TRUE, !.hook = Empty]
  /\ step' = "failed"
  /\ stopping' = TRUE
  /\ UNCHANGED <<diskVars, command, forced, endpoint, saver, histVars>>

\* Home Assistant refuses.
Refused ==
  /\ step = "asks"
  /\ step' = "failed"
  /\ stopping' = TRUE
  /\ UNCHANGED <<diskVars, command, forced, mem, endpoint, saver, histVars>>

\* Slip: a forced registration keeps the registry.
ResetNothing ==
  /\ step = "resets"
  /\ step' = "ends"
  /\ UNCHANGED <<diskVars, command, forced, stopping, mem, endpoint, saver, histVars>>

\* A forced registration ends with the removal of the directory that holds the
\* registry's directory, and the preferences.
ResetRegistry ==
  /\ step = "resets"
  /\ step' = "ends"
  /\ file' = Absent
  /\ saved' = Absent
  /\ registry' = [exists |-> FALSE, hook |-> Empty]
  /\ UNCHANGED <<old, hooks, command, forced, stopping, mem, endpoint, saver, harmed, replaced>>

\* Registration is over, or failed: the client gets its endpoint.
SetEndpoint ==
  /\ command = "run"
  /\ step \in {"works", "failed"}
  /\ endpoint = Empty
  /\ endpoint' = mem.hook
  /\ UNCHANGED <<diskVars, command, forced, step, stopping, mem, saver, histVars>>

\* A sensor that the registry does not know is registered, and so the registry does.
RegisterSensor ==
  /\ endpoint \in 1 .. hooks
  /\ registry.hook = Empty
  /\ registry' = [registry EXCEPT !.hook = endpoint]
  /\ UNCHANGED <<old, file, hooks, processVars, saver, histVars>>

\* The settings window changes the MQTT preferences and saves all of them.
SaveMQTTPreferences(enabled) ==
  /\ command = "run"
  /\ mem' = [mem EXCEPT !.mqtt = enabled]
  /\ IF Valid(mem) THEN Encodes("settings", mem') ELSE UNCHANGED <<saver, harmed>>
  /\ UNCHANGED <<diskVars, command, forced, step, stopping, endpoint, saved, replaced>>

\* Stop saves the preferences and closes done.
Stop ==
  /\ command = "run"
  /\ ~stopping
  /\ IF Valid(mem) THEN Encodes("stop", mem) /\ UNCHANGED stopping
                   ELSE stopping' = TRUE /\ UNCHANGED <<saver, harmed>>
  /\ UNCHANGED <<diskVars, command, forced, step, mem, endpoint, saved, replaced>>

\* A signal closes done.
Signal ==
  /\ command = "run"
  /\ ~stopping
  /\ stopping' = TRUE
  /\ UNCHANGED <<diskVars, command, forced, step, mem, endpoint, saver, histVars>>

-----------------------------------------------------------------------------
(* upgrade and reset.                                                      *)

\* The previous version's preferences replace the new ones, but for disabled MQTT.
\* One that was never registered has the default webhook.
Upgrade(p) ==
  /\ old.exists
  /\ p \in Loads
  /\ Starts("upgrade", "saves",
            [registered |-> old.registered, mqtt |-> p.mqtt \/ old.mqtt,
             hook |-> IF old.registered THEN OldHook ELSE DefaultHook])
  /\ Encodes("upgrade", mem')
  /\ forced' = FALSE
  /\ replaced' = (replaced \/ registry.hook \notin {OldHook, Empty})
  /\ UNCHANGED <<diskVars, saved>>

\* The registry's directory is made; if it is there, all is done.
MakeDirectory ==
  /\ step = "mkdirs"
  /\ step' = IF registry.exists THEN "ends" ELSE "copies"
  /\ registry' = [registry EXCEPT !.exists = TRUE]
  /\ UNCHANGED <<old, file, hooks, command, forced, stopping, mem, endpoint, saver, histVars>>

\* The registry is copied, if there is one.
CopyRegistry ==
  /\ step = "copies"
  /\ step' = IF old.registry THEN "ends" ELSE "failed"
  /\ registry' = IF old.registry THEN [exists |-> TRUE, hook |-> OldHook] ELSE registry
  /\ UNCHANGED <<old, file, hooks, command, forced, stopping, mem, endpoint, saver, histVars>>

\* reset removes the registry first.
Reset(p) ==
  /\ p \in Loads
  /\ Starts("reset", "removes", p)
  /\ forced' = FALSE
  /\ registry' = [exists |-> FALSE, hook |-> Empty]
  /\ UNCHANGED <<old, file, hooks, saver, histVars>>

\* Then the preferences.
RemovePreferences ==
  /\ step = "removes"
  /\ step' = "ends"
  /\ file' = Absent
  /\ saved' = Absent
  /\ UNCHANGED <<old, registry, hooks, command, forced, stopping, mem, endpoint, saver,
                 harmed, replaced>>

-----------------------------------------------------------------------------
(* The end of a command.                                                   *)

Ends ==
  /\ command' = "none"
  /\ forced' = FALSE
  /\ step' = "ends"
  /\ stopping' = FALSE
  /\ mem' = Defaults
  /\ endpoint' = Empty
  /\ saver' = [s \in Saver |-> Idle]

\* A command returns; Run does when done is closed and registration is over.  It does
\* not wait for the settings window.
Return ==
  /\ command # "none"
  /\ IF command = "run" THEN stopping /\ step \in {"works", "failed"}
                        ELSE step \in {"ends", "failed"}
  /\ Ends
  /\ harmed' = (harmed \/ Busy # {})
  /\ UNCHANGED <<diskVars, saved, replaced>>

\* The process is killed.
Kill ==
  /\ Faults
  /\ command # "none"
  /\ Ends
  /\ file' \in {file} \cup {[state |-> "cut", prefs |-> saver[s].prefs] :
                              s \in {t \in Saver : saver[t].pc = "writes"}}
  /\ harmed' = (harmed \/ Busy # {} \/ step = "resets")
  /\ UNCHANGED <<old, registry, hooks, saved, replaced>>

Next ==
  \/ \E p \in Prefs : Run(p) \/ Upgrade(p) \/ Reset(p) \/ \E force \in BOOLEAN : Register(p, force)
  \/ CheckRegistration \/ Registered \/ NotHeard \/ Refused \/ ResetRegistry
  \/ SetEndpoint \/ RegisterSensor
  \/ \E enabled \in BOOLEAN : SaveMQTTPreferences(enabled)
  \/ Stop \/ Signal
  \/ MakeDirectory \/ CopyRegistry \/ RemovePreferences
  \/ \E s \in Saver : Open(s) \/ Write(s) \/ SaveFails(s)
  \/ Return \/ Kill

Spec == Init /\ [][Next]_vars

-----------------------------------------------------------------------------
(* Properties.                                                             *)

\* What was saved last is what the next start finds, whole, and nothing else, unless
\* a save failed, was killed or met another.
SavedIsThere == ~harmed /\ Busy = {} => file = saved

\* The registry never takes sensors for registered that are registered with another
\* webhook than the one the agent sends to: Home Assistant would reject all they
\* report.  Kills during a save or in the middle of a forced registration, and
\* upgrades on top of a newer registration, are excepted.
RegistryIsCurrent ==
  ~harmed /\ ~replaced /\ endpoint \in 1 .. hooks => registry.hook \in {Empty, endpoint}

\* A register command that succeeded leaves a registered agent.
RegisterSticks ==
  command = "register" /\ step = "ends" => file.state = "whole" /\ file.prefs.registered
=============================================================================
