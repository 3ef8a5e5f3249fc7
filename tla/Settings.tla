------------------------------ MODULE Settings ------------------------------
(***************************************************************************)
(* flashSettings of pu850-esp.ino: the copy the program works on, what the *)
(* Wi-Fi driver runs with, the RAM buffer of the EEPROM library and the    *)
(* flash.  PU changes settings and confirms them; the commands of the      *)
(* shell do the same step by step; the supply may fail at any time, also   *)
(* in the middle of a commit.                                              *)
(*                                                                         *)
(* All settings are one value.  What is shown about a failed read          *)
(* (settingsError) is left out.                                            *)
(***************************************************************************)
EXTENDS Naturals

CONSTANTS
    Values,     \* values of the settings
    Installed,  \* what WiFi_Setup() may leave the driver with, for each value
    Factory     \* what the driver starts with after a reset: persistent(false)

Unreadable == {"blank", "corrupt"}     \* percentUsed() < 0; wrong CRC
Stored == Values \cup Unreadable

\* WiFi_Setup() clears what the driver has and then tries the mode, the soft-AP and the
\* station in turn, whatever comes of each.  The driver is left with the value it was given,
\* or with that value without what it refuses (a password of the soft-AP that is too short),
\* what fails, and what belongs to an interface that is off.  (The host name is not cleared:
\* it is one the driver has taken before, and is taken again.)
ASSUME SettingsConstants ==
    /\ Factory \in Values /\ Values \cap Unreadable = {}
    /\ Installed \in [Values -> SUBSET Values \ {{}}]

VARIABLES
    ram,        \* flashSettings
    effect,     \* the driver's current configuration
    ee,         \* the EEPROM library's buffer: a value, or why there is none
    flash,      \* the same, in flash
    settled,    \* history: nothing was changed since start, save or discard
    failed      \* history: the last commit since start failed

settingsVars == <<ram, effect, ee, flash, settled, failed>>

\* Settings_Read(): the library's buffer, or else what the driver runs with.
SettingsRead(buffer, stored, current) ==
    IF stored # "blank" /\ buffer \in Values THEN buffer ELSE current

WiFi_Setup == effect' \in Installed[ram']

\* setup(): EEPROM.begin(), Settings_Read(), WiFi_Setup().
Boot(stored) ==
    /\ flash' = stored
    /\ ee' = stored
    /\ ram' = SettingsRead(stored, stored, Factory)
    /\ WiFi_Setup
    /\ settled' = TRUE
    /\ failed' = FALSE

SettingsInit ==
    /\ flash \in Stored
    /\ ee = flash
    /\ ram = SettingsRead(flash, flash, Factory)
    /\ effect \in Installed[ram]
    /\ settled = TRUE
    /\ failed = FALSE

\* Settings_Write(): the buffer is written whether or not the commit succeeds.
Settings_Write(ok) ==
    /\ ee' = ram
    /\ flash' = IF ok THEN ram ELSE flash
    /\ failed' = ~ok
    /\ UNCHANGED ram

\* PushToStrEndPoint, PushToNumEndPoint: the setting first, then the driver, which may refuse.
PushToEndPoint ==
    /\ \E v \in Values : ram' = v /\ effect' \in {v, effect}
    /\ settled' = FALSE
    /\ UNCHANGED <<ee, flash, failed>>

\* ConfirmSettings(Yes_).
ConfirmSave ==
    \/ Settings_Write(TRUE) /\ WiFi_Setup /\ settled' = TRUE
    \/ Settings_Write(FALSE) /\ UNCHANGED <<effect, settled>>

\* Mutation: the driver keeps the values that were discarded.
ConfirmDiscardNotApplied ==
    /\ ram' = SettingsRead(ee, flash, effect)
    /\ settled' = TRUE
    /\ UNCHANGED <<effect, ee, flash, failed>>

\* ConfirmSettings(No_).
ConfirmDiscard ==
    /\ ram' = SettingsRead(ee, flash, effect)
    /\ WiFi_Setup
    /\ settled' = TRUE
    /\ UNCHANGED <<ee, flash, failed>>

\* The commands set, save, restore and connect of the shell.  A parameter is given to the
\* driver first, and kept only if it takes it; the mode is kept as the driver then has it.
SetParameter(v) ==
    /\ \/ effect' = v /\ ram' = v
       \/ effect' = effect /\ ram' \in {ram, effect}
    /\ settled' = FALSE
    /\ UNCHANGED <<ee, flash, failed>>

Save == (\E ok \in BOOLEAN : Settings_Write(ok)) /\ UNCHANGED <<effect, settled>>

Restore ==
    /\ ram' = SettingsRead(ee, flash, effect)
    /\ settled' = (settled /\ ram' = ram)
    /\ UNCHANGED <<effect, ee, flash, failed>>

Connect == UNCHANGED <<ram, ee, flash, settled, failed>> /\ WiFi_Setup

\* The supply fails, perhaps while ConfirmSettings or save commits.
LosePower == \E stored \in {flash, ram} \cup Unreadable : Boot(stored)

-----------------------------------------------------------------------------
SettingsTypeOK ==
    /\ ram \in Values
    /\ effect \in Values
    /\ ee \in Stored
    /\ flash \in Stored
    /\ settled \in BOOLEAN
    /\ failed \in BOOLEAN

\* Once PU has saved or discarded its changes, and after a start, the program works with the
\* settings that are in flash, and the driver with what WiFi_Setup() made of these, never
\* with a change that was discarded or an older value, unless the last commit failed or the
\* flash cannot be read (pu850-esp.ino:125-203, 218-282, 2072-2116).  That the driver has all
\* of them is not promised: WiFi_Setup() ignores what it refuses.
SettingsAgree ==
    settled /\ ~failed /\ flash \in Values => ram = flash /\ effect \in Installed[flash]

=============================================================================
