------------------------------ MODULE Presets ------------------------------
(***************************************************************************)
(* Presets and settings: what is stored (common/storage.c), what plays and *)
(* what the panel shows of it (the preset half of common/ui.c, the preset  *)
(* functions of synth.c, the patch messages of midi.c). Buttons and MIDI   *)
(* come in the timer interrupt, the data dial and the pots in the main     *)
(* loop, which the interrupt preempts; the power may go at any time.       *)
(***************************************************************************)
EXTENDS Integers, Sequences

CONSTANTS
  Tens, Units,       \* digits that get typed
  Positions,         \* settings of the panel's pots and switches
  BasicPanel,        \* the setting that sounds like the basic patch
  Silent,            \* one with every waveform switched off
  Unison,            \* those with the unison switch on
  Menus, BasicMenu,  \* additional parameters, and those of the basic patch
  Tabled,            \* those whose every value the display has a name for
  Patches,           \* patches that arrive as system exclusive messages
  Blank,             \* a half page that does not begin with the magic number
  Stimuli            \* "entry": patches arrive between two typed digits
                     \* "race": the interrupt may come between a check of the
                     \*   main loop and what it does about it

\* A patch: what the panel's controls set and what they do not, but for the
\* tunings of the notes, which the manual page does not keep. The voice pattern
\* and the drive count as additional parameters.
Sound == [panel : Positions, menu : Menus]

BasicSound  == [panel |-> BasicPanel, menu |-> BasicMenu]
SilentSound == [panel |-> Silent, menu |-> BasicMenu]

ASSUME DigitsAssumption  == Tens \subseteq 0 .. 9 /\ Units \subseteq 0 .. 9 /\ 0 \in Tens \cap Units
ASSUME BasicAssumption   == {BasicPanel, Silent} \subseteq Positions /\ BasicMenu \in Menus
ASSUME PatchesAssumption == Patches \subseteq Sound

Numbers == {10 * t + u : t \in Tens, u \in Units}
Manual  == 219
Pages   == Numbers \cup {Manual}

\* Half pages of the EEPROM, which it writes at once. The settings fill three:
\* the magic number comes first, then the tunings, then all else.
Half(page) == <<page, 0>>
MagicHalf  == <<220, 0>>
LastHalf   == <<221, 0>>

Settings == [presetNumber : 0 .. 65535, presetMode : BOOLEAN]

ASSUME BlankAssumption == Blank \notin Sound \cup Settings \cup {"magic"}

VARIABLES
  memory,      \* the EEPROM, by half pages
  on,
  settings,
  sound,       \* currentPreset
  panel,       \* where the pots and switches are, as sampled
  digitInput, presetAwaitingNumber, presetModified, isShifted, isInPatchManagement,
  menuParamSelectChange,
  unmarked,    \* history: what plays in preset mode, or what is stored of it, has
               \* changed since it was loaded and nothing has marked it
  relaid,      \* history: the panel's layout has changed since live mode last
               \* read the whole panel
  main,        \* where the main loop is in ui_checkIfDataPotChanged or refreshPresetPots
  live         \* history: the additional parameters that live mode last had

storeVars == <<memory, on>>
patchVars == <<sound, presetModified, unmarked, relaid>>
entryVars == <<digitInput, presetAwaitingNumber>>
modeVars  == <<isShifted, isInPatchManagement, menuParamSelectChange>>
vars == <<storeVars, settings, patchVars, panel, entryVars, modeVars, main, live>>

Digits == {"synth", "loadDecade", "storeDecade", "loadUnit", "storeUnit", "sequencer"}
Steps  == {"idle", "pot", "edited", "save", "mark", "dial", "dialled"}

TypeOK ==
  /\ memory[MagicHalf] \in {Blank, "magic"}
  /\ memory[LastHalf] \in Settings \cup {Blank}
  /\ \A p \in Pages : memory[Half(p)] \in Sound \cup {Blank}
  /\ on \in BOOLEAN
  /\ settings \in Settings
  /\ sound \in Sound /\ panel \in Positions
  /\ digitInput \in Digits
  /\ presetAwaitingNumber \in {-1} \cup Tens
  /\ {presetModified, unmarked, relaid} \subseteq BOOLEAN
  /\ isShifted \in BOOLEAN /\ isInPatchManagement \in BOOLEAN
  /\ menuParamSelectChange \in BOOLEAN
  /\ main \in [pc : Steps, number : Numbers]
  /\ live \in Menus

-----------------------------------------------------------------------------
(* Storage *)

Write(half, data) == [half |-> half, data |-> data]

\* Memory mem after the writes ws.
Applied(mem, ws) ==
  [h \in DOMAIN mem |->
     LET at == {i \in DOMAIN ws : ws[i].half = h}
     IN  IF at = {} THEN mem[h] ELSE ws[CHOOSE i \in at : \A j \in at : j <= i].data]

\* A handler makes the writes ws, or the power goes when some have changed
\* the memory.
Commit(ws) ==
  \/ memory' = Applied(memory, ws) /\ on' = TRUE
  \/ /\ \E k \in 1 .. Len(ws) - 1 : memory' = Applied(memory, SubSeq(ws, 1, k))
     /\ memory' # memory /\ on' = FALSE

\* Mutant: the number and the mode are written one after the other.
SettingsWritesSplit(s) ==
  <<Write(MagicHalf, "magic"), Write(LastHalf, [s EXCEPT !.presetMode = settings.presetMode]),
    Write(LastHalf, s)>>

\* settings_save.
SettingsWrites(s) == <<Write(MagicHalf, "magic"), Write(LastHalf, s)>>

\* settings_load with the magic number in place.
LoadedSettings(mem) ==
  [mem[LastHalf] EXCEPT !.presetNumber = IF @ > 99 THEN 0 ELSE @]

\* Mutant: no preset is selected at first.
DefaultSettingsNone == [presetNumber |-> -1, presetMode |-> FALSE]

\* settings_loadDefault.
DefaultSettings == [presetNumber |-> 0, presetMode |-> FALSE]

\* preset_saveCurrent: one page, all but the name in its first half. Beyond
\* the EEPROM storage_write does nothing.
PresetWrites(page, s) == IF page \in Pages THEN <<Write(Half(page), s)>> ELSE <<>>

\* What preset_loadCurrent may find on a page. Beyond the EEPROM storage_read
\* does nothing, and the buffer holds what was last read or written.
Found(mem, page) == IF page \in Pages THEN {mem[Half(page)]} ELSE Sound \cup {Blank}

-----------------------------------------------------------------------------
(* Modes *)

Home(mode) == IF mode THEN "loadDecade" ELSE "synth"

\* The dot goes out with a load, and lights up with a change that lights it;
\* other changes leave it as it was.
Unmodified  == presetModified' = FALSE /\ unmarked' = FALSE
Modified    == presetModified' = TRUE /\ unmarked' = FALSE
Changes(by) == /\ unmarked' = (unmarked \/ (by /\ settings.presetMode /\ ~presetModified))
               /\ UNCHANGED presetModified

\* Mutant: live mode does not look at the panel.
RefreshPresetModePlain(mem, s) ==
  /\ \E r \in Found(mem, IF s.presetMode THEN s.presetNumber ELSE Manual) :
       sound' = IF r = Blank THEN BasicSound ELSE r
  /\ Unmodified /\ relaid' = FALSE

\* refreshPresetMode with settings s: plays the selected preset or, in live
\* mode, the manual page at the panel's setting.
RefreshPresetMode(mem, s) ==
  /\ \E r \in Found(mem, IF s.presetMode THEN s.presetNumber ELSE Manual) :
       LET loaded == IF r = Blank THEN BasicSound ELSE r IN
       sound' = IF s.presetMode THEN loaded ELSE [loaded EXCEPT !.panel = panel]
  /\ Unmodified /\ relaid' = FALSE

\* What the history of live mode falls back to when the live patch is left
\* without a save.
Abandoned == IF settings.presetMode THEN live ELSE memory[Half(Manual)].menu

\* Mutant: what leaves live mode forgets the manual page.
ManualWritesNone == <<>>

\* In live mode the patch is saved on the manual page before it is left.
ManualWrites == IF settings.presetMode THEN <<>> ELSE PresetWrites(Manual, sound)

\* The interrupt comes when the main loop is not between a check and what it
\* does about it, or also then.
Interrupt == on /\ (main.pc \in {"idle", "pot", "edited", "mark"} \/ "race" \in Stimuli)

Idle == [pc |-> "idle", number |-> 0]

-----------------------------------------------------------------------------
(* Buttons: ui_handleButton *)

\* A digit of the first place, and in panel mode an additional parameter.
EnterTens(d) ==
  /\ Interrupt /\ ~isShifted
  /\ digitInput \in {"loadDecade", "storeDecade"}
  /\ presetAwaitingNumber' = d
  /\ digitInput' = IF digitInput = "loadDecade" THEN "loadUnit" ELSE "storeUnit"
  /\ UNCHANGED <<storeVars, settings, patchVars, panel, modeVars, main, live>>

\* Additional parameters become m, in live mode as well, and nothing lights the
\* dot.
SetUnseen(m) ==
  /\ sound' = [sound EXCEPT !.menu = m]
  /\ Changes(sound' # sound) /\ UNCHANGED relaid
  /\ live' = IF settings.presetMode THEN live ELSE m

\* displayUIParameter looks for the name of a value by setting the parameter to
\* each that has one: a value that has none is lost.
SelectParameter ==
  /\ Interrupt /\ ~isShifted /\ digitInput = "synth" /\ ~isInPatchManagement
  /\ menuParamSelectChange' = TRUE
  /\ \E m \in IF sound.menu \in Tabled THEN {sound.menu} ELSE Menus : SetUnseen(m)
  /\ UNCHANGED <<storeVars, settings, panel, entryVars, isShifted, isInPatchManagement, main>>

\* The foot switch goes down in unison: the keys that are down are latched, and
\* their pattern becomes the patch's.
FootLatch(m) ==
  /\ Interrupt /\ sound.panel \in Unison
  /\ SetUnseen(m)
  /\ UNCHANGED <<storeVars, settings, panel, entryVars, modeVars, main>>

\* A digit of the second place. In patch management it asks for a dump of the
\* preset; otherwise the preset is stored first when that is what the digits
\* are for, and then loaded; settings are saved when it was not stored.
EnterUnit(d) ==
  /\ Interrupt /\ ~isShifted
  /\ digitInput \in {"loadUnit", "storeUnit"}
  /\ presetAwaitingNumber' = -1
  /\ LET number == (10 * presetAwaitingNumber + d) % 65536
         storing == digitInput = "storeUnit"
         stores == IF storing THEN ManualWrites \o PresetWrites(number, sound) ELSE <<>>
     IN IF isInPatchManagement
        THEN digitInput' = "storeDecade" /\ UNCHANGED <<storeVars, settings, patchVars>>
        ELSE \E r \in Found(Applied(memory, stores), number) :
               /\ settings' = IF r = Blank THEN settings
                              ELSE [settings EXCEPT !.presetNumber = number]
               /\ Commit(IF r = Blank \/ storing THEN stores ELSE SettingsWrites(settings'))
               /\ RefreshPresetMode(Applied(memory, stores), settings')
               /\ digitInput' = Home(settings.presetMode)
  /\ UNCHANGED <<panel, modeVars, main, live>>

\* Preset: between live and preset mode, and in patch management a dump of the
\* bank, which ends in a load of what was selected.
ButtonPreset ==
  /\ Interrupt
  /\ IF isInPatchManagement
     THEN /\ digitInput' = "storeDecade"
          /\ RefreshPresetMode(memory, settings)
          /\ live' = Abandoned
          /\ UNCHANGED <<storeVars, settings>>
     ELSE /\ ~isShifted
          /\ settings' = [settings EXCEPT !.presetMode = ~@]
          /\ digitInput' = Home(settings'.presetMode)
          /\ RefreshPresetMode(Applied(memory, ManualWrites), settings')
          /\ Commit(ManualWrites \o SettingsWrites(settings'))
          /\ UNCHANGED live
  /\ UNCHANGED <<panel, presetAwaitingNumber, modeVars, main>>

\* Shift and Preset, twice: the basic patch.
BasicPatch ==
  /\ Interrupt /\ isShifted /\ ~isInPatchManagement
  /\ sound' = BasicSound /\ Modified /\ relaid' = FALSE
  /\ settings' = [settings EXCEPT !.presetMode = TRUE]
  /\ digitInput' = "synth"
  /\ live' = Abandoned
  /\ UNCHANGED <<storeVars, panel, presetAwaitingNumber, modeVars, main>>

\* Record: into and out of storage or, with shift, patch management.
ButtonRecord ==
  /\ Interrupt
  /\ LET storing  == digitInput \in {"storeDecade", "storeUnit"}
         entering == isShifted /\ ~isInPatchManagement
     IN /\ isInPatchManagement' = entering
        /\ digitInput' = IF entering \/ (~isInPatchManagement /\ ~storing)
                         THEN "storeDecade" ELSE Home(settings.presetMode)
        /\ presetAwaitingNumber' = IF entering \/ (~isInPatchManagement /\ storing)
                                   THEN -1 ELSE presetAwaitingNumber
  /\ UNCHANGED <<storeVars, settings, patchVars, panel, isShifted, menuParamSelectChange, main, live>>

\* To Tape: between panel input of preset mode and patch input, or the input of
\* notes while a track of the sequencer records.
ButtonToTape ==
  /\ Interrupt /\ settings.presetMode /\ ~isInPatchManagement
  /\ digitInput' \in IF digitInput # "synth" THEN {"synth"} ELSE {"loadDecade", "sequencer"}
  /\ UNCHANGED <<storeVars, settings, patchVars, panel, presetAwaitingNumber, modeVars, main, live>>

\* From Tape: shift goes down or up.
ButtonFromTape ==
  /\ Interrupt
  /\ isShifted' = ~isShifted
  /\ UNCHANGED <<storeVars, settings, patchVars, panel, entryVars, isInPatchManagement,
                 menuParamSelectChange, main, live>>

\* A sequencer button while its track records, or when storing and it is off:
\* recording ends or begins.
ButtonSeq ==
  /\ Interrupt /\ ~isInPatchManagement
  /\ \/ digitInput' = Home(settings.presetMode)
     \/ digitInput \in {"storeDecade", "storeUnit"} /\ digitInput' = "sequencer"
  /\ UNCHANGED <<storeVars, settings, patchVars, panel, presetAwaitingNumber, modeVars, main, live>>

\* An arpeggiator button that starts it cancels what the digits were for.
ButtonArp ==
  /\ Interrupt /\ ~isInPatchManagement
  /\ digitInput' = Home(settings.presetMode)
  /\ UNCHANGED <<storeVars, settings, patchVars, panel, presetAwaitingNumber, modeVars, main, live>>

\* What the patch has of the panel's setting p. After a change of the layout
\* some of it is anywhere.
Read(p) == IF relaid THEN Positions ELSE {p}

\* A switch of the panel: refreshPresetButton.
PanelSwitch(p) ==
  /\ Interrupt
  /\ panel' = p
  /\ \E q \in Read(p) : sound' = [sound EXCEPT !.panel = q]
  /\ Modified
  /\ UNCHANGED <<storeVars, settings, relaid, entryVars, modeVars, main, live>>

\* The unison switch sets the voice pattern too and saves the manual page.
ButtonUnison(p, m) ==
  /\ Interrupt
  /\ panel' = p
  /\ \E q \in Read(p) : sound' = [panel |-> q, menu |-> m]
  /\ Modified
  /\ live' = IF settings.presetMode THEN live ELSE m
  /\ Commit(IF settings.presetMode THEN <<>> ELSE PresetWrites(Manual, sound'))
  /\ UNCHANGED <<settings, relaid, entryVars, modeVars, main>>

\* Miscellaneous settings (shift and a digit, twice) and tuning end in a save.
ChangeSettings ==
  /\ Interrupt /\ ~(isShifted /\ isInPatchManagement)
  /\ Commit(SettingsWrites(settings))
  /\ UNCHANGED <<settings, patchVars, panel, entryVars, modeVars, main, live>>

\* The layout setting: mixer, glide and drive are worked out from the volumes,
\* as by a load in preset mode, and where the pots are not in live mode.
ChangeLayout(q, m) ==
  /\ Interrupt /\ ~settings.presetMode /\ isShifted /\ ~isInPatchManagement
  /\ sound' = [panel |-> q, menu |-> m]
  /\ relaid' = TRUE /\ live' = m
  /\ Commit(SettingsWrites(settings))
  /\ UNCHANGED <<settings, presetModified, unmarked, panel, entryVars, modeVars, main>>

Buttons ==
  \/ \E d \in Tens : EnterTens(d)
  \/ \E d \in Units : EnterUnit(d)
  \/ \E m \in Menus : FootLatch(m)
  \/ \E q \in Positions, m \in Menus : ChangeLayout(q, m)
  \/ SelectParameter \/ ButtonPreset \/ BasicPatch \/ ButtonRecord \/ ButtonToTape
  \/ ButtonFromTape \/ ButtonSeq \/ ButtonArp \/ ChangeSettings
  \/ \E p \in Positions : PanelSwitch(p)
  \/ \E p \in Positions, m \in Menus : ButtonUnison(p, m)

-----------------------------------------------------------------------------
(* MIDI *)

ProgramChange(n) ==
  /\ Interrupt /\ settings.presetMode /\ n # settings.presetNumber
  /\ memory[Half(n)] # Blank
  /\ sound' = memory[Half(n)] /\ Unmodified
  /\ settings' = [settings EXCEPT !.presetNumber = n]
  /\ UNCHANGED <<storeVars, relaid, panel, entryVars, modeVars, main, live>>

\* Control 0: as the Preset button, without a save of the manual page.
BankSelect ==
  /\ Interrupt
  /\ settings' = [settings EXCEPT !.presetMode = ~@]
  /\ digitInput' = Home(settings'.presetMode)
  /\ RefreshPresetMode(memory, settings')
  /\ live' = Abandoned
  /\ Commit(SettingsWrites(settings'))
  /\ UNCHANGED <<panel, presetAwaitingNumber, modeVars, main>>

\* Another control sets a parameter, in preset mode only. Unison, set again,
\* renews the pattern, and goes unmarked.
ControlChange(s) ==
  /\ Interrupt /\ settings.presetMode
  /\ sound' = s
  /\ Modified \/ (s.panel = sound.panel /\ Changes(s # sound))
  /\ UNCHANGED <<storeVars, settings, relaid, panel, entryVars, modeVars, main, live>>

\* storage_import: into its page in patch management, to the controls in
\* preset mode. One that is not whole stops at the check of the magic number:
\* before anything in patch management, with an empty patch loaded otherwise.
Import(n, s, whole) ==
  /\ Interrupt
  /\ digitInput \in {"loadUnit", "storeUnit"} => "entry" \in Stimuli
  /\ isInPatchManagement => whole
  /\ presetAwaitingNumber' = -1
  /\ digitInput' = IF isInPatchManagement THEN "storeDecade" ELSE digitInput
  /\ IF isInPatchManagement
     THEN LET stores == PresetWrites(n, s) IN
          /\ IF settings.presetMode /\ settings.presetNumber = n
             THEN RefreshPresetMode(Applied(memory, stores), settings)
             ELSE UNCHANGED patchVars
          /\ Commit(stores)
     ELSE /\ IF settings.presetMode
             THEN /\ sound' = IF whole THEN s ELSE SilentSound
                  /\ Modified /\ UNCHANGED relaid
             ELSE UNCHANGED patchVars
          /\ UNCHANGED storeVars
  /\ UNCHANGED <<settings, panel, modeVars, main, live>>

\* import_sysex: a patch of the original firmware, to its page; when it is the
\* selected one what plays is not loaded again.
ImportSci(n, s) ==
  /\ Interrupt /\ isInPatchManagement
  /\ Commit(PresetWrites(n, s))
  /\ Changes(n = settings.presetNumber /\ memory' # memory)
  /\ UNCHANGED <<settings, sound, relaid, panel, entryVars, modeVars, main, live>>

Midi ==
  \/ \E n \in Numbers : ProgramChange(n)
  \/ BankSelect
  \/ \E s \in Sound : ControlChange(s)
  \/ \E n \in Numbers, s \in Patches, whole \in BOOLEAN : Import(n, s, whole)
  \/ \E n \in Numbers, s \in Patches : ImportSci(n, s)

-----------------------------------------------------------------------------
(* The main loop *)

Main(pc) == on /\ main.pc = pc

\* refreshPresetPots: a pot has moved, and is followed; in preset mode with
\* panel input only once it has met the patch's value (contParamPotStatus).
PotMoves(p) ==
  /\ Main("idle")
  /\ panel' = p
  /\ \/ main' = [pc |-> "pot", number |-> 0]
     \/ settings.presetMode /\ digitInput = "synth" /\ main' = Idle
  /\ UNCHANGED <<storeVars, settings, patchVars, entryVars, modeVars, live>>

PotApplied ==
  /\ Main("pot")
  /\ \E q \in Read(panel) : sound' = [sound EXCEPT !.panel = q]
  /\ Modified
  /\ main' = Idle
  /\ UNCHANGED <<storeVars, settings, relaid, panel, entryVars, modeVars, live>>

\* The dial as the selector of patches.
Selecting ==
  isShifted /\ settings.presetMode /\ digitInput \in {"loadUnit", "loadDecade"}

\* ui_checkIfDataPotChanged: an additional parameter is set with the dial ...
ParameterEdited(m) ==
  /\ Main("idle") /\ ~isInPatchManagement /\ ~Selecting
  /\ sound' = [sound EXCEPT !.menu = m]
  /\ live' = IF settings.presetMode THEN live ELSE m
  /\ main' = [pc |-> "edited", number |-> 0]
  /\ UNCHANGED <<storeVars, settings, presetModified, unmarked, relaid, panel, entryVars, modeVars>>

\* ... the first time in live mode the manual page is saved ...
ParameterChecked ==
  /\ Main("edited")
  /\ main' = [pc |-> IF menuParamSelectChange /\ ~settings.presetMode THEN "save" ELSE "mark",
              number |-> 0]
  /\ UNCHANGED <<storeVars, settings, patchVars, panel, entryVars, modeVars, live>>

ParameterSaved ==
  /\ Main("save")
  /\ Commit(PresetWrites(Manual, sound))
  /\ main' = [pc |-> "mark", number |-> 0]
  /\ UNCHANGED <<settings, patchVars, panel, entryVars, modeVars, live>>

\* Mutant: the dot stays as it was.
ParameterMarkedUnlit ==
  /\ Main("mark")
  /\ menuParamSelectChange' = FALSE
  /\ main' = Idle
  /\ UNCHANGED <<storeVars, settings, patchVars, panel, entryVars, isShifted,
                 isInPatchManagement, live>>

\* ... and the patch is no longer the stored one.
ParameterMarked ==
  /\ Main("mark")
  /\ Modified /\ menuParamSelectChange' = FALSE
  /\ main' = Idle
  /\ UNCHANGED <<storeVars, settings, sound, relaid, panel, entryVars, isShifted,
                 isInPatchManagement, live>>

\* The dial asks for a patch, which is loaded and becomes the selected one.
DialTurned(n) ==
  /\ Main("idle") /\ Selecting /\ ~isInPatchManagement /\ n # settings.presetNumber
  /\ main' = [pc |-> "dial", number |-> n]
  /\ UNCHANGED <<storeVars, settings, patchVars, panel, entryVars, modeVars, live>>

DialLoaded ==
  /\ Main("dial")
  /\ LET r == memory[Half(main.number)] IN
     /\ sound' = IF r = Blank THEN SilentSound ELSE r
     /\ IF r = Blank THEN UNCHANGED <<presetModified, unmarked>> ELSE Unmodified
  /\ main' = [main EXCEPT !.pc = "dialled"]
  /\ UNCHANGED <<storeVars, settings, relaid, panel, entryVars, modeVars, live>>

\* Mutant: a digit that was typed is dropped, the wait for the next is not.
DialSelectedWaiting ==
  /\ Main("dialled")
  /\ settings' = [settings EXCEPT !.presetNumber = main.number]
  /\ presetAwaitingNumber' = -1
  /\ main' = Idle
  /\ UNCHANGED <<storeVars, digitInput, patchVars, panel, modeVars, live>>

DialSelected ==
  /\ Main("dialled")
  /\ settings' = [settings EXCEPT !.presetNumber = main.number]
  /\ digitInput' = "loadDecade" /\ presetAwaitingNumber' = -1
  /\ main' = Idle
  /\ UNCHANGED <<storeVars, patchVars, panel, modeVars, live>>

MainLoop ==
  \/ \E p \in Positions : PotMoves(p)
  \/ PotApplied
  \/ \E m \in Menus : ParameterEdited(m)
  \/ ParameterChecked \/ ParameterSaved \/ ParameterMarked
  \/ \E n \in Numbers : DialTurned(n)
  \/ DialLoaded \/ DialSelected

-----------------------------------------------------------------------------
(* Power *)

\* The power goes between two handlers: what is not in the EEPROM is lost.
PowerCut ==
  /\ on /\ on' = FALSE
  /\ settings' = DefaultSettings
  /\ sound' = BasicSound /\ Unmodified /\ relaid' = FALSE
  /\ digitInput' = "synth" /\ presetAwaitingNumber' = -1
  /\ isShifted' = FALSE /\ isInPatchManagement' = FALSE /\ menuParamSelectChange' = FALSE
  /\ main' = Idle /\ live' = BasicMenu
  /\ UNCHANGED <<memory, panel>>

\* synth_init: the settings are loaded; bad ones are replaced by defaults and
\* the synthesizer tuned; a manual page is made when there is none; what was
\* selected is loaded, and the settings saved. The first boot of all is not
\* cut short.
Boot ==
  /\ ~on
  /\ LET formatted == memory[MagicHalf] # Blank
         loaded == IF formatted THEN LoadedSettings(memory) ELSE DefaultSettings
         first == (IF formatted THEN <<>> ELSE SettingsWrites(loaded)) \o
                  (IF memory[Half(Manual)] = Blank THEN PresetWrites(Manual, BasicSound) ELSE <<>>)
     IN /\ settings' = loaded
        /\ RefreshPresetMode(Applied(memory, first), loaded)
        /\ live' = Applied(memory, first)[Half(Manual)].menu
        /\ Commit(first \o SettingsWrites(loaded))
        /\ formatted \/ on'
        /\ digitInput' = Home(loaded.presetMode)
  /\ presetAwaitingNumber' = -1
  /\ isShifted' = FALSE /\ isInPatchManagement' = FALSE /\ menuParamSelectChange' = FALSE
  /\ main' = Idle
  /\ UNCHANGED panel

\* A new instrument, before it is first switched on.
Init ==
  /\ memory = [h \in {MagicHalf, LastHalf} \cup {Half(p) : p \in Pages} |-> Blank]
  /\ on = FALSE
  /\ settings = DefaultSettings
  /\ sound = BasicSound /\ presetModified = FALSE /\ unmarked = FALSE /\ relaid = FALSE
  /\ panel \in Positions
  /\ digitInput = "synth" /\ presetAwaitingNumber = -1
  /\ isShifted = FALSE /\ isInPatchManagement = FALSE /\ menuParamSelectChange = FALSE
  /\ main = Idle
  /\ live = BasicMenu

Next == Buttons \/ Midi \/ MainLoop \/ PowerCut \/ Boot

Spec == Init /\ [][Next]_vars

-----------------------------------------------------------------------------
(* Properties *)

Settled == on /\ main.pc = "idle"

\* The dot of the display (plDot) "indicates that the patch has been changed
\* compared to the stored patch" (display.tex). While it is off in preset mode,
\* what plays is the selected preset as it is stored, however the two changed,
\* but for the four changes that do not light it: a parameter on display that
\* loses its value, the foot switch in unison, unison set again over MIDI, and
\* a patch of the original firmware over the selected one.
DotHonest ==
  Settled /\ settings.presetMode /\ ~presetModified /\ ~unmarked
          /\ settings.presetNumber \in Numbers =>
    memory[Half(settings.presetNumber)] \in {Blank, sound}

\* In live mode the patch that plays "corresponds exactly to the parameters as
\* currently set" on the panel (uimode.tex): no path that loads one in
\* passing leaves it there. A change of the panel's layout in live mode does,
\* until the panel is read again.
LiveIsPanel == Settled /\ ~settings.presetMode /\ ~relaid => sound.panel = panel

\* The additional parameters of live mode are never lost to a preset: those it
\* last had, whatever set them there (the dial, the unison switch, the foot
\* switch, the layout, the display), play in live mode and wait on the manual
\* page ("save manual preset to recall it later", ui.c) while presets come and
\* go, unless the live patch is left without a save.
LiveKept ==
  on => live = IF settings.presetMode THEN memory[Half(Manual)].menu ELSE sound.menu

\* A digit of the second place always has one of the first to join.
EntryConsistent ==
  on /\ digitInput \in {"loadUnit", "storeUnit"} => presetAwaitingNumber \in Tens

\* The settings after a power cut are those before the handler that it
\* interrupted or those after it: the mode is never of one and the number of
\* the other,
SettingsWhole ==
  [][~on' /\ memory[MagicHalf] # Blank =>
       LoadedSettings(memory') \in {LoadedSettings(memory), settings'}]_vars

=============================================================================
