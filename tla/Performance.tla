---------------------------- MODULE Performance ----------------------------
(***************************************************************************)
(* Hands on the keys (Keys), on the modulation wheel and a foot on the     *)
(* pedal, with what switches their meaning: local on and off, the          *)
(* arpeggiator, unison, the tuning of single notes (synth_wheelEvent,      *)
(* synth_holdEvent and handleBitInputs of common/synth.c, midi.c, ui.c).   *)
(*                                                                         *)
(* A wheel's move is one step here; how it is noticed is Pots. Positions   *)
(* are those that messages tell apart. The bender takes the same way with  *)
(* two amounts that add up.                                                *)
(***************************************************************************)
EXTENDS Keys

CONSTANT Mods    \* positions of the modulation wheel, 0 at rest

ASSUME ModsAssumption == Mods \subseteq Nat /\ 0 \in Mods

VARIABLES
  retune,          \* ui.retuneLastNotePressedMode
  unison,
  wheel, pedal,    \* where they are
  modwheel,        \* modwheelAmount
  hold,            \* of the assigner
  lastMod,         \* position sent last
  controls,        \* messages of wheel and pedal to be played back
  strayed          \* history: whether the wheel's last move was not sent

controlVars == <<retune, unison, wheel, pedal, modwheel, hold, lastMod, controls, strayed>>
allVars == <<vars, controlVars>>

Control == [control : {"mod"}, value : Mods] \cup [control : {"hold"}, value : BOOLEAN]

AllTypeOK ==
  /\ TypeOK
  /\ {retune, unison, pedal, hold, strayed} \subseteq BOOLEAN
  /\ {wheel, modwheel, lastMod} \subseteq Mods
  /\ controls \in Seq(Control) /\ Len(controls) <= 1

AllInit ==
  /\ Init
  /\ retune = FALSE /\ unison \in BOOLEAN
  /\ wheel = 0 /\ pedal = FALSE
  /\ modwheel = 0 /\ hold = FALSE
  /\ lastMod = 0 /\ controls = <<>> /\ strayed = FALSE

\* What is played back comes before hands and feet move again.
Rest == Quiet /\ controls = <<>>

\* To MIDI out, and back if it is connected.
SendControl(m) == controls' = IF loop THEN <<m>> ELSE <<>>

-----------------------------------------------------------------------------
(* Wheel: synth_wheelEvent does nothing while a note is tuned, and sends what *)
(* is news                                                                  *)

\* Mutant: what comes from outside is added, as it is for the bender.
ModAmountAdded(mod, isInternal) ==
  IF retune THEN modwheel
  ELSE IF ~isInternal THEN modwheel + mod
  ELSE IF localOn THEN mod ELSE modwheel

ModAmount(mod, isInternal) ==
  IF (localOn \/ ~isInternal) /\ ~retune THEN mod ELSE modwheel

MoveWheel(x) ==
  LET news == x # lastMod /\ ~retune IN
  /\ Rest
  /\ wheel' = x
  /\ modwheel' = ModAmount(x, TRUE)
  /\ lastMod' = IF news THEN x ELSE lastMod
  /\ IF news THEN SendControl([control |-> "mod", value |-> x]) ELSE controls' = <<>>
  /\ strayed' = ~news
  /\ UNCHANGED <<vars, retune, unison, pedal, hold>>

\* The wheel's range or its target is set.
UpdateWheel ==
  /\ Rest
  /\ modwheel' = ModAmount(wheel, TRUE)
  /\ UNCHANGED <<vars, retune, unison, wheel, pedal, hold, lastMod, controls, strayed>>

-----------------------------------------------------------------------------
(* Pedal *)

\* synth_holdEvent: unison takes no hold, but latches the chord (see Assigner).
Holds(on, isInternal) ==
  IF unison THEN hold /\ ~(on /\ isInternal)
  ELSE IF localOn \/ ~isInternal THEN on ELSE hold

\* handleBitInputs: the pedal latches an arpeggiator that runs.
MovePedal(on) ==
  /\ Rest
  /\ on # pedal /\ pedal' = on
  /\ IF running
     THEN ArpLatch(on) /\ UNCHANGED <<hold, controls>>
     ELSE /\ hold' = Holds(on, TRUE)
          /\ IF unison THEN controls' = <<>>
             ELSE SendControl([control |-> "hold", value |-> on])
          /\ UNCHANGED vars
  /\ UNCHANGED <<retune, unison, wheel, modwheel, lastMod, strayed>>

ControlPlayedBack ==
  LET m == Head(controls) IN
  /\ controls # <<>>
  /\ controls' = Tail(controls)
  /\ modwheel' = IF m.control = "mod" THEN ModAmount(m.value, FALSE) ELSE modwheel
  /\ hold' = IF m.control = "hold" THEN Holds(m.value, FALSE) ELSE hold
  /\ UNCHANGED <<vars, retune, unison, wheel, pedal, lastMod, strayed>>

-----------------------------------------------------------------------------
(* Keys, panel and messages *)

\* Mutant: the keys go, but not the hold.
EndHoldNot == KeysOff /\ controls = <<>> /\ UNCHANGED controlVars

\* What turns the keys off ends the hold too.
EndHold ==
  /\ KeysOff /\ controls = <<>>
  /\ hold' = FALSE
  /\ UNCHANGED <<retune, unison, wheel, pedal, modwheel, lastMod, controls, strayed>>

\* Button 0 while shifted. synth_resetForLocalOffMode resets the wheel, but not
\* while a note is tuned.
ChangeLocal ==
  /\ LocalButton /\ controls = <<>>
  /\ modwheel' = IF localOn /\ ~localOn' /\ ~retune THEN 0 ELSE modwheel
  /\ UNCHANGED <<retune, unison, wheel, pedal, hold, lastMod, controls, strayed>>

RetuneButton ==
  /\ Rest
  /\ retune' = ~retune
  /\ UNCHANGED <<vars, unison, wheel, pedal, modwheel, hold, lastMod, controls, strayed>>

\* Into unison the hold ends (assigner_latchPattern).
UnisonButton ==
  /\ Rest
  /\ unison' = ~unison
  /\ hold' = (hold /\ unison)
  /\ UNCHANGED <<vars, retune, wheel, pedal, modwheel, lastMod, controls, strayed>>

\* A preset comes with its unison, and without an end of the hold. The pedal is
\* up then, unless "preset" is stimulated.
LoadPreset(u) ==
  /\ Rest
  /\ pedal => "preset" \in Stimuli
  /\ unison' = u
  /\ UNCHANGED <<vars, retune, wheel, pedal, modwheel, hold, lastMod, controls, strayed>>

\* What leaves wheel and pedal alone.
KeysOnly == KeysStay /\ controls = <<>> /\ UNCHANGED controlVars

AllNext ==
  /\ \/ KeysOnly \/ EndHold \/ ChangeLocal
     \/ \E x \in Mods \ {wheel} : MoveWheel(x)
     \/ UpdateWheel
     \/ \E on \in BOOLEAN : MovePedal(on)
     \/ ControlPlayedBack
     \/ RetuneButton \/ UnisonButton
     \/ \E u \in BOOLEAN : LoadPreset(u)
  /\ Leave

AllSpec == AllInit /\ [][AllNext]_allVars

-----------------------------------------------------------------------------
(* Properties *)

\* The pedal that holds the notes is down: whatever is switched between its two
\* moves - local off, the arpeggiator, unison, shift - its release is heard,
\* here or through MIDI in, or what was switched has ended the hold.
HoldHasCause == loop /\ Rest /\ hold => pedal

\* The modulation wheel acts once: by its place, or not at all since local off
\* was entered, though each of its moves comes twice in local on.
WheelNotDoubled == loop /\ Rest /\ ~strayed => modwheel \in {0, wheel}

=============================================================================
