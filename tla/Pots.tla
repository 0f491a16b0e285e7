-------------------------------- MODULE Pots --------------------------------
(***************************************************************************)
(* How the main loop follows pots and wheels (common/potmux.c,             *)
(* ui_checkIfDataPotChanged, refreshPresetPots and synth_update): each is  *)
(* read now and then, a change is noticed past a threshold, and a pot sets *)
(* its parameter when it changed or was the last to change. A wheel sets   *)
(* its value only as the last. The timer interrupt resets all that when a  *)
(* button or a message selects or loads something.                         *)
(***************************************************************************)
EXTENDS Integers

CONSTANTS
  LastPot,       \* pots are numbered from 0
  Wheels,        \* those whose values are not parameters
  Bender,        \* the wheel that does not stay excited
  Positions,
  Threshold,     \* CHANGE_DETECT_THRESHOLD
  PickUp,        \* how many positions refreshPresetPots takes for one
  Response,      \* half the number of loops from one read to the next
  Race           \* the interrupt comes in the middle of the loop, too

Pots   == 0 .. LastPot
Params == Pots \ Wheels
None   == -1
Modes  == {"live", "select", "edit"}      \* what plays, and in preset mode whether
                                          \* the digits select presets or parameters

ASSUME PotsAssumption ==
  /\ LastPot \in Nat /\ Wheels \subseteq Pots
  /\ Positions \subseteq Nat /\ Positions # {}
  /\ Threshold \in Nat /\ PickUp \in Nat \ {0} /\ Response \in Nat \ {0}
  /\ Race \in BOOLEAN

VARIABLES
  position,                             \* of the pots
  pots, changeDetect, excited, counter, \* of potmux: one of each per pot
  changed, lastChanged, lastInAction,
  lastActivePot, lastActivePotValue,    \* of ui
  mode,
  value,         \* the parameter, or what synth_wheelEvent was given last
  follows,       \* contParamPotStatus = 1
  pc             \* the pot to be read, then the steps of synth_update

muxVars  == <<pots, changeDetect, excited, counter, changed, lastChanged, lastInAction>>
uiVars   == <<lastActivePot, lastActivePotValue>>
presetVars == <<mode, value, follows>>
potsVars == <<position, muxVars, uiVars, presetVars, pc>>

Check  == LastPot + 1
Follow == LastPot + 2
Apply  == LastPot + 3

PotsTypeOK ==
  /\ {position, pots, changeDetect, value} \subseteq [Pots -> Positions]
  /\ excited \in [Pots -> BOOLEAN]
  /\ counter \in [Pots -> 0 .. 2 * Response - 1]
  /\ changed \subseteq Pots
  /\ {lastChanged, lastInAction, lastActivePot} \subseteq Pots \cup {None}
  /\ lastActivePotValue \in Positions \cup {None}
  /\ mode \in Modes
  /\ follows \in [Params -> BOOLEAN]
  /\ pc \in 0 .. Apply

\* After synth_init: all were read once, and the wheels were at rest.
PotsInit ==
  /\ position \in [Pots -> Positions]
  /\ pots = position /\ changeDetect = position
  /\ excited = [p \in Pots |-> FALSE]
  /\ counter = [p \in Pots |-> (p + 1) % (2 * Response)]
  /\ changed = {} /\ lastChanged = None /\ lastInAction = None
  /\ lastActivePot = None /\ lastActivePotValue = None
  /\ mode = "live"
  /\ value = position
  /\ follows = [p \in Params |-> TRUE]
  /\ pc = 0

Distance(a, b) == IF a < b THEN b - a ELSE a - b

-----------------------------------------------------------------------------
(* Main loop *)

Due(p) == counter[p] = 0 \/ excited[p]

\* Whether a pot stays excited from its last read.
StillExcited(p) == excited[p] /\ lastInAction = p

Noticed(p) ==
  Distance(changeDetect[p], position[p]) > Threshold \/ (StillExcited(p) /\ p # Bender)

\* updatePot.
Read(p) ==
  /\ pots' = [pots EXCEPT ![p] = position[p]]
  /\ IF Noticed(p)
     THEN /\ changeDetect' = [changeDetect EXCEPT ![p] = position[p]]
          /\ excited' = [excited EXCEPT ![p] = TRUE]
          /\ changed' = (IF p = 0 THEN {} ELSE changed) \cup {p}
          /\ lastChanged' = p /\ lastInAction' = p
     ELSE /\ excited' = [excited EXCEPT ![p] = StillExcited(p)]
          /\ changed' = IF p = 0 THEN {} ELSE changed
          /\ lastChanged' = IF p = 0 THEN None ELSE lastChanged
          /\ UNCHANGED <<changeDetect, lastInAction>>

Counted(p) == (counter[p] + 1) % (2 * Response)

\* potmux_resetChanged before the first pot, and potmux_update pot by pot.
ReadPot ==
  /\ pc \in Pots
  /\ IF Due(pc) THEN Read(pc)
     ELSE /\ changed' = IF pc = 0 THEN {} ELSE changed
          /\ lastChanged' = IF pc = 0 THEN None ELSE lastChanged
          /\ UNCHANGED <<pots, changeDetect, excited, lastInAction>>
  /\ counter' = [counter EXCEPT ![pc] = Counted(pc)]
  /\ pc' = pc + 1
  /\ UNCHANGED <<position, uiVars, presetVars>>

\* ui_checkIfDataPotChanged (what the data dial does is in Presets).
CheckLast ==
  /\ pc = Check
  /\ lastActivePot' = IF lastChanged # None THEN lastChanged ELSE lastActivePot
  /\ pc' = Follow
  /\ UNCHANGED <<position, muxVars, lastActivePotValue, presetVars>>

\* Mutant: only the last pot sets its parameter.
TouchedLast == Params \cap {lastActivePot}

Touched == Params \cap (changed \cup {lastActivePot})

\* Mutant: a parameter that follows its pot waits again when the pot is turned fast.
HeldAgain(p) == mode = "edit" /\ value[p] \div PickUp # pots[p] \div PickUp

\* The parameter of a preset that is edited waits for its pot to come by.
Held(p) == mode = "edit" /\ ~follows[p] /\ value[p] \div PickUp # pots[p] \div PickUp

\* refreshPresetPots.
FollowPots ==
  LET set == {p \in Touched : ~Held(p)} IN
  /\ pc = Follow
  /\ value' = [p \in Pots |-> IF p \in set THEN pots[p] ELSE value[p]]
  /\ follows' = [p \in Params |-> follows[p] \/ p \in set]
  /\ pc' = Apply
  /\ UNCHANGED <<position, muxVars, uiVars, mode>>

\* synth_update, as to the last pot.
ApplyLast ==
  /\ pc = Apply
  /\ IF lastActivePot # None /\ pots[lastActivePot] # lastActivePotValue
     THEN /\ lastActivePotValue' = pots[lastActivePot]
          /\ value' = IF lastActivePot \in Wheels
                      THEN [value EXCEPT ![lastActivePot] = pots[lastActivePot]] ELSE value
     ELSE UNCHANGED <<lastActivePotValue, value>>
  /\ pc' = 0
  /\ UNCHANGED <<position, muxVars, lastActivePot, mode, follows>>

Loop == ReadPot \/ CheckLast \/ FollowPots \/ ApplyLast

-----------------------------------------------------------------------------
(* Hand and interrupt *)

Move(p) ==
  /\ \E x \in Positions \ {position[p]} : position' = [position EXCEPT ![p] = x]
  /\ UNCHANGED <<muxVars, uiVars, presetVars, pc>>

\* ui_setNoActivePot with a full reset.
SetNoActivePot ==
  /\ pc = 0 \/ Race
  /\ changed' = {} /\ lastChanged' = None /\ lastInAction' = None
  /\ excited' = [p \in Pots |-> FALSE]
  /\ lastActivePot' = None /\ lastActivePotValue' = None
  /\ UNCHANGED <<position, pots, changeDetect, counter, pc>>

\* A digit that selects an additional parameter.
SelectParameter ==
  /\ mode \in {"live", "edit"}
  /\ SetNoActivePot
  /\ UNCHANGED presetVars

\* To tape, in preset mode.
ButtonToTape ==
  /\ mode # "live"
  /\ SetNoActivePot
  /\ mode' = IF mode = "select" THEN "edit" ELSE "select"
  /\ UNCHANGED <<value, follows>>

\* A preset is loaded, by button or message: no parameter follows its pot.
Load(to) ==
  /\ SetNoActivePot
  /\ mode' = to
  /\ \E x \in [Params -> Positions] : value' = [p \in Pots |-> IF p \in Params THEN x[p] ELSE value[p]]
  /\ follows' = [p \in Params |-> FALSE]

\* Digits, or Preset from live mode, load with refreshPresetMode; a program change
\* leaves the use of the digits.
SelectPreset  == Load("select")
ProgramChange == mode = "edit" /\ Load("edit")

\* Preset, to live mode: all parameters follow.
GoLive ==
  /\ mode # "live"
  /\ SetNoActivePot
  /\ mode' = "live"
  /\ value' = [p \in Pots |-> IF p \in Params THEN pots[p] ELSE value[p]]
  /\ follows' = [p \in Params |-> TRUE]

Interrupt == SelectParameter \/ ButtonToTape \/ SelectPreset \/ ProgramChange \/ GoLive

PotsNext == Loop \/ Interrupt \/ \E p \in Pots : Move(p)

PotsSpec == PotsInit /\ [][PotsNext]_potsVars

\* The main loop runs on.
FairPotsSpec == PotsSpec /\ WF_potsVars(Loop)

-----------------------------------------------------------------------------
(* Properties *)

\* Between two turns of the loop no reading waits to be followed: a parameter that
\* follows its pot, as all do in live mode, is near what was read last of it, by a threshold for what was not
\* noticed since the parameter was set and one for what was not before.
ReadingsFollowed ==
  pc = 0 => \A p \in Params :
              mode = "live" \/ follows[p] => Distance(value[p], pots[p]) <= 2 * Threshold

\* A pot comes to rest, and its parameter near it: a threshold for a change that
\* is not noticed, and one more for what was read at a change of mode.
ComesNear(p) ==
  \A x \in Positions : <>[](position[p] = x) => <>[](Distance(value[p], x) <= 2 * Threshold)

\* In live mode, and once a parameter follows its pot, it ends up where its pot
\* does, whichever pots move at the same time and whatever is selected between.
ParamsFollow ==
  \A p \in Params : <>[](mode = "live" \/ follows[p]) => ComesNear(p)

=============================================================================
