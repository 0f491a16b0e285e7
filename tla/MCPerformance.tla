--------------------------- MODULE MCPerformance ---------------------------
(* A small instance of Performance: key 1 plays, here and at MIDI in, key 0 *)
(* transposes back, also while key 1 plays.                                 *)
EXTENDS Performance

\* Bounds of the run: key 0 is only for transposing, and a hand is on the keys
\* or on the wheel, which have nothing to do with each other.
Hands ==
  /\ 0 \in down => isShifted \/ isDoubleClicked
  /\ {wheel, modwheel, lastMod} # {0} => down \cup midiDown = {}
=============================================================================
