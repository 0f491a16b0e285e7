----------------------------- MODULE MCPresets -----------------------------
(* Values of the constants of Presets for TLC. *)
EXTENDS Presets

\* A patch that no setting of the panel sounds like.
OnePatch == {[panel |-> CHOOSE p \in Positions : p # BasicPanel, menu |-> BasicMenu]}

\* States that differ in the panel's part of the manual page alone are one: live
\* mode reads the panel instead, and nothing else loads that page.
ManualView ==
  <<[memory EXCEPT ![Half(Manual)] = IF @ = Blank THEN Blank ELSE @.menu],
    on, settings, patchVars, panel, entryVars, modeVars, main, live>>
=============================================================================
