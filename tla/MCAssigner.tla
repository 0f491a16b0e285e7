----------------------------- MODULE MCAssigner -----------------------------
(* Small instances of Assigner: two voices, and more keys than voices where  *)
(* the main loop does not interfere.                                         *)
EXTENDS Assigner

Poly(p) == [mono |-> FALSE, pattern |-> <<>>, priority |-> p]
Unison(pattern, p) == [mono |-> TRUE, pattern |-> pattern, priority |-> p]

OneNote     == 60 .. 60
FourNotes   == 60 .. 63
PolyPresets == {Poly(p) : p \in Priorities}

\* Poly, and a chord in unison with another priority.
UnisonPresets == {Poly("last"), Unison(<<0, 1>>, "high")}

AllVoices == {Voices}
SomeMasks == {Voices, {0}, {}}
=============================================================================
