----------------------------- MODULE MCMidiOut -----------------------------
(* A small instance of MidiOut: a modulation change and a note.             *)
EXTENDS MidiOut

Modulation == {<<176, 1, 64>>}
NoteOn     == {<<144, 60, 64>>}
NoMessage  == {}
AllBytes   == {0, 1, 60, 64, 144, 176}
=============================================================================
