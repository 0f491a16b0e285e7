------------------------------- MODULE MCSeq -------------------------------
(* Small instances of Seq: track 0 is recorded, track 1 plays along.        *)
EXTENDS Seq

NothingStored == {<<>>}
Song          == <<Note(0, FALSE), Note(4, TRUE), Rest>>
SongStored    == {<<>>, Song}
\* A key of the keyboard and one that only MIDI has, below it.
MidiKeys      == {-5, 0}
=============================================================================
