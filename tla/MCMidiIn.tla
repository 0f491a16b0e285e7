----------------------------- MODULE MCMidiIn ------------------------------
(* Small instances of MidiIn: one message of each kind, and two that are   *)
(* system exclusive.                                                        *)
EXTENDS MidiIn

ShortMessages ==
  {<<NoteOn, 1, 2>>, <<ProgChange, 1>>, <<TuneRequest>>, <<Clock>>,
   <<SysexBegin, 1, SysexEnd>>, <<SysexBegin, 2, 1, 2, SysexEnd>>}

\* The other users leave status bytes in the buffer.
Others == {[i \in 0 .. MaxSysex - 1 |-> NoteOn]}

AllBytes == {0, 1, 2, NoteOn, ProgChange, TuneRequest, SysexBegin, SysexEnd, Clock}
=============================================================================
