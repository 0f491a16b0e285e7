------------------------------ MODULE Arpeggio ------------------------------
(***************************************************************************)
(* What the arpeggiator promises, whatever its patterns and the places of  *)
(* its memory: one note at a time, of a key that is held or latched, turned *)
(* off when the next one comes and when nothing is left to play. Arp       *)
(* implements it (its property Arpeggiates), Keys is built on it.          *)
(***************************************************************************)
EXTENDS Integers

CONSTANTS
  Keys,          \* keys that can be pressed
  Transposes     \* transpositions that can be set

VARIABLES
  running, latch,
  held,          \* notes of keys that are down
  latched,       \* notes that stay after their key
  transpose,
  last,          \* the pitch played last, which a note-off may still come for
  sounding       \* pitches that were turned on and not off

vars == <<running, latch, held, latched, transpose, last, sounding>>
noteVars == <<held, latched>>

TypeOK ==
  /\ running \in BOOLEAN /\ latch \in BOOLEAN
  /\ held \subseteq Keys /\ latched \subseteq Keys
  /\ transpose \in Transposes
  /\ last \subseteq {k + x : k \in Keys, x \in Transposes}
  /\ sounding \subseteq last

Init ==
  /\ running = FALSE /\ latch = FALSE
  /\ held = {} /\ latched = {}
  /\ transpose = 0
  /\ last = {} /\ sounding = {}

\* Turned off by a note-off for the last note.
Finished == sounding \ last

\* Another pattern, or off: everything goes.
SetPattern(on, hold) ==
  /\ running' = on
  /\ latch' = (on /\ hold)
  /\ held' = {} /\ latched' = {}
  /\ last' = {} /\ sounding' = Finished
  /\ UNCHANGED transpose

\* Latch turned off drops the latched notes, and the sound if that was all.
SetLatch(hold) ==
  /\ running
  /\ latch' = hold
  /\ latched' = IF hold THEN latched ELSE {}
  /\ sounding' = IF latch /\ ~hold /\ held = {} THEN Finished ELSE sounding
  /\ UNCHANGED <<running, held, transpose, last>>

\* A key adds its note, in place of the latched one or next to it, unless the
\* memory is full.
Press(k) ==
  /\ running
  /\ \/ held' = held \cup {k} /\ latched' \in {latched, latched \ {k}}
     \/ UNCHANGED noteVars
  /\ UNCHANGED <<running, latch, transpose, last, sounding>>

\* Nothing is left to play without key k.
Empties(k) == ~latch /\ held \ {k} = {} /\ latched = {}

\* The note of a key that goes up is latched or dropped, and the sound with it
\* if that was all.
Release(k) ==
  /\ running
  /\ held' = held \ {k}
  /\ latched' = IF latch THEN latched \cup (held \cap {k}) ELSE latched
  /\ sounding' = IF Empties(k) THEN Finished ELSE sounding
  /\ UNCHANGED <<running, latch, transpose, last>>

SetTranspose(x) ==
  /\ transpose' = x
  /\ UNCHANGED <<running, latch, noteVars, last, sounding>>

\* A beat: the next note, whichever it is, after the end of the last.
Beat ==
  /\ running
  /\ \E n \in held \cup latched : last' = {n + transpose}
  /\ sounding' = Finished \cup last'
  /\ UNCHANGED <<running, latch, noteVars, transpose>>

\* A beat that ends a silence.
Starts == sounding = {} /\ Beat

Next ==
  \/ \E on, hold \in BOOLEAN : SetPattern(on, hold)
  \/ \E hold \in BOOLEAN : SetLatch(hold)
  \/ \E k \in Keys : Press(k) \/ Release(k)
  \/ \E x \in Transposes : SetTranspose(x)
  \/ Beat

Spec == Init /\ [][Next]_vars

\* As long as there are notes to play, something will.
FairSpec == Spec /\ WF_vars(Starts)
=============================================================================
