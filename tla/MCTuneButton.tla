---------------------------- MODULE MCTuneButton ----------------------------
(* An oscillator that may fail, one that does not, and a filter. *)
EXTENDS TuneButton

Line(offset, scale) == [o \in Octaves |-> offset + o * scale]

MCBits    == [i \in 0 .. Steps - 1 |-> 2^(Steps - i)]
MCOscInit == Line(6, 11)
MCFilInit == Line(20, 8)
MCPitch   == [c \in Cvs |-> IF c = 0 THEN Line(15, 9)
                            ELSE IF c = 1 THEN Line(11, 10) ELSE Line(17, 9)]
=============================================================================
