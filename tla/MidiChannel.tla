---------------------------- MODULE MidiChannel ----------------------------
(***************************************************************************)
(* What MIDI reception promises: the messages that were sent arrive, each  *)
(* once, in order and unchanged.                                           *)
(***************************************************************************)
EXTENDS Naturals, Sequences

CONSTANT Messages

VARIABLES sent, received

vars == <<sent, received>>

Init == sent = <<>> /\ received = <<>>

Send(m) ==
  /\ sent' = Append(sent, m)
  /\ UNCHANGED received

Receive ==
  /\ Len(received) < Len(sent)
  /\ received' = Append(received, sent[Len(received) + 1])
  /\ UNCHANGED sent

Next == Receive \/ \E m \in Messages : Send(m)

Spec == Init /\ [][Next]_vars /\ WF_vars(Receive)
=============================================================================
