----------------------------- MODULE TuneButton -----------------------------
(***************************************************************************)
(* The scanner and the tuner together: the event of the TUNE button starts *)
(* the tuning inside the scan, which blocks the interrupts until it is     *)
(* done (common/ui.c, common/synth.c). Fingers move on meanwhile, and      *)
(* contacts bounce out, without a scan that sees it. With the scaling      *)
(* jumper set the synthesizer starts no scan at all.                       *)
(***************************************************************************)
EXTENDS Scanner, Tuner

CONSTANT TuneContact   \* pbTune

ASSUME TuneContactAssumption == TuneContact \in Buttons

allVars == <<vars, tunerVars>>

AllInit == Init /\ TunerInit

Scans == mode = "idle"

KeysScanned == Scans /\ ScanKeys /\ UNCHANGED tunerVars

\* Mutant: TUNE tunes for as long as it is down.
TunesWhileDown(S) == contact[TuneContact]

\* TUNE goes down, and the synthesizer tunes. (It is not shifted.)
Tunes(S) == TuneContact \in Changed(S) /\ contact[TuneContact]

AllScanned ==
  /\ Scans
  /\ ScanAll
  /\ IF Tunes(Contacts) THEN Tune ELSE UNCHANGED tunerVars

\* Fingers and contacts.
Hands == (\E c \in Contacts : Move(c) \/ Bounces(c)) /\ UNCHANGED tunerVars

\* A contact bounces out while the interrupts are blocked.
Unseen == ~Scans /\ (\E c \in Contacts : Settle(c)) /\ UNCHANGED tunerVars

TunerSteps   == Tuning /\ UNCHANGED vars
ScalingSteps == Scaling /\ UNCHANGED vars

AllNext ==
  \/ Hands \/ KeysScanned \/ AllScanned
  \/ Unseen
  \/ TunerSteps \/ ScalingSteps

\* The timer interrupt scans for ever, and what blocks it goes on.
AllSpec ==
  /\ AllInit /\ [][AllNext]_allVars
  /\ WF_allVars(KeysScanned) /\ WF_allVars(AllScanned) /\ WF_allVars(TunerSteps)

-----------------------------------------------------------------------------
(* Properties *)

\* What comes to rest is reported, in whichever state a bounce left the contact
\* when its event was made, and also if it came to rest while the synthesizer
\* tuned.
EachMoveReported ==
  \A c \in Contacts, p \in BOOLEAN :
    [](mode # "scaling") /\ <>[](position[c] = p) => <>[](reported[c] = p)

\* A tuning ends, whatever times out, and each press of TUNE tunes once: under a
\* finger that rests, on the button or off it, the synthesizer plays again.
TunesOncePerPress ==
  \A p \in BOOLEAN : <>[](position[TuneContact] = p) => <>[](mode # "tuning")

=============================================================================
