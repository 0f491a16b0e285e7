------------------------------ MODULE Scanner ------------------------------
(***************************************************************************)
(* The scan of keys and buttons and its debouncing (common/scanner.c).     *)
(* Every second 2 ms slot of the timer interrupt scans the keys, every     *)
(* fourth of these scans the buttons too.                                  *)
(*                                                                         *)
(* A contact bounces after its key or switch moved, for a limited number   *)
(* of scans. Fingers are slower: they leave a key where it is until it has *)
(* bounced out and a scan has seen it. What the events do is elsewhere;    *)
(* TUNE's, which ends the scans for a while, is in TuneButton.             *)
(***************************************************************************)
EXTENDS Integers

CONSTANTS
  Keys, Buttons,
  DebounceTimeout,   \* SCANNER_DEBOUNCE_TIMEOUT
  MaxBounce          \* scans a contact may bounce for

Contacts == Keys \cup Buttons

ASSUME TimeoutAssumption == DebounceTimeout \in 0 .. 127
ASSUME BounceAssumption  == MaxBounce \in Nat /\ MaxBounce <= DebounceTimeout + 1

VARIABLES
  position,      \* of the key or switch: TRUE is pressed
  bounce,        \* scans its contact still bounces for
  contact,       \* what a scan reads
  reported,      \* bit 0 of scanner.state, the last event
  timeout        \* its other bits

handVars == <<position, bounce>>
vars == <<handVars, contact, reported, timeout>>

TypeOK ==
  /\ position \in [Contacts -> BOOLEAN]
  /\ bounce \in [Contacts -> 0 .. MaxBounce]
  /\ contact \in [Contacts -> BOOLEAN]
  /\ reported \in [Contacts -> BOOLEAN]
  /\ timeout \in [Contacts -> 0 .. DebounceTimeout]

\* After the first scan, at the start-up: what is down then is reported down.
Init ==
  /\ position \in [Contacts -> BOOLEAN]
  /\ bounce = [c \in Contacts |-> 0]
  /\ contact = position
  /\ reported = position
  /\ timeout = [c \in Contacts |-> IF position[c] THEN DebounceTimeout ELSE 0]

\* A finger moves a key or a switch.
Move(c) ==
  /\ bounce[c] = 0 /\ reported[c] = position[c]
  /\ position' = [position EXCEPT ![c] = ~@]
  /\ bounce' = [bounce EXCEPT ![c] = MaxBounce]
  /\ contact' = IF MaxBounce = 0 THEN position' ELSE contact
  /\ UNCHANGED <<reported, timeout>>

\* The contact opens and closes by itself.
Bounces(c) ==
  /\ bounce[c] > 0
  /\ contact' = [contact EXCEPT ![c] = ~@]
  /\ UNCHANGED <<handVars, reported, timeout>>

\* It bounces out while the interrupts are blocked and no scan comes.
Settle(c) ==
  /\ bounce[c] > 0
  /\ bounce' = [bounce EXCEPT ![c] = 0]
  /\ contact' = [contact EXCEPT ![c] = position[c]]
  /\ UNCHANGED <<position, reported, timeout>>

\* What a scan of the contacts S makes an event of.
Changed(S) == {c \in S : timeout[c] = 0 /\ contact[c] # reported[c]}

\* Mutant: the timeout starts one scan short.
TimeoutsShort(S) ==
  [c \in Contacts |-> IF c \in Changed(S) THEN DebounceTimeout - 1
                      ELSE IF c \in S /\ timeout[c] > 0 THEN timeout[c] - 1 ELSE timeout[c]]

\* Mutant: the timeout waits for the contact to come back.
TimeoutsWaiting(S) ==
  [c \in Contacts |-> IF c \in Changed(S) THEN DebounceTimeout
                      ELSE IF c \in S /\ timeout[c] > 0 /\ contact[c] = reported[c]
                           THEN timeout[c] - 1 ELSE timeout[c]]

Timeouts(S) ==
  [c \in Contacts |-> IF c \in Changed(S) THEN DebounceTimeout
                      ELSE IF c \in S /\ timeout[c] > 0 THEN timeout[c] - 1 ELSE timeout[c]]

\* scanner_update: of the keys, or of all. A contact that has bounced out rests.
Scan(S) ==
  /\ reported' = [c \in Contacts |-> IF c \in Changed(S) THEN contact[c] ELSE reported[c]]
  /\ timeout' = Timeouts(S)
  /\ bounce' = [c \in Contacts |-> IF c \in S /\ bounce[c] > 0 THEN bounce[c] - 1 ELSE bounce[c]]
  /\ contact' = [c \in Contacts |-> IF bounce'[c] = 0 THEN position[c] ELSE contact[c]]
  /\ UNCHANGED position

ScanKeys == Scan(Keys)
ScanAll  == Scan(Contacts)

Next ==
  \/ \E c \in Contacts : Move(c) \/ Bounces(c) \/ Settle(c)
  \/ ScanKeys \/ ScanAll

Spec == Init /\ [][Next]_vars

-----------------------------------------------------------------------------
(* Properties *)

\* Each move of a key makes one event: none comes of a bounce, before, at or
\* after the end of the timeout, or of a second key that moves meanwhile.
OneEventPerMove ==
  [][\A c \in Contacts : reported'[c] # reported[c] => reported'[c] = position[c]]_vars

=============================================================================
