--------------------------- MODULE PresetsProofs ---------------------------
(***************************************************************************)
(* Theorems about Presets, for all digits, panels, parameters and patches. *)
(***************************************************************************)
EXTENDS Presets, WellFoundedInduction, TLAPS

-----------------------------------------------------------------------------
(* Digits *)

\* EntryConsistent does not depend on the power.
EntryInv == digitInput \in {"loadUnit", "storeUnit"} => presetAwaitingNumber \in Tens

\* No wait for a second digit begins but with a first one.
LEMMA HomeWaitsForNone ==
  ASSUME NEW mode
  PROVE  Home(mode) \notin {"loadUnit", "storeUnit"}
BY DEF Home

LEMMA EntryButtons ==
  ASSUME EntryInv, Buttons
  PROVE  EntryInv'
<1>1. ASSUME NEW d \in Tens, EnterTens(d) PROVE EntryInv'
  BY <1>1 DEF EnterTens, EntryInv
<1>2. ASSUME NEW d \in Units, EnterUnit(d) PROVE EntryInv'
  <2>1. digitInput' \in {"storeDecade", Home(settings.presetMode)}
    BY <1>2 DEF EnterUnit
  <2> QED
    BY <2>1, HomeWaitsForNone DEF EntryInv
<1>3. ASSUME ButtonPreset PROVE EntryInv'
  <2>1. digitInput' \in {"storeDecade", Home(settings'.presetMode)}
    BY <1>3 DEF ButtonPreset
  <2> QED
    BY <2>1, HomeWaitsForNone DEF EntryInv
<1>4. ASSUME BasicPatch PROVE EntryInv'
  BY <1>4 DEF BasicPatch, EntryInv
<1>5. ASSUME ButtonRecord PROVE EntryInv'
  <2>1. digitInput' \in {"storeDecade", Home(settings.presetMode)}
    BY <1>5 DEF ButtonRecord
  <2> QED
    BY <2>1, HomeWaitsForNone DEF EntryInv
<1>6. ASSUME ButtonToTape PROVE EntryInv'
  BY <1>6 DEF ButtonToTape, EntryInv
<1>7. ASSUME ButtonSeq \/ ButtonArp PROVE EntryInv'
  <2>1. digitInput' \in {"sequencer", Home(settings.presetMode)}
    BY <1>7 DEF ButtonSeq, ButtonArp
  <2> QED
    BY <2>1, HomeWaitsForNone DEF EntryInv
<1>8. ASSUME UNCHANGED entryVars PROVE EntryInv'
  BY <1>8 DEF entryVars, EntryInv
<1>9. ASSUME NEW q, NEW m, SelectParameter \/ FootLatch(m) \/ ButtonFromTape \/ ChangeSettings
                             \/ ChangeLayout(q, m)
      PROVE  EntryInv'
  BY <1>8, <1>9 DEF SelectParameter, FootLatch, ButtonFromTape, ChangeSettings, ChangeLayout
<1>10. ASSUME NEW p \in Positions, PanelSwitch(p) PROVE EntryInv'
  BY <1>8, <1>10 DEF PanelSwitch
<1>11. ASSUME NEW p \in Positions, NEW m \in Menus, ButtonUnison(p, m) PROVE EntryInv'
  BY <1>8, <1>11 DEF ButtonUnison
<1>12. CASE \E d \in Tens : EnterTens(d)
  BY <1>1, <1>12
<1>13. CASE \E d \in Units : EnterUnit(d)
  BY <1>2, <1>13
<1>14. CASE \E p \in Positions : PanelSwitch(p)
  BY <1>10, <1>14
<1>15. CASE \E p \in Positions, m \in Menus : ButtonUnison(p, m)
  BY <1>11, <1>15
<1> QED
  BY <1>3, <1>4, <1>5, <1>6, <1>7, <1>9, <1>12, <1>13, <1>14, <1>15 DEF Buttons

\* A patch that arrives between two digits would drop the first one.
LEMMA EntryMidi ==
  ASSUME EntryInv, Midi, "entry" \notin Stimuli
  PROVE  EntryInv'
<1>1. ASSUME BankSelect PROVE EntryInv'
  <2>1. digitInput' = Home(settings'.presetMode)
    BY <1>1 DEF BankSelect
  <2> QED
    BY <2>1, HomeWaitsForNone DEF EntryInv
<1>2. ASSUME NEW n, NEW s, NEW whole, Import(n, s, whole) PROVE EntryInv'
  <2>1. digitInput' \in {"storeDecade", digitInput} /\ digitInput \notin {"loadUnit", "storeUnit"}
    BY <1>2 DEF Import
  <2> QED
    BY <2>1 DEF EntryInv
<1>3. ASSUME UNCHANGED entryVars PROVE EntryInv'
  BY <1>3 DEF entryVars, EntryInv
<1>4. \A n, s : ProgramChange(n) \/ ControlChange(s) \/ ImportSci(n, s) => UNCHANGED entryVars
  BY DEF ProgramChange, ControlChange, ImportSci
<1> QED
  BY <1>1, <1>2, <1>3, <1>4 DEF Midi

LEMMA EntryOthers ==
  ASSUME EntryInv, MainLoop \/ PowerCut \/ Boot \/ UNCHANGED vars
  PROVE  EntryInv'
<1>1. ASSUME DialSelected PROVE EntryInv'
  BY <1>1 DEF DialSelected, EntryInv
<1>2. ASSUME PowerCut PROVE EntryInv'
  BY <1>2 DEF PowerCut, EntryInv
<1>3. ASSUME Boot PROVE EntryInv'
  <2>1. PICK mode : digitInput' = Home(mode)
    BY <1>3 DEF Boot
  <2> QED
    BY <2>1, HomeWaitsForNone DEF EntryInv
<1>4. ASSUME UNCHANGED entryVars PROVE EntryInv'
  BY <1>4 DEF entryVars, EntryInv
<1>5. UNCHANGED vars => UNCHANGED entryVars
  BY DEF vars
<1>6. \A p, m, n : PotMoves(p) \/ ParameterEdited(m) \/ DialTurned(n) => UNCHANGED entryVars
  BY DEF PotMoves, ParameterEdited, DialTurned
<1>7. PotApplied \/ ParameterChecked \/ ParameterSaved \/ ParameterMarked \/ DialLoaded
        => UNCHANGED entryVars
  BY DEF PotApplied, ParameterChecked, ParameterSaved, ParameterMarked, DialLoaded
<1> QED
  BY <1>1, <1>2, <1>3, <1>4, <1>5, <1>6, <1>7 DEF MainLoop

-----------------------------------------------------------------------------
(* Memory *)

Halves == {MagicHalf, LastHalf} \cup {Half(p) : p \in Pages}

MemoryTyped(mem) ==
  /\ mem = [h \in Halves |-> mem[h]]
  /\ mem[MagicHalf] \in {Blank, "magic"}
  /\ mem[LastHalf] \in Settings \cup {Blank}
  /\ \A p \in Pages : mem[Half(p)] \in Sound \cup {Blank}

\* The writes that handlers make.
GoodWrites ==
  {Write(MagicHalf, "magic")} \cup {Write(LastHalf, s) : s \in Settings}
    \cup {Write(Half(p), s) : p \in Pages, s \in Sound}

LEMMA NumbersInPages ==
  /\ Pages \in SUBSET Nat /\ Manual \in Pages /\ Numbers \subseteq Pages
  /\ \A p \in Pages : p \in 0 .. 99 \/ p = Manual
  /\ \A n \in Numbers : n \in 0 .. 99
<1>1. ASSUME NEW n \in Numbers PROVE n \in 0 .. 99
  <2>1. PICK tens \in Tens, units \in Units : n = 10 * tens + units
    BY DEF Numbers
  <2>2. tens \in 0 .. 9 /\ units \in 0 .. 9
    BY DigitsAssumption
  <2> QED
    BY <2>1, <2>2
<1>2. \A p \in Pages : p \in Numbers \/ p = Manual
  BY DEF Pages
<1>3. Manual \in Nat
  BY DEF Manual
<1>4. \A p \in Pages : p \in 0 .. 99 \/ p = Manual
  BY <1>1, <1>2
<1>5. \A p \in Pages : p \in Nat
  BY <1>3, <1>4
<1> QED
  BY <1>1, <1>4, <1>5 DEF Pages

LEMMA HalvesApart ==
  /\ MagicHalf # LastHalf /\ MagicHalf \in Halves /\ LastHalf \in Halves
  /\ \A p \in Pages : Half(p) \in Halves /\ Half(p) # MagicHalf /\ Half(p) # LastHalf
  /\ \A p, q \in Pages : Half(p) = Half(q) => p = q
BY NumbersInPages DEF Halves, Half, MagicHalf, LastHalf, Manual

LEMMA WriteParts ==
  ASSUME NEW h, NEW x
  PROVE  Write(h, x).half = h /\ Write(h, x).data = x
BY DEF Write

\* Among positions of a sequence there is a last one.
LEMMA LastPosition ==
  ASSUME NEW n \in Nat, NEW S \in SUBSET (1 .. n), S # {}
  PROVE  \E i \in S : \A j \in S : j <= i
<1> DEFINE Mirror == {n - i : i \in S}
<1> \A i \in S : n - i \in Nat
  OBVIOUS
<1>1. Mirror \in SUBSET Nat /\ Mirror # {}
  OBVIOUS
<1>2. PICK m \in Mirror : \A x \in Mirror : ~(<<x, m>> \in OpToRel(<, Nat))
  BY <1>1, NatLessThanWellFounded, WFMin
<1>3. PICK i \in S : m = n - i
  BY <1>2
<1>4. \A j \in S : ~(n - j < n - i)
  BY <1>2, <1>3 DEF OpToRel
<1>5. \A j \in S : j <= i
  <2>1. i \in Int /\ \A j \in S : j \in Int
    BY <1>3
  <2> QED
    BY <1>4, <2>1
<1> QED
  BY <1>5

\* Nothing written, nothing changed.
LEMMA AppliedNothing ==
  ASSUME NEW mem, MemoryTyped(mem)
  PROVE  Applied(mem, <<>>) = mem
<1>1. DOMAIN mem = Halves
  BY DEF MemoryTyped
<1>2. Applied(mem, <<>>) = [h \in Halves |-> mem[h]]
  BY <1>1 DEF Applied
<1> QED
  BY <1>2 DEF MemoryTyped

\* Writes are made one after the other.
LEMMA AppliedAppend ==
  ASSUME NEW mem, MemoryTyped(mem), NEW ws \in Seq(GoodWrites), NEW w \in GoodWrites,
         NEW h \in Halves
  PROVE  Applied(mem, Append(ws, w))[h] = IF w.half = h THEN w.data ELSE Applied(mem, ws)[h]
<1> DEFINE ws2 == Append(ws, w)
           At(s) == {i \in DOMAIN s : s[i].half = h}
           Latest(s) == CHOOSE i \in At(s) : \A j \in At(s) : j <= i
<1>1. /\ DOMAIN ws = 1 .. Len(ws) /\ DOMAIN ws2 = 1 .. (Len(ws) + 1) /\ Len(ws) \in Nat
      /\ ws2[Len(ws) + 1] = w
      /\ \A i \in DOMAIN ws : ws2[i] = ws[i]
  OBVIOUS
<1>2. DOMAIN mem = Halves
  BY DEF MemoryTyped
<1>3. /\ Applied(mem, ws)[h] = IF At(ws) = {} THEN mem[h] ELSE ws[Latest(ws)].data
      /\ Applied(mem, ws2)[h] = IF At(ws2) = {} THEN mem[h] ELSE ws2[Latest(ws2)].data
  <2> HIDE DEF ws2
  <2> QED BY <1>2 DEF Applied
<1>4. CASE w.half = h
  <2>1. Len(ws) + 1 \in At(ws2) /\ \A j \in At(ws2) : j <= Len(ws) + 1
    BY <1>1, <1>4
  <2>2. \A i \in At(ws2) : (\A j \in At(ws2) : j <= i) => i = Len(ws) + 1
    BY <1>1, <2>1
  <2>3. Latest(ws2) = Len(ws) + 1
    <3> HIDE DEF At, ws2
    <3> QED BY <2>1, <2>2
  <2> HIDE DEF At, Latest
  <2> QED
    BY <1>1, <1>3, <1>4, <2>1, <2>3
<1>5. CASE w.half # h
  <2>1. At(ws2) = At(ws)
    BY <1>1, <1>5
  <2>2. Latest(ws2) = Latest(ws)
    BY <2>1
  <2>3. At(ws) # {} => Latest(ws) \in DOMAIN ws
    <3> SUFFICES ASSUME At(ws) # {} PROVE Latest(ws) \in At(ws)
      OBVIOUS
    <3>1. \E i \in At(ws) : \A j \in At(ws) : j <= i
      <4>1. At(ws) \in SUBSET (1 .. Len(ws))
        BY <1>1
      <4> HIDE DEF At
      <4> QED BY <1>1, <4>1, LastPosition
    <3> HIDE DEF At
    <3> QED BY <3>1
  <2> HIDE DEF At, Latest
  <2> QED
    BY <1>1, <1>3, <1>5, <2>1, <2>2, <2>3
<1> QED
  BY <1>4, <1>5

\* What is on a half page is what was there or what some write put there.
LEMMA AppliedSome ==
  ASSUME NEW mem, MemoryTyped(mem), NEW ws \in Seq(GoodWrites), NEW h \in Halves
  PROVE  \/ Applied(mem, ws)[h] = mem[h] /\ \A i \in DOMAIN ws : ws[i].half # h
         \/ \E i \in DOMAIN ws : ws[i].half = h /\ Applied(mem, ws)[h] = ws[i].data
<1> DEFINE at == {i \in DOMAIN ws : ws[i].half = h}
           latest == CHOOSE i \in at : \A j \in at : j <= i
<1>1. DOMAIN mem = Halves
  BY DEF MemoryTyped
<1>2. Applied(mem, ws)[h] = IF at = {} THEN mem[h] ELSE ws[latest].data
  BY <1>1 DEF Applied
<1>3. at \in SUBSET (1 .. Len(ws)) /\ Len(ws) \in Nat
  OBVIOUS
<1>4. at # {} => latest \in at
  <2> SUFFICES ASSUME at # {} PROVE latest \in at
    OBVIOUS
  <2> HIDE DEF at
  <2> QED
    BY <1>3, LastPosition
<1> QED
  BY <1>2, <1>4

\* Memory keeps its types, and what is not blank stays so.
LEMMA AppliedTyped ==
  ASSUME NEW mem, MemoryTyped(mem), NEW ws \in Seq(GoodWrites)
  PROVE  /\ MemoryTyped(Applied(mem, ws))
         /\ \A h \in Halves : mem[h] # Blank => Applied(mem, ws)[h] # Blank
<1> DEFINE app == Applied(mem, ws)
<1>1. app = [h \in Halves |-> app[h]]
  BY DEF Applied, MemoryTyped
<1>2. \A i \in DOMAIN ws : ws[i] \in GoodWrites
  OBVIOUS
<1>3. \A w \in GoodWrites :
        \/ w.half = MagicHalf /\ w.data = "magic"
        \/ w.half = LastHalf /\ w.data \in Settings
        \/ \E p \in Pages : w.half = Half(p) /\ w.data \in Sound
  BY WriteParts DEF GoodWrites
<1>4. \A w \in GoodWrites : w.data # Blank
  BY <1>3, BlankAssumption
<1>5. \A h \in Halves : app[h] = mem[h] \/ \E w \in GoodWrites : w.half = h /\ app[h] = w.data
  <2> HIDE DEF app
  <2> SUFFICES ASSUME NEW h \in Halves
               PROVE  app[h] = mem[h] \/ \E w \in GoodWrites : w.half = h /\ app[h] = w.data
    OBVIOUS
  <2> QED
    BY <1>2, AppliedSome DEF app
<1> HIDE DEF app
<1>6. app[MagicHalf] \in {Blank, "magic"} /\ app[LastHalf] \in Settings \cup {Blank}
  BY <1>3, <1>5, HalvesApart DEF MemoryTyped
<1>7. ASSUME NEW p \in Pages PROVE app[Half(p)] \in Sound \cup {Blank}
  <2>1. mem[Half(p)] \in Sound \cup {Blank} /\ Half(p) \in Halves
    BY HalvesApart DEF MemoryTyped
  <2>2. ASSUME NEW w \in GoodWrites, w.half = Half(p) PROVE w.data \in Sound
    BY <1>3, <2>2, HalvesApart
  <2> QED BY <1>5, <2>1, <2>2
<1>8. \A h \in Halves : mem[h] # Blank => app[h] # Blank
  BY <1>4, <1>5
<1> QED
  BY <1>1, <1>6, <1>7, <1>8 DEF MemoryTyped, app

LEMMA WritesGood ==
  /\ \A s \in Settings : SettingsWrites(s) \in Seq(GoodWrites)
  /\ \A page, s : s \in Sound => PresetWrites(page, s) \in Seq(GoodWrites)
  /\ sound \in Sound => ManualWrites \in Seq(GoodWrites)
<1>1. ASSUME NEW s \in Settings PROVE SettingsWrites(s) \in Seq(GoodWrites)
  BY DEF SettingsWrites, GoodWrites
<1>2. ASSUME NEW page, NEW s \in Sound PROVE PresetWrites(page, s) \in Seq(GoodWrites)
  <2>1. page \in Pages => Write(Half(page), s) \in GoodWrites
    BY DEF GoodWrites
  <2> HIDE DEF GoodWrites
  <2> QED
    BY <2>1 DEF PresetWrites
<1> QED
  BY <1>1, <1>2 DEF ManualWrites

\* Settings are whole once both writes are made, and no page changes with them.
LEMMA SettingsStored ==
  ASSUME NEW mem, MemoryTyped(mem), NEW ws \in Seq(GoodWrites), NEW s \in Settings
  PROVE  /\ ws \o SettingsWrites(s) \in Seq(GoodWrites)
         /\ Applied(mem, ws \o SettingsWrites(s))[MagicHalf] # Blank
         /\ Applied(mem, ws \o SettingsWrites(s))[LastHalf] = s
         /\ \A p \in Pages : Applied(mem, ws \o SettingsWrites(s))[Half(p)]
                               = Applied(mem, ws)[Half(p)]
<1> DEFINE a == Write(MagicHalf, "magic")
           b == Write(LastHalf, s)
<1>1. a \in GoodWrites /\ b \in GoodWrites
  BY DEF GoodWrites
<1>2. a.half = MagicHalf /\ a.data = "magic" /\ b.half = LastHalf /\ b.data = s
  BY WriteParts
<1>3. ws \o SettingsWrites(s) = Append(Append(ws, a), b)
  <2>1. SettingsWrites(s) = <<a, b>>
    BY DEF SettingsWrites
  <2> HIDE DEF a, b
  <2> QED
    BY <1>1, <2>1
<1> HIDE DEF a, b
<1>4. Append(ws, a) \in Seq(GoodWrites) /\ Append(Append(ws, a), b) \in Seq(GoodWrites)
  BY <1>1
<1>5. \A h \in Halves : Applied(mem, ws \o SettingsWrites(s))[h] =
        IF h = LastHalf THEN s ELSE IF h = MagicHalf THEN "magic" ELSE Applied(mem, ws)[h]
  <2> SUFFICES ASSUME NEW h \in Halves
               PROVE  Applied(mem, Append(Append(ws, a), b))[h] =
                        IF h = LastHalf THEN s
                        ELSE IF h = MagicHalf THEN "magic" ELSE Applied(mem, ws)[h]
    BY <1>3
  <2>1. Applied(mem, Append(Append(ws, a), b))[h] =
          IF b.half = h THEN b.data ELSE Applied(mem, Append(ws, a))[h]
    BY <1>1, <1>4, AppliedAppend, ZenonT(40)
  <2>2. Applied(mem, Append(ws, a))[h] = IF a.half = h THEN a.data ELSE Applied(mem, ws)[h]
    BY <1>1, AppliedAppend
  <2> QED
    BY <1>2, <2>1, <2>2
<1> QED
  BY <1>3, <1>4, <1>5, HalvesApart, BlankAssumption

\* A preset is stored on its page.
LEMMA PresetStored ==
  ASSUME NEW mem, MemoryTyped(mem), NEW ws \in Seq(GoodWrites), NEW page, NEW s \in Sound
  PROVE  /\ ws \o PresetWrites(page, s) \in Seq(GoodWrites)
         /\ \A p \in Pages : Applied(mem, ws \o PresetWrites(page, s))[Half(p)]
                               = IF p = page THEN s ELSE Applied(mem, ws)[Half(p)]
<1>1. CASE page \notin Pages
  <2>1. ws \o PresetWrites(page, s) = ws
    BY <1>1 DEF PresetWrites
  <2> QED
    BY <1>1, <2>1
<1>2. CASE page \in Pages
  <2> DEFINE a == Write(Half(page), s)
  <2>1. a \in GoodWrites /\ a.half = Half(page) /\ a.data = s
    BY <1>2, WriteParts DEF GoodWrites
  <2>2. ws \o PresetWrites(page, s) = Append(ws, a)
    <3>1. PresetWrites(page, s) = <<a>>
      BY <1>2 DEF PresetWrites
    <3> HIDE DEF a
    <3> QED
      BY <2>1, <3>1
  <2> HIDE DEF a
  <2> QED
    BY <1>2, <2>1, <2>2, AppliedAppend, HalvesApart
<1> QED
  BY <1>1, <1>2

\* A handler's writes keep the memory's types, whether or not the power goes.
LEMMA CommitTyped ==
  ASSUME MemoryTyped(memory), NEW ws \in Seq(GoodWrites), Commit(ws)
  PROVE  /\ MemoryTyped(memory')
         /\ on' \in BOOLEAN
         /\ on' => memory' = Applied(memory, ws)
         /\ \A h \in Halves : memory[h] # Blank => memory'[h] # Blank
<1>1. CASE memory' = Applied(memory, ws) /\ on' = TRUE
  BY <1>1, AppliedTyped
<1>2. CASE /\ \E k \in 1 .. Len(ws) - 1 : memory' = Applied(memory, SubSeq(ws, 1, k))
           /\ on' = FALSE
  <2>1. PICK k \in 1 .. Len(ws) - 1 : memory' = Applied(memory, SubSeq(ws, 1, k))
    BY <1>2
  <2>2. SubSeq(ws, 1, k) \in Seq(GoodWrites)
    OBVIOUS
  <2> QED
    BY <1>2, <2>1, <2>2, AppliedTyped
<1> QED
  BY <1>1, <1>2 DEF Commit

-----------------------------------------------------------------------------
(* What handlers do to the memory *)

\* The writes of presets.
PageWrites == {Write(Half(p), s) : p \in Pages, s \in Sound}

LEMMA PagesWritten ==
  /\ \A page, s : s \in Sound => PresetWrites(page, s) \in Seq(PageWrites)
  /\ sound \in Sound => ManualWrites \in Seq(PageWrites)
  /\ <<>> \in Seq(PageWrites)
  /\ \A ws \in Seq(PageWrites) : ws \in Seq(GoodWrites)
  /\ \A w \in PageWrites : w.half # LastHalf
<1>1. ASSUME NEW page, NEW s \in Sound PROVE PresetWrites(page, s) \in Seq(PageWrites)
  <2>1. page \in Pages => Write(Half(page), s) \in PageWrites
    BY DEF PageWrites
  <2> HIDE DEF PageWrites
  <2> QED
    BY <2>1 DEF PresetWrites
<1>2. sound \in Sound => ManualWrites \in Seq(PageWrites)
  BY <1>1 DEF ManualWrites
<1>3. PageWrites \subseteq GoodWrites
  BY DEF PageWrites, GoodWrites
<1>4. \A ws \in Seq(PageWrites) : ws \in Seq(GoodWrites)
  BY <1>3
<1>5. ASSUME NEW w \in PageWrites PROVE w.half # LastHalf
  BY WriteParts, HalvesApart DEF PageWrites
<1> QED
  BY <1>1, <1>2, <1>4, <1>5

\* A step keeps the memory's types and what is not blank, and the power never
\* goes with settings half written.
StoreStep ==
  /\ MemoryTyped(memory') /\ on' \in BOOLEAN
  /\ \A h \in Halves : memory[h] # Blank => memory'[h] # Blank
  /\ ~on' /\ memory[MagicHalf] # Blank => memory'[LastHalf] = memory[LastHalf]

\* A commit that is cut short keeps the settings if only its last write may be
\* to them.
LEMMA CutKeepsSettings ==
  ASSUME MemoryTyped(memory), NEW ws \in Seq(GoodWrites), Commit(ws), on' # TRUE,
         \A i \in 1 .. Len(ws) - 1 : ws[i].half # LastHalf
  PROVE  memory'[LastHalf] = memory[LastHalf]
<1>1. PICK k \in 1 .. Len(ws) - 1 : memory' = Applied(memory, SubSeq(ws, 1, k))
  BY DEF Commit
<1> DEFINE cut == SubSeq(ws, 1, k)
<1>2. cut \in Seq(GoodWrites)
  OBVIOUS
<1>3. \A i \in DOMAIN cut : cut[i].half # LastHalf
  OBVIOUS
<1>4. memory' = Applied(memory, cut)
  BY <1>1
<1> HIDE DEF cut
<1>5. Applied(memory, cut)[LastHalf] = memory[LastHalf]
  <2>1. LastHalf \in Halves
    BY HalvesApart
  <2> QED
    BY <1>2, <1>3, <2>1, AppliedSome
<1> QED
  BY <1>4, <1>5

LEMMA CommitPages ==
  ASSUME MemoryTyped(memory), NEW ws \in Seq(PageWrites), Commit(ws)
  PROVE  StoreStep /\ (on' => memory' = Applied(memory, ws))
<1>1. ws \in Seq(GoodWrites)
  BY PagesWritten
<1>2. \A i \in 1 .. Len(ws) - 1 : ws[i].half # LastHalf
  <2>1. \A i \in 1 .. Len(ws) - 1 : ws[i] \in PageWrites
    OBVIOUS
  <2> QED
    BY <2>1, PagesWritten
<1> QED
  BY <1>1, <1>2, CommitTyped, CutKeepsSettings DEF StoreStep

LEMMA CommitSettings ==
  ASSUME MemoryTyped(memory), NEW ws \in Seq(PageWrites), NEW s \in Settings,
         Commit(ws \o SettingsWrites(s))
  PROVE  /\ StoreStep
         /\ on' => /\ memory'[MagicHalf] # Blank /\ memory'[LastHalf] # Blank
                   /\ \A p \in Pages : memory'[Half(p)] = Applied(memory, ws)[Half(p)]
<1> DEFINE all == ws \o SettingsWrites(s)
<1>1. ws \in Seq(GoodWrites)
  BY PagesWritten
<1>2. /\ all \in Seq(GoodWrites)
      /\ Applied(memory, all)[MagicHalf] # Blank /\ Applied(memory, all)[LastHalf] = s
      /\ \A p \in Pages : Applied(memory, all)[Half(p)] = Applied(memory, ws)[Half(p)]
  BY <1>1, SettingsStored
<1>3. ASSUME NEW i \in 1 .. Len(all) - 1 PROVE all[i].half # LastHalf
  <2> DEFINE a == Write(MagicHalf, "magic")
             b == Write(LastHalf, s)
  <2>1. SettingsWrites(s) = <<a, b>>
    BY DEF SettingsWrites
  <2>2. a.half # LastHalf
    BY WriteParts, HalvesApart
  <2> HIDE DEF a, b
  <2>3. Len(all) = Len(ws) + 2 /\ Len(ws) \in Nat
    BY <2>1
  <2>4. CASE i \in 1 .. Len(ws)
    <3>1. all[i] = ws[i] /\ ws[i] \in PageWrites
      BY <2>1, <2>4
    <3> QED
      BY <3>1, PagesWritten
  <2>5. CASE i = Len(ws) + 1
    <3>1. all[i] = a
      BY <2>1, <2>3, <2>5
    <3> QED
      BY <2>2, <3>1
  <2> QED
    BY <2>3, <2>4, <2>5
<1>4. Commit(all)
  OBVIOUS
<1> HIDE DEF all
<1>5. on' => memory' = Applied(memory, all)
  BY <1>2, <1>4, CommitTyped
<1>6. StoreStep
  BY <1>2, <1>3, <1>4, CommitTyped, CutKeepsSettings DEF StoreStep
<1> QED
  BY <1>2, <1>5, <1>6, BlankAssumption

\* Nothing to write.
LEMMA StoreUnchanged ==
  ASSUME MemoryTyped(memory), memory' = memory, on' \in BOOLEAN
  PROVE  StoreStep
BY DEF StoreStep

LEMMA CommitNothing ==
  ASSUME MemoryTyped(memory), Commit(<<>>)
  PROVE  StoreStep /\ memory' = memory /\ on'
<1>1. on' = TRUE /\ memory' = Applied(memory, <<>>)
  BY DEF Commit
<1> QED
  BY <1>1, AppliedNothing, StoreUnchanged

\* One preset is stored, and no other page changes.
LEMMA PresetAlone ==
  ASSUME NEW mem, MemoryTyped(mem), NEW page, NEW s \in Sound, NEW p \in Pages
  PROVE  Applied(mem, PresetWrites(page, s))[Half(p)] = IF p = page THEN s ELSE mem[Half(p)]
<1> DEFINE none == <<>>
<1>1. none \in Seq(GoodWrites) /\ Applied(mem, none) = mem
  BY PagesWritten, AppliedNothing
<1>2. PresetWrites(page, s) \in Seq(PageWrites)
  BY PagesWritten
<1>3. none \o PresetWrites(page, s) = PresetWrites(page, s)
  BY <1>2
<1> HIDE DEF none
<1>4. \A q \in Pages : Applied(mem, none \o PresetWrites(page, s))[Half(q)]
                        = IF q = page THEN s ELSE Applied(mem, none)[Half(q)]
  BY <1>1, PresetStored
<1> QED
  BY <1>1, <1>3, <1>4

LEMMA CommitPreset ==
  ASSUME MemoryTyped(memory), NEW page, NEW s \in Sound, Commit(PresetWrites(page, s))
  PROVE  /\ StoreStep
         /\ on' => \A p \in Pages : memory'[Half(p)] = IF p = page THEN s ELSE memory[Half(p)]
BY PagesWritten, PresetAlone, CommitPages

\* The live patch is saved before it is left.
LEMMA ManualSaved ==
  ASSUME MemoryTyped(memory), sound \in Sound, NEW p \in Pages
  PROVE  Applied(memory, ManualWrites)[Half(p)]
           = IF ~settings.presetMode /\ p = Manual THEN sound ELSE memory[Half(p)]
BY PresetAlone, AppliedNothing DEF ManualWrites

LEMMA CommitSettingsAlone ==
  ASSUME MemoryTyped(memory), NEW s \in Settings, Commit(SettingsWrites(s))
  PROVE  /\ StoreStep
         /\ on' => /\ memory'[MagicHalf] # Blank /\ memory'[LastHalf] # Blank
                   /\ \A p \in Pages : memory'[Half(p)] = memory[Half(p)]
<1> DEFINE none == <<>>
<1>1. none \in Seq(PageWrites) /\ Applied(memory, none) = memory
  BY PagesWritten, AppliedNothing
<1>2. none \o SettingsWrites(s) = SettingsWrites(s)
  BY DEF SettingsWrites
<1> HIDE DEF none
<1> QED
  BY <1>1, <1>2, CommitSettings

-----------------------------------------------------------------------------
(* What is loaded *)

LEMMA BasicTyped == BasicSound \in Sound /\ SilentSound \in Sound
BY BasicAssumption DEF BasicSound, SilentSound, Sound

\* refreshPresetMode leaves the selected preset, if it is on a page and not
\* blank, or in live mode the panel and the parameters of the manual page.
LEMMA RefreshEffect ==
  ASSUME NEW mem, MemoryTyped(mem), NEW s \in Settings, panel \in Positions,
         RefreshPresetMode(mem, s)
  PROVE  /\ sound' \in Sound
         /\ presetModified' = FALSE /\ unmarked' = FALSE /\ relaid' = FALSE
         /\ s.presetMode /\ s.presetNumber \in Pages => mem[Half(s.presetNumber)] \in {Blank, sound'}
         /\ ~s.presetMode => /\ sound'.panel = panel
                             /\ mem[Half(Manual)] # Blank => sound'.menu = mem[Half(Manual)].menu
<1> DEFINE page == IF s.presetMode THEN s.presetNumber ELSE Manual
<1>1. PICK r \in Found(mem, page) :
        LET loaded == IF r = Blank THEN BasicSound ELSE r IN
        sound' = IF s.presetMode THEN loaded ELSE [loaded EXCEPT !.panel = panel]
  BY DEF RefreshPresetMode
<1> DEFINE loaded == IF r = Blank THEN BasicSound ELSE r
<1>2. r \in Sound \cup {Blank} /\ (page \in Pages => r = mem[Half(page)])
  BY DEF Found, MemoryTyped
<1>3. loaded \in Sound /\ (r # Blank => loaded = r)
  BY <1>2, BasicTyped
<1>4. sound' = IF s.presetMode THEN loaded ELSE [loaded EXCEPT !.panel = panel]
  BY <1>1
<1> HIDE DEF loaded
<1>7. presetModified' = FALSE /\ unmarked' = FALSE /\ relaid' = FALSE
  BY DEF RefreshPresetMode, Unmodified
<1>5. CASE s.presetMode
  BY <1>2, <1>3, <1>4, <1>5, <1>7
<1>6. CASE ~s.presetMode
  <2>1. sound' = [panel |-> panel, menu |-> loaded.menu] /\ sound' \in Sound
    BY <1>3, <1>4, <1>6 DEF Sound
  <2>2. mem[Half(Manual)] # Blank => sound'.menu = mem[Half(Manual)].menu
    BY <1>2, <1>3, <1>6, <2>1, NumbersInPages
  <2> QED
    BY <1>6, <1>7, <2>1, <2>2
<1> QED
  BY <1>5, <1>6

\* A handler ends in refreshPresetMode, with the presets as it leaves them.
Reloads ==
  \E mem : /\ MemoryTyped(mem) /\ RefreshPresetMode(mem, settings')
           /\ on' => \A p \in Pages : memory'[Half(p)] = mem[Half(p)]

LEMMA ReloadsEffect ==
  ASSUME settings' \in Settings, panel \in Positions, Reloads
  PROVE  /\ sound' \in Sound
         /\ presetModified' = FALSE /\ unmarked' = FALSE /\ relaid' = FALSE
         /\ on' /\ settings'.presetMode /\ settings'.presetNumber \in Pages
              => memory'[Half(settings'.presetNumber)] \in {Blank, sound'}
         /\ ~settings'.presetMode => sound'.panel = panel
         /\ on' /\ ~settings'.presetMode /\ memory'[Half(Manual)] # Blank
              => sound'.menu = memory'[Half(Manual)].menu
<1>1. PICK mem : /\ MemoryTyped(mem) /\ RefreshPresetMode(mem, settings')
                 /\ on' => \A p \in Pages : memory'[Half(p)] = mem[Half(p)]
  BY DEF Reloads
<1>2. /\ sound' \in Sound
      /\ presetModified' = FALSE /\ unmarked' = FALSE /\ relaid' = FALSE
      /\ settings'.presetMode /\ settings'.presetNumber \in Pages
           => mem[Half(settings'.presetNumber)] \in {Blank, sound'}
      /\ ~settings'.presetMode => /\ sound'.panel = panel
                                  /\ mem[Half(Manual)] # Blank
                                       => sound'.menu = mem[Half(Manual)].menu
  BY <1>1, RefreshEffect
<1> QED
  BY <1>1, <1>2, NumbersInPages

-----------------------------------------------------------------------------
(* Types and what is stored *)

\* All of TypeOK but the memory.
VolatileTyped ==
  /\ on \in BOOLEAN
  /\ settings \in Settings
  /\ sound \in Sound /\ panel \in Positions
  /\ digitInput \in Digits
  /\ presetAwaitingNumber \in {-1} \cup Tens
  /\ presetModified \in BOOLEAN /\ unmarked \in BOOLEAN /\ relaid \in BOOLEAN
  /\ isShifted \in BOOLEAN /\ isInPatchManagement \in BOOLEAN
  /\ menuParamSelectChange \in BOOLEAN
  /\ main \in [pc : Steps, number : Numbers]
  /\ live \in Menus

\* The magic number promises settings, and an instrument that is on has both
\* them and a manual page.
BootInv ==
  /\ memory[MagicHalf] # Blank => memory[LastHalf] # Blank
  /\ on => memory[MagicHalf] # Blank /\ memory[Half(Manual)] # Blank

PresetsInv == MemoryTyped(memory) /\ VolatileTyped /\ BootInv

\* An instrument that was on has kept its settings and its manual page.
LEMMA BootKept ==
  ASSUME PresetsInv, on, StoreStep
  PROVE  BootInv'
BY HalvesApart, NumbersInPages DEF PresetsInv, BootInv, StoreStep

LEMMA SoundTyped ==
  ASSUME NEW s \in Sound, NEW p \in Positions, NEW m \in Menus
  PROVE  /\ [s EXCEPT !.panel = p] \in Sound /\ [s EXCEPT !.menu = m] \in Sound
         /\ [panel |-> p, menu |-> m] \in Sound
         /\ s.panel \in Positions /\ s.menu \in Menus
BY DEF Sound

LEMMA HomeTyped ==
  ASSUME NEW mode
  PROVE  Home(mode) \in Digits
BY DEF Home, Digits

LEMMA IdleTyped ==
  /\ 0 \in Numbers /\ Idle \in [pc : Steps, number : Numbers]
  /\ \A pc \in Steps, n \in Numbers : [pc |-> pc, number |-> n] \in [pc : Steps, number : Numbers]
<1>1. 10 * 0 + 0 \in Numbers
  BY DigitsAssumption DEF Numbers
<1>2. 0 \in Numbers
  BY <1>1
<1> QED
  BY <1>2 DEF Idle, Steps

\* The numbers that settings hold.
Word == 0 .. 65535

LEMMA BelowTop ==
  ASSUME NEW top \in Nat, NEW x \in Nat, x <= top
  PROVE  x \in 0 .. top
OBVIOUS

LEMMA InWord ==
  ASSUME NEW x \in Nat, x < 65536
  PROVE  x \in Word
<1> DEFINE top == 65535
<1>1. top \in Nat /\ x <= top
  OBVIOUS
<1>2. Word = 0 .. top
  BY DEF Word
<1> HIDE DEF top
<1> QED
  BY <1>1, <1>2, BelowTop

LEMMA SettingsOfWords ==
  /\ Settings = [presetNumber : Word, presetMode : BOOLEAN]
  /\ \A s \in Settings, n \in Word :
       /\ [s EXCEPT !.presetNumber = n] \in Settings
       /\ [s EXCEPT !.presetNumber = n].presetMode = s.presetMode
  /\ \A s \in Settings, b \in BOOLEAN :
       /\ [s EXCEPT !.presetMode = b] \in Settings
       /\ [s EXCEPT !.presetMode = b].presetNumber = s.presetNumber
<1>1. Settings = [presetNumber : Word, presetMode : BOOLEAN]
  BY DEF Settings, Word
<1> QED
  BY <1>1

\* The number that two digits make, or one after none, is never the manual
\* page's.
LEMMA EnteredNumber ==
  ASSUME NEW tens \in {-1} \cup Tens, NEW units \in Units
  PROVE  /\ (10 * tens + units) % 65536 \in Word
         /\ (10 * tens + units) % 65536 # Manual
<1>1. tens \in -1 .. 9 /\ units \in 0 .. 9
  BY DigitsAssumption
<1> DEFINE joined == 10 * tens + units
<1>2. joined \in -10 .. -1 \/ joined \in 0 .. 99
  BY <1>1
<1>3. \A x \in 0 .. 99 : x % 65536 = x
  OBVIOUS
<1>4. \A x \in -10 .. -1 : x % 65536 = x + 65536
  OBVIOUS
<1> DEFINE number == joined % 65536
<1>5. number \in Nat /\ number < 65536 /\ number # 219
  <2> HIDE DEF joined
  <2> QED
    BY <1>2, <1>3, <1>4
<1> HIDE DEF number
<1>6. number \in Word /\ number # Manual
  BY <1>5, InWord DEF Manual
<1> QED
  BY <1>6 DEF number

\* A second digit keeps the mode. In preset mode the manual page stays, and
\* what is stored from live mode goes on playing.
LEMMA UnitEffect ==
  ASSUME PresetsInv, NEW d \in Units, EnterUnit(d)
  PROVE  /\ StoreStep /\ settings' \in Settings /\ settings'.presetMode = settings.presetMode
         /\ digitInput' \in {"storeDecade", Home(settings.presetMode)}
         /\ \/ UNCHANGED <<storeVars, settings, patchVars>>
            \/ /\ Reloads
               /\ on' /\ settings.presetMode => memory'[Half(Manual)] = memory[Half(Manual)]
               /\ on' /\ ~settings.presetMode /\ digitInput = "storeUnit"
                    => memory'[Half(Manual)] = sound
<1> DEFINE number == (10 * presetAwaitingNumber + d) % 65536
           storing == digitInput = "storeUnit"
           stores == IF storing THEN ManualWrites \o PresetWrites(number, sound) ELSE <<>>
           mem == Applied(memory, stores)
<1>1. /\ MemoryTyped(memory) /\ sound \in Sound /\ settings \in Settings /\ panel \in Positions
      /\ on \in BOOLEAN /\ presetAwaitingNumber \in {-1} \cup Tens
  BY DEF PresetsInv, VolatileTyped
<1>5. number \in Word /\ number # Manual
  BY <1>1, EnteredNumber
<1>2. digitInput' \in {"storeDecade", Home(settings.presetMode)}
  BY DEF EnterUnit
<1>3. CASE isInPatchManagement
  <2>1. UNCHANGED <<storeVars, settings, patchVars>>
    BY <1>3 DEF EnterUnit
  <2>2. memory' = memory /\ on' = on /\ settings' = settings
    BY <2>1 DEF storeVars
  <2>3. StoreStep
    BY <1>1, <2>2, StoreUnchanged
  <2> QED
    BY <1>1, <1>2, <2>1, <2>2, <2>3
<1>4. CASE ~isInPatchManagement
  <2>1. PICK r \in Found(mem, number) :
          /\ settings' = IF r = Blank THEN settings
                         ELSE [settings EXCEPT !.presetNumber = number]
          /\ Commit(IF r = Blank \/ storing THEN stores ELSE SettingsWrites(settings'))
          /\ RefreshPresetMode(mem, settings')
    BY <1>4 DEF EnterUnit
  <2>2. stores \in Seq(PageWrites)
    <3> HIDE DEF number
    <3>1. ManualWrites \in Seq(PageWrites) /\ PresetWrites(number, sound) \in Seq(PageWrites)
      BY <1>1, PagesWritten
    <3> QED
      BY <3>1
  <2> HIDE DEF number, stores
  <2>3. MemoryTyped(mem)
    BY <1>1, <2>2, PagesWritten, AppliedTyped
  <2>4. settings' \in Settings /\ settings'.presetMode = settings.presetMode
    BY <1>1, <1>5, <2>1, SettingsOfWords
  <2>5. ~storing => mem = memory
    BY <1>1, AppliedNothing DEF stores
  <2>6. StoreStep /\ (on' => \A p \in Pages : memory'[Half(p)] = mem[Half(p)])
    <3>1. CASE r = Blank \/ storing
      <4>1. Commit(stores)
        BY <2>1, <3>1
      <4> QED
        BY <1>1, <2>2, <4>1, CommitPages
    <3>2. CASE ~(r = Blank \/ storing)
      <4>1. Commit(SettingsWrites(settings'))
        BY <2>1, <3>2
      <4> QED
        <5>1. StoreStep /\ (on' => \A p \in Pages : memory'[Half(p)] = memory[Half(p)])
          BY <1>1, <2>4, <4>1, CommitSettingsAlone
        <5>2. mem = memory
          BY <2>5, <3>2
        <5> HIDE DEF mem
        <5> QED
          BY <5>1, <5>2
    <3> QED
      BY <3>1, <3>2
  <2>7. Reloads
    BY <2>1, <2>3, <2>6 DEF Reloads
  <2>8. storing => mem[Half(Manual)] = Applied(memory, ManualWrites)[Half(Manual)]
    <3>1. ManualWrites \in Seq(GoodWrites)
      BY <1>1, PagesWritten
    <3>2. storing => mem = Applied(memory, ManualWrites \o PresetWrites(number, sound))
      BY DEF stores
    <3>3. Applied(memory, ManualWrites \o PresetWrites(number, sound))[Half(Manual)]
            = IF Manual = number THEN sound ELSE Applied(memory, ManualWrites)[Half(Manual)]
      <4>1. Manual \in Pages
        BY NumbersInPages
      <4> QED
        BY <1>1, <3>1, <4>1, PresetStored
    <3> QED
      BY <1>5, <3>2, <3>3
  <2>9. mem[Half(Manual)] = IF storing /\ ~settings.presetMode THEN sound ELSE memory[Half(Manual)]
    BY <1>1, <2>5, <2>8, ManualSaved, NumbersInPages
  <2> QED
    BY <1>2, <2>4, <2>6, <2>7, <2>9, NumbersInPages
<1> QED
  BY <1>3, <1>4

\* The Preset button turns the mode over; the live patch is saved when it is
\* left. In patch management it only loads what is selected.
LEMMA PresetButtonEffect ==
  ASSUME PresetsInv, ButtonPreset
  PROVE  /\ StoreStep /\ settings' \in Settings /\ Reloads
         /\ digitInput' \in {"storeDecade", Home(settings'.presetMode)}
         /\ \/ memory' = memory /\ on' = on /\ settings' = settings /\ live' = Abandoned
            \/ /\ settings'.presetMode = ~settings.presetMode /\ live' = live
               /\ on' => memory'[Half(Manual)] = IF settings.presetMode
                                                 THEN memory[Half(Manual)] ELSE sound
<1>1. /\ MemoryTyped(memory) /\ sound \in Sound /\ settings \in Settings /\ panel \in Positions
      /\ on \in BOOLEAN
  BY DEF PresetsInv, VolatileTyped
<1>2. CASE isInPatchManagement
  <2>1. /\ digitInput' = "storeDecade" /\ RefreshPresetMode(memory, settings)
        /\ live' = Abandoned /\ UNCHANGED <<storeVars, settings>>
    BY <1>2 DEF ButtonPreset
  <2>2. memory' = memory /\ on' = on /\ settings' = settings
    BY <2>1 DEF storeVars
  <2>3. StoreStep
    BY <1>1, <2>2, StoreUnchanged
  <2>4. Reloads
    BY <1>1, <2>1, <2>2 DEF Reloads
  <2> QED
    BY <1>1, <2>1, <2>2, <2>3, <2>4
<1>3. CASE ~isInPatchManagement
  <2> DEFINE mem == Applied(memory, ManualWrites)
  <2>1. /\ settings' = [settings EXCEPT !.presetMode = ~@]
        /\ digitInput' = Home(settings'.presetMode)
        /\ RefreshPresetMode(mem, settings')
        /\ Commit(ManualWrites \o SettingsWrites(settings'))
        /\ live' = live
    BY <1>3 DEF ButtonPreset
  <2>2. settings' \in Settings /\ settings'.presetMode = ~settings.presetMode
    <3>1. settings.presetMode \in BOOLEAN
      BY <1>1, SettingsOfWords
    <3>2. settings' = [settings EXCEPT !.presetMode = ~settings.presetMode]
      BY <2>1
    <3>3. (~settings.presetMode) \in BOOLEAN
      BY <3>1
    <3>4. settings' \in Settings
      BY <1>1, <3>2, <3>3, SettingsOfWords
    <3>5. settings'.presetMode = ~settings.presetMode
      BY <1>1, <3>2, SettingsOfWords
    <3> QED
      BY <3>4, <3>5
  <2>3. ManualWrites \in Seq(PageWrites) /\ MemoryTyped(mem)
    BY <1>1, PagesWritten, AppliedTyped
  <2>4. StoreStep /\ (on' => \A p \in Pages : memory'[Half(p)] = mem[Half(p)])
    BY <1>1, <2>1, <2>2, <2>3, CommitSettings
  <2>5. mem[Half(Manual)] = IF settings.presetMode THEN memory[Half(Manual)] ELSE sound
    BY <1>1, ManualSaved, NumbersInPages
  <2> HIDE DEF mem
  <2>6. Reloads
    BY <2>1, <2>3, <2>4 DEF Reloads
  <2> QED
    BY <2>1, <2>2, <2>4, <2>5, <2>6, NumbersInPages
<1> QED
  BY <1>2, <1>3

\* Bank select turns the mode over and leaves the presets as they are.
LEMMA BankSelectEffect ==
  ASSUME PresetsInv, BankSelect
  PROVE  /\ StoreStep /\ settings' \in Settings /\ Reloads
         /\ digitInput' = Home(settings'.presetMode)
         /\ settings'.presetMode = ~settings.presetMode /\ live' = Abandoned
         /\ on' => \A p \in Pages : memory'[Half(p)] = memory[Half(p)]
<1>1. /\ MemoryTyped(memory) /\ settings \in Settings
  BY DEF PresetsInv, VolatileTyped
<1>2. /\ settings' = [settings EXCEPT !.presetMode = ~@]
      /\ digitInput' = Home(settings'.presetMode) /\ live' = Abandoned
      /\ RefreshPresetMode(memory, settings')
      /\ Commit(SettingsWrites(settings'))
  BY DEF BankSelect
<1>3. settings' \in Settings /\ settings'.presetMode = ~settings.presetMode
  <2>1. settings.presetMode \in BOOLEAN
    BY <1>1, SettingsOfWords
  <2>2. settings' = [settings EXCEPT !.presetMode = ~settings.presetMode]
    BY <1>2
  <2>3. (~settings.presetMode) \in BOOLEAN
    BY <2>1
  <2>4. settings' \in Settings
    BY <1>1, <2>2, <2>3, SettingsOfWords
  <2>5. settings'.presetMode = ~settings.presetMode
    BY <1>1, <2>2, SettingsOfWords
  <2> QED
    BY <2>4, <2>5
<1>4. StoreStep /\ (on' => \A p \in Pages : memory'[Half(p)] = memory[Half(p)])
  BY <1>1, <1>2, <1>3, CommitSettingsAlone
<1>5. Reloads
  BY <1>1, <1>2, <1>4 DEF Reloads
<1> QED
  BY <1>2, <1>3, <1>4, <1>5

\* A patch that arrives goes to its page alone, and plays from there if it is
\* the selected one; or it goes to the controls of preset mode.
LEMMA ImportEffect ==
  ASSUME PresetsInv, NEW n \in Numbers, NEW s \in Patches, NEW whole, Import(n, s, whole)
  PROVE  /\ StoreStep
         /\ digitInput' \in {"storeDecade", digitInput}
         /\ on' => \A p \in Pages : p # n => memory'[Half(p)] = memory[Half(p)]
         /\ \/ settings.presetMode /\ settings.presetNumber = n /\ Reloads
            \/ /\ UNCHANGED patchVars
               /\ \/ ~(settings.presetMode /\ settings.presetNumber = n)
                  \/ memory' = memory
            \/ settings.presetMode /\ sound' \in Sound /\ Modified /\ relaid' = relaid
<1>1. /\ MemoryTyped(memory) /\ settings \in Settings /\ on \in BOOLEAN
  BY DEF PresetsInv, VolatileTyped
<1>2. s \in Sound
  BY PatchesAssumption
<1>3. digitInput' \in {"storeDecade", digitInput} /\ settings' = settings
  BY DEF Import
<1>4. CASE isInPatchManagement
  <2> DEFINE mem == Applied(memory, PresetWrites(n, s))
  <2>1. /\ IF settings.presetMode /\ settings.presetNumber = n
           THEN RefreshPresetMode(mem, settings) ELSE UNCHANGED patchVars
        /\ Commit(PresetWrites(n, s))
    BY <1>4 DEF Import
  <2>2. MemoryTyped(mem) /\ (on' => memory' = mem)
    BY <1>1, <1>2, <2>1, PagesWritten, AppliedTyped, CommitPages
  <2>3. /\ StoreStep
        /\ on' => \A p \in Pages : memory'[Half(p)] = IF p = n THEN s ELSE memory[Half(p)]
    BY <1>1, <1>2, <2>1, CommitPreset
  <2> HIDE DEF mem
  <2>4. settings.presetMode /\ settings.presetNumber = n => Reloads
    BY <1>3, <2>1, <2>2 DEF Reloads
  <2> QED
    BY <1>3, <2>1, <2>3, <2>4
<1>5. CASE ~isInPatchManagement
  <2>1. UNCHANGED storeVars
    BY <1>5 DEF Import
  <2>2. memory' = memory /\ on' = on
    BY <2>1 DEF storeVars
  <2>3. StoreStep
    BY <1>1, <2>2, StoreUnchanged
  <2>4. \/ settings.presetMode /\ sound' \in Sound /\ Modified /\ relaid' = relaid
        \/ UNCHANGED patchVars
    BY <1>2, <1>5, BasicTyped DEF Import
  <2> QED
    BY <1>3, <2>2, <2>3, <2>4
<1> QED
  BY <1>4, <1>5

\* Boot leaves settings and a manual page, and what is selected plays.
LEMMA BootEffect ==
  ASSUME PresetsInv, Boot
  PROVE  /\ StoreStep /\ settings' \in Settings /\ Reloads
         /\ digitInput' = Home(settings'.presetMode)
         /\ live' \in Menus
         /\ on' => /\ memory'[MagicHalf] # Blank /\ memory'[LastHalf] # Blank
                   /\ memory'[Half(Manual)] # Blank
                   /\ live' = memory'[Half(Manual)].menu
         /\ memory[MagicHalf] = Blank => on'
<1> DEFINE formatted == memory[MagicHalf] # Blank
           loaded == IF formatted THEN LoadedSettings(memory) ELSE DefaultSettings
           manual == IF memory[Half(Manual)] = Blank
                     THEN PresetWrites(Manual, BasicSound) ELSE <<>>
           early == IF formatted THEN <<>> ELSE SettingsWrites(loaded)
           first == early \o manual
           mem == Applied(memory, first)
<1>1. /\ settings' = loaded
      /\ RefreshPresetMode(mem, loaded)
      /\ live' = mem[Half(Manual)].menu
      /\ Commit(first \o SettingsWrites(loaded))
      /\ formatted \/ on'
      /\ digitInput' = Home(loaded.presetMode)
  BY DEF Boot
<1>2. MemoryTyped(memory) /\ on \in BOOLEAN /\ (formatted => memory[LastHalf] \in Settings)
  BY DEF PresetsInv, VolatileTyped, BootInv, MemoryTyped
<1>3. loaded \in Settings
  <2>1. 0 \in Word
    BY InWord
  <2>2. DefaultSettings \in Settings
    BY <2>1, SettingsOfWords DEF DefaultSettings
  <2>3. formatted => LoadedSettings(memory) \in Settings
    <3> SUFFICES ASSUME formatted PROVE LoadedSettings(memory) \in Settings
      OBVIOUS
    <3> DEFINE s == memory[LastHalf]
    <3>1. s \in Settings /\ s.presetNumber \in Word
      BY <1>2, SettingsOfWords
    <3>2. LoadedSettings(memory)
            = [s EXCEPT !.presetNumber = IF s.presetNumber > 99 THEN 0 ELSE s.presetNumber]
      BY DEF LoadedSettings
    <3> HIDE DEF s
    <3> QED
      BY <2>1, <3>1, <3>2, SettingsOfWords
  <2> QED
    BY <2>2, <2>3
<1> HIDE DEF loaded
<1>4. manual \in Seq(PageWrites) /\ manual \in Seq(GoodWrites)
  BY BasicTyped, PagesWritten
<1>5. early \in Seq(GoodWrites) /\ Applied(memory, early)[Half(Manual)] = memory[Half(Manual)]
  <2>1. CASE formatted
    BY <1>2, <2>1, PagesWritten, AppliedNothing
  <2>2. CASE ~formatted
    <3> DEFINE none == <<>>
    <3>1. none \in Seq(GoodWrites) /\ Applied(memory, none) = memory
      BY <1>2, PagesWritten, AppliedNothing
    <3>2. none \o SettingsWrites(loaded) = SettingsWrites(loaded)
      BY DEF SettingsWrites
    <3> HIDE DEF none
    <3>3. /\ none \o SettingsWrites(loaded) \in Seq(GoodWrites)
          /\ \A p \in Pages : Applied(memory, none \o SettingsWrites(loaded))[Half(p)]
                                = Applied(memory, none)[Half(p)]
      BY <1>2, <1>3, <3>1, SettingsStored
    <3> QED
      BY <2>2, <3>1, <3>2, <3>3, NumbersInPages
  <2> QED
    BY <2>1, <2>2
<1> HIDE DEF early
<1>6. first \in Seq(GoodWrites) /\ mem[Half(Manual)] \in Sound
  <2>1. CASE memory[Half(Manual)] = Blank
    <3>1. manual = PresetWrites(Manual, BasicSound)
      BY <2>1
    <3> HIDE DEF manual
    <3>2. \A p \in Pages : Applied(memory, early \o PresetWrites(Manual, BasicSound))[Half(p)]
                             = IF p = Manual THEN BasicSound ELSE Applied(memory, early)[Half(p)]
      BY <1>2, <1>5, BasicTyped, PresetStored
    <3> QED
      BY <1>4, <1>5, <3>1, <3>2, BasicTyped, NumbersInPages
  <2>2. CASE memory[Half(Manual)] # Blank
    <3>1. first = early
      BY <1>5, <2>2
    <3>2. memory[Half(Manual)] \in Sound
      BY <1>2, <2>2, NumbersInPages DEF MemoryTyped
    <3> HIDE DEF first
    <3> QED
      BY <1>5, <3>1, <3>2
  <2> QED
    BY <2>1, <2>2
<1> DEFINE all == first \o SettingsWrites(loaded)
<1>7. formatted => first \in Seq(PageWrites)
  BY <1>4 DEF early
<1> HIDE DEF first, manual
<1>8. MemoryTyped(mem)
  BY <1>2, <1>6, AppliedTyped
<1>9. /\ all \in Seq(GoodWrites)
      /\ Applied(memory, all)[MagicHalf] # Blank /\ Applied(memory, all)[LastHalf] = loaded
      /\ \A p \in Pages : Applied(memory, all)[Half(p)] = mem[Half(p)]
  BY <1>2, <1>3, <1>6, SettingsStored
<1>10. Commit(all)
  BY <1>1
<1> HIDE DEF all
<1>11. /\ MemoryTyped(memory') /\ on' \in BOOLEAN
       /\ on' => memory' = Applied(memory, all)
       /\ \A h \in Halves : memory[h] # Blank => memory'[h] # Blank
  BY <1>2, <1>9, <1>10, CommitTyped
<1>12. StoreStep
  <2>1. CASE formatted
    <3>1. Commit(first \o SettingsWrites(loaded))
      BY <1>1
    <3> QED
      BY <1>2, <1>3, <1>7, <2>1, <3>1, CommitSettings
  <2>2. CASE ~formatted
    BY <1>1, <1>11, <2>2 DEF StoreStep
  <2> QED
    BY <2>1, <2>2
<1> HIDE DEF mem
<1>13. on' => \A p \in Pages : memory'[Half(p)] = mem[Half(p)]
  BY <1>9, <1>11
<1>14. Reloads
  BY <1>1, <1>8, <1>13 DEF Reloads
<1>15. live' \in Menus
  BY <1>1, <1>6 DEF Sound
<1> QED
  BY <1>1, <1>3, <1>6, <1>9, <1>11, <1>12, <1>13, <1>14, <1>15, NumbersInPages, BlankAssumption

\* A step that leaves the memory alone.
LEMMA StoreQuiet ==
  ASSUME PresetsInv, UNCHANGED storeVars
  PROVE  StoreStep /\ MemoryTyped(memory') /\ BootInv'
<1>1. memory' = memory /\ on' = on /\ MemoryTyped(memory) /\ on \in BOOLEAN /\ BootInv
  BY DEF storeVars, PresetsInv, VolatileTyped
<1> QED
  BY <1>1, StoreUnchanged DEF BootInv

\* A step of an instrument that is on.
LEMMA StoreBusy ==
  ASSUME PresetsInv, on, StoreStep, VolatileTyped'
  PROVE  PresetsInv'
<1>1. MemoryTyped(memory')
  BY DEF StoreStep
<1> QED
  BY <1>1, BootKept DEF PresetsInv

LEMMA TypedDigits ==
  ASSUME PresetsInv,
         \/ \E d \in Tens : EnterTens(d)
         \/ \E d \in Units : EnterUnit(d)
         \/ ButtonRecord \/ ButtonToTape \/ ButtonFromTape \/ ButtonSeq \/ ButtonArp
  PROVE  StoreStep /\ PresetsInv'
<1> USE DEF PresetsInv
<1>1. ASSUME NEW d \in Tens, EnterTens(d) PROVE StoreStep /\ PresetsInv'
  <2>1. VolatileTyped'
    BY <1>1 DEF EnterTens, VolatileTyped, storeVars, patchVars, modeVars, Digits
  <2>2. UNCHANGED storeVars
    BY <1>1 DEF EnterTens
  <2> QED
    BY <2>1, <2>2, StoreQuiet
<1>2. ASSUME NEW d \in Units, EnterUnit(d) PROVE StoreStep /\ PresetsInv'
  <2>1. /\ StoreStep /\ settings' \in Settings
        /\ digitInput' \in {"storeDecade", Home(settings.presetMode)}
        /\ UNCHANGED <<storeVars, settings, patchVars>> \/ Reloads
    BY <1>2, UnitEffect
  <2>2. on /\ presetAwaitingNumber' = -1 /\ UNCHANGED <<panel, modeVars, main, live>>
    BY <1>2 DEF EnterUnit, Interrupt
  <2>3. sound' \in Sound /\ {presetModified', unmarked', relaid'} \subseteq BOOLEAN
    <3>1. panel \in Positions /\ sound \in Sound /\ {presetModified, unmarked, relaid} \subseteq BOOLEAN
      BY DEF VolatileTyped
    <3>2. UNCHANGED <<storeVars, settings, patchVars>> =>
            /\ sound' = sound /\ presetModified' = presetModified
            /\ unmarked' = unmarked /\ relaid' = relaid
      BY DEF patchVars
    <3> QED
      BY <2>1, <3>1, <3>2, ReloadsEffect
  <2>4. on' \in BOOLEAN
    BY <2>1 DEF StoreStep
  <2>5. VolatileTyped'
    BY <2>1, <2>2, <2>3, <2>4, HomeTyped DEF VolatileTyped, modeVars, Digits
  <2> QED
    BY <2>1, <2>2, <2>5, StoreBusy
<1>3. ASSUME ButtonRecord \/ ButtonToTape \/ ButtonFromTape \/ ButtonSeq \/ ButtonArp
      PROVE  StoreStep /\ PresetsInv'
  <2>1. /\ UNCHANGED <<storeVars, settings, patchVars, panel, main, live>>
        /\ UNCHANGED presetAwaitingNumber \/ presetAwaitingNumber' = -1
        /\ digitInput' \in Digits
    BY <1>3, HomeTyped
    DEF ButtonRecord, ButtonToTape, ButtonFromTape, ButtonSeq, ButtonArp,
        VolatileTyped, entryVars, Digits
  <2>2. isShifted' \in BOOLEAN /\ isInPatchManagement' \in BOOLEAN /\ menuParamSelectChange' \in BOOLEAN
    <3>1. isShifted \in BOOLEAN /\ isInPatchManagement \in BOOLEAN /\ menuParamSelectChange \in BOOLEAN
      BY DEF VolatileTyped
    <3>3. CASE ButtonRecord
      BY <3>1, <3>3 DEF ButtonRecord
    <3>4. CASE ButtonToTape \/ ButtonSeq \/ ButtonArp
      BY <3>1, <3>4 DEF ButtonToTape, ButtonSeq, ButtonArp, modeVars
    <3>5. CASE ButtonFromTape
      BY <3>1, <3>5 DEF ButtonFromTape
    <3> QED
      BY <1>3, <3>3, <3>4, <3>5
  <2>3. VolatileTyped'
    BY <2>1, <2>2 DEF VolatileTyped, storeVars, patchVars
  <2>4. UNCHANGED storeVars
    BY <2>1
  <2> QED
    BY <2>3, <2>4, StoreQuiet
<1> QED
  BY <1>1, <1>2, <1>3

\* The dot and its history keep their types.
LEMMA DotTyped ==
  ASSUME VolatileTyped, NEW by \in BOOLEAN, Unmodified \/ Modified \/ Changes(by)
  PROVE  presetModified' \in BOOLEAN /\ unmarked' \in BOOLEAN
<1>1. CASE Unmodified \/ Modified
  BY <1>1 DEF Unmodified, Modified
<1>2. CASE Changes(by)
  <2>1. presetModified' = presetModified /\ unmarked' \in BOOLEAN
    BY <1>2 DEF Changes
  <2> QED
    BY <2>1 DEF VolatileTyped
<1> QED
  BY <1>1, <1>2

\* What the display and the foot switch do.
LEMMA UnseenTyped ==
  ASSUME PresetsInv, NEW m \in Menus, SetUnseen(m)
  PROVE  /\ sound' \in Sound /\ sound'.menu = m /\ sound'.panel = sound.panel
         /\ presetModified' \in BOOLEAN /\ unmarked' \in BOOLEAN /\ relaid' \in BOOLEAN
         /\ live' \in Menus
<1>1. VolatileTyped /\ sound \in Sound /\ live \in Menus /\ relaid \in BOOLEAN
  BY DEF PresetsInv, VolatileTyped
<1>2. sound' = [sound EXCEPT !.menu = m]
  BY DEF SetUnseen
<1>3. sound' \in Sound /\ sound'.menu = m /\ sound'.panel = sound.panel
  BY <1>1, <1>2 DEF Sound
<1>4. presetModified' \in BOOLEAN /\ unmarked' \in BOOLEAN
  <2>1. PICK by \in BOOLEAN : Changes(by)
    BY DEF SetUnseen
  <2> QED
    BY <1>1, <2>1, DotTyped
<1> QED
  BY <1>1, <1>3, <1>4 DEF SetUnseen

LEMMA TypedUnseen ==
  ASSUME PresetsInv, NEW m \in Menus, SelectParameter \/ FootLatch(m)
  PROVE  StoreStep /\ PresetsInv'
<1>1. VolatileTyped
  BY DEF PresetsInv
<1>2. PICK n \in Menus : SetUnseen(n)
  <2>1. sound.menu \in Menus
    BY <1>1 DEF VolatileTyped, Sound
  <2> QED
    BY <2>1 DEF SelectParameter, FootLatch
<1>3. /\ sound' \in Sound /\ live' \in Menus
      /\ presetModified' \in BOOLEAN /\ unmarked' \in BOOLEAN /\ relaid' \in BOOLEAN
  BY <1>2, UnseenTyped
<1>4. /\ UNCHANGED <<storeVars, settings, panel, entryVars, isShifted, isInPatchManagement, main>>
      /\ menuParamSelectChange' = TRUE \/ menuParamSelectChange' = menuParamSelectChange
  BY DEF SelectParameter, FootLatch, modeVars
<1>5. VolatileTyped'
  BY <1>1, <1>3, <1>4 DEF VolatileTyped, storeVars, entryVars
<1> QED
  BY <1>4, <1>5, StoreQuiet DEF PresetsInv

LEMMA TypedButtons ==
  ASSUME PresetsInv, Buttons
  PROVE  StoreStep /\ PresetsInv'
<1>1. MemoryTyped(memory) /\ VolatileTyped
  BY DEF PresetsInv
<1>2. ASSUME ButtonPreset PROVE StoreStep /\ PresetsInv'
  <2>1. /\ StoreStep /\ settings' \in Settings /\ Reloads
        /\ digitInput' \in {"storeDecade", Home(settings'.presetMode)}
        /\ live' = Abandoned \/ live' = live
    BY <1>2, PresetButtonEffect
  <2>2. on /\ UNCHANGED <<panel, presetAwaitingNumber, modeVars, main>>
    BY <1>2 DEF ButtonPreset, Interrupt
  <2>3. sound' \in Sound /\ presetModified' = FALSE /\ unmarked' = FALSE /\ relaid' = FALSE
    BY <1>1, <2>1, ReloadsEffect DEF VolatileTyped
  <2>4. live' \in Menus
    <3>1. memory[Half(Manual)] \in Sound
      BY <2>2, NumbersInPages DEF PresetsInv, MemoryTyped, BootInv
    <3> QED
      BY <1>1, <2>1, <3>1, SoundTyped DEF VolatileTyped, Abandoned
  <2>5. VolatileTyped'
    BY <1>1, <2>1, <2>2, <2>3, <2>4, HomeTyped DEF VolatileTyped, modeVars, Digits, StoreStep
  <2> QED
    BY <2>1, <2>2, <2>5, StoreBusy
<1>3. ASSUME BasicPatch PROVE StoreStep /\ PresetsInv'
  <2>1. settings' \in Settings
    BY <1>1, <1>3, SettingsOfWords DEF BasicPatch, VolatileTyped
  <2>2. live' \in Menus
    <3>1. memory[Half(Manual)] \in Sound
      BY <1>3, NumbersInPages DEF PresetsInv, MemoryTyped, BootInv, BasicPatch, Interrupt
    <3> QED
      BY <1>1, <1>3, <3>1, SoundTyped DEF VolatileTyped, Abandoned, BasicPatch
  <2>3. VolatileTyped'
    BY <1>1, <1>3, <2>1, <2>2, BasicTyped
    DEF VolatileTyped, BasicPatch, Modified, storeVars, modeVars, Digits
  <2>4. UNCHANGED storeVars
    BY <1>3 DEF BasicPatch
  <2> QED
    BY <2>3, <2>4, StoreQuiet DEF PresetsInv
<1>4. ASSUME NEW p \in Positions, PanelSwitch(p) PROVE StoreStep /\ PresetsInv'
  <2>1. sound' \in Sound
    <3>1. PICK q \in Positions : sound' = [sound EXCEPT !.panel = q]
      BY <1>4 DEF PanelSwitch, Read
    <3> QED
      BY <1>1, <3>1, SoundTyped DEF VolatileTyped
  <2>2. VolatileTyped'
    BY <1>1, <1>4, <2>1 DEF VolatileTyped, PanelSwitch, Modified, storeVars, entryVars, modeVars
  <2>3. UNCHANGED storeVars
    BY <1>4 DEF PanelSwitch
  <2> QED
    BY <2>2, <2>3, StoreQuiet DEF PresetsInv
<1>5. ASSUME NEW p \in Positions, NEW m \in Menus, ButtonUnison(p, m) PROVE StoreStep /\ PresetsInv'
  <2>1. sound' \in Sound
    BY <1>5 DEF ButtonUnison, Read, Sound
  <2>2. StoreStep
    BY <1>1, <1>5, <2>1, CommitNothing, CommitPreset DEF ButtonUnison
  <2>3. on /\ on' \in BOOLEAN
    BY <1>5, <2>2 DEF ButtonUnison, Interrupt, StoreStep
  <2>4. VolatileTyped'
    BY <1>1, <1>5, <2>1, <2>3 DEF VolatileTyped, ButtonUnison, Modified, entryVars, modeVars
  <2> QED
    BY <2>2, <2>3, <2>4, StoreBusy
<1>6. ASSUME ChangeSettings PROVE StoreStep /\ PresetsInv'
  <2>1. StoreStep
    BY <1>1, <1>6, CommitSettingsAlone DEF ChangeSettings, VolatileTyped
  <2>2. on /\ on' \in BOOLEAN
    BY <1>6, <2>1 DEF ChangeSettings, Interrupt, StoreStep
  <2>3. VolatileTyped'
    BY <1>1, <1>6, <2>2 DEF VolatileTyped, ChangeSettings, patchVars, entryVars, modeVars
  <2> QED
    BY <2>1, <2>2, <2>3, StoreBusy
<1>9. ASSUME NEW q \in Positions, NEW m \in Menus, ChangeLayout(q, m) PROVE StoreStep /\ PresetsInv'
  <2>1. StoreStep
    BY <1>1, <1>9, CommitSettingsAlone DEF ChangeLayout, VolatileTyped
  <2>2. on /\ on' \in BOOLEAN
    BY <1>9, <2>1 DEF ChangeLayout, Interrupt, StoreStep
  <2>3. sound' \in Sound /\ relaid' \in BOOLEAN
    BY <1>9 DEF ChangeLayout, Sound
  <2>4. VolatileTyped'
    BY <1>1, <1>9, <2>2, <2>3 DEF VolatileTyped, ChangeLayout, entryVars, modeVars
  <2> QED
    BY <2>1, <2>2, <2>4, StoreBusy
<1>7. CASE \E p \in Positions : PanelSwitch(p)
  BY <1>4, <1>7
<1>8. CASE \E p \in Positions, m \in Menus : ButtonUnison(p, m) \/ ChangeLayout(p, m)
  BY <1>5, <1>8, <1>9
<1>10. CASE SelectParameter \/ \E m \in Menus : FootLatch(m)
  BY <1>10, BasicAssumption, TypedUnseen
<1> QED
  BY <1>2, <1>3, <1>6, <1>7, <1>8, <1>10, TypedDigits DEF Buttons

LEMMA TypedMidi ==
  ASSUME PresetsInv, Midi
  PROVE  StoreStep /\ PresetsInv'
<1>1. MemoryTyped(memory) /\ VolatileTyped
  BY DEF PresetsInv
<1>2. ASSUME NEW n \in Numbers, ProgramChange(n) PROVE StoreStep /\ PresetsInv'
  <2>1. sound' \in Sound
    BY <1>1, <1>2, NumbersInPages DEF ProgramChange, MemoryTyped
  <2>2. settings' \in Settings
    <3>1. n \in Word
      BY NumbersInPages, InWord
    <3> QED
      BY <1>1, <1>2, <3>1, SettingsOfWords DEF ProgramChange, VolatileTyped
  <2>3. VolatileTyped'
    BY <1>1, <1>2, <2>1, <2>2
    DEF VolatileTyped, ProgramChange, Unmodified, storeVars, entryVars, modeVars
  <2>4. UNCHANGED storeVars
    BY <1>2 DEF ProgramChange
  <2> QED
    BY <2>3, <2>4, StoreQuiet DEF PresetsInv
<1>3. ASSUME BankSelect PROVE StoreStep /\ PresetsInv'
  <2>1. /\ StoreStep /\ settings' \in Settings /\ Reloads
        /\ digitInput' = Home(settings'.presetMode) /\ live' = Abandoned
    BY <1>3, BankSelectEffect
  <2>2. on /\ UNCHANGED <<panel, presetAwaitingNumber, modeVars, main>>
    BY <1>3 DEF BankSelect, Interrupt
  <2>3. sound' \in Sound /\ presetModified' = FALSE /\ unmarked' = FALSE /\ relaid' = FALSE
    BY <1>1, <2>1, ReloadsEffect DEF VolatileTyped
  <2>4. live' \in Menus
    <3>1. memory[Half(Manual)] \in Sound
      BY <2>2, NumbersInPages DEF PresetsInv, MemoryTyped, BootInv
    <3> QED
      BY <1>1, <2>1, <3>1, SoundTyped DEF VolatileTyped, Abandoned
  <2>5. VolatileTyped'
    BY <1>1, <2>1, <2>2, <2>3, <2>4, HomeTyped DEF VolatileTyped, modeVars, StoreStep
  <2> QED
    BY <2>1, <2>2, <2>5, StoreBusy
<1>4. ASSUME NEW s \in Sound, ControlChange(s) PROVE StoreStep /\ PresetsInv'
  <2>1. presetModified' \in BOOLEAN /\ unmarked' \in BOOLEAN
    <3>1. PICK by \in BOOLEAN : Modified \/ Changes(by)
      BY <1>4 DEF ControlChange
    <3> QED
      BY <1>1, <3>1, DotTyped
  <2>2. VolatileTyped'
    BY <1>1, <1>4, <2>1 DEF VolatileTyped, ControlChange, storeVars, entryVars, modeVars
  <2>3. UNCHANGED storeVars
    BY <1>4 DEF ControlChange
  <2> QED
    BY <2>2, <2>3, StoreQuiet DEF PresetsInv
<1>5. ASSUME NEW n \in Numbers, NEW s \in Patches, NEW whole \in BOOLEAN, Import(n, s, whole)
      PROVE  StoreStep /\ PresetsInv'
  <2>1. /\ StoreStep /\ digitInput' \in {"storeDecade", digitInput}
        /\ \/ Reloads \/ UNCHANGED patchVars
           \/ sound' \in Sound /\ Modified /\ relaid' = relaid
    BY <1>5, ImportEffect
  <2>2. /\ on /\ UNCHANGED <<settings, panel, modeVars, main, live>>
        /\ presetAwaitingNumber' = -1
    BY <1>5 DEF Import, Interrupt
  <2>3. sound' \in Sound /\ {presetModified', unmarked', relaid'} \subseteq BOOLEAN
    <3>1. /\ settings' \in Settings /\ panel \in Positions /\ sound \in Sound
          /\ {presetModified, unmarked, relaid} \subseteq BOOLEAN
      BY <1>1, <2>2 DEF VolatileTyped
    <3>2. CASE Reloads
      BY <3>1, <3>2, ReloadsEffect
    <3>3. CASE UNCHANGED patchVars \/ (sound' \in Sound /\ Modified /\ relaid' = relaid)
      BY <3>1, <3>3 DEF patchVars, Modified
    <3> QED
      BY <2>1, <3>2, <3>3
  <2>4. VolatileTyped'
    BY <1>1, <2>1, <2>2, <2>3 DEF VolatileTyped, modeVars, Digits, StoreStep
  <2> QED
    BY <2>1, <2>2, <2>4, StoreBusy
<1>6. ASSUME NEW n \in Numbers, NEW s \in Patches, ImportSci(n, s) PROVE StoreStep /\ PresetsInv'
  <2>1. StoreStep
    BY <1>1, <1>6, PatchesAssumption, CommitPreset DEF ImportSci
  <2>2. on /\ on' \in BOOLEAN
    BY <1>6, <2>1 DEF ImportSci, Interrupt, StoreStep
  <2>4. presetModified' \in BOOLEAN /\ unmarked' \in BOOLEAN
    <3>1. PICK by \in BOOLEAN : Changes(by)
      BY <1>6 DEF ImportSci
    <3> QED
      BY <1>1, <3>1, DotTyped
  <2>3. VolatileTyped'
    BY <1>1, <1>6, <2>2, <2>4 DEF VolatileTyped, ImportSci, entryVars, modeVars
  <2> QED
    BY <2>1, <2>2, <2>3, StoreBusy
<1> QED
  BY <1>2, <1>3, <1>4, <1>5, <1>6 DEF Midi

LEMMA TypedMainLoop ==
  ASSUME PresetsInv, MainLoop
  PROVE  StoreStep /\ PresetsInv'
<1>1. MemoryTyped(memory) /\ VolatileTyped
  BY DEF PresetsInv
<1>2. ASSUME ParameterSaved PROVE StoreStep /\ PresetsInv'
  <2>1. StoreStep
    BY <1>1, <1>2, CommitPreset DEF ParameterSaved, VolatileTyped
  <2>2. on /\ on' \in BOOLEAN /\ main' \in [pc : Steps, number : Numbers]
    BY <1>2, <2>1, IdleTyped DEF ParameterSaved, Main, StoreStep, Steps
  <2>3. VolatileTyped'
    BY <1>1, <1>2, <2>2 DEF VolatileTyped, ParameterSaved, patchVars, entryVars, modeVars
  <2> QED
    BY <2>1, <2>2, <2>3, StoreBusy
<1>3. ASSUME NEW p \in Positions, PotMoves(p) PROVE VolatileTyped' /\ UNCHANGED storeVars
  <2>1. main' \in [pc : Steps, number : Numbers]
    BY <1>3, IdleTyped DEF PotMoves, Steps
  <2> QED
    BY <1>1, <1>3, <2>1 DEF VolatileTyped, PotMoves, storeVars, patchVars, entryVars, modeVars
<1>4. ASSUME PotApplied PROVE VolatileTyped' /\ UNCHANGED storeVars
  <2>1. main' \in [pc : Steps, number : Numbers] /\ sound' \in Sound
    <3>1. PICK q \in Positions : sound' = [sound EXCEPT !.panel = q]
      BY <1>1, <1>4 DEF PotApplied, Read, VolatileTyped
    <3> QED
      BY <1>1, <1>4, <3>1, IdleTyped, SoundTyped DEF PotApplied, VolatileTyped
  <2> QED
    BY <1>1, <1>4, <2>1 DEF VolatileTyped, PotApplied, Modified, storeVars, entryVars, modeVars
<1>5. ASSUME NEW m \in Menus, ParameterEdited(m) PROVE VolatileTyped' /\ UNCHANGED storeVars
  <2>1. main' \in [pc : Steps, number : Numbers] /\ sound' \in Sound /\ live' \in Menus
    BY <1>1, <1>5, IdleTyped, SoundTyped DEF ParameterEdited, VolatileTyped, Steps
  <2> QED
    BY <1>1, <1>5, <2>1 DEF VolatileTyped, ParameterEdited, storeVars, entryVars, modeVars
<1>6. ASSUME ParameterChecked PROVE VolatileTyped' /\ UNCHANGED storeVars
  <2>1. main' \in [pc : Steps, number : Numbers]
    BY <1>6, IdleTyped DEF ParameterChecked, Steps
  <2> QED
    BY <1>1, <1>6, <2>1 DEF VolatileTyped, ParameterChecked, storeVars, patchVars, entryVars, modeVars
<1>7. ASSUME ParameterMarked PROVE VolatileTyped' /\ UNCHANGED storeVars
  <2>1. main' \in [pc : Steps, number : Numbers]
    BY <1>7, IdleTyped DEF ParameterMarked
  <2> QED
    BY <1>1, <1>7, <2>1 DEF VolatileTyped, ParameterMarked, Modified, storeVars, entryVars
<1>8. ASSUME NEW n \in Numbers, DialTurned(n) PROVE VolatileTyped' /\ UNCHANGED storeVars
  <2>1. main' \in [pc : Steps, number : Numbers]
    BY <1>8, IdleTyped DEF DialTurned, Steps
  <2> QED
    BY <1>1, <1>8, <2>1 DEF VolatileTyped, DialTurned, storeVars, patchVars, entryVars, modeVars
<1>9. ASSUME DialLoaded PROVE VolatileTyped' /\ UNCHANGED storeVars
  <2>1. main.number \in Pages
    BY <1>1, NumbersInPages DEF VolatileTyped
  <2>2. sound' \in Sound /\ presetModified' \in BOOLEAN /\ unmarked' \in BOOLEAN
    BY <1>1, <1>9, <2>1, BasicTyped DEF DialLoaded, VolatileTyped, MemoryTyped, Unmodified
  <2>3. main' \in [pc : Steps, number : Numbers]
    BY <1>1, <1>9 DEF DialLoaded, VolatileTyped, Steps
  <2> QED
    BY <1>1, <1>9, <2>2, <2>3 DEF VolatileTyped, DialLoaded, storeVars, entryVars, modeVars
<1>10. ASSUME DialSelected PROVE VolatileTyped' /\ UNCHANGED storeVars
  <2>1. main.number \in Word
    <3>1. main.number \in Numbers
      BY <1>1 DEF VolatileTyped
    <3>2. \A n \in Numbers : n \in Word
      BY NumbersInPages, InWord
    <3> QED
      BY <3>1, <3>2
  <2>2. settings' \in Settings /\ main' \in [pc : Steps, number : Numbers]
    BY <1>1, <1>10, <2>1, SettingsOfWords, IdleTyped DEF DialSelected, VolatileTyped
  <2> QED
    BY <1>1, <1>10, <2>2 DEF VolatileTyped, DialSelected, storeVars, patchVars, modeVars, Digits
<1>11. CASE ParameterSaved
  BY <1>2, <1>11
<1>12. CASE VolatileTyped' /\ UNCHANGED storeVars
  BY <1>12, StoreQuiet DEF PresetsInv
<1> QED
  BY <1>3, <1>4, <1>5, <1>6, <1>7, <1>8, <1>9, <1>10, <1>11, <1>12 DEF MainLoop

LEMMA TypedPower ==
  ASSUME PresetsInv, PowerCut \/ Boot \/ UNCHANGED vars
  PROVE  StoreStep /\ PresetsInv'
<1>1. MemoryTyped(memory) /\ VolatileTyped /\ BootInv
  BY DEF PresetsInv
<1>2. ASSUME PowerCut PROVE StoreStep /\ PresetsInv'
  <2>1. settings' \in Settings
    BY <1>2, InWord, SettingsOfWords DEF PowerCut, DefaultSettings
  <2>2. VolatileTyped'
    BY <1>1, <1>2, <2>1, BasicTyped, IdleTyped, BasicAssumption
    DEF VolatileTyped, PowerCut, Unmodified, Digits
  <2>3. memory' = memory /\ on' = FALSE
    BY <1>2 DEF PowerCut
  <2>4. StoreStep
    BY <1>1, <2>3, StoreUnchanged
  <2> QED
    BY <1>1, <2>2, <2>3, <2>4 DEF PresetsInv, BootInv
<1>3. ASSUME Boot PROVE StoreStep /\ PresetsInv'
  <2>1. /\ StoreStep /\ settings' \in Settings /\ Reloads
        /\ digitInput' = Home(settings'.presetMode) /\ live' \in Menus
        /\ on' => /\ memory'[MagicHalf] # Blank /\ memory'[LastHalf] # Blank
                  /\ memory'[Half(Manual)] # Blank
        /\ memory[MagicHalf] = Blank => on'
    BY <1>3, BootEffect
  <2>2. sound' \in Sound /\ presetModified' = FALSE /\ unmarked' = FALSE /\ relaid' = FALSE
    BY <1>1, <2>1, ReloadsEffect DEF VolatileTyped
  <2>3. VolatileTyped'
    BY <1>1, <1>3, <2>1, <2>2, HomeTyped, IdleTyped DEF VolatileTyped, StoreStep, Boot
  <2>4. MemoryTyped(memory') /\ (memory[LastHalf] # Blank => memory'[LastHalf] # Blank)
    BY <2>1, HalvesApart DEF StoreStep
  <2>5. BootInv'
    BY <1>1, <2>1, <2>4 DEF BootInv
  <2> QED
    BY <2>1, <2>3, <2>4, <2>5 DEF PresetsInv
<1>4. ASSUME UNCHANGED vars PROVE StoreStep /\ PresetsInv'
  <2>1. UNCHANGED storeVars
    BY <1>4 DEF vars
  <2>2. VolatileTyped'
    BY <1>1, <1>4 DEF VolatileTyped, vars, storeVars, patchVars, entryVars, modeVars
  <2> QED
    BY <2>1, <2>2, StoreQuiet DEF PresetsInv
<1> QED
  BY <1>2, <1>3, <1>4

LEMMA PresetsStep ==
  ASSUME PresetsInv, [Next]_vars
  PROVE  StoreStep /\ PresetsInv'
BY TypedButtons, TypedMidi, TypedMainLoop, TypedPower DEF Next

LEMMA PresetsInit ==
  ASSUME Init
  PROVE  PresetsInv
<1>1. memory = [h \in Halves |-> Blank]
  BY DEF Init, Halves
<1>2. MemoryTyped(memory)
  BY <1>1, HalvesApart DEF MemoryTyped
<1>3. settings \in Settings
  BY InWord, SettingsOfWords DEF Init, DefaultSettings
<1>4. VolatileTyped
  BY <1>3, BasicTyped, IdleTyped, BasicAssumption DEF Init, VolatileTyped, Digits
<1>5. BootInv
  BY <1>1, HalvesApart DEF Init, BootInv
<1> QED
  BY <1>2, <1>4, <1>5 DEF PresetsInv

-----------------------------------------------------------------------------
(* The modes of the main loop and of the digits *)

\* Digits load and the dial selects in preset mode only, and the manual page is
\* saved in live mode only.
ModeInv ==
  /\ digitInput \in {"loadDecade", "loadUnit"} => settings.presetMode
  /\ main.pc \in {"dial", "dialled"} => settings.presetMode
  /\ main.pc = "save" => ~settings.presetMode

LEMMA HomeLoads ==
  ASSUME NEW mode
  PROVE  Home(mode) \in {"loadDecade", "loadUnit"} => mode
BY DEF Home

LEMMA Undisturbed ==
  ASSUME "race" \notin Stimuli, Interrupt
  PROVE  on /\ main.pc \in {"idle", "pot", "edited", "mark"}
BY DEF Interrupt

LEMMA ModeInterrupt ==
  ASSUME "race" \notin Stimuli, PresetsInv, ModeInv, Buttons \/ Midi
  PROVE  ModeInv'
<1>1. CASE Interrupt /\ main' = main /\ (digitInput' \in {"loadDecade", "loadUnit"} => settings'.presetMode)
  <2>1. main'.pc \notin {"dial", "dialled", "save"}
    BY <1>1, Undisturbed
  <2> QED
    BY <1>1, <2>1 DEF ModeInv
<1>2. ASSUME NEW d \in Tens, EnterTens(d) PROVE ModeInv'
  BY <1>1, <1>2 DEF EnterTens, ModeInv
<1>3. ASSUME NEW d \in Units, EnterUnit(d) PROVE ModeInv'
  <2>1. digitInput' \in {"storeDecade", Home(settings.presetMode)}
        /\ settings'.presetMode = settings.presetMode
    BY <1>3, UnitEffect
  <2> QED
    BY <1>1, <1>3, <2>1, HomeLoads DEF EnterUnit
<1>4. ASSUME ButtonPreset PROVE ModeInv'
  <2>1. digitInput' \in {"storeDecade", Home(settings'.presetMode)}
    BY <1>4, PresetButtonEffect
  <2> QED
    BY <1>1, <1>4, <2>1, HomeLoads DEF ButtonPreset
<1>5. ASSUME BankSelect PROVE ModeInv'
  BY <1>1, <1>5, HomeLoads DEF BankSelect
<1>6. ASSUME BasicPatch PROVE ModeInv'
  BY <1>1, <1>6 DEF BasicPatch
<1>7. ASSUME ButtonRecord \/ ButtonSeq \/ ButtonArp PROVE ModeInv'
  <2>1. Interrupt /\ main' = main /\ settings' = settings
    BY <1>7 DEF ButtonRecord, ButtonSeq, ButtonArp
  <2>2. digitInput' \in {"storeDecade", "sequencer", Home(settings.presetMode)}
    BY <1>7 DEF ButtonRecord, ButtonSeq, ButtonArp
  <2> QED
    BY <1>1, <2>1, <2>2, HomeLoads
<1>8. ASSUME ButtonToTape PROVE ModeInv'
  BY <1>1, <1>8 DEF ButtonToTape
<1>9. ASSUME Interrupt /\ main' = main /\ settings'.presetMode = settings.presetMode
             /\ digitInput' \in {digitInput, "storeDecade"}
      PROVE  ModeInv'
  BY <1>1, <1>9 DEF ModeInv
<1>10. ASSUME NEW q, NEW m, SelectParameter \/ FootLatch(m) \/ ButtonFromTape \/ ChangeSettings
                              \/ ChangeLayout(q, m)
       PROVE  ModeInv'
  BY <1>9, <1>10 DEF SelectParameter, FootLatch, ButtonFromTape, ChangeSettings, ChangeLayout, entryVars
<1>11. ASSUME NEW p, NEW m, PanelSwitch(p) \/ ButtonUnison(p, m) PROVE ModeInv'
  BY <1>9, <1>11 DEF PanelSwitch, ButtonUnison, entryVars
<1>12. ASSUME NEW n \in Numbers, ProgramChange(n) PROVE ModeInv'
  <2>1. settings'.presetMode = settings.presetMode
    <3>1. n \in Word /\ settings \in Settings
      BY NumbersInPages, InWord DEF PresetsInv, VolatileTyped
    <3> QED
      BY <1>12, <3>1, SettingsOfWords DEF ProgramChange
  <2> QED
    BY <1>9, <1>12, <2>1 DEF ProgramChange, entryVars
<1>13. ASSUME NEW s, ControlChange(s) PROVE ModeInv'
  BY <1>9, <1>13 DEF ControlChange, entryVars
<1>14. ASSUME NEW n, NEW s, NEW whole, Import(n, s, whole) PROVE ModeInv'
  BY <1>9, <1>14 DEF Import
<1>15. ASSUME NEW n, NEW s, ImportSci(n, s) PROVE ModeInv'
  BY <1>9, <1>15 DEF ImportSci, entryVars
<1>16. ASSUME Buttons PROVE ModeInv'
  BY <1>2, <1>3, <1>4, <1>6, <1>7, <1>8, <1>10, <1>11, <1>16 DEF Buttons
<1> QED
  BY <1>5, <1>12, <1>13, <1>14, <1>15, <1>16 DEF Midi

LEMMA ModeOthers ==
  ASSUME PresetsInv, ModeInv, MainLoop \/ PowerCut \/ Boot \/ UNCHANGED vars
  PROVE  ModeInv'
<1>1. ASSUME UNCHANGED <<settings, digitInput>>, main'.pc \in {"idle", "pot", "edited", "mark"}
      PROVE  ModeInv'
  BY <1>1 DEF ModeInv
<1>2. ASSUME NEW p, NEW m, PotMoves(p) \/ PotApplied \/ ParameterEdited(m) \/ ParameterSaved \/ ParameterMarked
      PROVE  ModeInv'
  <2>1. UNCHANGED <<settings, digitInput>>
    BY <1>2 DEF PotMoves, PotApplied, ParameterEdited, ParameterSaved, ParameterMarked, entryVars
  <2>2. main'.pc \in {"idle", "pot", "edited", "mark"}
    BY <1>2 DEF PotMoves, PotApplied, ParameterEdited, ParameterSaved, ParameterMarked, Idle
  <2> QED
    BY <1>1, <2>1, <2>2
<1>3. ASSUME ParameterChecked PROVE ModeInv'
  <2>1. UNCHANGED <<settings, digitInput>>
    BY <1>3 DEF ParameterChecked, entryVars
  <2>2. main'.pc = "mark" \/ (main'.pc = "save" /\ ~settings.presetMode)
    BY <1>3 DEF ParameterChecked
  <2> QED
    BY <2>1, <2>2 DEF ModeInv
<1>4. ASSUME NEW n, DialTurned(n) PROVE ModeInv'
  BY <1>4 DEF DialTurned, Selecting, ModeInv, entryVars
<1>5. ASSUME DialLoaded PROVE ModeInv'
  <2>1. main'.pc = "dialled"
    BY <1>5 DEF DialLoaded, PresetsInv, VolatileTyped
  <2> QED
    BY <1>5, <2>1 DEF DialLoaded, Main, ModeInv, entryVars
<1>6. ASSUME DialSelected PROVE ModeInv'
  <2>1. settings \in Settings /\ main.number \in Numbers
    BY DEF PresetsInv, VolatileTyped
  <2>2. \A n \in Numbers : n \in Word
    BY NumbersInPages, InWord
  <2>3. settings'.presetMode = settings.presetMode
    BY <1>6, <2>1, <2>2, SettingsOfWords DEF DialSelected
  <2> QED
    BY <1>6, <2>3 DEF DialSelected, Main, ModeInv, Idle
<1>7. ASSUME PowerCut PROVE ModeInv'
  BY <1>7 DEF PowerCut, ModeInv, Idle
<1>8. ASSUME Boot PROVE ModeInv'
  <2>1. digitInput' = Home(settings'.presetMode)
    BY <1>8, BootEffect
  <2>2. main' = Idle
    BY <1>8 DEF Boot
  <2> QED
    BY <2>1, <2>2, HomeLoads DEF ModeInv, Idle
<1>9. ASSUME UNCHANGED vars PROVE ModeInv'
  BY <1>9 DEF vars, entryVars, ModeInv
<1> QED
  BY <1>2, <1>3, <1>4, <1>5, <1>6, <1>7, <1>8, <1>9 DEF MainLoop

LEMMA ModeStep ==
  ASSUME "race" \notin Stimuli, PresetsInv, ModeInv, [Next]_vars
  PROVE  ModeInv'
BY ModeInterrupt, ModeOthers DEF Next

-----------------------------------------------------------------------------
(* The panel in live mode *)

\* LiveIsPanel but for a pot that has moved and is about to be followed.
LiveInv == on /\ main.pc # "pot" /\ ~settings.presetMode /\ ~relaid => sound.panel = panel

LEMMA LiveInterrupt ==
  ASSUME PresetsInv, LiveInv, Buttons \/ Midi
  PROVE  LiveInv'
<1>1. /\ panel \in Positions /\ sound \in Sound /\ settings \in Settings
  BY DEF PresetsInv, VolatileTyped
<1>2. ASSUME settings' \in Settings, panel' = panel, Reloads PROVE LiveInv'
  BY <1>1, <1>2, ReloadsEffect DEF LiveInv
<1>3. ASSUME on, UNCHANGED <<settings, relaid, panel, main>>, sound'.panel = sound.panel PROVE LiveInv'
  BY <1>3 DEF LiveInv
<1>4. ASSUME NEW d \in Tens, EnterTens(d) PROVE LiveInv'
  BY <1>3, <1>4 DEF EnterTens, Interrupt, patchVars
<1>5. ASSUME NEW d \in Units, EnterUnit(d) PROVE LiveInv'
  <2>1. /\ settings' \in Settings
        /\ UNCHANGED <<storeVars, settings, patchVars>> \/ Reloads
    BY <1>5, UnitEffect
  <2>2. on /\ panel' = panel /\ main' = main
    BY <1>5 DEF EnterUnit, Interrupt
  <2>3. UNCHANGED <<storeVars, settings, patchVars>> =>
          settings' = settings /\ sound' = sound /\ relaid' = relaid
    BY DEF patchVars
  <2> QED
    BY <1>2, <1>3, <2>1, <2>2, <2>3
<1>6. ASSUME ButtonPreset PROVE LiveInv'
  <2>1. settings' \in Settings /\ Reloads
    BY <1>6, PresetButtonEffect
  <2> QED
    BY <1>2, <1>6, <2>1 DEF ButtonPreset
<1>7. ASSUME BankSelect PROVE LiveInv'
  <2>1. settings' \in Settings /\ Reloads
    BY <1>7, BankSelectEffect
  <2> QED
    BY <1>2, <1>7, <2>1 DEF BankSelect
<1>8. ASSUME settings'.presetMode PROVE LiveInv'
  BY <1>8 DEF LiveInv
<1>9. ASSUME BasicPatch PROVE LiveInv'
  <2>1. settings'.presetMode
    BY <1>1, <1>9, SettingsOfWords DEF BasicPatch
  <2> QED
    BY <1>8, <2>1
<1>10. ASSUME ButtonRecord \/ ButtonToTape \/ ButtonFromTape \/ ButtonSeq \/ ButtonArp \/ ChangeSettings
       PROVE  LiveInv'
  <2>1. on /\ UNCHANGED <<settings, panel, main>> /\ UNCHANGED patchVars
    BY <1>10 DEF ButtonRecord, ButtonToTape, ButtonFromTape, ButtonSeq, ButtonArp, ChangeSettings,
                 Interrupt
  <2> QED
    BY <1>3, <2>1 DEF patchVars
<1>18. ASSUME NEW m \in Menus, SelectParameter \/ FootLatch(m) PROVE LiveInv'
  <2>1. PICK n \in Menus : SetUnseen(n)
    <3>1. sound.menu \in Menus
      BY <1>1 DEF Sound
    <3> QED
      BY <1>18, <3>1 DEF SelectParameter, FootLatch
  <2>2. sound'.panel = sound.panel /\ relaid' = relaid
    BY <2>1, UnseenTyped DEF SetUnseen
  <2> QED
    BY <1>3, <1>18, <2>2 DEF SelectParameter, FootLatch, Interrupt
<1>19. ASSUME NEW q, NEW m, ChangeLayout(q, m) PROVE LiveInv'
  BY <1>19 DEF ChangeLayout, LiveInv
<1>11. ASSUME NEW p \in Positions, PanelSwitch(p) PROVE LiveInv'
  BY <1>1, <1>11 DEF PanelSwitch, Read, LiveInv, Sound
<1>12. ASSUME NEW p \in Positions, NEW m \in Menus, ButtonUnison(p, m) PROVE LiveInv'
  <2>1. panel' = p /\ relaid' = relaid /\ (~relaid => sound' = [panel |-> p, menu |-> m])
    BY <1>12 DEF ButtonUnison, Read
  <2> QED
    BY <2>1 DEF LiveInv
<1>13. ASSUME NEW n \in Numbers, ProgramChange(n) PROVE LiveInv'
  <2>1. n \in Word
    BY NumbersInPages, InWord
  <2>2. settings'.presetMode
    BY <1>1, <1>13, <2>1, SettingsOfWords DEF ProgramChange
  <2> QED
    BY <1>8, <2>2
<1>14. ASSUME NEW s, ControlChange(s) PROVE LiveInv'
  BY <1>8, <1>14 DEF ControlChange
<1>15. ASSUME NEW n \in Numbers, NEW s \in Patches, NEW whole, Import(n, s, whole) PROVE LiveInv'
  <2>1. settings.presetMode \/ UNCHANGED patchVars
    BY <1>15, ImportEffect
  <2>2. on /\ UNCHANGED <<settings, panel, main>>
    BY <1>15 DEF Import, Interrupt
  <2> QED
    BY <1>3, <1>8, <2>1, <2>2 DEF patchVars
<1>16. ASSUME NEW n, NEW s, ImportSci(n, s) PROVE LiveInv'
  BY <1>3, <1>16 DEF ImportSci, Interrupt
<1>17. ASSUME Buttons PROVE LiveInv'
  BY <1>4, <1>5, <1>6, <1>9, <1>10, <1>11, <1>12, <1>17, <1>18, <1>19, BasicAssumption DEF Buttons
<1> QED
  BY <1>7, <1>13, <1>14, <1>15, <1>16, <1>17 DEF Midi

LEMMA LiveOthers ==
  ASSUME PresetsInv, ModeInv, LiveInv, MainLoop \/ PowerCut \/ Boot \/ UNCHANGED vars
  PROVE  LiveInv'
<1>1. sound \in Sound /\ panel \in Positions /\ settings \in Settings /\ main.number \in Numbers
      /\ main \in [pc : Steps, number : Numbers]
  BY DEF PresetsInv, VolatileTyped
<1>2. ASSUME NEW p, PotMoves(p) PROVE LiveInv'
  BY <1>2 DEF PotMoves, LiveInv, patchVars
<1>3. ASSUME PotApplied PROVE LiveInv'
  BY <1>1, <1>3 DEF PotApplied, Read, LiveInv, Sound
<1>4. ASSUME NEW m, ParameterEdited(m) PROVE LiveInv'
  BY <1>1, <1>4 DEF ParameterEdited, Main, LiveInv, Sound
<1>5. ASSUME on, main.pc # "pot", UNCHANGED <<settings, sound, relaid, panel>> PROVE LiveInv'
  BY <1>5 DEF LiveInv
<1>6. ASSUME ParameterChecked \/ ParameterSaved PROVE LiveInv'
  BY <1>5, <1>6 DEF ParameterChecked, ParameterSaved, Main, patchVars
<1>7. ASSUME ParameterMarked PROVE LiveInv'
  BY <1>5, <1>7 DEF ParameterMarked, Main
<1>8. ASSUME NEW n, DialTurned(n) PROVE LiveInv'
  BY <1>5, <1>8 DEF DialTurned, Main, patchVars
<1>9. ASSUME settings'.presetMode PROVE LiveInv'
  BY <1>9 DEF LiveInv
<1>10. ASSUME DialLoaded PROVE LiveInv'
  BY <1>9, <1>10 DEF DialLoaded, Main, ModeInv
<1>11. ASSUME DialSelected PROVE LiveInv'
  <2>1. \A n \in Numbers : n \in Word
    BY NumbersInPages, InWord
  <2>2. settings'.presetMode = settings.presetMode
    BY <1>1, <1>11, <2>1, SettingsOfWords DEF DialSelected
  <2> QED
    BY <1>9, <1>11, <2>2 DEF DialSelected, Main, ModeInv
<1>12. ASSUME PowerCut PROVE LiveInv'
  BY <1>12 DEF PowerCut, LiveInv
<1>13. ASSUME Boot PROVE LiveInv'
  <2>1. settings' \in Settings /\ Reloads
    BY <1>13, BootEffect
  <2>2. panel' = panel
    BY <1>13 DEF Boot
  <2> QED
    BY <1>1, <2>1, <2>2, ReloadsEffect DEF LiveInv
<1>14. ASSUME UNCHANGED vars PROVE LiveInv'
  BY <1>14 DEF vars, storeVars, patchVars, LiveInv
<1> QED
  BY <1>2, <1>3, <1>4, <1>6, <1>7, <1>8, <1>10, <1>11, <1>12, <1>13, <1>14 DEF MainLoop

-----------------------------------------------------------------------------
(* The parameters of live mode *)

LEMMA AbandonedKept ==
  ASSUME LiveKept, on
  PROVE  Abandoned = memory[Half(Manual)].menu
BY DEF LiveKept, Abandoned

\* What is left of live mode while a handler loads: its parameters are on the
\* manual page.
LEMMA ReloadsKept ==
  ASSUME PresetsInv, StoreStep, settings' \in Settings, Reloads,
         on' => memory'[Half(Manual)] # Blank /\ live' = memory'[Half(Manual)].menu
  PROVE  LiveKept'
<1>1. on' /\ ~settings'.presetMode /\ memory'[Half(Manual)] # Blank
        => sound'.menu = memory'[Half(Manual)].menu
  BY ReloadsEffect DEF PresetsInv, VolatileTyped
<1> QED
  BY <1>1 DEF LiveKept

LEMMA KeptInterrupt ==
  ASSUME PresetsInv, ModeInv, LiveKept, Buttons \/ Midi
  PROVE  LiveKept'
<1>1. /\ MemoryTyped(memory) /\ sound \in Sound /\ settings \in Settings /\ panel \in Positions
  BY DEF PresetsInv, VolatileTyped
<1>2. on => memory[Half(Manual)] # Blank
  BY DEF PresetsInv, BootInv
<1>3. sound # Blank /\ Half(Manual) \in Halves /\ Manual \in Pages
  BY <1>1, BlankAssumption, NumbersInPages, HalvesApart
<1>4. ASSUME on, UNCHANGED <<settings, sound, live>>, on' => memory'[Half(Manual)] = memory[Half(Manual)]
      PROVE  LiveKept'
  BY <1>4 DEF LiveKept
<1>5. ASSUME NEW d \in Tens, EnterTens(d) PROVE LiveKept'
  BY <1>4, <1>5 DEF EnterTens, Interrupt, storeVars, patchVars
<1>6. ASSUME NEW d \in Units, EnterUnit(d) PROVE LiveKept'
  <2>1. on /\ live' = live /\ digitInput \in {"loadUnit", "storeUnit"}
    BY <1>6 DEF EnterUnit, Interrupt
  <2>2. /\ StoreStep /\ settings' \in Settings /\ settings'.presetMode = settings.presetMode
        /\ \/ UNCHANGED <<storeVars, settings, patchVars>>
           \/ /\ Reloads
              /\ on' /\ settings.presetMode => memory'[Half(Manual)] = memory[Half(Manual)]
              /\ on' /\ ~settings.presetMode /\ digitInput = "storeUnit"
                   => memory'[Half(Manual)] = sound
    BY <1>6, UnitEffect
  <2>3. CASE UNCHANGED <<storeVars, settings, patchVars>>
    BY <1>4, <2>1, <2>3 DEF storeVars, patchVars
  <2>4. CASE Reloads
    <3>1. settings.presetMode \/ digitInput = "storeUnit"
      BY <2>1 DEF ModeInv
    <3>2. CASE UNCHANGED <<storeVars, settings, patchVars>>
      BY <2>3, <3>2
    <3>3. CASE ~ UNCHANGED <<storeVars, settings, patchVars>>
      <4>1. on' => memory'[Half(Manual)] = IF settings.presetMode THEN memory[Half(Manual)] ELSE sound
        BY <2>2, <3>1, <3>3
      <4>2. on' => memory'[Half(Manual)] # Blank /\ live' = memory'[Half(Manual)].menu
        BY <1>2, <1>3, <2>1, <4>1 DEF LiveKept
      <4> QED
        BY <2>2, <2>4, <4>2, ReloadsKept
    <3> QED
      BY <3>2, <3>3
  <2> QED
    BY <2>2, <2>3, <2>4
<1>7. ASSUME ButtonPreset PROVE LiveKept'
  <2>1. on
    BY <1>7 DEF ButtonPreset, Interrupt
  <2>2. /\ StoreStep /\ settings' \in Settings /\ Reloads
        /\ \/ memory' = memory /\ on' = on /\ settings' = settings /\ live' = Abandoned
           \/ /\ settings'.presetMode = ~settings.presetMode /\ live' = live
              /\ on' => memory'[Half(Manual)] = IF settings.presetMode
                                                THEN memory[Half(Manual)] ELSE sound
    BY <1>7, PresetButtonEffect
  <2>3. on' => memory'[Half(Manual)] # Blank /\ live' = memory'[Half(Manual)].menu
    BY <1>2, <1>3, <2>1, <2>2, AbandonedKept DEF LiveKept
  <2> QED
    BY <2>2, <2>3, ReloadsKept
<1>8. ASSUME BankSelect PROVE LiveKept'
  <2>1. on
    BY <1>8 DEF BankSelect, Interrupt
  <2>2. /\ StoreStep /\ settings' \in Settings /\ Reloads /\ live' = Abandoned
        /\ on' => memory'[Half(Manual)] = memory[Half(Manual)]
    BY <1>3, <1>8, BankSelectEffect
  <2>3. on' => memory'[Half(Manual)] # Blank /\ live' = memory'[Half(Manual)].menu
    BY <1>2, <2>1, <2>2, AbandonedKept
  <2> QED
    BY <2>2, <2>3, ReloadsKept
<1>9. ASSUME BasicPatch PROVE LiveKept'
  <2>1. on /\ settings'.presetMode /\ live' = Abandoned /\ memory' = memory
    BY <1>1, <1>9, SettingsOfWords DEF BasicPatch, Interrupt, storeVars
  <2> QED
    BY <2>1, AbandonedKept DEF LiveKept
<1>19. ASSUME NEW m \in Menus, SelectParameter \/ FootLatch(m) PROVE LiveKept'
  <2>1. PICK n \in Menus : SetUnseen(n)
    <3>1. sound.menu \in Menus
      BY <1>1 DEF Sound
    <3> QED
      BY <1>19, <3>1 DEF SelectParameter, FootLatch
  <2>2. sound'.menu = n /\ live' = IF settings.presetMode THEN live ELSE n
    BY <2>1, UnseenTyped DEF SetUnseen
  <2>3. on /\ settings' = settings /\ memory' = memory
    BY <1>19 DEF SelectParameter, FootLatch, Interrupt, storeVars
  <2> QED
    BY <2>2, <2>3 DEF LiveKept
<1>20. ASSUME NEW q, NEW m, ChangeLayout(q, m) PROVE LiveKept'
  BY <1>20 DEF ChangeLayout, LiveKept
<1>10. ASSUME ButtonRecord \/ ButtonToTape \/ ButtonFromTape \/ ButtonSeq \/ ButtonArp
       PROVE  LiveKept'
  <2>1. on /\ UNCHANGED <<settings, live>> /\ UNCHANGED patchVars /\ UNCHANGED storeVars
    BY <1>10 DEF ButtonRecord, ButtonToTape, ButtonFromTape, ButtonSeq, ButtonArp,
                 Interrupt
  <2> QED
    BY <1>4, <2>1 DEF patchVars, storeVars
<1>11. ASSUME ChangeSettings PROVE LiveKept'
  <2>1. on /\ UNCHANGED <<settings, live>> /\ UNCHANGED patchVars /\ Commit(SettingsWrites(settings))
    BY <1>11 DEF ChangeSettings, Interrupt
  <2>2. on' => memory'[Half(Manual)] = memory[Half(Manual)]
    BY <1>1, <1>3, <2>1, CommitSettingsAlone
  <2> QED
    BY <1>4, <2>1, <2>2 DEF patchVars
<1>12. ASSUME NEW p \in Positions, PanelSwitch(p) PROVE LiveKept'
  <2>1. sound'.menu = sound.menu
    BY <1>1, <1>12 DEF PanelSwitch, Sound
  <2> QED
    BY <1>12, <2>1 DEF PanelSwitch, Interrupt, storeVars, LiveKept
<1>13. ASSUME NEW p \in Positions, NEW m \in Menus, ButtonUnison(p, m) PROVE LiveKept'
  <2>1. /\ on /\ settings' = settings /\ sound'.menu = m
        /\ live' = IF settings.presetMode THEN live ELSE m
        /\ settings.presetMode => Commit(<<>>)
    BY <1>13 DEF ButtonUnison, Interrupt
  <2>2. settings.presetMode => memory' = memory
    BY <1>1, <2>1, CommitNothing
  <2> QED
    BY <2>1, <2>2 DEF LiveKept
<1>14. ASSUME NEW n \in Numbers, ProgramChange(n) PROVE LiveKept'
  <2>1. n \in Word
    BY NumbersInPages, InWord
  <2>2. settings'.presetMode /\ settings.presetMode /\ live' = live /\ memory' = memory /\ on
    BY <1>1, <1>14, <2>1, SettingsOfWords DEF ProgramChange, storeVars, Interrupt
  <2> QED
    BY <2>2 DEF LiveKept
<1>15. ASSUME NEW s, ControlChange(s) PROVE LiveKept'
  BY <1>15 DEF ControlChange, storeVars, Interrupt, LiveKept
<1>16. ASSUME NEW n \in Numbers, NEW s \in Patches, NEW whole, Import(n, s, whole) PROVE LiveKept'
  <2>1. n # Manual
    BY NumbersInPages DEF Manual
  <2>2. /\ on' => memory'[Half(Manual)] = memory[Half(Manual)]
        /\ settings.presetMode \/ UNCHANGED patchVars
    BY <1>3, <1>16, <2>1, ImportEffect
  <2>3. on /\ UNCHANGED <<settings, live>>
    BY <1>16 DEF Import, Interrupt
  <2> QED
    BY <2>2, <2>3 DEF LiveKept, patchVars
<1>17. ASSUME NEW n \in Numbers, NEW s \in Patches, ImportSci(n, s) PROVE LiveKept'
  <2>1. n # Manual /\ s \in Sound
    BY NumbersInPages, PatchesAssumption DEF Manual
  <2>2. Commit(PresetWrites(n, s)) /\ on /\ UNCHANGED <<settings, sound, live>>
    BY <1>17 DEF ImportSci, Interrupt
  <2>3. on' => memory'[Half(Manual)] = memory[Half(Manual)]
    BY <1>1, <1>3, <2>1, <2>2, CommitPreset
  <2> QED
    BY <1>4, <2>2, <2>3
<1>18. ASSUME Buttons PROVE LiveKept'
  BY <1>5, <1>6, <1>7, <1>9, <1>10, <1>11, <1>12, <1>13, <1>18, <1>19, <1>20, BasicAssumption
  DEF Buttons
<1> QED
  BY <1>8, <1>14, <1>15, <1>16, <1>17, <1>18 DEF Midi

LEMMA KeptOthers ==
  ASSUME PresetsInv, ModeInv, LiveKept, MainLoop \/ PowerCut \/ Boot \/ UNCHANGED vars
  PROVE  LiveKept'
<1>1. sound \in Sound /\ panel \in Positions /\ settings \in Settings
      /\ main \in [pc : Steps, number : Numbers]
  BY DEF PresetsInv, VolatileTyped
<1>2. ASSUME on, UNCHANGED <<settings, live>>, UNCHANGED storeVars, sound'.menu = sound.menu
      PROVE  LiveKept'
  BY <1>2 DEF LiveKept, storeVars
<1>3. ASSUME NEW p, NEW n, PotMoves(p) \/ DialTurned(n) \/ ParameterChecked PROVE LiveKept'
  BY <1>2, <1>3 DEF PotMoves, DialTurned, ParameterChecked, Main, patchVars
<1>4. ASSUME PotApplied PROVE LiveKept'
  <2>1. sound'.menu = sound.menu
    BY <1>1, <1>4 DEF PotApplied, Sound
  <2> QED
    BY <1>2, <1>4, <2>1 DEF PotApplied, Main
<1>5. ASSUME NEW m, ParameterEdited(m) PROVE LiveKept'
  <2>1. sound'.menu = m
    BY <1>1, <1>5 DEF ParameterEdited, Sound
  <2> QED
    BY <1>5, <2>1 DEF ParameterEdited, Main, storeVars, LiveKept
<1>6. ASSUME ParameterMarked PROVE LiveKept'
  BY <1>2, <1>6 DEF ParameterMarked, Main
<1>7. ASSUME ParameterSaved PROVE LiveKept'
  BY <1>7 DEF ParameterSaved, Main, ModeInv, patchVars, LiveKept
<1>8. ASSUME DialLoaded PROVE LiveKept'
  BY <1>8 DEF DialLoaded, Main, ModeInv, storeVars, LiveKept
<1>9. ASSUME DialSelected PROVE LiveKept'
  <2>1. \A n \in Numbers : n \in Word
    BY NumbersInPages, InWord
  <2>2. settings'.presetMode = settings.presetMode
    BY <1>1, <1>9, <2>1, SettingsOfWords DEF DialSelected
  <2> QED
    BY <1>9, <2>2 DEF DialSelected, Main, storeVars, patchVars, LiveKept
<1>10. ASSUME PowerCut PROVE LiveKept'
  BY <1>10 DEF PowerCut, LiveKept
<1>11. ASSUME Boot PROVE LiveKept'
  <2>1. /\ StoreStep /\ settings' \in Settings /\ Reloads
        /\ on' => memory'[Half(Manual)] # Blank /\ live' = memory'[Half(Manual)].menu
    BY <1>11, BootEffect
  <2> QED
    BY <2>1, ReloadsKept
<1>12. ASSUME UNCHANGED vars PROVE LiveKept'
  BY <1>12 DEF vars, storeVars, patchVars, LiveKept
<1> QED
  BY <1>3, <1>4, <1>5, <1>6, <1>7, <1>8, <1>9, <1>10, <1>11, <1>12 DEF MainLoop

-----------------------------------------------------------------------------
(* The dot *)

\* What DotHonest says of a step of the main loop that ends, and of one that
\* selects what it has loaded.
DotInv ==
  on => /\ main.pc = "idle" /\ settings.presetMode /\ ~presetModified /\ ~unmarked
             /\ settings.presetNumber \in Numbers
           => memory[Half(settings.presetNumber)] \in {Blank, sound}
        /\ main.pc = "dialled" => memory[Half(main.number)] \in {Blank, sound}

LEMMA DotInterrupt ==
  ASSUME "race" \notin Stimuli, PresetsInv, DotInv, Buttons \/ Midi
  PROVE  DotInv'
<1>1. /\ MemoryTyped(memory) /\ sound \in Sound /\ settings \in Settings /\ panel \in Positions
  BY DEF PresetsInv, VolatileTyped
<1>2. ASSUME Interrupt, main' = main,
             on' /\ settings'.presetMode /\ ~presetModified' /\ ~unmarked'
                 /\ settings'.presetNumber \in Numbers
               => memory'[Half(settings'.presetNumber)] \in {Blank, sound'}
      PROVE  DotInv'
  BY <1>2, Undisturbed DEF DotInv
<1>3. ASSUME Interrupt, main' = main, settings' \in Settings, Reloads PROVE DotInv'
  BY <1>1, <1>2, <1>3, ReloadsEffect, NumbersInPages
<1>4. ASSUME Interrupt, main' = main, presetModified' \/ ~settings'.presetMode PROVE DotInv'
  BY <1>2, <1>4
<1>5. ASSUME Interrupt, main' = main, settings' = settings, sound' = sound,
             presetModified' = presetModified, unmarked' = unmarked,
             on' => \/ ~settings.presetMode
                    \/ settings.presetNumber \notin Numbers
                    \/ memory'[Half(settings.presetNumber)] = memory[Half(settings.presetNumber)]
      PROVE  DotInv'
  <2>1. on /\ main.pc \in {"idle", "pot", "edited", "mark"}
    BY <1>5, Undisturbed
  <2> QED
    BY <1>5, <2>1 DEF DotInv
<1>6. ASSUME NEW d \in Tens, EnterTens(d) PROVE DotInv'
  BY <1>5, <1>6 DEF EnterTens, storeVars, patchVars
<1>7. ASSUME NEW d \in Units, EnterUnit(d) PROVE DotInv'
  <2>1. /\ settings' \in Settings
        /\ UNCHANGED <<storeVars, settings, patchVars>> \/ Reloads
    BY <1>7, UnitEffect
  <2>2. Interrupt /\ main' = main
    BY <1>7 DEF EnterUnit
  <2>3. UNCHANGED <<storeVars, settings, patchVars>> => DotInv'
    BY <1>5, <2>2 DEF patchVars, storeVars
  <2> QED
    BY <1>3, <2>1, <2>2, <2>3
<1>8. ASSUME ButtonPreset PROVE DotInv'
  <2>1. settings' \in Settings /\ Reloads
    BY <1>8, PresetButtonEffect
  <2> QED
    BY <1>3, <1>8, <2>1 DEF ButtonPreset
<1>9. ASSUME BankSelect PROVE DotInv'
  <2>1. settings' \in Settings /\ Reloads
    BY <1>9, BankSelectEffect
  <2> QED
    BY <1>3, <1>9, <2>1 DEF BankSelect
<1>10. ASSUME BasicPatch PROVE DotInv'
  BY <1>4, <1>10 DEF BasicPatch, Modified
<1>19. ASSUME Interrupt, UNCHANGED <<main, settings>>, NEW by \in BOOLEAN, Changes(by),
              by \/ (memory' = memory /\ sound' = sound)
       PROVE  DotInv'
  <2>1. presetModified' = presetModified
        /\ unmarked' = (unmarked \/ (by /\ settings.presetMode /\ ~presetModified))
    BY <1>19 DEF Changes
  <2>2. CASE by
    BY <1>2, <1>19, <2>1, <2>2
  <2>3. CASE ~by
    <3>1. unmarked' = unmarked
      <4>1. unmarked \in BOOLEAN
        BY DEF PresetsInv, VolatileTyped
      <4> QED
        BY <2>1, <2>3, <4>1
    <3> QED
      BY <1>5, <1>19, <2>1, <2>3, <3>1
  <2> QED
    BY <2>2, <2>3, <1>19
<1>20. ASSUME NEW m \in Menus, SelectParameter \/ FootLatch(m) PROVE DotInv'
  <2>1. PICK n : SetUnseen(n)
    BY <1>20 DEF SelectParameter, FootLatch
  <2>2. Changes(sound' # sound)
    BY <2>1 DEF SetUnseen
  <2>3. Interrupt /\ UNCHANGED <<main, settings>> /\ memory' = memory
    BY <1>20 DEF SelectParameter, FootLatch, storeVars
  <2> QED
    BY <1>19, <2>2, <2>3
<1>21. ASSUME NEW q, NEW m, ChangeLayout(q, m) PROVE DotInv'
  BY <1>4, <1>21 DEF ChangeLayout
<1>11. ASSUME ButtonRecord \/ ButtonToTape \/ ButtonFromTape \/ ButtonSeq \/ ButtonArp
       PROVE  DotInv'
  <2>1. Interrupt /\ UNCHANGED <<settings, main>> /\ UNCHANGED patchVars /\ UNCHANGED storeVars
    BY <1>11 DEF ButtonRecord, ButtonToTape, ButtonFromTape, ButtonSeq, ButtonArp
  <2> QED
    BY <1>5, <2>1 DEF patchVars, storeVars
<1>12. ASSUME ChangeSettings PROVE DotInv'
  <2>1. Interrupt /\ UNCHANGED <<settings, main>> /\ UNCHANGED patchVars /\ Commit(SettingsWrites(settings))
    BY <1>12 DEF ChangeSettings
  <2>2. on' => \A p \in Pages : memory'[Half(p)] = memory[Half(p)]
    BY <1>1, <2>1, CommitSettingsAlone
  <2> QED
    BY <1>5, <2>1, <2>2, NumbersInPages DEF patchVars
<1>13. ASSUME NEW p, NEW m, PanelSwitch(p) \/ ButtonUnison(p, m) PROVE DotInv'
  BY <1>4, <1>13 DEF PanelSwitch, ButtonUnison, Modified
<1>14. ASSUME NEW n \in Numbers, ProgramChange(n) PROVE DotInv'
  <2>1. n \in Word
    BY NumbersInPages, InWord
  <2>2. settings'.presetNumber = n
    BY <1>1, <1>14, <2>1, SettingsOfWords DEF ProgramChange
  <2>3. Interrupt /\ main' = main /\ sound' = memory[Half(n)] /\ memory' = memory
    BY <1>14 DEF ProgramChange, storeVars
  <2> QED
    BY <1>2, <2>2, <2>3
<1>15. ASSUME NEW s, ControlChange(s) PROVE DotInv'
  <2>1. /\ Interrupt /\ UNCHANGED <<main, settings>> /\ memory' = memory /\ sound' = s
        /\ Modified \/ Changes(s # sound)
    BY <1>15 DEF ControlChange, storeVars
  <2>2. CASE Modified
    BY <1>4, <2>1, <2>2 DEF Modified
  <2>3. CASE Changes(s # sound)
    BY <1>19, <2>1, <2>3
  <2> QED
    BY <2>1, <2>2, <2>3
<1>16. ASSUME NEW n \in Numbers, NEW s \in Patches, NEW whole, Import(n, s, whole) PROVE DotInv'
  <2>1. /\ on' => \A p \in Pages : p # n => memory'[Half(p)] = memory[Half(p)]
        /\ \/ settings.presetMode /\ settings.presetNumber = n /\ Reloads
           \/ /\ UNCHANGED patchVars
              /\ \/ ~(settings.presetMode /\ settings.presetNumber = n)
                 \/ memory' = memory
           \/ Modified
    BY <1>16, ImportEffect
  <2>2. Interrupt /\ UNCHANGED <<settings, main>>
    BY <1>16 DEF Import
  <2>3. CASE Reloads
    BY <1>1, <1>3, <2>2, <2>3
  <2>4. CASE Modified
    BY <1>4, <2>2, <2>4 DEF Modified
  <2>5. CASE /\ UNCHANGED patchVars
             /\ \/ ~(settings.presetMode /\ settings.presetNumber = n)
                \/ memory' = memory
    BY <1>5, <2>1, <2>2, <2>5, NumbersInPages DEF patchVars
  <2> QED
    BY <2>1, <2>3, <2>4, <2>5
<1>17. ASSUME NEW n \in Numbers, NEW s \in Patches, ImportSci(n, s) PROVE DotInv'
  <2>1. /\ Interrupt /\ UNCHANGED <<settings, main>> /\ sound' = sound
        /\ Commit(PresetWrites(n, s))
        /\ Changes(n = settings.presetNumber /\ memory' # memory)
    BY <1>17 DEF ImportSci
  <2>2. s \in Sound
    BY PatchesAssumption
  <2>3. on' => \A p \in Pages : p # n => memory'[Half(p)] = memory[Half(p)]
    BY <1>1, <2>1, <2>2, CommitPreset
  <2>4. CASE n = settings.presetNumber
    <3>1. Changes(memory' # memory)
      BY <2>1, <2>4 DEF Changes
    <3> QED
      BY <1>19, <2>1, <3>1
  <2>5. CASE n # settings.presetNumber
    <3>1. presetModified' = presetModified /\ unmarked' = unmarked
      <4>1. unmarked \in BOOLEAN
        BY DEF PresetsInv, VolatileTyped
      <4> QED
        BY <2>1, <2>5, <4>1 DEF Changes
    <3> QED
      BY <1>5, <2>1, <2>3, <2>5, <3>1, NumbersInPages
  <2> QED
    BY <2>4, <2>5
<1>18. ASSUME Buttons PROVE DotInv'
  BY <1>6, <1>7, <1>8, <1>10, <1>11, <1>12, <1>13, <1>18, <1>20, <1>21, BasicAssumption DEF Buttons
<1> QED
  BY <1>9, <1>14, <1>15, <1>16, <1>17, <1>18 DEF Midi

LEMMA DotOthers ==
  ASSUME PresetsInv, DotInv, MainLoop \/ PowerCut \/ Boot \/ UNCHANGED vars
  PROVE  DotInv'
<1>1. settings \in Settings /\ panel \in Positions /\ main \in [pc : Steps, number : Numbers]
      /\ main.number \in Numbers
  BY DEF PresetsInv, VolatileTyped
<1>2. ASSUME main'.pc \notin {"idle", "dialled"} PROVE DotInv'
  BY <1>2 DEF DotInv
<1>3. ASSUME NEW m, NEW n, ParameterEdited(m) \/ ParameterChecked \/ ParameterSaved \/ DialTurned(n)
      PROVE  DotInv'
  <2>1. main'.pc \in {"edited", "save", "mark", "dial"}
    BY <1>3 DEF ParameterEdited, ParameterChecked, ParameterSaved, DialTurned
  <2> QED
    BY <1>2, <2>1
<1>4. ASSUME presetModified', main' = Idle PROVE DotInv'
  BY <1>4 DEF DotInv, Idle
<1>5. ASSUME PotApplied \/ ParameterMarked PROVE DotInv'
  BY <1>4, <1>5 DEF PotApplied, ParameterMarked, Modified
<1>6. ASSUME NEW p, PotMoves(p) PROVE DotInv'
  <2>1. CASE main' = Idle
    BY <1>6, <2>1 DEF PotMoves, Main, storeVars, patchVars, DotInv, Idle
  <2>2. CASE main' = [pc |-> "pot", number |-> 0]
    BY <1>2, <2>2
  <2> QED
    BY <1>6, <2>1, <2>2 DEF PotMoves
<1>7. ASSUME DialLoaded PROVE DotInv'
  <2>1. main'.pc = "dialled" /\ main'.number = main.number /\ memory' = memory
    BY <1>1, <1>7 DEF DialLoaded, storeVars
  <2>2. memory[Half(main.number)] \in {Blank, sound'}
    BY <1>7 DEF DialLoaded
  <2> QED
    BY <2>1, <2>2 DEF DotInv
<1>8. ASSUME DialSelected PROVE DotInv'
  <2>1. \A n \in Numbers : n \in Word
    BY NumbersInPages, InWord
  <2>2. settings'.presetNumber = main.number
    BY <1>1, <1>8, <2>1, SettingsOfWords DEF DialSelected
  <2>3. main' = Idle /\ memory' = memory /\ sound' = sound /\ on /\ main.pc = "dialled"
    BY <1>8 DEF DialSelected, Main, storeVars, patchVars
  <2> QED
    BY <2>2, <2>3 DEF DotInv, Idle
<1>9. ASSUME PowerCut PROVE DotInv'
  BY <1>9 DEF PowerCut, DotInv
<1>10. ASSUME Boot PROVE DotInv'
  <2>1. settings' \in Settings /\ Reloads
    BY <1>10, BootEffect
  <2>2. main' = Idle
    BY <1>10 DEF Boot
  <2> QED
    BY <1>1, <2>1, <2>2, ReloadsEffect, NumbersInPages DEF DotInv, Idle
<1>11. ASSUME UNCHANGED vars PROVE DotInv'
  BY <1>11 DEF vars, storeVars, patchVars, DotInv
<1> QED
  BY <1>3, <1>5, <1>6, <1>7, <1>8, <1>9, <1>10, <1>11 DEF MainLoop

-----------------------------------------------------------------------------
(* Theorems *)

\* What is in memory and in use has its type, even after a power cut: a half
\* page is blank or whole, and no blank page is ever taken for a patch.
THEOREM PresetsTypeOK == Spec => []TypeOK
<1>1. Init => PresetsInv
  BY PresetsInit
<1>2. PresetsInv /\ [Next]_vars => PresetsInv'
  BY PresetsStep
<1>3. PresetsInv => TypeOK
  BY DEF PresetsInv, MemoryTyped, VolatileTyped, TypeOK
<1> QED
  BY <1>1, <1>2, <1>3, PTL DEF Spec

\* The power leaves the settings of before the handler it interrupts, or of
\* after it, wherever in its writes it goes.
THEOREM PresetsSettingsWhole == Spec => SettingsWhole
<1>1. Init => PresetsInv
  BY PresetsInit
<1>2. PresetsInv /\ [Next]_vars => PresetsInv'
  BY PresetsStep
<1>3. PresetsInv /\ [Next]_vars =>
        [~on' /\ memory[MagicHalf] # Blank =>
           LoadedSettings(memory') \in {LoadedSettings(memory), settings'}]_vars
  <2> SUFFICES ASSUME PresetsInv, [Next]_vars, ~on', memory[MagicHalf] # Blank
               PROVE  LoadedSettings(memory') = LoadedSettings(memory)
    OBVIOUS
  <2>1. memory'[LastHalf] = memory[LastHalf]
    BY PresetsStep DEF StoreStep
  <2> QED
    BY <2>1 DEF LoadedSettings
<1> QED
  BY <1>1, <1>2, <1>3, PTL DEF Spec, SettingsWhole

\* In live mode the patch that plays follows the panel until its layout is
\* changed, if the interrupt keeps out of what the main loop has checked.
THEOREM PresetsLiveIsPanel ==
  ASSUME "race" \notin Stimuli
  PROVE  Spec => []LiveIsPanel
<1> DEFINE Inv == PresetsInv /\ ModeInv /\ LiveInv
<1>1. Init => Inv
  <2>1. Init => ModeInv /\ LiveInv
    BY DEF Init, Idle, ModeInv, LiveInv
  <2> QED
    BY <2>1, PresetsInit
<1>2. Inv /\ [Next]_vars => Inv'
  BY PresetsStep, ModeStep, LiveInterrupt, LiveOthers DEF Next
<1>3. Inv => LiveIsPanel
  BY DEF LiveInv, LiveIsPanel, Settled
<1> QED
  BY <1>1, <1>2, <1>3, PTL DEF Spec

\* The additional parameters that live mode last had play or wait on the manual
\* page, under the same assumption.
THEOREM PresetsLiveKept ==
  ASSUME "race" \notin Stimuli
  PROVE  Spec => []LiveKept
<1> DEFINE Inv == PresetsInv /\ ModeInv /\ LiveKept
<1>1. Init => Inv
  <2>1. Init => ModeInv /\ LiveKept
    BY DEF Init, Idle, ModeInv, LiveKept
  <2> QED
    BY <2>1, PresetsInit
<1>2. Inv /\ [Next]_vars => Inv'
  BY PresetsStep, ModeStep, KeptInterrupt, KeptOthers DEF Next
<1>3. Inv => LiveKept
  OBVIOUS
<1> QED
  BY <1>1, <1>2, <1>3, PTL DEF Spec

\* While the dot is off the selected preset plays as it is stored, unless one of
\* the four changes that nothing marks has come since it was loaded, under the
\* same assumption.
THEOREM PresetsDotHonest ==
  ASSUME "race" \notin Stimuli
  PROVE  Spec => []DotHonest
<1> DEFINE Inv == PresetsInv /\ DotInv
<1>1. Init => Inv
  BY PresetsInit DEF Init, DotInv
<1>2. Inv /\ [Next]_vars => Inv'
  BY PresetsStep, DotInterrupt, DotOthers DEF Next
<1>3. Inv => DotHonest
  BY DEF DotInv, DotHonest, Settled
<1> QED
  BY <1>1, <1>2, <1>3, PTL DEF Spec

\* A second digit always has a first one to join, if no patch arrives between
\* the two.
THEOREM PresetsEntryConsistent ==
  ASSUME "entry" \notin Stimuli
  PROVE  Spec => []EntryConsistent
<1>1. Init => EntryInv
  BY DEF Init, EntryInv
<1>2. EntryInv /\ [Next]_vars => EntryInv'
  BY EntryButtons, EntryMidi, EntryOthers DEF Next
<1>3. EntryInv => EntryConsistent
  BY DEF EntryInv, EntryConsistent
<1> QED
  BY <1>1, <1>2, <1>3, PTL DEF Spec

=============================================================================
