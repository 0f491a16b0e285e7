--------------------------- MODULE AssignerProofs ---------------------------
(***************************************************************************)
(* Theorems about Assigner, for any number of voices, any keys, presets    *)
(* and voice masks: AssignerTypeOK, AssignerNoDrone and                    *)
(* AssignerMaskRespected with the main loop preempted anywhere.            *)
(***************************************************************************)
EXTENDS Assigner, SequenceTheorems, WellFoundedInduction, TLAPS

-----------------------------------------------------------------------------
(* Smallest and largest elements of sets of numbers, for the CHOOSE         *)
(* expressions that model the firmware's scanning loops.                    *)

\* A set of naturals with an element has a smallest one: a scan that goes up
\* finds something.
LEMMA SmallestExists ==
  ASSUME NEW S \in SUBSET Nat, S # {}
  PROVE  \E v \in S : \A w \in S : v <= w
<1>1. PICK x \in S : \A y \in S : ~(<<y, x>> \in OpToRel(<, Nat))
  BY NatLessThanWellFounded, WFMin
<1>2. \A y \in S : ~(y < x)
  BY <1>1 DEF OpToRel
<1>3. \A y \in S : x <= y
  BY <1>2
<1> QED
  BY <1>3

\* A bounded set of naturals with an element has a largest one.
LEMMA LargestExists ==
  ASSUME NEW b \in Nat, NEW S \in SUBSET (0 .. b), S # {}
  PROVE  \E v \in S : \A w \in S : w <= v
<1> DEFINE Mirror == {b - v : v \in S}
<1> \A v \in S : b - v \in Nat
  OBVIOUS
<1>1. Mirror \in SUBSET Nat /\ Mirror # {}
  OBVIOUS
<1>2. PICK m \in Mirror : \A w \in Mirror : m <= w
  BY <1>1, SmallestExists
<1>3. PICK v \in S : m = b - v
  BY <1>2
<1>4. \A w \in S : b - w \in Mirror
  OBVIOUS
<1>5. \A w \in S : b - v <= b - w
  BY <1>2, <1>3, <1>4
<1>6. \A w \in S : w <= v
  BY <1>5
<1> QED
  BY <1>6

\* A function to the naturals takes a smallest value on a set that has an
\* element: a scan that keeps the best candidate ends with one.
LEMMA SmallestImage ==
  ASSUME NEW S, S # {}, NEW f, \A s \in S : f[s] \in Nat
  PROVE  \E v \in S : \A w \in S : f[v] <= f[w]
<1> DEFINE Image == {f[s] : s \in S}
<1>1. Image \in SUBSET Nat /\ Image # {}
  OBVIOUS
<1>2. PICK m \in Image : \A w \in Image : m <= w
  BY <1>1, SmallestExists
<1>3. PICK v \in S : m = f[v]
  BY <1>2
<1>4. \A w \in S : f[v] <= f[w]
  BY <1>2, <1>3
<1> QED
  BY <1>4

\* If the values are bounded, it takes a largest one too.
LEMMA LargestImage ==
  ASSUME NEW b \in Nat, NEW S, S # {}, NEW f, \A s \in S : f[s] \in 0 .. b
  PROVE  \E v \in S : \A w \in S : f[v] >= f[w]
<1> DEFINE Image == {f[s] : s \in S}
<1>1. Image \in SUBSET (0 .. b) /\ Image # {}
  OBVIOUS
<1>2. PICK m \in Image : \A w \in Image : w <= m
  <2> HIDE DEF Image
  <2> QED BY <1>1, LargestExists
<1>3. PICK v \in S : m = f[v]
  BY <1>2
<1>4. \A w \in S : f[v] >= f[w]
  BY <1>2, <1>3
<1> QED
  BY <1>4

-----------------------------------------------------------------------------
(* The choice of a voice *)

\* The first voice of a set of voices is one of them.
LEMMA FirstIsMember ==
  ASSUME NEW S \in SUBSET Nat, S # {}
  PROVE  First(S) \in S /\ \A w \in S : First(S) <= w
BY SmallestExists DEF First

\* The oldest of a set of voices is one of them.
LEMMA OldestIsMember ==
  ASSUME TypeOK, NEW S \in SUBSET Voices, S # {}
  PROVE  Oldest(S) \in S
<1> DEFINE stamps == [v \in S |-> allocation[v].timestamp]
           eldest == {v \in S : \A w \in S : allocation[v].timestamp <= allocation[w].timestamp}
<1>1. \A v \in S : stamps[v] = allocation[v].timestamp /\ stamps[v] \in Nat
  BY TickAssumption DEF TypeOK, Allocation
<1>2. \E v \in S : \A w \in S : stamps[v] <= stamps[w]
  <2> HIDE DEF stamps
  <2> QED BY <1>1, SmallestImage
<1>3. eldest # {} /\ eldest \in SUBSET Nat
  <2>1. PICK v \in S : \A w \in S : stamps[v] <= stamps[w]
    BY <1>2
  <2>2. \A w \in S : allocation[v].timestamp <= allocation[w].timestamp
    <3> HIDE DEF stamps
    <3> QED BY <1>1, <2>1
  <2>3. v \in eldest
    BY <2>1, <2>2
  <2>4. \A w \in Voices : w \in Nat
    BY NAssumption DEF Voices
  <2> QED
    BY <2>3, <2>4
<1>4. First(eldest) \in eldest
  <2> HIDE DEF eldest
  <2> QED BY <1>3, FirstIsMember
<1> QED
  BY <1>4 DEF Oldest

\* getAvailableVoice returns an enabled voice.
LEMMA AvailableIsEnabled ==
  ASSUME TypeOK, NEW note, NEW cycle
  PROVE  AvailableVoices(note, cycle) \in SUBSET voiceMask
<1> DEFINE same == {v \in voiceMask : /\ allocation[v].assigned
                                      /\ allocation[v].timestamp < currentTick
                                      /\ allocation[v].note = note}
           free == {v \in voiceMask : ~allocation[v].assigned}
<1>1. /\ same \in SUBSET voiceMask /\ free \in SUBSET voiceMask
      /\ voiceMask \in SUBSET Voices /\ voiceMask \in SUBSET Nat
  BY NAssumption DEF TypeOK, Voices
<1>2. AvailableVoices(note, cycle) =
        IF same # {} THEN {First(same)}
        ELSE IF free = {} THEN {}
        ELSE {IF cycle THEN Oldest(free) ELSE First(free)}
  BY DEF AvailableVoices
<1> HIDE DEF same, free
<1>3. same # {} => First(same) \in voiceMask
  BY <1>1, FirstIsMember
<1>4. free # {} => First(free) \in voiceMask
  BY <1>1, FirstIsMember
<1>5. free # {} => Oldest(free) \in voiceMask
  BY <1>1, OldestIsMember
<1> QED
  BY <1>2, <1>3, <1>4, <1>5

\* getDispensableVoice returns an enabled voice.
LEMMA DispensableIsEnabled ==
  ASSUME TypeOK, NEW note \in Nat, NEW held
  PROVE  DispensableVoices(note, held) \in SUBSET voiceMask
<1> DEFINE released == {v \in voiceMask : allocation[v].rootNote \notin held}
           higher == {v \in voiceMask : allocation[v].note > note}
           lower  == {v \in voiceMask : allocation[v].note < note}
           top    == {v \in higher : \A w \in higher : allocation[v].note >= allocation[w].note}
           bottom == {v \in lower : \A w \in lower : allocation[v].note <= allocation[w].note}
<1>1. /\ released \in SUBSET voiceMask /\ higher \in SUBSET voiceMask
      /\ lower \in SUBSET voiceMask
      /\ voiceMask \in SUBSET Voices /\ voiceMask \in SUBSET Nat
      /\ top \in SUBSET higher /\ bottom \in SUBSET lower
      /\ \A v \in voiceMask : allocation[v].note \in 0 .. 255
      /\ priority \in {"last", "low", "high"}
  BY NAssumption DEF TypeOK, Voices, Allocation, Priorities
<1>2. higher # {} => top # {}
  <2>1. SUFFICES ASSUME higher # {} PROVE top # {}
    OBVIOUS
  <2> DEFINE pitch == [v \in higher |-> allocation[v].note]
  <2>2. \A v \in higher : pitch[v] = allocation[v].note /\ pitch[v] \in 0 .. 255
    BY <1>1
  <2>3. \E v \in higher : \A w \in higher : pitch[v] >= pitch[w]
    <3> HIDE DEF pitch, higher
    <3>1. 255 \in Nat /\ \A v \in higher : pitch[v] \in 0 .. 255
      BY <2>2
    <3> QED BY <2>1, <3>1, LargestImage, ZenonT(40)
  <2> QED
    BY <2>2, <2>3
<1>3. lower # {} => bottom # {}
  <2>1. SUFFICES ASSUME lower # {} PROVE bottom # {}
    OBVIOUS
  <2> DEFINE height == [v \in lower |-> allocation[v].note]
  <2>2. \A v \in lower : height[v] = allocation[v].note /\ height[v] \in Nat
    <3>1. \A v \in lower : v \in voiceMask /\ height[v] = allocation[v].note
      OBVIOUS
    <3>2. \A n \in 0 .. 255 : n \in Nat
      OBVIOUS
    <3> HIDE DEF lower, height
    <3> QED BY <1>1, <3>1, <3>2
  <2>3. \E v \in lower : \A w \in lower : height[v] <= height[w]
    <3> HIDE DEF height, lower
    <3> QED BY <2>1, <2>2, SmallestImage
  <2> QED
    BY <2>2, <2>3
<1>4. DispensableVoices(note, held) =
        IF released # {} THEN {Oldest(released)}
        ELSE CASE priority = "last" -> IF voiceMask = {} THEN {} ELSE {Oldest(voiceMask)}
               [] priority = "low"  -> IF higher = {} THEN {} ELSE {First(top)}
               [] priority = "high" -> IF lower = {} THEN {} ELSE {First(bottom)}
  BY DEF DispensableVoices
<1> HIDE DEF released, higher, lower, top, bottom
<1>5. released # {} => Oldest(released) \in voiceMask
  BY <1>1, OldestIsMember
<1>6. voiceMask # {} => Oldest(voiceMask) \in voiceMask
  BY <1>1, OldestIsMember
<1>7. higher # {} => First(top) \in voiceMask
  BY <1>1, <1>2, FirstIsMember
<1>8. lower # {} => First(bottom) \in voiceMask
  BY <1>1, <1>3, FirstIsMember
<1> QED
  BY <1>1, <1>4, <1>5, <1>6, <1>7, <1>8

\* A note starts on an enabled voice, or on voice 0 in unison.
LEMMA StartIsEnabled ==
  ASSUME TypeOK, NEW note \in Nat, NEW held, NEW cycle,
         NEW v \in StartVoices(note, held, cycle)
  PROVE  v \in Voices /\ (v \in voiceMask \/ (mono /\ v = 0))
<1>1. AvailableVoices(note, cycle) \in SUBSET voiceMask
  BY AvailableIsEnabled
<1>2. DispensableVoices(note, held) \in SUBSET voiceMask
  BY DispensableIsEnabled
<1>3. 0 \in Voices
  BY NAssumption DEF Voices
<1> QED
  BY <1>1, <1>2, <1>3 DEF StartVoices, TypeOK

-----------------------------------------------------------------------------
(* What a note does to the voices *)

Env == {"wait", "on", "release"}

\* The last position of the pattern that a voice plays is one of the pattern's.
LEMMA SoundingIsGated ==
  ASSUME TypeOK, NEW note \in 0 .. 127, NEW pattern, IsOffsets(pattern),
         NEW steps \in SUBSET (1 .. Len(pattern)), steps # {}
  PROVE  /\ Sounding(note, pattern, steps) \in Allocation
         /\ Sounding(note, pattern, steps).assigned
         /\ Sounding(note, pattern, steps).gated
<1> DEFINE last == CHOOSE k \in steps : \A j \in steps : j <= k
<1>1. Len(pattern) \in Nat /\ steps \in SUBSET (0 .. Len(pattern))
  BY DEF IsOffsets
<1>2. \E k \in steps : \A j \in steps : j <= k
  BY <1>1, LargestExists
<1>3. last \in steps
  BY <1>2
<1> HIDE DEF last
<1>4. pattern \in Seq(0 .. 254)
  BY DEF IsOffsets, NoNote
<1>5. (note + pattern[last]) % 256 \in 0 .. 255
  <2>1. pattern[last] \in 0 .. 254
    BY <1>3, <1>4, ElementOfSeq
  <2>2. ASSUME NEW x \in 0 .. 254 PROVE (note + x) % 256 \in 0 .. 255
    OBVIOUS
  <2> QED BY <2>1, <2>2, Zenon
<1>6. Sounding(note, pattern, steps) =
        [timestamp |-> currentTick, rootNote |-> note,
         note |-> (note + pattern[last]) % 256,
         assigned |-> TRUE, gated |-> TRUE, keyPressed |-> TRUE]
  BY DEF Sounding, last
<1> QED
  BY <1>5, <1>6 DEF Allocation, TypeOK

\* Each voice is left as it was, or is one the pattern may use and gets gated.
LEMMA PlayPatternEffect ==
  ASSUME TypeOK, NEW alloc \in [Voices -> Allocation], NEW env \in [Voices -> Env],
         NEW pattern, IsOffsets(pattern), NEW note \in 0 .. 127, NEW v, NEW retrigger,
         PlayPattern(alloc, env, pattern, note, v, retrigger)
  PROVE  /\ allocation' \in [Voices -> Allocation]
         /\ ampEnv' \in [Voices -> Env]
         /\ hung' \in BOOLEAN
         /\ \A w \in Voices :
              \/ allocation'[w] = alloc[w] /\ ampEnv'[w] = env[w]
              \/ allocation'[w].assigned /\ allocation'[w].gated /\ (w = v \/ w \in voiceMask)
<1>1. CASE voiceMask = {}
  BY <1>1 DEF PlayPattern
<1>2. CASE voiceMask # {}
  <2>1. \A w \in Voices : /\ StepsOn(pattern, v, w) \in SUBSET (1 .. Len(pattern))
                          /\ StepsOn(pattern, v, w) # {} => (w = v \/ w \in voiceMask)
    BY DEF StepsOn
  <2>2. \A w \in Voices : StepsOn(pattern, v, w) # {} =>
          /\ Sounding(note, pattern, StepsOn(pattern, v, w)) \in Allocation
          /\ Sounding(note, pattern, StepsOn(pattern, v, w)).assigned
          /\ Sounding(note, pattern, StepsOn(pattern, v, w)).gated
    BY <2>1, SoundingIsGated
  <2>3. /\ allocation' = [w \in Voices |->
             IF StepsOn(pattern, v, w) = {} THEN alloc[w]
             ELSE Sounding(note, pattern, StepsOn(pattern, v, w))]
        /\ ampEnv' = [w \in Voices |->
             IF retrigger /\ StepsOn(pattern, v, w) # {} THEN "on" ELSE env[w]]
        /\ hung' = hung
    BY <1>2 DEF PlayPattern
  <2>4. hung' \in BOOLEAN /\ ampEnv' \in [Voices -> Env]
    BY <2>3 DEF TypeOK, Env
  <2> QED
    BY <2>1, <2>2, <2>3, <2>4
<1> QED
  BY <1>1, <1>2

\* The same for assignNote, which may find no voice.
LEMMA PlayEffect ==
  ASSUME TypeOK, NEW note \in 0 .. 127, NEW held, NEW cycle, NEW retrigger,
         Play(note, StartVoices(note, held, cycle), retrigger)
  PROVE  /\ allocation' \in [Voices -> Allocation]
         /\ ampEnv' \in [Voices -> Env]
         /\ hung' \in BOOLEAN
         /\ \A w \in Voices :
              \/ allocation'[w] = allocation[w] /\ ampEnv'[w] = ampEnv[w]
              \/ /\ allocation'[w].assigned /\ allocation'[w].gated
                 /\ w \in voiceMask \/ (mono /\ w = 0)
<1>1. allocation \in [Voices -> Allocation] /\ ampEnv \in [Voices -> Env] /\ hung \in BOOLEAN
  BY DEF TypeOK, Env
<1>2. CASE UNCHANGED <<allocation, ampEnv, hung>>
  BY <1>1, <1>2
<1>3. CASE /\ patternOffsets # <<>>
           /\ \E v \in StartVoices(note, held, cycle) :
                PlayPattern(allocation, ampEnv, patternOffsets, note, v, retrigger)
  <2>1. PICK v \in StartVoices(note, held, cycle) :
          PlayPattern(allocation, ampEnv, patternOffsets, note, v, retrigger)
    BY <1>3
  <2>2. v \in voiceMask \/ (mono /\ v = 0)
    BY StartIsEnabled
  <2>3. IsOffsets(patternOffsets)
    BY DEF TypeOK, PatternOK
  <2> QED
    BY <1>1, <2>1, <2>2, <2>3, PlayPatternEffect
<1> QED
  BY <1>2, <1>3 DEF Play

\* The note a release brings back is one of the missing ones.
LEMMA RestoredIsMissing ==
  ASSUME NEW missing \in SUBSET (0 .. 127), missing # {}
  PROVE  Restored(missing) \in missing
<1>1. \E n \in missing : \A m \in missing : m <= n
  BY LargestExists
<1>2. First(missing) \in missing
  BY FirstIsMember
<1> QED
  BY <1>1, <1>2 DEF Restored

\* setPattern makes a pattern of any list of offsets that fits.
LEMMA NormalisedIsPattern ==
  ASSUME NEW p \in Seq(0 .. 254), Len(p) \in 0 .. N
  PROVE  IsPattern(Normalised(p)) /\ IsOffsets(Normalised(p))
<1>0. \A q : IsPattern(q) => IsOffsets(q)
  BY NAssumption DEF IsPattern, IsOffsets
<1>1. CASE p = <<>>
  <2> DEFINE unison == [k \in 1 .. N |-> 0]
  <2>1. unison \in [1 .. N -> 0 .. 254] /\ N \in Nat
    BY NAssumption
  <2>2. unison \in Seq(0 .. 254) /\ Len(unison) = N
    BY <2>1
  <2>3. unison[1] = 0
    BY NAssumption
  <2>4. Normalised(p) = unison
    BY <1>1 DEF Normalised
  <2> HIDE DEF unison
  <2> QED
    BY <1>0, <2>2, <2>3, <2>4, NAssumption DEF IsPattern, NoNote
<1>2. CASE p # <<>>
  <2>1. Len(p) \in 1 .. N
    BY <1>2, EmptySeq, NAssumption
  <2>2. [p EXCEPT ![1] = 0] \in Seq(0 .. 254) /\ Len([p EXCEPT ![1] = 0]) = Len(p)
        /\ [p EXCEPT ![1] = 0][1] = 0
    BY <2>1, ExceptSeq
  <2>3. Normalised(p) = [p EXCEPT ![1] = 0]
    BY <1>2 DEF Normalised
  <2>4. IsPattern(Normalised(p))
    BY <2>1, <2>2, <2>3 DEF IsPattern, NoNote
  <2> QED
    BY <1>0, <2>4
<1> QED
  BY <1>1, <1>2

\* Latching makes a pattern of the keys that are down, of all offsets in range.
LEMMA LatchedIsPattern ==
  ASSUME TypeOK, NEW keys \in KeyLists, AreLowestKeys(keys)
  PROVE  IsPattern(Normalised(LatchedPattern(keys))) /\ IsOffsets(Normalised(LatchedPattern(keys)))
<1>1. noteStates \in SUBSET (0 .. 127)
  BY NotesAssumption DEF TypeOK
<1>2. PICK k \in 0 .. N : keys \in [1 .. k -> noteStates]
  BY DEF KeyLists
<1>3. k \in Nat
  BY NAssumption
<1>4. DOMAIN keys = 1 .. k /\ Len(keys) = k
  BY <1>2, <1>3
<1>5. \A i \in 1 .. k : keys[i] \in 0 .. 127
  BY <1>1, <1>2
<1>6. \A i \in 1 .. k : i # 1 => keys[1] < keys[i]
  BY <1>3, <1>4 DEF AreLowestKeys
<1>7. \A i \in 1 .. k : (IF i = 1 THEN keys[1] ELSE keys[i] - keys[1]) \in 0 .. 254
  <2> SUFFICES ASSUME NEW i \in 1 .. k
               PROVE  (IF i = 1 THEN keys[1] ELSE keys[i] - keys[1]) \in 0 .. 254
    OBVIOUS
  <2>1. 1 \in 1 .. k
    BY <1>3
  <2>2. keys[1] \in 0 .. 127 /\ keys[i] \in 0 .. 127
    BY <1>5, <2>1
  <2>3. \A x, y \in 0 .. 127 : x < y => y - x \in 0 .. 254
    OBVIOUS
  <2>4. i # 1 => keys[i] - keys[1] \in 0 .. 254
    BY <1>6, <2>2, <2>3
  <2>5. keys[1] \in 0 .. 254
    BY <2>2
  <2> QED
    BY <2>4, <2>5
<1>8. LatchedPattern(keys) \in [1 .. k -> 0 .. 254]
  BY <1>4, <1>7 DEF LatchedPattern
<1>9. LatchedPattern(keys) \in Seq(0 .. 254) /\ Len(LatchedPattern(keys)) = k
  BY <1>3, <1>8
<1> QED
  BY <1>2, <1>9, NormalisedIsPattern

\* So does the unison switch, of no keys if the refresh has cleared them.
LEMMA UnisonPattern ==
  ASSUME TypeOK, UnisonOn
  PROVE  IsPattern(patternOffsets') /\ IsOffsets(patternOffsets')
<1>1. PICK keys \in KeyLists :
        /\ IF currentPreset.priority # priority THEN keys = << >> ELSE AreLowestKeys(keys)
        /\ patternOffsets' = Normalised(LatchedPattern(keys))
  BY DEF UnisonOn
<1>2. CASE keys = << >>
  <2>1. LatchedPattern(keys) = << >>
    BY <1>2 DEF LatchedPattern
  <2>2. << >> \in Seq(0 .. 254) /\ Len(<< >>) \in 0 .. N
    BY NAssumption
  <2> QED BY <1>1, <2>1, <2>2, NormalisedIsPattern
<1> QED BY <1>1, <1>2, LatchedIsPattern

-----------------------------------------------------------------------------
(* Type correctness *)

\* The parts of TypeOK that handlers leave alone together.
SettingsOK ==
  /\ IsPreset(currentPreset)
  /\ priority \in Priorities /\ voiceMask \subseteq Voices /\ mono \in BOOLEAN

VoicesOK ==
  /\ allocation \in [Voices -> Allocation] /\ ampEnv \in [Voices -> Env] /\ hung \in BOOLEAN

KeysOK ==
  /\ noteStates \subseteq Notes /\ hold \in BOOLEAN /\ currentTick \in 0 .. MaxTick

LEMMA TypeParts == TypeOK <=> SettingsOK /\ MainOK /\ PatternOK /\ VoicesOK /\ KeysOK
BY DEF TypeOK, SettingsOK, VoicesOK, KeysOK, Env

\* With a whole pattern the main loop can go on anywhere.
LEMMA WholePatternOK ==
  ASSUME IsPattern(patternOffsets')
  PROVE  PatternOK'
<1>1. patternOffsets' # <<>> /\ IsOffsets(patternOffsets')
  BY EmptySeq, NAssumption DEF IsPattern, IsOffsets
<1> QED BY <1>1 DEF PatternOK

\* The main loop goes on to a place of setPattern, setPriority or voicesDone.
LEMMA MainAtOK ==
  ASSUME MainOK, NEW pc \in MainPCs, NEW at \in Nat, mainRefresh' = MainAt(pc, at),
         pc \in {"clear", "clear all"} => at < DoneWrites,
         pc \in {"erase", "fill"} => at \in 1 .. N,
         pc = "copy" => at \in 1 .. N + 1
  PROVE  MainOK' /\ mainRefresh'.pc = pc /\ mainRefresh'.at = at
<1>1. /\ mainRefresh' \in [pc : MainPCs, mono : BOOLEAN, priority : Priorities, at : Nat]
      /\ mainRefresh'.pc = pc /\ mainRefresh'.at = at
  BY DEF MainOK, MainAt
<1> QED BY <1>1 DEF MainOK

\* A handler that leaves the settings, or writes a whole pattern, leaves the main loop with
\* a pattern it can go on with.
LEMMA PatternKept ==
  ASSUME TypeOK, UNCHANGED mainRefresh, UNCHANGED patternOffsets \/ IsPattern(patternOffsets')
  PROVE  MainOK' /\ PatternOK'
<1>1. MainOK'
  BY DEF TypeOK, MainOK
<1>3. PatternOK'
  <2>1. CASE UNCHANGED patternOffsets
    BY <2>1 DEF TypeOK, PatternOK, Rewriting
  <2> QED BY <2>1, WholePatternOK
<1> QED BY <1>1, <1>3

\* A preset with another mode and pattern is a preset.
LEMMA PatternPreset ==
  ASSUME NEW p, IsPreset(p), NEW mode \in BOOLEAN, NEW pattern, IsOffsets(pattern)
  PROVE  IsPreset([p EXCEPT !.mono = mode, !.pattern = pattern])
<1> DEFINE all == [mono : BOOLEAN, pattern : {p.pattern, pattern}, priority : Priorities]
<1>1. p \in all
  <2>1. p = [mono |-> p.mono, pattern |-> p.pattern, priority |-> p.priority]
    BY DEF IsPreset
  <2> DEFINE q == [mono |-> p.mono, pattern |-> p.pattern, priority |-> p.priority]
  <2>2. q \in all
    BY DEF IsPreset
  <2> QED BY <2>1, <2>2
<1> DEFINE q == [p EXCEPT !.mono = mode, !.pattern = pattern]
<1>2. q \in all
  BY <1>1
<1>3. q.pattern = pattern
  BY <1>1
<1>4. \A r \in all : r = [mono |-> r.mono, pattern |-> r.pattern, priority |-> r.priority]
  OBVIOUS
<1> HIDE DEF q
<1>5. q.mono \in BOOLEAN /\ q.priority \in Priorities
  BY <1>2
<1>6. q = [mono |-> q.mono, pattern |-> q.pattern, priority |-> q.priority]
  BY <1>2, <1>4
<1>7. IsPreset(q)
  <2> HIDE DEF all
  <2> QED BY <1>3, <1>5, <1>6 DEF IsPreset
<1> QED BY <1>7 DEF q

\* What the updates of a voice's record do to its type, its assignment and
\* its gate.
LEMMA GateOffRecord ==
  ASSUME NEW a \in Allocation
  PROVE  [a EXCEPT !.gated = FALSE] \in Allocation /\ [a EXCEPT !.gated = FALSE].assigned = a.assigned
BY DEF Allocation

LEMMA KeyUpRecord ==
  ASSUME NEW a \in Allocation
  PROVE  /\ KeyUp(a) \in Allocation /\ KeyUp(a).assigned = a.assigned
         /\ KeyUp(a).gated = a.gated
         /\ KeyUpGateOff(a) \in Allocation /\ KeyUpGateOff(a).assigned = a.assigned
<1>1. KeyUp(a) \in Allocation /\ KeyUp(a).assigned = a.assigned /\ KeyUp(a).gated = a.gated
  BY DEF Allocation, KeyUp
<1>2. KeyUpGateOff(a) \in Allocation /\ KeyUpGateOff(a).assigned = a.assigned
  BY DEF Allocation, KeyUpGateOff
<1> QED
  BY <1>1, <1>2

LEMMA DoneRecord ==
  ASSUME NEW a \in Allocation
  PROVE  /\ VoiceDone(a) \in Allocation /\ ~VoiceDone(a).assigned
         /\ [VoiceDone(a) EXCEPT !.timestamp = 0] \in Allocation
         /\ ~[VoiceDone(a) EXCEPT !.timestamp = 0].assigned
<1>1. NoNote \in 0 .. 255 /\ 0 \in 0 .. MaxTick
  BY TickAssumption DEF NoNote
<1>2. VoiceDone(a) \in Allocation
  BY <1>1 DEF Allocation, VoiceDone
<1>3. ~VoiceDone(a).assigned
  BY DEF Allocation, VoiceDone
<1>4. [VoiceDone(a) EXCEPT !.timestamp = 0] \in Allocation
  BY <1>1, <1>2 DEF Allocation
<1>5. [VoiceDone(a) EXCEPT !.timestamp = 0].assigned = VoiceDone(a).assigned
  BY <1>2 DEF Allocation
<1> QED
  BY <1>2, <1>3, <1>4, <1>5

\* After voicesDone, no voice is assigned.
LEMMA DoneAllEffect ==
  ASSUME NEW alloc \in [Voices -> Allocation]
  PROVE  DoneAll(alloc) \in [Voices -> Allocation] /\ \A v \in Voices : ~DoneAll(alloc)[v].assigned
<1>1. \A v \in Voices : /\ [VoiceDone(alloc[v]) EXCEPT !.timestamp = 0] \in Allocation
                        /\ ~[VoiceDone(alloc[v]) EXCEPT !.timestamp = 0].assigned
  BY DoneRecord
<1> QED
  BY <1>1 DEF DoneAll

LEMMA VoicesDoneEffect ==
  ASSUME allocation \in [Voices -> Allocation]
  PROVE  VoicesDone \in [Voices -> Allocation] /\ \A v \in Voices : ~VoicesDone[v].assigned
BY DoneAllEffect DEF VoicesDone

\* Each field that voicesDone clears leaves the voice typed, no more assigned than it was,
\* and its gate as it was.
LEMMA FieldDoneRecord ==
  ASSUME NEW a \in Allocation, NEW field \in 0 .. DoneFields - 1
  PROVE  /\ FieldDone(a, field) \in Allocation
         /\ FieldDone(a, field).assigned => a.assigned
         /\ FieldDone(a, field).gated = a.gated
<1>1. NoNote \in 0 .. 255 /\ 0 \in 0 .. MaxTick /\ field \in {0, 1, 2, 3, 4}
  BY TickAssumption DEF NoNote, DoneFields
<1>2. CASE field = 0
  BY <1>1, <1>2 DEF Allocation, FieldDone
<1>3. CASE field = 1
  BY <1>1, <1>3 DEF Allocation, FieldDone
<1>4. CASE field = 2
  BY <1>1, <1>4 DEF Allocation, FieldDone
<1>5. CASE field = 3
  BY <1>1, <1>5 DEF Allocation, FieldDone
<1>6. CASE field = 4
  BY <1>1, <1>6 DEF Allocation, FieldDone
<1> QED BY <1>1, <1>2, <1>3, <1>4, <1>5, <1>6

\* Lifting the pedal keeps what is assigned, and only gates off.
LEMMA PedalUpEffect ==
  ASSUME NEW alloc \in [Voices -> Allocation]
  PROVE  /\ PedalUp(alloc) \in [Voices -> Allocation]
         /\ \A v \in Voices : /\ PedalUp(alloc)[v].assigned = alloc[v].assigned
                              /\ v \notin PedalHeld(alloc) => PedalUp(alloc)[v] = alloc[v]
<1>1. \A v \in Voices : /\ [alloc[v] EXCEPT !.gated = FALSE] \in Allocation
                        /\ [alloc[v] EXCEPT !.gated = FALSE].assigned = alloc[v].assigned
  BY GateOffRecord
<1> QED
  BY <1>1 DEF PedalUp

LEMMA GatedOffIsTyped ==
  ASSUME TypeOK, NEW off
  PROVE  EnvGatedOff(off) \in [Voices -> Env]
BY DEF TypeOK, EnvGatedOff, Env

LEMMA NoteOnType ==
  ASSUME TypeOK, NEW note \in Notes, NEW cycle \in BOOLEAN, NEW arpOn \in BOOLEAN,
         NoteOn(note, cycle, arpOn)
  PROVE  TypeOK'
<1>1. note \in 0 .. 127
  BY NotesAssumption
<1>2. VoicesOK'
  BY <1>1, PlayEffect DEF NoteOn, VoicesOK
<1>3. SettingsOK' /\ KeysOK'
  BY DEF NoteOn, SettingsOK, KeysOK, settingVars, TypeOK
<1>4. MainOK' /\ PatternOK'
  BY PatternKept DEF NoteOn, settingVars
<1> QED
  BY <1>2, <1>3, <1>4 DEF TypeOK, SettingsOK, MainOK, PatternOK, VoicesOK, KeysOK, Env

\* What a release does to the voices: it plays a key that has none, or gates
\* off the voices of the key.
LEMMA NoteOffEffect ==
  ASSUME TypeOK, NEW note \in Notes, NEW cycle \in BOOLEAN, NEW arpOn \in BOOLEAN,
         NoteOff(note, cycle, arpOn)
  PROVE  /\ VoicesOK'
         /\ \A w \in Voices :
              \/ allocation'[w] = allocation[w] /\ ampEnv'[w] = ampEnv[w]
              \/ /\ allocation'[w].assigned /\ allocation'[w].gated
                 /\ w \in voiceMask \/ (mono /\ w = 0)
              \/ /\ allocation'[w].assigned = allocation[w].assigned
                 /\ ampEnv'[w] = "release"
              \/ /\ allocation'[w].assigned = allocation[w].assigned
                 /\ allocation'[w].gated = allocation[w].gated
                 /\ ampEnv'[w] = ampEnv[w]
<1> DEFINE held    == noteStates \ {note}
           missing == Unplayed(held)
           off     == IF hold /\ ~mono THEN {} ELSE ReleasedBy(note)
<1>1. missing \in SUBSET noteStates /\ missing \in SUBSET (0 .. 127)
  BY NotesAssumption DEF Unplayed, TypeOK
<1>2. CASE missing # {}
  <2>1. Restored(missing) \in 0 .. 127
    BY <1>1, <1>2, RestoredIsMissing
  <2>2. Play(Restored(missing), StartVoices(Restored(missing), held, cycle), arpOn)
    BY <1>2 DEF NoteOff
  <2> QED
    BY <2>1, <2>2, PlayEffect DEF VoicesOK
<1>3. CASE missing = {}
  <2>1. /\ allocation' = [v \in Voices |->
             IF v \in off THEN KeyUpGateOff(allocation[v])
             ELSE IF v \in ReleasedBy(note) THEN KeyUp(allocation[v])
             ELSE allocation[v]]
        /\ ampEnv' = EnvGatedOff(off)
        /\ hung' = hung
    BY <1>3 DEF NoteOff
  <2> HIDE DEF off, missing, held
  <2>2. allocation \in [Voices -> Allocation] /\ hung \in BOOLEAN /\ ampEnv \in [Voices -> Env]
    BY DEF TypeOK, Env
  <2>3. \A v \in Voices :
          /\ KeyUp(allocation[v]) \in Allocation
          /\ KeyUp(allocation[v]).assigned = allocation[v].assigned
          /\ KeyUp(allocation[v]).gated = allocation[v].gated
          /\ KeyUpGateOff(allocation[v]) \in Allocation
          /\ KeyUpGateOff(allocation[v]).assigned = allocation[v].assigned
    BY <2>2, KeyUpRecord
  <2>4. VoicesOK'
    BY <2>1, <2>2, <2>3, GatedOffIsTyped DEF VoicesOK
  <2>5. \A v \in Voices : ampEnv'[v] = IF v \in off THEN "release" ELSE ampEnv[v]
    BY <2>1 DEF EnvGatedOff
  <2> QED
    BY <2>1, <2>3, <2>4, <2>5
<1> QED
  BY <1>2, <1>3

\* What latching in unison does to the voices: unless the assigner was in unison already,
\* they are all cleared first.
LEMMA FootLatchEffect ==
  ASSUME TypeOK, NEW arpOn \in BOOLEAN, FootLatch(arpOn)
  PROVE  /\ VoicesOK'
         /\ IsPattern(patternOffsets') /\ IsOffsets(patternOffsets')
         /\ \A w \in Voices :
              \/ /\ allocation'[w] = PedalUp(allocation)[w] /\ mono
                 /\ ampEnv'[w] = EnvGatedOff(PedalHeld(allocation))[w]
              \/ ~allocation'[w].assigned
              \/ /\ allocation'[w].assigned /\ allocation'[w].gated
                 /\ w \in voiceMask \/ w = 0
<1> DEFINE up     == PedalUp(allocation)
           before == IF mono THEN up ELSE DoneAll(up)
           env    == EnvGatedOff(PedalHeld(allocation))
           lowest == First(noteStates)
           starts == IF Ignored(lowest, noteStates) THEN {} ELSE {0}
           retrigger == Retriggers(TRUE, lowest, noteStates, arpOn)
<1>1. up \in [Voices -> Allocation] /\ env \in [Voices -> Env] /\ hung \in BOOLEAN
  BY PedalUpEffect, GatedOffIsTyped DEF TypeOK
<1>6. DoneAll(up) \in [Voices -> Allocation] /\ \A v \in Voices : ~DoneAll(up)[v].assigned
  <2> HIDE DEF up
  <2> QED BY <1>1, DoneAllEffect
<1>7. /\ before \in [Voices -> Allocation]
      /\ \A v \in Voices : (before[v] = up[v] /\ mono) \/ ~before[v].assigned
  BY <1>1, <1>6 DEF TypeOK
<1> DEFINE p(keys) == Normalised(LatchedPattern(keys))
<1>2. PICK keys \in KeyLists :
        /\ AreLowestKeys(keys)
        /\ patternOffsets' = p(keys)
        /\ \/ allocation' = before /\ ampEnv' = env /\ UNCHANGED hung
           \/ /\ noteStates # {}
              /\ \E v \in starts : PlayPattern(before, env, p(keys), lowest, v, retrigger)
  BY DEF FootLatch
<1>3. IsPattern(p(keys)) /\ IsOffsets(p(keys))
  BY <1>2, LatchedIsPattern
<1> HIDE DEF before
<1>4. CASE allocation' = before /\ ampEnv' = env /\ UNCHANGED hung
  BY <1>1, <1>2, <1>3, <1>4, <1>7 DEF VoicesOK
<1>5. CASE /\ noteStates # {}
           /\ \E v \in starts : PlayPattern(before, env, p(keys), lowest, v, retrigger)
  <2>1. lowest \in 0 .. 127
    <3>1. noteStates \in SUBSET (0 .. 127)
      BY NotesAssumption DEF TypeOK
    <3>2. noteStates \in SUBSET Nat
      BY <3>1
    <3> QED BY <3>1, <3>2, <1>5, FirstIsMember
  <2>2. PlayPattern(before, env, p(keys), lowest, 0, retrigger)
    BY <1>5
  <2> HIDE DEF env, lowest, starts, p, up, retrigger
  <2>3. /\ allocation' \in [Voices -> Allocation] /\ ampEnv' \in [Voices -> Env] /\ hung' \in BOOLEAN
        /\ \A w \in Voices :
             \/ allocation'[w] = before[w] /\ ampEnv'[w] = env[w]
             \/ allocation'[w].assigned /\ allocation'[w].gated /\ (w = 0 \/ w \in voiceMask)
    BY <1>1, <1>3, <1>7, <2>1, <2>2, PlayPatternEffect
  <2> QED
    BY <1>2, <1>3, <1>7, <2>3 DEF VoicesOK, up, env
<1> QED
  BY <1>2, <1>4, <1>5

LEMMA InitPresetIsPreset == IsPreset(InitPreset)
<1>1. << >> \in Seq(0 .. 254) /\ Len(<< >>) = 0 /\ 0 \in 0 .. N
  BY NAssumption
<1> QED
  BY <1>1 DEF IsPreset, IsOffsets, InitPreset, Priorities, NoNote

LEMMA RootIsOffsets == IsPattern(<< 0 >>) /\ IsOffsets(<< 0 >>)
<1>1. << 0 >> \in Seq(0 .. 254) /\ Len(<< 0 >>) = 1 /\ << 0 >>[1] = 0
  OBVIOUS
<1> QED BY <1>1, NAssumption DEF IsPattern, IsOffsets, NoNote

\* What setPattern is given is a list of offsets that fits.
LEMMA PatternOfPreset ==
  ASSUME NEW p, IsPreset(p), NEW mode
  PROVE  IsOffsets(PatternOf(mode, p))
BY RootIsOffsets DEF IsPreset, PatternOf

\* refreshAssignerSettings keeps the types.
LEMMA RefreshType ==
  ASSUME TypeOK, NEW p, IsPreset(p), NEW mask \in SUBSET Voices, RefreshSettings(p, mask)
  PROVE  TypeOK'
<1>1. allocation' \in [Voices -> Allocation]
  BY VoicesDoneEffect DEF RefreshSettings, TypeOK
<1>2. noteStates' \subseteq Notes
  BY DEF RefreshSettings, TypeOK
<1>3. PatternOf(p.mono, p) \in Seq(0 .. 254) /\ Len(PatternOf(p.mono, p)) \in 0 .. N
  BY PatternOfPreset DEF IsOffsets, NoNote
<1>4. IsPattern(Normalised(PatternOf(p.mono, p))) /\ IsOffsets(Normalised(PatternOf(p.mono, p)))
  BY <1>3, NormalisedIsPattern
<1>5. UNCHANGED patternOffsets \/ (IsPattern(patternOffsets') /\ IsOffsets(patternOffsets'))
  BY <1>4 DEF RefreshSettings, NewPattern
<1>6. SettingsOK'
  BY <1>5 DEF RefreshSettings, SettingsOK, IsPreset, TypeOK
<1>7. MainOK' /\ PatternOK'
  BY <1>5, PatternKept DEF RefreshSettings
<1>8. VoicesOK' /\ KeysOK'
  BY <1>1, <1>2 DEF RefreshSettings, TypeOK, VoicesOK, KeysOK, Env
<1> QED
  BY <1>6, <1>7, <1>8 DEF TypeOK, SettingsOK, MainOK, PatternOK, VoicesOK, KeysOK, Env

\* The unison switch turned off is a refresh with the preset in poly.
LEMMA UnisonOffPreset ==
  ASSUME TypeOK, UnisonOff
  PROVE  LET p == [currentPreset EXCEPT !.mono = FALSE, !.pattern = << 0 >>]
         IN  /\ IsPreset(p) /\ p.mono = FALSE /\ voiceMask \in SUBSET Voices
             /\ p.priority = currentPreset.priority
             /\ RefreshSettings(p, voiceMask)
<1>1. IsPreset(currentPreset)
  BY DEF TypeOK
<1>2. IsPreset([currentPreset EXCEPT !.mono = FALSE, !.pattern = << 0 >>])
  BY <1>1, RootIsOffsets, PatternPreset
<1> QED
  BY <1>1, <1>2 DEF UnisonOff, TypeOK, IsPreset

\* A write of the main loop to the pattern, at or before the place after its end, is a list
\* of offsets that fits, and not empty if it was not or the write is the first.
LEMMA WrittenEffect ==
  ASSUME TypeOK, NEW k \in 1 .. N, NEW offset \in 0 .. 254
  PROVE  /\ IsOffsets(Written(k, offset))
         /\ patternOffsets # << >> \/ k = 1 => Written(k, offset) # << >>
         /\ k > 1 /\ IsPattern(patternOffsets) /\ offset = 0 => IsPattern(Written(k, offset))
         /\ k = 1 /\ offset = 0 => IsPattern(Written(k, offset))
<1> DEFINE s == patternOffsets
<1>1. s \in Seq(0 .. 254) /\ Len(s) \in 0 .. N /\ N \in Nat \ {0} /\ Len(s) \in Nat /\ k \in Nat
  BY NAssumption DEF TypeOK, PatternOK, IsOffsets, NoNote
<1> HIDE DEF s
<1>2. CASE k <= Len(s)
  <2>1. Written(k, offset) = [s EXCEPT ![k] = offset]
    BY <1>2 DEF Written, s
  <2>2. k \in 1 .. Len(s)
    BY <1>1, <1>2
  <2>3. /\ [s EXCEPT ![k] = offset] \in Seq(0 .. 254) /\ Len([s EXCEPT ![k] = offset]) = Len(s)
        /\ \A j \in 1 .. Len(s) : [s EXCEPT ![k] = offset][j] = IF j = k THEN offset ELSE s[j]
    BY <1>1, <2>2, ExceptSeq
  <2>4. Len(s) \in 1 .. N /\ 1 \in 1 .. Len(s)
    BY <1>1, <2>2
  <2>5. [s EXCEPT ![k] = offset] # << >>
    BY <2>3, <2>4
  <2>6. IsOffsets(Written(k, offset))
    BY <1>1, <2>1, <2>3 DEF IsOffsets, NoNote
  <2>7. ((k > 1 /\ IsPattern(s)) \/ k = 1) /\ offset = 0 => IsPattern(Written(k, offset))
    BY <1>1, <2>1, <2>3, <2>4 DEF IsPattern, NoNote
  <2> QED BY <2>1, <2>5, <2>6, <2>7 DEF s
<1>3. CASE k = Len(s) + 1
  <2>1. Written(k, offset) = Append(s, offset)
    BY <1>1, <1>3 DEF Written, s
  <2>2. /\ Append(s, offset) \in Seq(0 .. 254) /\ Len(Append(s, offset)) = Len(s) + 1
        /\ \A j \in 1 .. Len(s) : Append(s, offset)[j] = s[j]
        /\ Append(s, offset)[Len(s) + 1] = offset
    BY <1>1
  <2>3. Len(s) + 1 \in 1 .. N
    BY <1>1, <1>3
  <2>4. Append(s, offset) # << >>
    BY <1>1, <2>2, EmptySeq
  <2>5. IsOffsets(Written(k, offset))
    BY <1>1, <2>1, <2>2, <2>3 DEF IsOffsets, NoNote
  <2>6. ((k > 1 /\ IsPattern(s)) \/ k = 1) /\ offset = 0 => IsPattern(Written(k, offset))
    <3> SUFFICES ASSUME (k > 1 /\ IsPattern(s)) \/ k = 1, offset = 0
                 PROVE  Append(s, offset)[1] = 0
      BY <2>1, <2>2, <2>3 DEF IsPattern, NoNote
    <3>1. CASE k = 1
      BY <1>3, <2>2, <3>1, <1>1
    <3>2. CASE k > 1 /\ IsPattern(s)
      <4>1. s[1] = 0 /\ 1 \in 1 .. Len(s)
        BY <1>1, <1>3, <3>2 DEF IsPattern
      <4> QED BY <2>2, <4>1
    <3> QED BY <3>1, <3>2
  <2> QED BY <2>1, <2>4, <2>5, <2>6 DEF s
<1>4. CASE ~(k <= Len(s)) /\ k # Len(s) + 1
  <2>1. Written(k, offset) = s /\ k # 1
    BY <1>1, <1>4 DEF Written, s
  <2>2. IsOffsets(s)
    BY DEF TypeOK, PatternOK, s
  <2> QED BY <2>1, <2>2 DEF s
<1> QED BY <1>2, <1>3, <1>4

\* Erasing from a place on leaves a list of offsets that fits.
LEMMA ErasedIsOffsets ==
  ASSUME TypeOK, NEW k \in 1 .. N, k <= Len(patternOffsets)
  PROVE  IsOffsets(SubSeq(patternOffsets, 1, k - 1))
<1> DEFINE s == patternOffsets
<1>1. s \in Seq(0 .. 254) /\ Len(s) \in 0 .. N /\ N \in Nat /\ k \in Nat
  BY NAssumption DEF TypeOK, PatternOK, IsOffsets, NoNote
<1>2. k - 1 \in 0 .. N /\ k - 1 <= Len(s)
  BY <1>1
<1> HIDE DEF s
<1>3. ASSUME NEW j \in 1 .. k - 1 PROVE s[j] \in 0 .. 254
  <2>1. j \in 1 .. Len(s)
    BY <1>1, <1>2
  <2> QED BY <1>1, <2>1, ElementOfSeq
<1>4. SubSeq(s, 1, k - 1) \in Seq(0 .. 254) /\ Len(SubSeq(s, 1, k - 1)) = k - 1
  BY <1>1, <1>2, <1>3
<1> QED
  BY <1>2, <1>4 DEF IsOffsets, NoNote, s

\* setPattern's writes in the main loop keep the types, whatever the handlers do between them.
LEMMA WritePatternType ==
  ASSUME TypeOK, MainWritePattern
  PROVE  TypeOK'
<1> DEFINE k == mainRefresh.at
           pattern == PatternOf(mainRefresh.mono, currentPreset)
<1>0. /\ IsOffsets(patternOffsets) /\ k \in Nat /\ N \in Nat \ {0} /\ IsOffsets(pattern) /\ MainOK
  BY NAssumption, PatternOfPreset DEF TypeOK, MainOK, PatternOK
<1>1. 1 \in Nat /\ 0 \in Nat /\ k + 1 \in Nat /\ 1 \in 1 .. N /\ 1 \in 1 .. N + 1
  BY <1>0
<1>2. /\ "erase" \in MainPCs /\ "copy" \in MainPCs /\ "root" \in MainPCs /\ "fill" \in MainPCs
      /\ "read priority" \in MainPCs
  BY DEF MainPCs
<1>3. SUFFICES MainOK' /\ PatternOK'
  BY DEF MainWritePattern, TypeOK
<1> HIDE DEF pattern, k
<1>4. CASE /\ mainRefresh.pc = "erase"
           /\ patternOffsets' = IF k <= Len(patternOffsets)
                                THEN SubSeq(patternOffsets, 1, k - 1) ELSE patternOffsets
           /\ mainRefresh' = IF k < N THEN MainAt("erase", k + 1) ELSE MainAt("copy", 1)
  <2>1. k \in 1 .. N
    BY <1>4 DEF TypeOK, MainOK, k
  <2>2. IsOffsets(patternOffsets')
    BY <1>0, <1>4, <2>1, ErasedIsOffsets
  <2>3. CASE k < N
    <3>1. mainRefresh' = MainAt("erase", k + 1) /\ k + 1 \in 1 .. N
      BY <1>0, <1>4, <2>1, <2>3
    <3>2. MainOK' /\ mainRefresh'.pc = "erase"
      BY <1>0, <1>1, <1>2, <3>1, MainAtOK
    <3> QED BY <2>2, <3>2 DEF PatternOK, Rewriting
  <2>4. CASE ~(k < N)
    <3>1. MainOK' /\ mainRefresh'.pc = "copy" /\ mainRefresh'.at = 1
      BY <1>0, <1>1, <1>2, <1>4, <2>4, MainAtOK
    <3> QED BY <2>2, <3>1 DEF PatternOK, Rewriting
  <2> QED BY <2>3, <2>4
<1>5. CASE /\ mainRefresh.pc = "copy" /\ k <= N /\ k <= Len(pattern)
           /\ patternOffsets' = Written(k, pattern[k])
           /\ mainRefresh' = MainAt("copy", k + 1)
  <2>1. k \in 1 .. N /\ (k > 1 => patternOffsets # << >>)
    BY <1>0, <1>5 DEF TypeOK, MainOK, PatternOK, k
  <2>2. pattern[k] \in 0 .. 254
    <3>1. pattern \in Seq(0 .. 254) /\ k \in 1 .. Len(pattern)
      BY <1>0, <1>5, <2>1 DEF IsOffsets, NoNote
    <3> QED BY <3>1, ElementOfSeq
  <2>3. IsOffsets(patternOffsets') /\ patternOffsets' # << >>
    <3>1. k > 1 \/ k = 1
      BY <2>1
    <3> QED BY <1>5, <2>1, <2>2, <3>1, WrittenEffect
  <2>4. k + 1 \in 1 .. N + 1
    BY <1>0, <2>1
  <2>5. MainOK' /\ mainRefresh'.pc = "copy"
    BY <1>0, <1>1, <1>2, <1>5, <2>4, MainAtOK
  <2> QED BY <2>3, <2>5 DEF PatternOK, Rewriting
<1>6. CASE /\ mainRefresh.pc = "copy" /\ ~(k <= N /\ k <= Len(pattern))
           /\ mainRefresh' = IF k > 1 THEN MainAt("root", 0) ELSE MainAt("fill", 1)
           /\ UNCHANGED patternOffsets
  <2>1. k > 1 => patternOffsets # << >>
    BY <1>6 DEF TypeOK, PatternOK, k
  <2>2. CASE k > 1
    <3>1. MainOK' /\ mainRefresh'.pc = "root"
      BY <1>0, <1>1, <1>2, <1>6, <2>2, MainAtOK
    <3> QED BY <1>0, <1>6, <2>1, <2>2, <3>1 DEF PatternOK, Rewriting
  <2>3. CASE ~(k > 1)
    <3>1. MainOK' /\ mainRefresh'.pc = "fill" /\ mainRefresh'.at = 1
      BY <1>0, <1>1, <1>2, <1>6, <2>3, MainAtOK
    <3> QED BY <1>0, <1>6, <3>1 DEF PatternOK, Rewriting
  <2> QED BY <2>2, <2>3
<1>7. CASE /\ mainRefresh.pc = "root"
           /\ patternOffsets' = [patternOffsets EXCEPT ![1] = 0]
           /\ mainRefresh' = MainAt("read priority", 0)
  <2>1. patternOffsets # << >>
    BY <1>7 DEF TypeOK, PatternOK
  <2>2. 1 <= Len(patternOffsets)
    BY <1>0, <2>1, EmptySeq DEF IsOffsets
  <2>3. patternOffsets' = Written(1, 0)
    BY <1>7, <2>2 DEF Written
  <2>4. IsPattern(patternOffsets')
    BY <1>1, <2>3, WrittenEffect
  <2>5. MainOK'
    BY <1>0, <1>1, <1>2, <1>7, MainAtOK
  <2> QED BY <2>4, <2>5, WholePatternOK
<1>8. CASE /\ mainRefresh.pc = "fill"
           /\ patternOffsets' = Written(k, 0)
           /\ mainRefresh' = IF k < N THEN MainAt("fill", k + 1) ELSE MainAt("read priority", 0)
  <2>1. k \in 1 .. N /\ (k > 1 => IsPattern(patternOffsets))
    BY <1>8 DEF TypeOK, MainOK, PatternOK, k
  <2>2. IsPattern(patternOffsets')
    <3>1. k = 1 \/ k > 1
      BY <2>1
    <3>2. /\ k > 1 /\ IsPattern(patternOffsets) => IsPattern(Written(k, 0))
          /\ k = 1 => IsPattern(Written(k, 0))
      <4>1. 0 \in 0 .. 254
        OBVIOUS
      <4> QED BY <2>1, <4>1, WrittenEffect
    <3>3. patternOffsets' = Written(k, 0)
      BY <1>8
    <3> QED BY <2>1, <3>1, <3>2, <3>3
  <2>3. CASE k < N
    <3>1. mainRefresh' = MainAt("fill", k + 1) /\ k + 1 \in 1 .. N
      BY <1>0, <1>8, <2>1, <2>3
    <3>2. MainOK'
      BY <1>0, <1>1, <1>2, <3>1, MainAtOK
    <3> QED BY <2>2, <3>2, WholePatternOK
  <2>4. CASE ~(k < N)
    <3>1. MainOK'
      BY <1>0, <1>1, <1>2, <1>8, <2>4, MainAtOK
    <3> QED BY <2>2, <3>1, WholePatternOK
  <2> QED BY <2>3, <2>4
<1> QED
  BY <1>4, <1>5, <1>6, <1>7, <1>8 DEF MainWritePattern, k, pattern

\* The field voicesDone clears next is one of a voice.
LEMMA FieldIsOne ==
  ASSUME TypeOK, MainVoicesDone
  PROVE  /\ mainRefresh.at \div DoneFields \in Voices
         /\ mainRefresh.at % DoneFields \in 0 .. DoneFields - 1
<1>1. mainRefresh.at \in Nat /\ mainRefresh.at < 5 * N /\ N \in Nat
  BY NAssumption DEF TypeOK, MainOK, MainVoicesDone, DoneFields, DoneWrites
<1>2. \A k, n \in Nat : k < 5 * n => k \div 5 \in 0 .. n - 1 /\ k % 5 \in 0 .. 4
  OBVIOUS
<1> QED BY <1>1, <1>2 DEF DoneFields, Voices

\* What voicesDone in the main loop does to the voices, field by field: none is assigned or
\* gated that was not.
LEMMA MainDoneEffect ==
  ASSUME TypeOK, MainVoicesDone
  PROVE  /\ allocation' \in [Voices -> Allocation]
         /\ \A v \in Voices : /\ allocation'[v].assigned => allocation[v].assigned
                              /\ allocation'[v].gated = allocation[v].gated
<1> DEFINE v0 == mainRefresh.at \div DoneFields
           field == mainRefresh.at % DoneFields
<1>1. v0 \in Voices /\ field \in 0 .. DoneFields - 1
  BY FieldIsOne
<1>2. allocation' = [allocation EXCEPT ![v0] = FieldDone(allocation[v0], field)]
  BY DEF MainVoicesDone
<1>3. allocation \in [Voices -> Allocation]
  BY DEF TypeOK
<1> HIDE DEF v0, field
<1>4. /\ FieldDone(allocation[v0], field) \in Allocation
      /\ FieldDone(allocation[v0], field).assigned => allocation[v0].assigned
      /\ FieldDone(allocation[v0], field).gated = allocation[v0].gated
  BY <1>1, <1>3, FieldDoneRecord
<1>5. \A v \in Voices : allocation'[v] = IF v = v0 THEN FieldDone(allocation[v0], field)
                                         ELSE allocation[v]
  BY <1>2, <1>3
<1>6. allocation' \in [Voices -> Allocation]
  BY <1>1, <1>2, <1>3, <1>4
<1> QED BY <1>4, <1>5, <1>6

\* The steps of the main loop's refresh keep the types.
LEMMA MainType ==
  ASSUME TypeOK, Main
  PROVE  TypeOK'
<1>0. /\ MainOK /\ mainRefresh.mono \in BOOLEAN /\ mainRefresh.priority \in Priorities
      /\ mainRefresh.at \in Nat /\ mainRefresh.at + 1 \in Nat /\ 0 \in Nat /\ 0 < DoneWrites
  <2>1. 0 < DoneWrites
    BY NAssumption DEF DoneWrites, DoneFields
  <2>2. MainOK
    BY DEF TypeOK
  <2>3. mainRefresh \in [pc : MainPCs, mono : BOOLEAN, priority : Priorities, at : Nat]
    BY <2>2 DEF MainOK
  <2>4. /\ mainRefresh.mono \in BOOLEAN /\ mainRefresh.priority \in Priorities
        /\ mainRefresh.at \in Nat
    BY <2>3
  <2>5. mainRefresh.at + 1 \in Nat
    BY <2>4
  <2> QED BY <2>1, <2>2, <2>4, <2>5
<1>1. MainPCs = {"idle", "mode", "pattern", "switch", "clear", "write mode", "erase", "copy",
                 "root", "fill", "read priority", "priority", "clear all", "keys", "write"}
  BY DEF MainPCs
<1>2. ASSUME mainRefresh' = MainIdle PROVE MainOK'
  <2>1. /\ MainIdle \in [pc : MainPCs, mono : BOOLEAN, priority : Priorities, at : Nat]
        /\ MainIdle.pc = "idle"
    BY <1>1 DEF MainIdle, Priorities
  <2> QED BY <1>2, <2>1 DEF MainOK
<1>3. \/ IsPattern(patternOffsets)
      \/ mainRefresh.pc \in {"erase", "copy", "root", "fill"}
  BY DEF TypeOK, PatternOK, Rewriting
<1>4. CASE MainCompare
  <2>1. IsPattern(patternOffsets') /\ UNCHANGED <<noteStates, allocation, settingVars, hold, currentTick,
                                                  ampEnv, hung>>
    BY <1>3, <1>4 DEF MainCompare, settingVars
  <2>2. \/ mainRefresh' = MainIdle
        \/ mainRefresh' = [MainAt("priority", 0) EXCEPT !.priority = currentPreset.priority]
        \/ \E pc \in {"pattern", "switch", "read priority", "write mode", "clear", "clear all"} :
             mainRefresh' = MainAt(pc, 0)
    BY <1>4 DEF MainCompare
  <2>3. CASE mainRefresh' = [MainAt("priority", 0) EXCEPT !.priority = currentPreset.priority]
    <3>1. currentPreset.priority \in Priorities
      BY DEF TypeOK, IsPreset
    <3>2. /\ mainRefresh' \in [pc : MainPCs, mono : BOOLEAN, priority : Priorities, at : Nat]
          /\ mainRefresh'.pc = "priority"
      BY <1>0, <1>1, <2>3, <3>1 DEF MainAt, MainOK
    <3> QED BY <2>1, <3>2, WholePatternOK DEF settingVars, TypeOK, MainOK
  <2>4. ASSUME NEW pc \in {"pattern", "switch", "read priority", "write mode", "clear", "clear all"},
               mainRefresh' = MainAt(pc, 0)
        PROVE  MainOK'
    <3>1. pc \in MainPCs /\ pc \notin {"erase", "fill", "copy"}
      BY <1>1
    <3> QED BY <1>0, <2>4, <3>1, MainAtOK
  <2>5. CASE mainRefresh' # [MainAt("priority", 0) EXCEPT !.priority = currentPreset.priority]
    <3>1. MainOK'
      BY <1>2, <2>2, <2>4, <2>5
    <3> QED BY <2>1, <3>1, WholePatternOK DEF settingVars, TypeOK
  <2> QED BY <2>3, <2>5
<1>5. CASE MainVoicesDone
  <2>1. allocation' \in [Voices -> Allocation]
    BY <1>5, MainDoneEffect
  <2>2. IsPattern(patternOffsets') /\ UNCHANGED <<noteStates, settingVars, hold, currentTick,
                                                  ampEnv, hung>>
    BY <1>3, <1>5 DEF MainVoicesDone, settingVars
  <2>3. MainOK'
    <3>1. CASE mainRefresh.at + 1 < DoneWrites
      <4>1. /\ mainRefresh' = MainAt(mainRefresh.pc, mainRefresh.at + 1)
            /\ mainRefresh.pc \in {"clear", "clear all"}
        BY <1>5, <3>1 DEF MainVoicesDone
      <4>2. mainRefresh.pc \in MainPCs /\ mainRefresh.at + 1 \in Nat
        <5>1. mainRefresh.pc \in MainPCs
          BY <1>1, <4>1
        <5> QED BY <1>0, <5>1
      <4>3. mainRefresh.pc \notin {"erase", "fill", "copy"}
        BY <4>1
      <4> QED BY <1>0, <3>1, <4>1, <4>2, <4>3, MainAtOK
    <3>2. CASE ~(mainRefresh.at + 1 < DoneWrites)
      <4>1. mainRefresh' = MainAt("write mode", 0) \/ mainRefresh' = MainAt("keys", 0)
        BY <1>5, <3>2 DEF MainVoicesDone
      <4> QED BY <1>0, <1>1, <4>1, MainAtOK
    <3> QED BY <3>1, <3>2
  <2> QED
    BY <2>1, <2>2, <2>3, WholePatternOK DEF settingVars, TypeOK
<1>6. CASE MainWriteMode
  <2>1. IsPattern(patternOffsets') /\ mono' \in BOOLEAN
    BY <1>0, <1>3, <1>6 DEF MainWriteMode
  <2>2. 1 \in 1 .. N /\ 1 \in Nat
    BY NAssumption
  <2>3. MainOK'
    BY <1>0, <1>1, <1>6, <2>2, MainAtOK DEF MainWriteMode
  <2> QED
    BY <1>6, <2>1, <2>3, WholePatternOK DEF MainWriteMode, TypeOK
<1>7. CASE MainWritePattern
  BY <1>7, WritePatternType
<1>8. CASE MainClearKeys
  <2> DEFINE left == {n \div 8 : n \in Notes} \ 0 .. mainRefresh.at - 1
  <2>1. IsPattern(patternOffsets') /\ UNCHANGED <<allocation, settingVars, hold, currentTick,
                                                  ampEnv, hung>>
    BY <1>3, <1>8 DEF MainClearKeys, settingVars
  <2>2. left \in SUBSET Nat
    <3>1. \A n \in 0 .. 127 : n \div 8 \in Nat
      OBVIOUS
    <3> QED BY <3>1, NotesAssumption
  <2>3. noteStates' \subseteq Notes
    BY <1>8 DEF MainClearKeys, TypeOK
  <2>4. mainRefresh' = IF left = {} THEN MainAt("write", 0) ELSE MainAt("keys", First(left) + 1)
    BY <1>8 DEF MainClearKeys
  <2> HIDE DEF left
  <2>5. MainOK'
    <3>1. CASE left = {}
      BY <1>0, <1>1, <2>4, <3>1, MainAtOK
    <3>2. CASE left # {}
      <4>1. First(left) \in Nat
        BY <2>2, <3>2, FirstIsMember
      <4>2. First(left) + 1 \in Nat
        BY <4>1
      <4> QED BY <1>0, <1>1, <2>4, <3>2, <4>2, MainAtOK
    <3> QED BY <3>1, <3>2
  <2> QED
    BY <2>1, <2>3, <2>5, WholePatternOK DEF settingVars, TypeOK
<1>9. CASE MainWritePriority
  <2>1. IsPattern(patternOffsets') /\ priority' \in Priorities /\ MainOK'
    BY <1>0, <1>2, <1>3, <1>9 DEF MainWritePriority
  <2> QED
    BY <1>9, <2>1, WholePatternOK DEF MainWritePriority, TypeOK
<1> QED
  BY <1>4, <1>5, <1>6, <1>7, <1>8, <1>9 DEF Main

\* Every step of the assigner keeps TypeOK.
LEMMA TypeStep ==
  ASSUME TypeOK, [Next]_vars
  PROVE  TypeOK'
<1>0. ASSUME UNCHANGED <<mainRefresh, settingVars>>, VoicesOK', KeysOK'
      PROVE  TypeOK'
  <2>1. MainOK' /\ PatternOK'
    BY <1>0, PatternKept DEF settingVars
  <2>2. SettingsOK'
    BY <1>0 DEF SettingsOK, settingVars, TypeOK
  <2> QED
    BY <1>0, <2>1, <2>2 DEF TypeOK, SettingsOK, MainOK, PatternOK, VoicesOK, KeysOK, Env
<1>1. ASSUME NEW note \in Notes, NEW cycle \in BOOLEAN, NEW arpOn \in BOOLEAN,
             NoteOn(note, cycle, arpOn)
      PROVE  TypeOK'
  BY <1>1, NoteOnType
<1>2. ASSUME NEW note \in Notes, NEW cycle \in BOOLEAN, NEW arpOn \in BOOLEAN,
             NoteOff(note, cycle, arpOn)
      PROVE  TypeOK'
  <2>1. VoicesOK'
    BY <1>2, NoteOffEffect
  <2>2. KeysOK' /\ UNCHANGED <<mainRefresh, settingVars>>
    BY <1>2 DEF NoteOff, KeysOK, TypeOK
  <2> QED
    BY <1>0, <2>1, <2>2
<1>3. CASE AllKeysOff
  <2>1. allocation' \in [Voices -> Allocation]
    BY <1>3, KeyUpRecord DEF AllKeysOff, TypeOK
  <2>2. ampEnv' \in [Voices -> Env]
    BY <1>3, GatedOffIsTyped DEF AllKeysOff
  <2> QED
    BY <1>0, <1>3, <2>1, <2>2 DEF AllKeysOff, TypeOK, VoicesOK, KeysOK
<1>4. ASSUME NEW down \in BOOLEAN, HoldEvent(down) PROVE TypeOK'
  <2>1. allocation' \in [Voices -> Allocation] /\ ampEnv' \in [Voices -> Env]
    BY <1>4, PedalUpEffect, GatedOffIsTyped DEF HoldEvent, TypeOK, Env
  <2> QED
    BY <1>0, <1>4, <2>1 DEF HoldEvent, TypeOK, VoicesOK, KeysOK
<1>5. CASE AllSoundOff
  <2>1. allocation' \in [Voices -> Allocation]
    BY <1>5, DoneRecord DEF AllSoundOff, TypeOK
  <2> QED
    BY <1>0, <1>5, <2>1 DEF AllSoundOff, TypeOK, VoicesOK, KeysOK, Env
<1>6. CASE AllVoicesDone
  <2>1. allocation' \in [Voices -> Allocation]
    BY <1>6, VoicesDoneEffect DEF AllVoicesDone, TypeOK
  <2> QED
    BY <1>0, <1>6, <2>1 DEF AllVoicesDone, TypeOK, VoicesOK, KeysOK, Env
<1>7. ASSUME NEW p \in Presets, NEW mask \in Masks, RefreshSettings(p, mask) PROVE TypeOK'
  <2>1. IsPreset(p) /\ mask \in SUBSET Voices
    BY PresetsAssumption, MasksAssumption
  <2> QED
    BY <1>7, <2>1, RefreshType
<1>8. CASE UnisonOn
  <2> DEFINE before == IF mono /\ currentPreset.priority = priority THEN allocation ELSE VoicesDone
  <2>1. before \in [Voices -> Allocation]
    BY VoicesDoneEffect DEF TypeOK
  <2>2. allocation' = PedalUp(before) /\ ampEnv' = EnvGatedOff(PedalHeld(before))
    BY <1>8 DEF UnisonOn
  <2> HIDE DEF before
  <2>3. allocation' \in [Voices -> Allocation] /\ ampEnv' \in [Voices -> Env]
    BY <2>1, <2>2, PedalUpEffect, GatedOffIsTyped
  <2>4. IsPattern(patternOffsets') /\ IsOffsets(patternOffsets')
    BY <1>8, UnisonPattern DEF UnisonOn
  <2>5. MainOK' /\ PatternOK'
    BY <1>8, <2>4, PatternKept DEF UnisonOn
  <2>6. IsPreset(currentPreset) /\ currentPreset.priority \in Priorities
    BY DEF TypeOK, IsPreset
  <2>7. SettingsOK'
    BY <1>8, <2>4, <2>6, PatternPreset DEF UnisonOn, SettingsOK, TypeOK
  <2> QED
    BY <1>8, <2>3, <2>5, <2>7 DEF UnisonOn, TypeOK, SettingsOK, MainOK, PatternOK, Env
<1>9. CASE UnisonOff
  BY <1>9, UnisonOffPreset, RefreshType
<1>10. ASSUME NEW arpOn \in BOOLEAN, FootLatch(arpOn) PROVE TypeOK'
  <2>1. VoicesOK' /\ IsPattern(patternOffsets') /\ IsOffsets(patternOffsets')
    BY <1>10, FootLatchEffect
  <2>2. MainOK' /\ PatternOK'
    BY <1>10, <2>1, PatternKept DEF FootLatch
  <2>3. IsPreset(currentPreset')
    <3>1. IsPreset(currentPreset)
      BY DEF TypeOK
    <3> QED BY <1>10, <2>1, <3>1 DEF FootLatch, IsPreset
  <2> QED
    BY <1>10, <2>1, <2>2, <2>3 DEF FootLatch, TypeOK, MainOK, PatternOK, VoicesOK, Env
<1>11. CASE HandleFinishedVoices
  <2>1. allocation' \in [Voices -> Allocation]
    BY <1>11, DoneRecord DEF HandleFinishedVoices, TypeOK
  <2>2. ampEnv' \in [Voices -> Env]
    BY <1>11 DEF HandleFinishedVoices, TypeOK, Env
  <2> QED
    BY <1>0, <1>11, <2>1, <2>2 DEF HandleFinishedVoices, TypeOK, VoicesOK, KeysOK
<1>12. ASSUME NEW v \in Voices, EnvelopeEnds(v) PROVE TypeOK'
  BY <1>0, <1>12 DEF EnvelopeEnds, TypeOK, VoicesOK, KeysOK, Env
<1>13. CASE Tick
  BY <1>0, <1>13, TickAssumption DEF Tick, TypeOK, VoicesOK, KeysOK, Env
<1>14. ASSUME NEW p \in Presets, MainRefresh(p) PROVE TypeOK'
  <2>1. IsPreset(p)
    BY PresetsAssumption
  <2>2. MainOK' /\ mainRefresh'.pc = "mode"
    BY <1>14, <2>1 DEF MainRefresh, MainOK, MainIdle, MainPCs, IsPreset, Priorities
  <2>3. PatternOK'
    BY <1>14, <2>2 DEF MainRefresh, TypeOK, PatternOK, Rewriting
  <2> QED
    BY <1>14, <2>1, <2>2, <2>3 DEF MainRefresh, MainOK, PatternOK, TypeOK
<1>15. CASE Main
  BY <1>15, MainType
<1>16. CASE UNCHANGED vars
  <2>1. VoicesOK' /\ KeysOK'
    BY <1>16 DEF vars, TypeOK, VoicesOK, KeysOK, Env
  <2> QED BY <1>0, <1>16, <2>1 DEF vars, settingVars
<1> QED
  BY <1>1, <1>2, <1>3, <1>4, <1>5, <1>6, <1>7, <1>8, <1>9, <1>10, <1>11, <1>12, <1>13,
     <1>14, <1>15, <1>16 DEF Next, Key, Preset, Controls

LEMMA InitType ==
  ASSUME Init
  PROVE  TypeOK
<1>1. IsPattern(<< 0 >>) /\ IsOffsets(<< 0 >>)
  BY RootIsOffsets
<1>2. IsPreset(InitPreset)
  BY InitPresetIsPreset
<1>3. allocation \in [Voices -> Allocation]
  BY TickAssumption DEF Init, Allocation
<1>4. VoicesOK
  BY <1>3 DEF Init, VoicesOK, Env
<1>5. MainOK /\ PatternOK
  BY <1>1 DEF Init, MainIdle, MainOK, MainPCs, Priorities, PatternOK, Rewriting
<1>6. SettingsOK
  BY <1>1, <1>2 DEF Init, SettingsOK, Priorities
<1>7. 0 \in 0 .. MaxTick
  BY TickAssumption
<1>8. KeysOK
  BY <1>7 DEF Init, KeysOK
<1> QED
  BY <1>4, <1>5, <1>6, <1>8, TypeParts

\* In every behaviour of the assigner all its variables keep their types: the
\* voice that a search returns exists, pattern offsets never run past the
\* pattern, and the note played wraps to a byte.
THEOREM AssignerTypeOK == Spec => []TypeOK
<1>1. Init => TypeOK
  BY InitType
<1>2. TypeOK /\ [Next]_vars => TypeOK'
  BY TypeStep
<1> QED
  BY <1>1, <1>2, PTL DEF Spec

-----------------------------------------------------------------------------
(* No drone *)

\* Every step of the assigner keeps NoDrone.
LEMMA NoDroneStep ==
  ASSUME TypeOK, NoDrone, [Next]_vars
  PROVE  NoDrone'
<1>0. \A v \in Voices : allocation[v] \in Allocation /\ ampEnv[v] \in Env
  BY DEF TypeOK, Env
<1>1. ASSUME NEW note \in Notes, NEW cycle \in BOOLEAN, NEW arpOn \in BOOLEAN,
             NoteOn(note, cycle, arpOn)
      PROVE  NoDrone'
  <2>1. note \in 0 .. 127
    BY NotesAssumption
  <2> QED
    BY <1>1, <2>1, PlayEffect DEF NoteOn, NoDrone
<1>2. ASSUME NEW note \in Notes, NEW cycle \in BOOLEAN, NEW arpOn \in BOOLEAN,
             NoteOff(note, cycle, arpOn)
      PROVE  NoDrone'
  BY <1>2, NoteOffEffect DEF NoDrone
<1>3. CASE AllKeysOff
  BY <1>0, <1>3, KeyUpRecord DEF AllKeysOff, EnvGatedOff, NoDrone
<1>4. ASSUME NEW down \in BOOLEAN, HoldEvent(down) PROVE NoDrone'
  <2>1. CASE UNCHANGED <<allocation, ampEnv>>
    BY <2>1 DEF NoDrone
  <2>2. CASE allocation' = PedalUp(allocation) /\ ampEnv' = EnvGatedOff(PedalHeld(allocation))
    BY <2>2, PedalUpEffect DEF EnvGatedOff, NoDrone, TypeOK
  <2> QED
    BY <1>4, <2>1, <2>2 DEF HoldEvent
<1>5. CASE AllSoundOff
  BY <1>0, <1>5, DoneRecord DEF AllSoundOff, NoDrone
<1>6. ASSUME \A v \in Voices : allocation'[v] = allocation[v] \/ ~allocation'[v].assigned,
             ampEnv' = ampEnv
      PROVE  NoDrone'
  BY <1>6 DEF NoDrone
<1>7. \A v \in Voices : ~VoicesDone[v].assigned
  BY VoicesDoneEffect DEF TypeOK
<1>8. CASE AllVoicesDone
  BY <1>6, <1>7, <1>8 DEF AllVoicesDone
<1>9. ASSUME NEW p, NEW mask, RefreshSettings(p, mask) PROVE NoDrone'
  BY <1>6, <1>7, <1>9 DEF RefreshSettings
<1>10. CASE UnisonOn
  <2> DEFINE before == IF mono /\ currentPreset.priority = priority THEN allocation ELSE VoicesDone
  <2>1. before \in [Voices -> Allocation]
    BY VoicesDoneEffect DEF TypeOK
  <2>2. \A v \in Voices : before[v] = allocation[v] \/ ~before[v].assigned
    BY <1>7
  <2>3. allocation' = PedalUp(before) /\ ampEnv' = EnvGatedOff(PedalHeld(before))
    BY <1>10 DEF UnisonOn
  <2> HIDE DEF before
  <2> QED
    BY <2>1, <2>2, <2>3, PedalUpEffect DEF EnvGatedOff, NoDrone
<1>11. ASSUME NEW arpOn \in BOOLEAN, FootLatch(arpOn) PROVE NoDrone'
  <2>1. \A w \in Voices :
          allocation'[w].assigned /\ ampEnv'[w] = "on" =>
            \/ allocation'[w].gated
            \/ /\ allocation'[w] = PedalUp(allocation)[w]
               /\ ampEnv'[w] = EnvGatedOff(PedalHeld(allocation))[w]
    BY <1>11, FootLatchEffect
  <2> QED
    BY <2>1, PedalUpEffect DEF EnvGatedOff, NoDrone, TypeOK
<1>12. CASE HandleFinishedVoices
  BY <1>0, <1>12, DoneRecord DEF HandleFinishedVoices, NoDrone
<1>13. ASSUME NEW v \in Voices, EnvelopeEnds(v) PROVE NoDrone'
  BY <1>0, <1>13 DEF EnvelopeEnds, NoDrone, TypeOK
<1>14. CASE UNCHANGED <<allocation, ampEnv>>
  BY <1>14 DEF NoDrone
<1>15. ASSUME NEW p \in Presets, MainRefresh(p) PROVE NoDrone'
  BY <1>14, <1>15 DEF MainRefresh
<1>16. CASE MainVoicesDone
  <2>1. ampEnv' = ampEnv
    BY <1>16 DEF MainVoicesDone
  <2> QED BY <1>16, <2>1, MainDoneEffect DEF NoDrone
<1>17. CASE Tick \/ MainCompare \/ MainWriteMode \/ MainWritePattern \/ MainClearKeys
            \/ MainWritePriority \/ UNCHANGED vars
  BY <1>14, <1>17 DEF Tick, MainCompare, MainWriteMode, MainWritePattern, MainClearKeys,
                      MainWritePriority, vars
<1> QED
  BY <1>1, <1>2, <1>3, <1>4, <1>5, <1>8, <1>9, <1>10, <1>11, <1>12, <1>13, <1>15, <1>16, <1>17
     DEF Next, Key, Preset, Controls, Main, UnisonOff

\* A voice whose envelope is held up by its gate is always one that the
\* assigner believes gated, so that some path can still gate it off: whatever
\* the presets and the masks, and between whichever two writes of voicesDone,
\* setPattern and setPriority in the main loop the handlers come.
THEOREM AssignerNoDrone == Spec => []NoDrone
<1>1. Init => TypeOK /\ NoDrone
  BY InitType DEF Init, NoDrone
<1>2. TypeOK /\ NoDrone /\ [Next]_vars => TypeOK' /\ NoDrone'
  BY TypeStep, NoDroneStep
<1> QED
  BY <1>1, <1>2, PTL DEF Spec

-----------------------------------------------------------------------------
(* The voice mask *)

\* Only the main loop's refresh is ever between two of its steps.
MainOnly == mainRefresh.pc # "idle" => "main" \in Stimuli

MaskInv == TypeOK /\ MaskRespected /\ MainOnly

LEMMA MainOnlyStep ==
  ASSUME TypeOK, MainOnly, [Next]_vars
  PROVE  MainOnly'
<1>1. CASE UNCHANGED mainRefresh
  BY <1>1 DEF MainOnly
<1>2. ASSUME NEW p \in Presets, MainRefresh(p) PROVE MainOnly'
  BY <1>2 DEF MainRefresh, MainOnly
<1>3. CASE Main
  <2>1. mainRefresh.pc # "idle"
    BY <1>3 DEF Main, MainCompare, MainVoicesDone, MainWriteMode, MainWritePattern, MainClearKeys,
                MainWritePriority
  <2> QED BY <2>1 DEF MainOnly
<1>4. \A p, mask : RefreshSettings(p, mask) => UNCHANGED mainRefresh
  BY DEF RefreshSettings
<1>5. \A note, cycle, arpOn : NoteOn(note, cycle, arpOn) \/ NoteOff(note, cycle, arpOn)
        => UNCHANGED mainRefresh
  BY DEF NoteOn, NoteOff
<1>6. Controls => UNCHANGED mainRefresh
  BY <1>4 DEF Controls, AllKeysOff, AllSoundOff, AllVoicesDone, UnisonOn, UnisonOff, HoldEvent,
              FootLatch
<1>7. HandleFinishedVoices \/ (\E v \in Voices : EnvelopeEnds(v)) \/ Tick \/ UNCHANGED vars
        => UNCHANGED mainRefresh
  BY DEF HandleFinishedVoices, EnvelopeEnds, Tick, vars
<1> QED
  BY <1>1, <1>2, <1>3, <1>4, <1>5, <1>6, <1>7 DEF Next, Key, Preset

\* Every step of the assigner keeps MaskRespected.
LEMMA MaskStep ==
  ASSUME MaskInv, [Next]_vars
  PROVE  MaskRespected'
<1> USE DEF MaskInv
<1>0. \A v \in Voices : allocation[v] \in Allocation
  BY DEF TypeOK
<1>1. ASSUME \A v \in Voices :
               \/ allocation'[v].assigned = allocation[v].assigned
               \/ ~allocation'[v].assigned
               \/ v \in voiceMask \/ (v = 0 /\ mono),
             voiceMask' = voiceMask, mono => (mono' \/ "main" \in Stimuli)
      PROVE  MaskRespected'
  BY <1>1 DEF MaskRespected
<1>2. ASSUME \A v \in Voices : ~allocation'[v].assigned
      PROVE  MaskRespected'
  BY <1>2 DEF MaskRespected
<1>3. ASSUME NEW note \in Notes, NEW cycle \in BOOLEAN, NEW arpOn \in BOOLEAN,
             NoteOn(note, cycle, arpOn)
      PROVE  MaskRespected'
  <2>1. note \in 0 .. 127
    BY NotesAssumption
  <2> QED
    BY <1>1, <1>3, <2>1, PlayEffect DEF NoteOn, settingVars
<1>4. ASSUME NEW note \in Notes, NEW cycle \in BOOLEAN, NEW arpOn \in BOOLEAN,
             NoteOff(note, cycle, arpOn)
      PROVE  MaskRespected'
  <2>1. voiceMask' = voiceMask /\ mono' = mono
    BY <1>4 DEF NoteOff, settingVars
  <2> QED
    BY <1>1, <1>4, <2>1, NoteOffEffect
<1>5. CASE AllKeysOff
  BY <1>0, <1>1, <1>5, KeyUpRecord DEF AllKeysOff, settingVars
<1>6. ASSUME NEW down \in BOOLEAN, HoldEvent(down) PROVE MaskRespected'
  <2>1. /\ allocation' = allocation \/ allocation' = PedalUp(allocation)
        /\ voiceMask' = voiceMask /\ mono' = mono
    BY <1>6 DEF HoldEvent, settingVars
  <2> QED
    BY <1>1, <2>1, PedalUpEffect DEF TypeOK
<1>7. CASE AllSoundOff
  BY <1>0, <1>2, <1>7, DoneRecord DEF AllSoundOff
<1>8. \A v \in Voices : ~VoicesDone[v].assigned
  BY VoicesDoneEffect DEF TypeOK
<1>9. CASE AllVoicesDone
  BY <1>2, <1>8, <1>9 DEF AllVoicesDone
<1>10. ASSUME NEW p, NEW mask, RefreshSettings(p, mask) PROVE MaskRespected'
  <2>1. CASE allocation' = VoicesDone
    BY <1>2, <1>8, <2>1
  <2>2. CASE allocation' = allocation /\ mask = voiceMask /\ p.mono = mono
    BY <1>1, <1>10, <2>2 DEF RefreshSettings
  <2> QED
    BY <1>10, <2>1, <2>2 DEF RefreshSettings
<1>11. CASE UnisonOn
  <2> DEFINE before == IF mono /\ currentPreset.priority = priority THEN allocation ELSE VoicesDone
  <2>1. before \in [Voices -> Allocation]
    BY VoicesDoneEffect DEF TypeOK
  <2>2. \A v \in Voices : before[v] = allocation[v] \/ ~before[v].assigned
    BY <1>8
  <2>3. allocation' = PedalUp(before) /\ voiceMask' = voiceMask /\ mono'
    BY <1>11 DEF UnisonOn
  <2> HIDE DEF before
  <2>4. \A v \in Voices : allocation'[v].assigned = before[v].assigned
    BY <2>1, <2>3, PedalUpEffect
  <2> QED
    BY <1>1, <2>2, <2>3, <2>4
<1>12. ASSUME NEW arpOn \in BOOLEAN, FootLatch(arpOn) PROVE MaskRespected'
  <2>1. \A w \in Voices : \/ allocation'[w] = PedalUp(allocation)[w]
                          \/ ~allocation'[w].assigned
                          \/ w \in voiceMask \/ w = 0
    BY <1>12, FootLatchEffect
  <2>2. voiceMask' = voiceMask /\ mono' = TRUE
    BY <1>12 DEF FootLatch
  <2>3. \A w \in Voices : PedalUp(allocation)[w].assigned = allocation[w].assigned
    BY PedalUpEffect DEF TypeOK
  <2> QED
    BY <2>1, <2>2, <2>3 DEF MaskRespected
<1>13. CASE HandleFinishedVoices
  BY <1>0, <1>1, <1>13, DoneRecord DEF HandleFinishedVoices, settingVars
<1>14. CASE UNCHANGED <<allocation, voiceMask, mono>>
  BY <1>1, <1>14
<1>15. CASE (\E v \in Voices : EnvelopeEnds(v)) \/ Tick \/ UNCHANGED vars
             \/ MainCompare \/ MainWritePattern \/ MainClearKeys \/ MainWritePriority
  BY <1>14, <1>15 DEF EnvelopeEnds, Tick, vars, settingVars, MainCompare, MainWritePattern,
                      MainClearKeys, MainWritePriority
<1>16. ASSUME NEW p \in Presets, MainRefresh(p) PROVE MaskRespected'
  BY <1>14, <1>16 DEF MainRefresh
<1>17. CASE MainWriteMode
  BY <1>1, <1>17 DEF MainWriteMode, MainOnly
<1>18. CASE MainVoicesDone
  <2>1. voiceMask' = voiceMask /\ mono' = mono
    BY <1>18 DEF MainVoicesDone, settingVars
  <2> QED
    BY <1>0, <1>18, <2>1, MainDoneEffect DEF MaskRespected
<1> QED
  BY <1>3, <1>4, <1>5, <1>6, <1>7, <1>9, <1>10, <1>11, <1>12, <1>13, <1>15, <1>16, <1>17, <1>18
     DEF Next, Key, Preset, Controls, Main, UnisonOff

\* No disabled voice but voice 0 is ever assigned, and voice 0 only in unison
\* as long as the main loop does not switch modes between two interrupts. The
\* invariant is inductive only with MainOnly: that the unguarded second half
\* of the main loop's refresh runs only after the first.
THEOREM AssignerMaskRespected == Spec => []MaskRespected
<1>1. Init => MaskInv
  <2> SUFFICES ASSUME Init PROVE MaskInv
    OBVIOUS
  <2>1. MaskRespected
    BY DEF Init, MaskRespected
  <2>2. MainOnly
    BY DEF Init, MainOnly, MainIdle
  <2> QED
    BY <2>1, <2>2, InitType DEF MaskInv
<1>2. MaskInv /\ [Next]_vars => MaskInv'
  BY TypeStep, MaskStep, MainOnlyStep DEF MaskInv
<1>3. MaskInv => MaskRespected
  BY DEF MaskInv
<1> QED
  BY <1>1, <1>2, <1>3, PTL DEF Spec

-----------------------------------------------------------------------------
(* Keys and voices while no preset is in unison *)

\* No voice is silenced without its key, a key goes down once before it goes up, and the main
\* loop does not refresh the assigner: a key between two writes of its voicesDone is left
\* playing, or silent.
KeysOnly == "soundoff" \notin Stimuli /\ "repeat" \notin Stimuli /\ "main" \notin Stimuli

\* The assigner is as the preset says.
Settled ==
  mainRefresh.pc = "idle" /\ currentPreset.mono = mono /\ currentPreset.priority = priority

\* Every handler settles it again.
LEMMA SettledStep ==
  ASSUME KeysOnly, TypeOK, Settled, [Next]_vars
  PROVE  Settled'
<1>1. CASE UNCHANGED <<mainRefresh, currentPreset, mono, priority>>
  BY <1>1 DEF Settled
<1>2. ASSUME NEW p, NEW mask, RefreshSettings(p, mask) PROVE Settled'
  BY <1>2 DEF Settled, RefreshSettings
<1>3. \A note, cycle, arpOn : NoteOn(note, cycle, arpOn) \/ NoteOff(note, cycle, arpOn)
        => UNCHANGED <<mainRefresh, settingVars>>
  BY DEF NoteOn, NoteOff
<1>4. AllKeysOff \/ AllSoundOff \/ AllVoicesDone \/ (\E down \in BOOLEAN : HoldEvent(down))
        => UNCHANGED <<mainRefresh, settingVars>>
  BY DEF AllKeysOff, AllSoundOff, AllVoicesDone, HoldEvent
<1>5. HandleFinishedVoices \/ (\E v \in Voices : EnvelopeEnds(v)) \/ Tick \/ UNCHANGED vars
        => UNCHANGED <<mainRefresh, settingVars>>
  BY DEF HandleFinishedVoices, EnvelopeEnds, Tick, vars, settingVars
<1>6. CASE UNCHANGED <<mainRefresh, settingVars>>
  BY <1>1, <1>6 DEF settingVars
<1>7. IsPreset(currentPreset)
  BY DEF TypeOK
<1>8. CASE UnisonOn
  BY <1>7, <1>8 DEF UnisonOn, Settled, IsPreset
<1>9. ASSUME NEW arpOn \in BOOLEAN, FootLatch(arpOn) PROVE Settled'
  BY <1>7, <1>9 DEF FootLatch, Settled, IsPreset
<1>10. ~Main /\ \A p : ~MainRefresh(p)
  BY DEF KeysOnly, Settled, MainRefresh, Main, MainCompare, MainVoicesDone, MainWriteMode,
         MainWritePattern, MainClearKeys, MainWritePriority
<1> QED
  BY <1>2, <1>3, <1>4, <1>5, <1>6, <1>8, <1>9, <1>10 DEF Next, Key, Preset, Controls, UnisonOff

\* Presets are polyphonic besides.
OnlyPoly ==
  /\ KeysOnly
  /\ \A p \in Presets : ~p.mono
  /\ "unison" \notin Stimuli

\* A step that does not lead into unison.
StaysPoly == mono' = FALSE

PolyMode == ~mono /\ patternOffsets = << 0 >> /\ Settled

\* A voice that plays is enabled, and plays a key that it takes to be down if
\* and only if it is; then it is gated and sounds. Otherwise only the pedal
\* keeps its gate up.
VoicesAgree ==
  \A v \in Voices : allocation[v].assigned =>
    /\ v \in voiceMask
    /\ allocation[v].note = allocation[v].rootNote
    /\ allocation[v].timestamp <= currentTick
    /\ allocation[v].keyPressed <=> allocation[v].rootNote \in noteStates
    /\ allocation[v].keyPressed => allocation[v].gated /\ ampEnv[v] = "on"
    /\ ~hold /\ allocation[v].gated => allocation[v].keyPressed

\* No key plays on two voices, so that a release ends all it began.
OneVoiceEach ==
  \A v, w \in Voices :
    /\ allocation[v].assigned /\ allocation[w].assigned
    /\ allocation[v].rootNote = allocation[w].rootNote
    => v = w

PolyInv == TypeOK /\ PolyMode /\ VoicesAgree /\ OneVoiceEach /\ NoStarvedKey

\* A voice that begins a note.
Begun(note) ==
  [timestamp |-> currentTick, rootNote |-> note, note |-> note,
   assigned |-> TRUE, gated |-> TRUE, keyPressed |-> TRUE]

\* The voice a note starts on is the only one that changes.
LEMMA PolyPlay ==
  ASSUME TypeOK, patternOffsets = << 0 >>, NEW note \in 0 .. 127,
         NEW starts \in SUBSET voiceMask, NEW retrigger \in BOOLEAN,
         Play(note, starts, retrigger)
  PROVE  \/ starts = {} /\ UNCHANGED <<allocation, ampEnv>>
         \/ \E v \in starts : \A w \in Voices :
              /\ allocation'[w] = IF w = v THEN Begun(note) ELSE allocation[w]
              /\ ampEnv'[w] = IF w = v /\ retrigger THEN "on" ELSE ampEnv[w]
<1>1. CASE starts = {}
  BY <1>1 DEF Play
<1>2. CASE starts # {}
  <2>1. << 0 >> # <<>> /\ Len(<< 0 >>) = 1 /\ << 0 >>[1] = 0
    OBVIOUS
  <2>2. PICK v \in starts : PlayPattern(allocation, ampEnv, << 0 >>, note, v, retrigger)
    BY <1>2, <2>1 DEF Play
  <2>3. \A w \in Voices : StepsOn(<< 0 >>, v, w) = IF w = v THEN {1} ELSE {}
    BY <2>1 DEF StepsOn
  <2>4. Sounding(note, << 0 >>, {1}) = Begun(note)
    <3>1. (CHOOSE k \in {1} : \A j \in {1} : j <= k) = 1
      OBVIOUS
    <3>2. (note + 0) % 256 = note
      OBVIOUS
    <3> QED BY <2>1, <3>1, <3>2 DEF Sounding, Begun
  <2>5. /\ allocation' = [w \in Voices |->
             IF StepsOn(<< 0 >>, v, w) = {} THEN allocation[w]
             ELSE Sounding(note, << 0 >>, StepsOn(<< 0 >>, v, w))]
        /\ ampEnv' = [w \in Voices |->
             IF retrigger /\ StepsOn(<< 0 >>, v, w) # {} THEN "on" ELSE ampEnv[w]]
    BY <1>2, <2>2 DEF PlayPattern
  <2>6. \A w \in Voices :
          /\ allocation'[w] = IF w = v THEN Begun(note) ELSE allocation[w]
          /\ ampEnv'[w] = IF w = v /\ retrigger THEN "on" ELSE ampEnv[w]
    BY <2>3, <2>4, <2>5
  <2> QED
    BY <2>6
<1> QED
  BY <1>1, <1>2

\* A voice that getAvailableVoice takes to play the note already.
Plays(v, note) ==
  /\ allocation[v].assigned /\ allocation[v].timestamp < currentTick
  /\ allocation[v].note = note

\* The enabled voices play keys of a set.
AllPlay(keys) == \A w \in voiceMask : allocation[w].assigned /\ allocation[w].rootNote \in keys

\* What the two searches find: the voice that plays the note, else one that is
\* free, else one whose key is up; if there is none, all enabled voices play
\* keys that are down.
LEMMA PolyStart ==
  ASSUME PolyInv, NEW note \in 0 .. 127, NEW held, NEW cycle \in BOOLEAN
  PROVE  /\ StartVoices(note, held, cycle) \in SUBSET voiceMask
         /\ \/ \A v \in StartVoices(note, held, cycle) : Plays(v, note)
            \/ /\ \A w \in voiceMask : ~Plays(w, note)
               /\ \A v \in StartVoices(note, held, cycle) :
                    ~allocation[v].assigned \/ allocation[v].rootNote \notin held
            \/ (\A w \in voiceMask : ~Plays(w, note)) /\ AllPlay(held)
         /\ \/ StartVoices(note, held, cycle) # {}
            \/ (\A w \in voiceMask : ~Plays(w, note)) /\ AllPlay(held)
<1> DEFINE same == {v \in voiceMask : Plays(v, note)}
           free == {v \in voiceMask : ~allocation[v].assigned}
           released == {v \in voiceMask : allocation[v].rootNote \notin held}
<1>1. /\ same \in SUBSET voiceMask /\ free \in SUBSET voiceMask /\ released \in SUBSET voiceMask
      /\ voiceMask \in SUBSET Voices /\ voiceMask \in SUBSET Nat
      /\ TypeOK /\ ~mono
  BY NAssumption DEF PolyInv, PolyMode, TypeOK, Voices
<1>2. AvailableVoices(note, cycle) =
        IF same # {} THEN {First(same)}
        ELSE IF free = {} THEN {}
        ELSE {IF cycle THEN Oldest(free) ELSE First(free)}
  BY DEF AvailableVoices, Plays
<1>3. released # {} => DispensableVoices(note, held) = {Oldest(released)}
  BY DEF DispensableVoices
<1>4. DispensableVoices(note, held) \in SUBSET voiceMask
  BY <1>1, DispensableIsEnabled
<1>5. StartVoices(note, held, cycle) =
        IF AvailableVoices(note, cycle) # {} THEN AvailableVoices(note, cycle)
        ELSE DispensableVoices(note, held)
  BY <1>1 DEF StartVoices
<1>6. same = {} => \A w \in voiceMask : ~Plays(w, note)
  OBVIOUS
<1>7. free = {} => \A w \in voiceMask : allocation[w].assigned
  OBVIOUS
<1>8. released = {} => \A w \in voiceMask : allocation[w].rootNote \in held
  OBVIOUS
<1>9. /\ \A v \in same : Plays(v, note)
      /\ \A v \in free : ~allocation[v].assigned
      /\ \A v \in released : allocation[v].rootNote \notin held
  OBVIOUS
<1> HIDE DEF same, free, released
<1>10. same # {} => First(same) \in same
  BY <1>1, FirstIsMember
<1>11. free # {} => First(free) \in free /\ Oldest(free) \in free
  BY <1>1, FirstIsMember, OldestIsMember
<1>12. released # {} => Oldest(released) \in released
  BY <1>1, OldestIsMember
<1> DEFINE starts == StartVoices(note, held, cycle)
<1>13. CASE same # {}
  <2>1. starts = {First(same)}
    BY <1>2, <1>5, <1>13
  <2> QED BY <1>1, <1>9, <1>10, <1>13, <2>1
<1>14. CASE same = {} /\ free # {}
  <2>1. PICK v \in free : starts = {v}
    BY <1>2, <1>5, <1>11, <1>14
  <2> QED BY <1>1, <1>6, <1>9, <1>14, <2>1
<1>15. CASE same = {} /\ free = {} /\ released # {}
  <2>1. starts = {Oldest(released)}
    BY <1>2, <1>3, <1>5, <1>15
  <2> QED BY <1>1, <1>6, <1>7, <1>9, <1>12, <1>15, <2>1
<1>16. CASE same = {} /\ free = {} /\ released = {}
  <2>1. starts = DispensableVoices(note, held)
    BY <1>2, <1>5, <1>16
  <2> QED BY <1>4, <1>6, <1>7, <1>8, <1>16, <2>1 DEF AllPlay
<1> QED
  BY <1>13, <1>14, <1>15, <1>16

\* Pressing a key keeps the agreement of keys and voices: it takes the one voice
\* that played the key before, or it has none and gets one.
LEMMA PolyNoteOn ==
  ASSUME PolyInv, NEW note \in Notes, NEW cycle \in BOOLEAN, NEW arpOn \in BOOLEAN,
         NoteOn(note, cycle, arpOn), ~Repeated(note)
  PROVE  VoicesAgree' /\ OneVoiceEach' /\ NoStarvedKey'
<1> DEFINE held   == noteStates \cup {note}
           starts == StartVoices(note, held, cycle)
<1>1. note \in 0 .. 127
  BY NotesAssumption
<1>2. /\ noteStates' = held /\ voiceMask' = voiceMask /\ currentTick' = currentTick /\ hold' = hold
      /\ Play(note, starts, Retriggers(mono, note, held, arpOn))
  BY DEF NoteOn, settingVars
<1>3. Retriggers(mono, note, held, arpOn) = TRUE
  BY DEF PolyInv, PolyMode, Retriggers
<1>4. /\ allocation \in [Voices -> Allocation] /\ currentTick \in Nat
      /\ \A v \in Voices : allocation[v].timestamp \in Nat
      /\ voiceMask \in SUBSET Voices /\ patternOffsets = << 0 >> /\ TypeOK
  BY TickAssumption DEF PolyInv, PolyMode, TypeOK, Allocation
<1>5. note \notin noteStates
  BY DEF Repeated
<1>6. ASSUME NEW w \in Voices, allocation[w].assigned, allocation[w].rootNote = note
      PROVE  Plays(w, note) /\ w \in voiceMask
  BY <1>4, <1>6 DEF PolyInv, VoicesAgree, Repeated, Plays
<1>7. ASSUME NEW w \in Voices, Plays(w, note)
      PROVE  allocation[w].rootNote = note
  BY <1>7 DEF PolyInv, VoicesAgree, Plays
<1>8. /\ starts \in SUBSET voiceMask
      /\ \/ \A v \in starts : Plays(v, note)
         \/ /\ \A w \in voiceMask : ~Plays(w, note)
            /\ \A v \in starts : ~allocation[v].assigned \/ allocation[v].rootNote \notin held
         \/ (\A w \in voiceMask : ~Plays(w, note)) /\ AllPlay(held)
      /\ \/ starts # {}
         \/ (\A w \in voiceMask : ~Plays(w, note)) /\ AllPlay(held)
  <2> HIDE DEF held
  <2> QED BY <1>1, PolyStart
<1> HIDE DEF starts
<1>9. \/ starts = {} /\ UNCHANGED <<allocation, ampEnv>>
      \/ \E v \in starts : \A w \in Voices :
           /\ allocation'[w] = IF w = v THEN Begun(note) ELSE allocation[w]
           /\ ampEnv'[w] = IF w = v THEN "on" ELSE ampEnv[w]
  <2> DEFINE retrigger == Retriggers(mono, note, held, arpOn)
  <2>1. Play(note, starts, retrigger) /\ retrigger \in BOOLEAN
    BY <1>2, <1>3
  <2> HIDE DEF retrigger
  <2>2. \/ starts = {} /\ UNCHANGED <<allocation, ampEnv>>
        \/ \E v \in starts : \A w \in Voices :
             /\ allocation'[w] = IF w = v THEN Begun(note) ELSE allocation[w]
             /\ ampEnv'[w] = IF w = v /\ retrigger THEN "on" ELSE ampEnv[w]
    BY <1>1, <1>4, <1>8, <2>1, PolyPlay
  <2> QED BY <1>3, <2>2 DEF retrigger
<1>10. CASE starts = {} /\ UNCHANGED <<allocation, ampEnv>>
  <2>1. \A w \in Voices : allocation[w].assigned => allocation[w].rootNote # note
    BY <1>6, <1>8, <1>10
  <2>2. VoicesAgree'
    BY <1>2, <1>10, <2>1 DEF PolyInv, VoicesAgree
  <2>3. OneVoiceEach'
    BY <1>10 DEF PolyInv, OneVoiceEach
  <2>4. NoStarvedKey'
    BY <1>2, <1>8, <1>10 DEF NoStarvedKey, AllPlay
  <2> QED BY <2>2, <2>3, <2>4
<1>11. ASSUME NEW v \in starts,
              \A w \in Voices :
                /\ allocation'[w] = IF w = v THEN Begun(note) ELSE allocation[w]
                /\ ampEnv'[w] = IF w = v THEN "on" ELSE ampEnv[w]
       PROVE  VoicesAgree' /\ OneVoiceEach' /\ NoStarvedKey'
  <2>0. v \in voiceMask /\ v \in Voices
    BY <1>4, <1>8
  <2>1. ASSUME NEW w \in Voices, w # v, allocation[w].assigned
        PROVE  allocation[w].rootNote # note
    <3> SUFFICES ASSUME allocation[w].rootNote = note PROVE FALSE
      OBVIOUS
    <3>1. Plays(w, note) /\ w \in voiceMask
      BY <1>6, <2>1
    <3>2. Plays(v, note) /\ allocation[v].rootNote = note
      BY <1>7, <1>8, <2>0, <3>1
    <3> QED BY <2>0, <2>1, <3>2 DEF PolyInv, OneVoiceEach, Plays
  <2>2. /\ allocation'[v].assigned /\ allocation'[v].gated /\ allocation'[v].keyPressed
        /\ allocation'[v].rootNote = note /\ allocation'[v].note = note
        /\ allocation'[v].timestamp = currentTick /\ ampEnv'[v] = "on"
    BY <1>11, <2>0 DEF Begun
  <2>3. \A w \in Voices : w # v => allocation'[w] = allocation[w] /\ ampEnv'[w] = ampEnv[w]
    BY <1>11
  <2>4. VoicesAgree'
    BY <1>2, <1>4, <2>0, <2>1, <2>2, <2>3 DEF PolyInv, VoicesAgree
  <2>5. OneVoiceEach'
    BY <2>1, <2>2, <2>3 DEF PolyInv, OneVoiceEach
  <2>6. NoStarvedKey'
    <3> SUFFICES ASSUME NEW n \in held,
                        \A w \in Voices : ~(allocation'[w].assigned /\ allocation'[w].rootNote = n)
                 PROVE  \A w \in voiceMask : allocation'[w].assigned /\ allocation'[w].rootNote \in held
      BY <1>2 DEF NoStarvedKey, Unplayed
    <3>1. n # note /\ n \in noteStates
      BY <2>0, <2>2
    <3>2. CASE allocation[v].assigned /\ allocation[v].rootNote = n
      <4>1. ~Plays(v, note)
        BY <1>7, <2>0, <3>1, <3>2
      <4>2. \A w \in voiceMask : allocation[w].assigned /\ allocation[w].rootNote \in held
        BY <1>8, <2>0, <3>1, <3>2, <4>1 DEF AllPlay
      <4> QED BY <1>4, <2>2, <2>3, <4>2
    <3>3. CASE ~(allocation[v].assigned /\ allocation[v].rootNote = n)
      <4>1. n \in Unplayed(noteStates)
        BY <2>3, <3>1, <3>3 DEF Unplayed
      <4>2. \A w \in voiceMask : allocation[w].assigned /\ allocation[w].rootNote \in noteStates
        BY <4>1 DEF PolyInv, NoStarvedKey
      <4> QED BY <1>4, <2>2, <2>3, <4>2
    <3> QED BY <3>2, <3>3
  <2> QED BY <2>4, <2>5, <2>6
<1> QED
  BY <1>9, <1>10, <1>11

\* Releasing a key keeps it: if some key has no voice all voices play keys that
\* were down, and the one that played this key, if any, is the one that is given
\* away; otherwise all its voices are gated off, but for the pedal.
LEMMA PolyNoteOff ==
  ASSUME PolyInv, NEW note \in Notes, NEW cycle \in BOOLEAN, NEW arpOn \in BOOLEAN,
         NoteOff(note, cycle, arpOn), note \in noteStates
  PROVE  VoicesAgree' /\ OneVoiceEach' /\ NoStarvedKey'
<1> DEFINE held    == noteStates \ {note}
           missing == Unplayed(held)
<1>1. /\ noteStates' = held /\ voiceMask' = voiceMask /\ currentTick' = currentTick /\ hold' = hold
  BY DEF NoteOff, settingVars
<1>2. /\ allocation \in [Voices -> Allocation] /\ ampEnv \in [Voices -> Env]
      /\ currentTick \in Nat /\ mono = FALSE
      /\ voiceMask \in SUBSET Voices /\ patternOffsets = << 0 >> /\ TypeOK
  BY TickAssumption DEF PolyInv, PolyMode, TypeOK, Env
<1>3. ASSUME missing # {}
      PROVE  VoicesAgree' /\ OneVoiceEach' /\ NoStarvedKey'
  <2> DEFINE back   == Restored(missing)
             starts == StartVoices(back, held, cycle)
  <2>1. back \in missing /\ back \in 0 .. 127
    <3>1. missing \in SUBSET (0 .. 127)
      BY NotesAssumption, <1>2 DEF Unplayed, TypeOK
    <3>2. back \in missing
      BY <1>3, <3>1, RestoredIsMissing
    <3> QED BY <3>1, <3>2
  <2>2. /\ back \in held
        /\ \A w \in Voices : ~(allocation[w].assigned /\ allocation[w].rootNote = back)
    BY <2>1 DEF Unplayed
  <2>3. Play(back, starts, arpOn)
    BY <1>3 DEF NoteOff
  <2> HIDE DEF missing, back
  <2>4. \A w \in voiceMask : allocation[w].assigned /\ allocation[w].rootNote \in noteStates
    <3>1. back \in Unplayed(noteStates)
      BY <2>2 DEF Unplayed
    <3> QED BY <3>1 DEF PolyInv, NoStarvedKey
  <2>5. \A w \in voiceMask : ~Plays(w, back)
    BY <1>2, <2>2 DEF PolyInv, VoicesAgree, Plays
  <2>6. /\ starts \in SUBSET voiceMask
        /\ \/ \A v \in starts : Plays(v, back)
           \/ \A v \in starts : ~allocation[v].assigned \/ allocation[v].rootNote \notin held
           \/ AllPlay(held)
        /\ starts # {} \/ AllPlay(held)
    <3> HIDE DEF held
    <3> QED BY <2>1, PolyStart
  <2> HIDE DEF starts
  <2>7. \/ starts = {} /\ UNCHANGED <<allocation, ampEnv>>
        \/ \E v \in starts : \A w \in Voices :
             /\ allocation'[w] = IF w = v THEN Begun(back) ELSE allocation[w]
             /\ ampEnv'[w] = IF w = v /\ arpOn THEN "on" ELSE ampEnv[w]
    BY <1>2, <2>1, <2>3, <2>6, PolyPlay
  <2>8. CASE starts = {} /\ UNCHANGED <<allocation, ampEnv>>
    <3>1. \A w \in Voices : allocation[w].assigned => allocation[w].rootNote # note
      BY <2>6, <2>8 DEF PolyInv, VoicesAgree, AllPlay
    <3>2. VoicesAgree'
      BY <1>1, <2>8, <3>1 DEF PolyInv, VoicesAgree
    <3>3. OneVoiceEach'
      BY <2>8 DEF PolyInv, OneVoiceEach
    <3>4. NoStarvedKey'
      BY <1>1, <2>4, <2>6, <2>8 DEF NoStarvedKey, AllPlay
    <3> QED BY <3>2, <3>3, <3>4
  <2>9. ASSUME NEW v \in starts,
               \A w \in Voices :
                 /\ allocation'[w] = IF w = v THEN Begun(back) ELSE allocation[w]
                 /\ ampEnv'[w] = IF w = v /\ arpOn THEN "on" ELSE ampEnv[w]
        PROVE  VoicesAgree' /\ OneVoiceEach' /\ NoStarvedKey'
    <3>0. v \in voiceMask /\ v \in Voices /\ allocation[v].assigned /\ ~Plays(v, back)
      BY <1>2, <2>4, <2>5, <2>6
    <3>1. \A w \in Voices : w # v /\ allocation[w].assigned =>
            allocation[w].rootNote \in held /\ allocation[w].rootNote # back
      <4> SUFFICES ASSUME NEW w \in Voices, w # v, allocation[w].assigned
                   PROVE  allocation[w].rootNote \in held /\ allocation[w].rootNote # back
        OBVIOUS
      <4>1. w \in voiceMask /\ allocation[w].rootNote # back
        BY <2>2 DEF PolyInv, VoicesAgree
      <4>2. CASE allocation[v].rootNote \notin held
        <5>1. allocation[v].rootNote = note
          BY <2>4, <3>0, <4>2
        <5>2. allocation[w].rootNote # note
          BY <3>0, <5>1 DEF PolyInv, OneVoiceEach
        <5> QED BY <2>4, <4>1, <5>2
      <4>3. CASE allocation[v].rootNote \in held
        BY <2>6, <3>0, <4>1, <4>3 DEF AllPlay
      <4> QED BY <4>2, <4>3
    <3>2. ampEnv[v] = "on"
      BY <2>4, <3>0 DEF PolyInv, VoicesAgree
    <3>3. /\ allocation'[v].assigned /\ allocation'[v].gated /\ allocation'[v].keyPressed
          /\ allocation'[v].rootNote = back /\ allocation'[v].note = back
          /\ allocation'[v].timestamp = currentTick /\ ampEnv'[v] = "on"
      BY <2>9, <3>0, <3>2 DEF Begun
    <3>4. \A w \in Voices : w # v => allocation'[w] = allocation[w] /\ ampEnv'[w] = ampEnv[w]
      BY <2>9
    <3>5. VoicesAgree'
      BY <1>1, <1>2, <2>2, <3>0, <3>1, <3>3, <3>4 DEF PolyInv, VoicesAgree
    <3>6. OneVoiceEach'
      BY <3>1, <3>3, <3>4 DEF PolyInv, OneVoiceEach
    <3>7. NoStarvedKey'
      <4>1. \A w \in voiceMask : allocation'[w].assigned /\ allocation'[w].rootNote \in held
        BY <1>2, <2>2, <2>4, <3>1, <3>3, <3>4
      <4> QED BY <1>1, <4>1 DEF NoStarvedKey
    <3> QED BY <3>5, <3>6, <3>7
  <2> QED
    BY <2>7, <2>8, <2>9
<1>4. ASSUME missing = {}
      PROVE  VoicesAgree' /\ OneVoiceEach' /\ NoStarvedKey'
  <2> DEFINE off == IF hold THEN {} ELSE ReleasedBy(note)
  <2>1. /\ allocation' = [v \in Voices |->
             IF v \in off THEN KeyUpGateOff(allocation[v])
             ELSE IF v \in ReleasedBy(note) THEN KeyUp(allocation[v])
             ELSE allocation[v]]
        /\ ampEnv' = EnvGatedOff(off)
    BY <1>2, <1>4 DEF NoteOff
  <2>2. \A a \in Allocation :
          /\ KeyUp(a).assigned = a.assigned /\ KeyUp(a).rootNote = a.rootNote
          /\ KeyUp(a).note = a.note /\ KeyUp(a).timestamp = a.timestamp
          /\ KeyUp(a).keyPressed = FALSE /\ KeyUp(a).gated = a.gated
    BY DEF Allocation, KeyUp
  <2>3. \A a \in Allocation :
          /\ KeyUpGateOff(a).assigned = a.assigned /\ KeyUpGateOff(a).rootNote = a.rootNote
          /\ KeyUpGateOff(a).note = a.note /\ KeyUpGateOff(a).timestamp = a.timestamp
          /\ KeyUpGateOff(a).keyPressed = FALSE /\ KeyUpGateOff(a).gated = FALSE
    BY DEF Allocation, KeyUpGateOff
  <2>4. \A v \in Voices : ampEnv'[v] = IF v \in off THEN "release" ELSE ampEnv[v]
    BY <2>1 DEF EnvGatedOff
  <2>5. \A v \in Voices :
          /\ allocation'[v].assigned = allocation[v].assigned
          /\ allocation'[v].rootNote = allocation[v].rootNote
          /\ allocation'[v].note = allocation[v].note
          /\ allocation'[v].timestamp = allocation[v].timestamp
          /\ v \in ReleasedBy(note) => /\ ~allocation'[v].keyPressed
                                       /\ allocation'[v].gated => hold
          /\ v \notin ReleasedBy(note) =>
               allocation'[v] = allocation[v] /\ ampEnv'[v] = ampEnv[v]
    BY <1>2, <2>1, <2>2, <2>3, <2>4
  <2> HIDE DEF off, missing, held
  <2>6. \A v \in Voices :
          v \in ReleasedBy(note) <=> allocation[v].assigned /\ allocation[v].rootNote = note
    BY DEF ReleasedBy
  <2>7. VoicesAgree'
    BY <1>1, <2>5, <2>6 DEF PolyInv, VoicesAgree, held
  <2>8. OneVoiceEach'
    BY <2>5 DEF PolyInv, OneVoiceEach
  <2>9. NoStarvedKey'
    BY <1>1, <1>4, <2>5 DEF NoStarvedKey, Unplayed, missing
  <2> QED BY <2>7, <2>8, <2>9
<1> QED
  BY <1>3, <1>4

LEMMA PolyModeStep ==
  ASSUME KeysOnly, PolyInv, [Next]_vars, StaysPoly
  PROVE  PolyMode'
<1>1. mono = FALSE /\ patternOffsets = << 0 >> /\ Settled /\ TypeOK
  BY DEF PolyInv, PolyMode, TypeOK
<1>2. mono' = FALSE /\ Settled'
  BY <1>1, SettledStep DEF StaysPoly
<1>3. CASE UNCHANGED patternOffsets
  BY <1>1, <1>2, <1>3 DEF PolyMode
<1>4. ASSUME NEW p, NEW mask, RefreshSettings(p, mask) PROVE PolyMode'
  BY <1>1, <1>2, <1>4 DEF RefreshSettings, NewPattern, PatternOf, PolyMode
<1>5. ~Main /\ \A p : ~MainRefresh(p)
  BY <1>1 DEF KeysOnly, Settled, MainRefresh, Main, MainCompare, MainVoicesDone, MainWriteMode,
              MainWritePattern, MainClearKeys, MainWritePriority
<1>6. \A note, cycle, arpOn : NoteOn(note, cycle, arpOn) \/ NoteOff(note, cycle, arpOn)
        => UNCHANGED patternOffsets
  BY DEF NoteOn, NoteOff, settingVars
<1>7. ~UnisonOn /\ \A arpOn : ~FootLatch(arpOn)
  BY <1>2 DEF UnisonOn, FootLatch
<1>8. AllKeysOff \/ AllSoundOff \/ AllVoicesDone \/ (\E down \in BOOLEAN : HoldEvent(down))
         => UNCHANGED patternOffsets
  BY DEF AllKeysOff, AllSoundOff, AllVoicesDone, HoldEvent, settingVars
<1>9. HandleFinishedVoices \/ (\E v \in Voices : EnvelopeEnds(v)) \/ Tick \/ UNCHANGED vars
         => UNCHANGED patternOffsets
  BY DEF HandleFinishedVoices, EnvelopeEnds, Tick, vars, settingVars
<1> QED
  BY <1>3, <1>4, <1>5, <1>6, <1>7, <1>8, <1>9 DEF Next, Key, Preset, Controls, UnisonOff

\* Every step of the assigner keeps the agreement of keys and voices: most leave each
\* voice as it is, only take its gate away, with its key up, or free it after its
\* release (step 1); after others nothing plays (step 2).
LEMMA PolyStep ==
  ASSUME KeysOnly, PolyInv, [Next]_vars, StaysPoly
  PROVE  VoicesAgree' /\ OneVoiceEach' /\ NoStarvedKey'
<1> DEFINE Goal == VoicesAgree' /\ OneVoiceEach' /\ NoStarvedKey'
<1>0. /\ allocation \in [Voices -> Allocation] /\ ampEnv \in [Voices -> Env]
      /\ currentTick \in Nat /\ mono = FALSE /\ voiceMask \in SUBSET Voices
      /\ \A v \in Voices : allocation[v] \in Allocation /\ allocation[v].timestamp \in Nat
  BY TickAssumption DEF PolyInv, PolyMode, TypeOK, Env, Allocation
<1>1. ASSUME noteStates' = noteStates, voiceMask' = voiceMask,
             currentTick' \in Nat, currentTick <= currentTick',
             \A v \in Voices : allocation[v].assigned /\ allocation[v].keyPressed =>
               allocation'[v] = allocation[v] /\ ampEnv'[v] = ampEnv[v],
             \A v \in Voices : allocation'[v].assigned =>
               /\ allocation[v].assigned
               /\ allocation'[v].rootNote = allocation[v].rootNote
               /\ allocation'[v].note = allocation[v].note
               /\ allocation'[v].timestamp = allocation[v].timestamp
               /\ allocation'[v].keyPressed = allocation[v].keyPressed
               /\ ~hold' /\ allocation'[v].gated => allocation'[v].keyPressed
      PROVE  Goal
  <2>1. VoicesAgree'
    BY <1>0, <1>1 DEF PolyInv, VoicesAgree
  <2>2. OneVoiceEach'
    BY <1>1 DEF PolyInv, OneVoiceEach
  <2>3. \A v \in Voices : allocation[v].assigned /\ allocation[v].rootNote \in noteStates =>
          allocation'[v] = allocation[v]
    BY <1>1 DEF PolyInv, VoicesAgree
  <2>4. Unplayed(noteStates)' = Unplayed(noteStates)
    BY <1>1, <2>3 DEF Unplayed
  <2>5. NoStarvedKey'
    BY <1>0, <1>1, <2>3, <2>4 DEF PolyInv, NoStarvedKey
  <2> QED BY <2>1, <2>2, <2>5
<1>2. ASSUME noteStates' = {}, \A v \in Voices : ~allocation'[v].assigned
      PROVE  Goal
  BY <1>2 DEF VoicesAgree, OneVoiceEach, NoStarvedKey, Unplayed
<1>3. \A v \in Voices : ~VoicesDone[v].assigned
  BY <1>0, VoicesDoneEffect
<1>4. \A v \in Voices : ~hold /\ allocation[v].assigned /\ allocation[v].gated =>
        allocation[v].keyPressed
  BY DEF PolyInv, VoicesAgree
<1>5. CASE UNCHANGED <<noteStates, voiceMask, allocation, ampEnv, hold>>
             /\ currentTick' \in Nat /\ currentTick <= currentTick'
  BY <1>1, <1>4, <1>5
<1>6. ASSUME NEW note \in Notes, NEW cycle \in BOOLEAN, NEW arpOn \in BOOLEAN,
             NoteOn(note, cycle, arpOn)
      PROVE  Goal
  <2>1. ~Repeated(note)
    BY <1>6 DEF NoteOn, KeysOnly
  <2> QED BY <1>6, <2>1, PolyNoteOn
<1>7. ASSUME NEW note \in Notes, NEW cycle \in BOOLEAN, NEW arpOn \in BOOLEAN,
             NoteOff(note, cycle, arpOn)
      PROVE  Goal
  <2>1. note \in noteStates
    BY <1>7 DEF NoteOff, KeysOnly
  <2> QED BY <1>7, <2>1, PolyNoteOff
<1>8. CASE AllKeysOff
  <2>1. \A a \in Allocation :
          /\ KeyUpGateOff(a).assigned = a.assigned /\ KeyUpGateOff(a).rootNote = a.rootNote
          /\ KeyUpGateOff(a).note = a.note /\ KeyUpGateOff(a).timestamp = a.timestamp
          /\ KeyUpGateOff(a).keyPressed = FALSE /\ KeyUpGateOff(a).gated = FALSE
    BY DEF Allocation, KeyUpGateOff
  <2>2. /\ noteStates' = {} /\ voiceMask' = voiceMask /\ currentTick' = currentTick
        /\ allocation' = [v \in Voices |->
             IF v \in voiceMask /\ allocation[v].gated THEN KeyUpGateOff(allocation[v])
             ELSE allocation[v]]
    BY <1>8 DEF AllKeysOff, settingVars
  <2>3. \A v \in Voices :
          /\ allocation'[v].assigned = allocation[v].assigned
          /\ allocation'[v].rootNote = allocation[v].rootNote
          /\ allocation'[v].note = allocation[v].note
          /\ allocation'[v].timestamp = allocation[v].timestamp
          /\ allocation[v].assigned => ~allocation'[v].keyPressed /\ ~allocation'[v].gated
    BY <1>0, <2>1, <2>2 DEF PolyInv, VoicesAgree
  <2>4. VoicesAgree'
    BY <2>2, <2>3 DEF PolyInv, VoicesAgree
  <2>5. OneVoiceEach'
    BY <2>3 DEF PolyInv, OneVoiceEach
  <2>6. NoStarvedKey'
    BY <2>2 DEF NoStarvedKey, Unplayed
  <2> QED BY <2>4, <2>5, <2>6
<1>9. ASSUME NEW down \in BOOLEAN, HoldEvent(down) PROVE Goal
  <2>1. /\ noteStates' = noteStates /\ voiceMask' = voiceMask /\ currentTick' = currentTick
        /\ hold' = down
    BY <1>9 DEF HoldEvent, settingVars
  <2>2. CASE down
    <3>1. allocation' = allocation /\ ampEnv' = ampEnv
      BY <1>9, <2>2 DEF HoldEvent
    <3> QED BY <1>0, <1>1, <2>1, <2>2, <3>1
  <2>3. CASE ~down
    <3>1. /\ allocation' = PedalUp(allocation)
          /\ ampEnv' = EnvGatedOff(PedalHeld(allocation))
      BY <1>9, <2>3 DEF HoldEvent
    <3>2. \A a \in Allocation :
            /\ [a EXCEPT !.gated = FALSE].assigned = a.assigned
            /\ [a EXCEPT !.gated = FALSE].rootNote = a.rootNote
            /\ [a EXCEPT !.gated = FALSE].note = a.note
            /\ [a EXCEPT !.gated = FALSE].timestamp = a.timestamp
            /\ [a EXCEPT !.gated = FALSE].keyPressed = a.keyPressed
            /\ [a EXCEPT !.gated = FALSE].gated = FALSE
      BY DEF Allocation
    <3>3. \A v \in Voices :
            /\ v \in PedalHeld(allocation) <=>
                 v \in voiceMask /\ allocation[v].gated /\ ~allocation[v].keyPressed
            /\ ampEnv'[v] = IF v \in PedalHeld(allocation) THEN "release" ELSE ampEnv[v]
            /\ allocation'[v] = IF v \in PedalHeld(allocation)
                                THEN [allocation[v] EXCEPT !.gated = FALSE] ELSE allocation[v]
      BY <3>1 DEF PedalUp, PedalHeld, EnvGatedOff
    <3>4. \A v \in Voices : allocation[v].assigned => v \in voiceMask
      BY DEF PolyInv, VoicesAgree
    <3>5. \A v \in Voices :
            /\ allocation[v].assigned /\ allocation[v].keyPressed =>
                 allocation'[v] = allocation[v] /\ ampEnv'[v] = ampEnv[v]
            /\ allocation'[v].assigned =>
                 /\ allocation[v].assigned
                 /\ allocation'[v].rootNote = allocation[v].rootNote
                 /\ allocation'[v].note = allocation[v].note
                 /\ allocation'[v].timestamp = allocation[v].timestamp
                 /\ allocation'[v].keyPressed = allocation[v].keyPressed
                 /\ allocation'[v].gated => allocation'[v].keyPressed
      <4> SUFFICES ASSUME NEW v \in Voices
                   PROVE  /\ allocation[v].assigned /\ allocation[v].keyPressed =>
                               allocation'[v] = allocation[v] /\ ampEnv'[v] = ampEnv[v]
                          /\ allocation'[v].assigned =>
                               /\ allocation[v].assigned
                               /\ allocation'[v].rootNote = allocation[v].rootNote
                               /\ allocation'[v].note = allocation[v].note
                               /\ allocation'[v].timestamp = allocation[v].timestamp
                               /\ allocation'[v].keyPressed = allocation[v].keyPressed
                               /\ allocation'[v].gated => allocation'[v].keyPressed
        OBVIOUS
      <4>1. CASE v \in PedalHeld(allocation)
        <5> DEFINE a == allocation[v]
        <5>1. a \in Allocation /\ allocation'[v] = [a EXCEPT !.gated = FALSE] /\ ~a.keyPressed
          BY <1>0, <3>3, <4>1
        <5>2. /\ allocation'[v].assigned = a.assigned /\ allocation'[v].rootNote = a.rootNote
              /\ allocation'[v].note = a.note /\ allocation'[v].timestamp = a.timestamp
              /\ allocation'[v].keyPressed = a.keyPressed /\ allocation'[v].gated = FALSE
          BY <3>2, <5>1
        <5> QED BY <5>1, <5>2
      <4>2. CASE v \notin PedalHeld(allocation)
        <5>1. allocation'[v] = allocation[v] /\ ampEnv'[v] = ampEnv[v]
          BY <3>3, <4>2
        <5>2. allocation[v].assigned /\ allocation[v].gated => allocation[v].keyPressed
          BY <3>3, <3>4, <4>2
        <5> QED BY <5>1, <5>2
      <4> QED BY <4>1, <4>2
    <3> QED BY <1>0, <1>1, <2>1, <3>5
  <2> QED BY <2>2, <2>3
<1>10. ~AllSoundOff /\ ~AllVoicesDone /\ ~UnisonOn /\ \A arpOn : ~FootLatch(arpOn)
  BY <1>0 DEF KeysOnly, StaysPoly, AllSoundOff, AllVoicesDone, UnisonOn, FootLatch
<1>12. ASSUME NEW p, NEW mask, RefreshSettings(p, mask) PROVE Goal
  <2>1. CASE mask # voiceMask \/ p.priority # priority
    BY <1>2, <1>3, <1>12, <2>1 DEF RefreshSettings
  <2>2. CASE mask = voiceMask /\ p.priority = priority
    <3>1. UNCHANGED <<noteStates, voiceMask, allocation, ampEnv, hold, currentTick>>
      BY <1>0, <1>12, <2>2 DEF RefreshSettings, StaysPoly
    <3> QED BY <1>0, <1>5, <3>1
  <2> QED BY <2>1, <2>2
<1>13. CASE HandleFinishedVoices
  <2>1. /\ noteStates' = noteStates /\ voiceMask' = voiceMask /\ currentTick' = currentTick
        /\ hold' = hold
        /\ \A v \in Voices :
             /\ allocation'[v] = IF allocation[v].assigned /\ ampEnv[v] = "wait"
                                 THEN VoiceDone(allocation[v]) ELSE allocation[v]
             /\ ampEnv'[v] = IF allocation[v].assigned THEN ampEnv[v] ELSE "wait"
    BY <1>13 DEF HandleFinishedVoices, settingVars
  <2>2. \A v \in Voices : ~VoiceDone(allocation[v]).assigned
    BY <1>0, DoneRecord
  <2>3. \A v \in Voices : allocation[v].assigned /\ allocation[v].keyPressed => ampEnv[v] = "on"
    BY DEF PolyInv, VoicesAgree
  <2>4. \A v \in Voices :
          /\ allocation[v].assigned /\ allocation[v].keyPressed =>
               allocation'[v] = allocation[v] /\ ampEnv'[v] = ampEnv[v]
          /\ allocation'[v].assigned => allocation[v].assigned /\ allocation'[v] = allocation[v]
    BY <2>1, <2>2, <2>3
  <2> QED BY <1>0, <1>1, <1>4, <2>1, <2>4
<1>14. ASSUME NEW v \in Voices, EnvelopeEnds(v) PROVE Goal
  <2>1. /\ noteStates' = noteStates /\ voiceMask' = voiceMask /\ currentTick' = currentTick
        /\ hold' = hold /\ allocation' = allocation
        /\ ampEnv[v] = "release" /\ \A w \in Voices : w # v => ampEnv'[w] = ampEnv[w]
    BY <1>0, <1>14 DEF EnvelopeEnds, settingVars
  <2>2. \A w \in Voices : allocation[w].assigned /\ allocation[w].keyPressed => ampEnv[w] = "on"
    BY DEF PolyInv, VoicesAgree
  <2> QED BY <1>0, <1>1, <1>4, <2>1, <2>2
<1>15. CASE Tick
  BY <1>0, <1>5, <1>15 DEF Tick, settingVars
<1>16. CASE UNCHANGED vars
  BY <1>0, <1>5, <1>16 DEF vars
<1>17. ~Main /\ \A p : ~MainRefresh(p)
  BY DEF PolyInv, PolyMode, KeysOnly, Settled, MainRefresh, Main, MainCompare, MainVoicesDone,
         MainWriteMode, MainWritePattern, MainClearKeys, MainWritePriority
<1> QED
  BY <1>6, <1>7, <1>8, <1>9, <1>10, <1>12, <1>13, <1>14, <1>15, <1>16, <1>17
     DEF Next, Key, Preset, Controls, UnisonOff

\* Presets without unison never lead into it.
LEMMA OnlyPolyStays ==
  ASSUME OnlyPoly, PolyInv, [Next]_vars
  PROVE  StaysPoly
<1>1. mono = FALSE /\ currentPreset.mono = FALSE /\ mainRefresh.pc = "idle" /\ TypeOK
  BY DEF PolyInv, PolyMode, Settled, TypeOK
<1>2. \A p \in Presets : p.mono = FALSE
  BY PresetsAssumption DEF OnlyPoly, IsPreset
<1>3. ASSUME NEW p \in Presets, NEW mask, RefreshSettings(p, mask) PROVE mono' = FALSE
  BY <1>2, <1>3 DEF RefreshSettings
<1>4. \A note, cycle, arpOn : NoteOn(note, cycle, arpOn) \/ NoteOff(note, cycle, arpOn)
        => UNCHANGED mono
  BY DEF NoteOn, NoteOff, settingVars
<1>5. Controls => UNCHANGED mono
  BY DEF OnlyPoly, Controls, AllKeysOff, AllSoundOff, AllVoicesDone, UnisonOn, UnisonOff, HoldEvent,
         FootLatch, settingVars
<1>6. ~Main /\ \A p : ~MainRefresh(p)
  BY <1>1 DEF OnlyPoly, KeysOnly, MainRefresh, Main, MainCompare, MainVoicesDone, MainWriteMode,
              MainWritePattern, MainClearKeys, MainWritePriority
<1>7. HandleFinishedVoices \/ (\E v \in Voices : EnvelopeEnds(v)) \/ Tick \/ UNCHANGED vars => UNCHANGED mono
  BY DEF HandleFinishedVoices, EnvelopeEnds, Tick, vars, settingVars
<1> QED
  BY <1>1, <1>3, <1>4, <1>5, <1>6, <1>7 DEF Next, Key, Preset, StaysPoly

LEMMA PolyInvariant ==
  ASSUME OnlyPoly
  PROVE  Spec => []PolyInv
<1>1. Init => PolyInv
  <2> SUFFICES ASSUME Init PROVE PolyInv
    OBVIOUS
  <2>1. PolyMode
    BY DEF Init, PolyMode, Settled, MainIdle, InitPreset
  <2>2. VoicesAgree /\ OneVoiceEach /\ NoStarvedKey
    BY DEF Init, VoicesAgree, OneVoiceEach, NoStarvedKey, Unplayed
  <2> QED BY <2>1, <2>2, InitType DEF PolyInv
<1>2. PolyInv /\ [Next]_vars => PolyInv'
  <2> SUFFICES ASSUME PolyInv, [Next]_vars PROVE PolyInv'
    OBVIOUS
  <2>1. StaysPoly /\ KeysOnly
    BY OnlyPolyStays DEF OnlyPoly
  <2> QED BY <2>1, TypeStep, PolyModeStep, PolyStep DEF PolyInv
<1> QED
  BY <1>1, <1>2, PTL DEF Spec

\* With the pedal up a voice is gated only while its key is down, for any
\* number of voices, whatever is stolen, restored, masked or loaded by a
\* handler, in presets that are not in unison and while the main loop does
\* not refresh the assigner.
THEOREM AssignerNoStuckNote ==
  ASSUME OnlyPoly
  PROVE  Spec => []NoStuckNote
<1>1. PolyInv => NoStuckNote
  BY DEF PolyInv, VoicesAgree, NoStuckNote
<1> QED
  BY <1>1, PolyInvariant, PTL

\* A key that is down is silent only while every enabled voice plays one that
\* is down: no order of presses and releases leaves a voice idle, or releasing,
\* and a key waiting for it, as long as the main loop does not refresh the
\* assigner.
THEOREM AssignerNoStarvedKey ==
  ASSUME OnlyPoly
  PROVE  Spec => []NoStarvedKey
<1>1. PolyInv => NoStarvedKey
  BY DEF PolyInv
<1> QED
  BY <1>1, PolyInvariant, PTL

-----------------------------------------------------------------------------
(* Keys and voices in unison: a chord is changed at rest                     *)

\* Besides, voice 0, on which each chord starts, is never disabled: allKeysOff passes over
\* disabled voices.
Chords == KeysOnly /\ \A m \in Masks : 0 \in m

\* Unison is switched with no key down, the chord changed when nothing sounds either: a
\* smaller chord would not reach all voices of the one before, and after the switch keys
\* without a voice would take the voice of a release.
Rested ==
  /\ mono' # mono => noteStates = {}
  /\ mono' = mono /\ patternOffsets' # patternOffsets =>
       noteStates = {} /\ \A v \in Voices : ~allocation[v].assigned

\* The voices that a key plays.
Chord == {w \in Voices : StepsOn(patternOffsets, 0, w) # {}}

OneRoot ==
  \A v, w \in Voices : allocation[v].assigned /\ allocation[w].assigned
    => allocation[v].rootNote = allocation[w].rootNote

ChordKeys ==
  \A v \in Voices : allocation[v].assigned =>
    /\ v \in Chord
    /\ allocation[v].gated => allocation[v].keyPressed /\ allocation[v].rootNote \in noteStates

ChordMode == mono /\ IsPattern(patternOffsets)

ChordInv == ChordMode /\ OneRoot /\ ChordKeys

\* In unison all voices that play, play the chord of one key; otherwise it is as above.
UnisonInv ==
  /\ TypeOK /\ Settled /\ 0 \in voiceMask
  /\ IF mono THEN ChordInv ELSE PolyInv

\* Each voice of the chord gets the key, the others are left alone.
LEMMA ChordPlay ==
  ASSUME TypeOK, 0 \in voiceMask, NEW alloc, NEW env, NEW pattern, NEW note, NEW retrigger,
         PlayPattern(alloc, env, pattern, note, 0, retrigger)
  PROVE  \A w \in Voices :
           IF StepsOn(pattern, 0, w) # {}
           THEN /\ allocation'[w].assigned /\ allocation'[w].gated /\ allocation'[w].keyPressed
                /\ allocation'[w].rootNote = note
           ELSE allocation'[w] = alloc[w]
<1>1. voiceMask # {}
  OBVIOUS
<1>2. allocation' = [w \in Voices |->
        IF StepsOn(pattern, 0, w) = {} THEN alloc[w]
        ELSE Sounding(note, pattern, StepsOn(pattern, 0, w))]
  BY <1>1 DEF PlayPattern
<1>3. \A steps : /\ Sounding(note, pattern, steps).assigned /\ Sounding(note, pattern, steps).gated
                 /\ Sounding(note, pattern, steps).keyPressed
                 /\ Sounding(note, pattern, steps).rootNote = note
  BY DEF Sounding
<1> QED
  BY <1>2, <1>3

\* What that makes of voices of which none but those of the chord play.
LEMMA ChordPlayed ==
  ASSUME TypeOK, ChordMode, 0 \in voiceMask, NEW alloc \in [Voices -> Allocation], NEW env, NEW note,
         NEW retrigger, PlayPattern(alloc, env, patternOffsets, note, 0, retrigger),
         \A v \in Voices : alloc[v].assigned => v \in Chord,
         note \in noteStates', UNCHANGED <<patternOffsets, voiceMask>>
  PROVE  (OneRoot /\ ChordKeys)'
<1>1. \A w \in Voices :
        IF StepsOn(patternOffsets, 0, w) # {}
        THEN /\ allocation'[w].assigned /\ allocation'[w].gated /\ allocation'[w].keyPressed
             /\ allocation'[w].rootNote = note
        ELSE allocation'[w] = alloc[w]
  BY ChordPlay
<1>2. \A w \in Voices : w \in Chord <=> StepsOn(patternOffsets, 0, w) # {}
  BY DEF Chord
<1>3. Chord' = Chord
  BY DEF Chord, StepsOn, Distance
<1>4. \A w \in Voices : allocation'[w].assigned =>
        w \in Chord /\ allocation'[w].keyPressed /\ allocation'[w].rootNote = note
  BY <1>1, <1>2
<1>5. OneRoot'
  BY <1>4 DEF OneRoot
<1>6. ChordKeys'
  BY <1>3, <1>4 DEF ChordKeys
<1> QED
  BY <1>5, <1>6

\* Voices that are freed or gated off, and keys that go down, do no harm.
LEMMA ChordLess ==
  ASSUME OneRoot, ChordKeys, UNCHANGED <<patternOffsets, voiceMask>>,
         noteStates \subseteq noteStates',
         \A v \in Voices : allocation'[v].assigned =>
           /\ allocation[v].assigned /\ allocation'[v].rootNote = allocation[v].rootNote
           /\ allocation'[v].gated =>
                allocation[v].gated /\ allocation'[v].keyPressed = allocation[v].keyPressed
  PROVE  (OneRoot /\ ChordKeys)'
<1>1. Chord' = Chord
  BY DEF Chord, StepsOn, Distance
<1>2. OneRoot'
  BY DEF OneRoot
<1>3. ChordKeys'
  BY <1>1 DEF ChordKeys
<1> QED
  BY <1>2, <1>3

LEMMA ChordSilent ==
  ASSUME \A v \in Voices : ~allocation'[v].assigned
  PROVE  (OneRoot /\ ChordKeys)'
BY DEF OneRoot, ChordKeys

\* A key that is not brought back, for a lower or a higher one is down, leaves the
\* chord to that key.
LEMMA ChordIgnored ==
  ASSUME NEW held \in SUBSET (0 .. 127), Unplayed(held) # {}, OneRoot,
         Ignored(Restored(Unplayed(held)), held), priority \in Priorities
  PROVE  \A v \in Voices : allocation[v].assigned => allocation[v].rootNote \in held
<1> DEFINE missing == Unplayed(held)
           back    == Restored(missing)
<1>0. missing \in SUBSET held /\ held \in SUBSET Nat
  BY DEF Unplayed
<1>1. missing \in SUBSET (0 .. 127) /\ missing \in SUBSET Nat
  <2> HIDE DEF missing
  <2> QED BY <1>0
<1>2. \A n \in held : n \in missing
        \/ \E v \in Voices : allocation[v].assigned /\ allocation[v].rootNote = n
  BY DEF Unplayed
<1>3. missing # {}
  OBVIOUS
<1> HIDE DEF missing
<1>4. PICK n \in held : n \notin missing
  <2>1. CASE priority = "low"
    <3>1. back = First(missing)
      BY <2>1 DEF Restored
    <3>2. back \in missing /\ \A m \in missing : back <= m
      BY <1>1, <1>3, <3>1, FirstIsMember
    <3>3. PICK n \in held : n < back
      BY <2>1 DEF Ignored, missing
    <3>5. n \in Nat /\ back \in Nat
      BY <1>0, <1>1, <3>2
    <3>6. ~(back <= n)
      BY <3>3, <3>5
    <3>4. n \notin missing
      BY <3>2, <3>6
    <3> QED BY <3>4
  <2>2. CASE priority = "high"
    <3>1. \E m \in missing : \A o \in missing : o <= m
      BY <1>1, <1>3, LargestExists
    <3>2. back = CHOOSE m \in missing : \A o \in missing : o <= m
      BY <2>2 DEF Restored
    <3>3. back \in missing /\ \A o \in missing : o <= back
      BY <3>1, <3>2
    <3>4. PICK n \in held : n > back
      BY <2>2 DEF Ignored, missing
    <3>6. n \in Nat /\ back \in Nat
      BY <1>0, <1>1, <3>3
    <3>7. ~(n <= back)
      BY <3>4, <3>6
    <3>5. n \notin missing
      BY <3>3, <3>7
    <3> QED BY <3>5
  <2>3. priority = "low" \/ priority = "high"
    BY DEF Ignored
  <2> QED BY <2>1, <2>2, <2>3
<1>5. PICK v \in Voices : allocation[v].assigned /\ allocation[v].rootNote = n
  BY <1>2, <1>4
<1> QED
  BY <1>4, <1>5 DEF OneRoot

\* A key goes down: it takes all voices that play, or another key keeps them.
LEMMA ChordNoteOn ==
  ASSUME TypeOK, 0 \in voiceMask, ChordInv, NEW note \in Notes, NEW cycle \in BOOLEAN,
         NEW arpOn \in BOOLEAN, NoteOn(note, cycle, arpOn)
  PROVE  ChordInv'
<1> DEFINE held == noteStates \cup {note}
           retrigger == Retriggers(mono, note, held, arpOn)
<1>1. /\ noteStates' = held /\ Play(note, StartVoices(note, held, cycle), retrigger)
      /\ mono' = mono /\ patternOffsets' = patternOffsets /\ voiceMask' = voiceMask
  BY DEF NoteOn, settingVars
<1>2. ChordMode'
  BY <1>1 DEF ChordInv, ChordMode
<1>3. OneRoot /\ ChordKeys /\ ChordMode /\ allocation \in [Voices -> Allocation]
  BY DEF ChordInv, TypeOK
<1>4. patternOffsets # <<>>
  BY <1>3 DEF ChordMode, IsPattern
<1> HIDE DEF retrigger
<1>5. CASE Ignored(note, held)
  <2>1. StartVoices(note, held, cycle) = {}
    BY <1>3, <1>5 DEF StartVoices, ChordMode
  <2>2. allocation' = allocation
    BY <1>1, <2>1 DEF Play
  <2>3. (OneRoot /\ ChordKeys)'
    BY <1>1, <1>3, <2>2, ChordLess
  <2> QED BY <1>2, <2>3 DEF ChordInv
<1>6. CASE ~Ignored(note, held)
  <2>1. StartVoices(note, held, cycle) = {0}
    BY <1>3, <1>6 DEF StartVoices, ChordMode
  <2>2. PlayPattern(allocation, ampEnv, patternOffsets, note, 0, retrigger)
    BY <1>1, <1>4, <2>1 DEF Play
  <2>3. note \in noteStates'
    BY <1>1
  <2>4. \A v \in Voices : allocation[v].assigned => v \in Chord
    BY <1>3 DEF ChordKeys
  <2>5. (OneRoot /\ ChordKeys)'
    BY <1>1, <1>3, <2>2, <2>3, <2>4, ChordPlayed
  <2> QED BY <1>2, <2>5 DEF ChordInv
<1> QED
  BY <1>5, <1>6

\* A key goes up: another one takes all voices that play, keeps them, or they are gated off.
LEMMA ChordNoteOff ==
  ASSUME TypeOK, 0 \in voiceMask, ChordInv, NEW note \in Notes, NEW cycle \in BOOLEAN,
         NEW arpOn \in BOOLEAN, NoteOff(note, cycle, arpOn)
  PROVE  ChordInv'
<1> DEFINE held == noteStates \ {note}
           missing == Unplayed(held)
           back == Restored(missing)
<1>1. /\ noteStates' = held
      /\ mono' = mono /\ patternOffsets' = patternOffsets /\ voiceMask' = voiceMask
  BY DEF NoteOff, settingVars
<1>2. ChordMode'
  BY <1>1 DEF ChordInv, ChordMode
<1>3. OneRoot /\ ChordKeys /\ ChordMode /\ allocation \in [Voices -> Allocation] /\ priority \in Priorities
  BY DEF ChordInv, TypeOK
<1>4. patternOffsets # <<>>
  BY <1>3 DEF ChordMode, IsPattern
<1>5. held \in SUBSET (0 .. 127)
  BY NotesAssumption DEF TypeOK
<1>6. Chord' = Chord
  BY <1>1 DEF Chord, StepsOn, Distance
<1>7. CASE missing # {}
  <2>1. Play(back, StartVoices(back, held, cycle), arpOn)
    BY <1>7 DEF NoteOff
  <2>2. CASE Ignored(back, held)
    <3>1. StartVoices(back, held, cycle) = {}
      BY <1>3, <2>2 DEF StartVoices, ChordMode
    <3>2. allocation' = allocation
      BY <2>1, <3>1 DEF Play
    <3>3. \A v \in Voices : allocation[v].assigned => allocation[v].rootNote \in held
      BY <1>3, <1>5, <1>7, <2>2, ChordIgnored
    <3>4. OneRoot'
      BY <1>3, <3>2 DEF OneRoot
    <3>5. ChordKeys'
      BY <1>1, <1>3, <1>6, <3>2, <3>3 DEF ChordKeys
    <3> QED BY <1>2, <3>4, <3>5 DEF ChordInv
  <2>3. CASE ~Ignored(back, held)
    <3>1. StartVoices(back, held, cycle) = {0}
      BY <1>3, <2>3 DEF StartVoices, ChordMode
    <3>2. PlayPattern(allocation, ampEnv, patternOffsets, back, 0, arpOn)
      BY <1>4, <2>1, <3>1 DEF Play
    <3>3. back \in noteStates'
      <4>1. missing \in SUBSET held
        BY DEF Unplayed
      <4>2. missing \in SUBSET (0 .. 127)
        <5> HIDE DEF missing
        <5> QED BY <1>5, <4>1
      <4>3. back \in missing
        BY <1>7, <4>2, RestoredIsMissing
      <4> QED BY <1>1, <4>1, <4>3
    <3>4. \A v \in Voices : allocation[v].assigned => v \in Chord
      BY <1>3 DEF ChordKeys
    <3> HIDE DEF back
    <3>5. (OneRoot /\ ChordKeys)'
      BY <1>1, <1>3, <3>2, <3>3, <3>4, ChordPlayed
    <3> QED BY <1>2, <3>5 DEF ChordInv
  <2> QED BY <2>2, <2>3
<1>8. CASE missing = {}
  <2>1. allocation' = [v \in Voices |->
          IF v \in ReleasedBy(note) THEN KeyUpGateOff(allocation[v]) ELSE allocation[v]]
    BY <1>3, <1>8 DEF NoteOff, ChordMode
  <2>2. \A a \in Allocation :
          /\ KeyUpGateOff(a).assigned = a.assigned /\ KeyUpGateOff(a).rootNote = a.rootNote
          /\ ~KeyUpGateOff(a).gated
    BY DEF KeyUpGateOff, Allocation
  <2>3. \A v \in Voices : v \in ReleasedBy(note) <=> allocation[v].assigned /\ allocation[v].rootNote = note
    BY DEF ReleasedBy
  <2>4. \A v \in Voices :
          /\ allocation'[v].assigned = allocation[v].assigned
          /\ allocation'[v].rootNote = allocation[v].rootNote
          /\ allocation'[v].assigned /\ allocation'[v].gated =>
               allocation'[v] = allocation[v] /\ allocation[v].rootNote # note
    BY <1>3, <2>1, <2>2, <2>3
  <2>5. OneRoot'
    BY <1>3, <2>4 DEF OneRoot
  <2>6. ChordKeys'
    BY <1>1, <1>3, <1>6, <2>4 DEF ChordKeys
  <2> QED BY <1>2, <2>5, <2>6 DEF ChordInv
<1> QED
  BY <1>7, <1>8

\* The pedal's gates, which latching lifts, are none of a key that is down.
LEMMA ChordPedalUp ==
  ASSUME NEW alloc \in [Voices -> Allocation]
  PROVE  \A v \in Voices :
           /\ PedalUp(alloc)[v].assigned = alloc[v].assigned
           /\ PedalUp(alloc)[v].rootNote = alloc[v].rootNote
           /\ PedalUp(alloc)[v].gated => alloc[v].gated
           /\ PedalUp(alloc)[v].keyPressed = alloc[v].keyPressed
<1>1. \A a \in Allocation :
        /\ [a EXCEPT !.gated = FALSE].assigned = a.assigned
        /\ [a EXCEPT !.gated = FALSE].rootNote = a.rootNote
        /\ [a EXCEPT !.gated = FALSE].gated = FALSE
        /\ [a EXCEPT !.gated = FALSE].keyPressed = a.keyPressed
  BY DEF Allocation
<1>2. \A v \in Voices : alloc[v] \in Allocation
        /\ PedalUp(alloc)[v] = IF v \in PedalHeld(alloc) THEN [alloc[v] EXCEPT !.gated = FALSE] ELSE alloc[v]
  BY DEF PedalUp
<1> QED
  BY <1>1, <1>2

\* The chord is latched, with keys down only if it stays what it was.
LEMMA ChordFootLatch ==
  ASSUME TypeOK, 0 \in voiceMask, ChordInv, NEW arpOn \in BOOLEAN, FootLatch(arpOn), Rested
  PROVE  ChordInv'
<1> DEFINE alloc  == PedalUp(allocation)
           env    == EnvGatedOff(PedalHeld(allocation))
           lowest == First(noteStates)
<1>0. mono = TRUE
  BY DEF ChordInv, ChordMode, TypeOK
<1>1. /\ noteStates' = noteStates /\ mono' = mono /\ voiceMask' = voiceMask /\ IsPattern(patternOffsets')
  BY <1>0, FootLatchEffect DEF FootLatch
<1>2. ChordMode'
  BY <1>1 DEF ChordInv, ChordMode
<1>3. OneRoot /\ ChordKeys /\ ChordMode /\ allocation \in [Voices -> Allocation]
  BY DEF ChordInv, TypeOK
<1>4. /\ alloc \in [Voices -> Allocation]
      /\ \A v \in Voices :
           /\ alloc[v].assigned = allocation[v].assigned /\ alloc[v].rootNote = allocation[v].rootNote
           /\ alloc[v].gated => allocation[v].gated
           /\ alloc[v].keyPressed = allocation[v].keyPressed
  BY <1>3, PedalUpEffect, ChordPedalUp
<1>5. \/ allocation' = alloc
      \/ /\ noteStates # {}
         /\ PlayPattern(alloc, env, patternOffsets', lowest, 0, Retriggers(TRUE, lowest, noteStates, arpOn))
  BY <1>0 DEF FootLatch
<1> HIDE DEF alloc, env
<1>6. CASE allocation' = alloc
  <2>1. CASE patternOffsets' = patternOffsets
    <3>1. (OneRoot /\ ChordKeys)'
      BY <1>1, <1>3, <1>4, <1>6, <2>1, ChordLess
    <3> QED BY <1>2, <3>1 DEF ChordInv
  <2>2. CASE patternOffsets' # patternOffsets
    <3>1. \A v \in Voices : ~allocation'[v].assigned
      BY <1>1, <1>4, <1>6, <2>2 DEF Rested
    <3> QED BY <1>2, <3>1, ChordSilent DEF ChordInv
  <2> QED BY <2>1, <2>2
<1>7. CASE /\ noteStates # {}
           /\ PlayPattern(alloc, env, patternOffsets', lowest, 0, Retriggers(TRUE, lowest, noteStates, arpOn))
  <2>1. patternOffsets' = patternOffsets
    BY <1>1, <1>7 DEF Rested
  <2>2. lowest \in noteStates'
    <3>1. noteStates \in SUBSET (0 .. 127)
      BY NotesAssumption DEF TypeOK
    <3>2. noteStates \in SUBSET Nat
      BY <3>1
    <3> QED BY <1>1, <1>7, <3>2, FirstIsMember
  <2>3. \A v \in Voices : alloc[v].assigned => v \in Chord
    BY <1>3, <1>4 DEF ChordKeys
  <2> DEFINE retrigger == Retriggers(TRUE, lowest, noteStates, arpOn)
  <2> HIDE DEF lowest, retrigger
  <2>4. PlayPattern(alloc, env, patternOffsets, lowest, 0, retrigger)
    BY <1>7, <2>1 DEF retrigger
  <2>5. (OneRoot /\ ChordKeys)'
    BY <1>1, <1>3, <1>4, <2>1, <2>2, <2>3, <2>4, ChordPlayed
  <2> QED BY <1>2, <2>5 DEF ChordInv
<1> QED
  BY <1>5, <1>6, <1>7

LEMMA ChordIsEnabled ==
  ASSUME 0 \in voiceMask
  PROVE  Chord \subseteq voiceMask
BY DEF Chord, StepsOn

\* Every step that stays in unison keeps the chord to one key.
LEMMA ChordStep ==
  ASSUME Chords, TypeOK, Settled, 0 \in voiceMask, ChordInv, [Next]_vars, Rested, mono' = TRUE
  PROVE  ChordInv'
<1>0. /\ mono = TRUE /\ IsPattern(patternOffsets) /\ OneRoot /\ ChordKeys
      /\ allocation \in [Voices -> Allocation]
      /\ \A v \in Voices : allocation[v] \in Allocation
  BY DEF ChordInv, ChordMode, TypeOK
<1>1. \A v \in Voices : ~VoicesDone[v].assigned
  BY <1>0, VoicesDoneEffect
<1>2. ASSUME UNCHANGED <<patternOffsets, voiceMask, noteStates>>,
             \A v \in Voices : allocation'[v].assigned => allocation'[v] = allocation[v]
      PROVE  ChordInv'
  <2>1. (OneRoot /\ ChordKeys)'
    BY <1>0, <1>2, ChordLess
  <2> QED BY <1>0, <1>2, <2>1 DEF ChordInv, ChordMode
<1>3. ASSUME IsPattern(patternOffsets'), \A v \in Voices : ~allocation'[v].assigned
      PROVE  ChordInv'
  BY <1>3, ChordSilent DEF ChordInv, ChordMode
<1>4. ASSUME NEW note \in Notes, NEW cycle \in BOOLEAN, NEW arpOn \in BOOLEAN,
             NoteOn(note, cycle, arpOn)
      PROVE  ChordInv'
  BY <1>4, ChordNoteOn
<1>5. ASSUME NEW note \in Notes, NEW cycle \in BOOLEAN, NEW arpOn \in BOOLEAN,
             NoteOff(note, cycle, arpOn)
      PROVE  ChordInv'
  BY <1>5, ChordNoteOff
<1>6. ASSUME NEW p \in Presets, NEW mask \in Masks, RefreshSettings(p, mask) PROVE ChordInv'
  <2>1. p.mono = mono
    BY <1>0, <1>6 DEF RefreshSettings
  <2>2. IsPattern(patternOffsets')
    <3>1. IsPattern(Normalised(PatternOf(p.mono, p)))
      BY PresetsAssumption, PatternOfPreset, NormalisedIsPattern DEF IsOffsets, NoNote
    <3> QED BY <1>0, <1>6, <3>1 DEF RefreshSettings, NewPattern
  <2>3. CASE mask # voiceMask \/ p.priority # priority
    BY <1>1, <1>3, <1>6, <2>2, <2>3 DEF RefreshSettings
  <2>4. CASE mask = voiceMask /\ p.priority = priority
    <3>1. UNCHANGED <<voiceMask, noteStates, allocation>>
      BY <1>6, <2>1, <2>4 DEF RefreshSettings
    <3>2. CASE patternOffsets' = patternOffsets
      BY <1>2, <3>1, <3>2
    <3>3. CASE patternOffsets' # patternOffsets
      BY <1>0, <1>3, <2>2, <3>1, <3>3 DEF Rested
    <3> QED BY <3>2, <3>3
  <2> QED BY <2>3, <2>4
<1>7. CASE AllKeysOff
  <2>1. \A a \in Allocation :
          /\ KeyUpGateOff(a).assigned = a.assigned /\ KeyUpGateOff(a).rootNote = a.rootNote
          /\ ~KeyUpGateOff(a).gated
    BY DEF Allocation, KeyUpGateOff
  <2>2. /\ UNCHANGED <<patternOffsets, voiceMask>>
        /\ \A v \in Voices :
             allocation'[v] = IF v \in voiceMask /\ allocation[v].gated
                              THEN KeyUpGateOff(allocation[v]) ELSE allocation[v]
    BY <1>7 DEF AllKeysOff, settingVars
  <2>3. \A v \in Voices : allocation[v].assigned => v \in voiceMask
    BY <1>0, ChordIsEnabled DEF ChordKeys
  <2>4. \A v \in Voices :
          /\ allocation'[v].assigned = allocation[v].assigned
          /\ allocation'[v].rootNote = allocation[v].rootNote
          /\ allocation[v].assigned => ~allocation'[v].gated
    BY <1>0, <2>1, <2>2, <2>3
  <2>5. Chord' = Chord
    BY <2>2 DEF Chord, StepsOn, Distance
  <2>6. (OneRoot /\ ChordKeys)'
    BY <1>0, <2>4, <2>5 DEF OneRoot, ChordKeys
  <2> QED BY <1>0, <2>2, <2>6 DEF ChordInv, ChordMode
<1>8. ~AllSoundOff /\ ~AllVoicesDone /\ ~UnisonOff /\ \A down : ~HoldEvent(down)
  <2>1. ~UnisonOff
    BY UnisonOffPreset DEF RefreshSettings
  <2> QED
    BY <1>0, <2>1 DEF Chords, KeysOnly, Settled, AllSoundOff, AllVoicesDone, HoldEvent
<1>9. CASE UnisonOn
  <2>1. /\ allocation' = PedalUp(allocation) /\ IsPattern(patternOffsets')
        /\ UNCHANGED <<noteStates, voiceMask>>
    BY <1>0, <1>9, UnisonPattern DEF UnisonOn, Settled
  <2>2. \A v \in Voices :
          /\ allocation'[v].assigned = allocation[v].assigned
          /\ allocation'[v].rootNote = allocation[v].rootNote
          /\ allocation'[v].gated => allocation[v].gated
          /\ allocation'[v].keyPressed = allocation[v].keyPressed
    BY <1>0, <2>1, ChordPedalUp
  <2>3. CASE patternOffsets' = patternOffsets
    <3>1. (OneRoot /\ ChordKeys)'
      BY <1>0, <2>1, <2>2, <2>3, ChordLess
    <3> QED BY <2>1, <3>1 DEF ChordInv, ChordMode
  <2>4. CASE patternOffsets' # patternOffsets
    BY <1>0, <1>3, <2>1, <2>2, <2>4 DEF Rested
  <2> QED BY <2>3, <2>4
<1>10. ASSUME NEW arpOn \in BOOLEAN, FootLatch(arpOn) PROVE ChordInv'
  BY <1>10, ChordFootLatch
<1>11. CASE HandleFinishedVoices
  <2>1. \A v \in Voices : ~VoiceDone(allocation[v]).assigned
    BY <1>0, DoneRecord
  <2>2. /\ UNCHANGED <<patternOffsets, voiceMask, noteStates>>
        /\ \A v \in Voices : \/ allocation'[v] = allocation[v]
                             \/ allocation'[v] = VoiceDone(allocation[v])
    BY <1>11 DEF HandleFinishedVoices, settingVars
  <2> QED BY <1>2, <2>1, <2>2
<1>12. CASE (\E v \in Voices : EnvelopeEnds(v)) \/ Tick \/ UNCHANGED vars
  <2>1. UNCHANGED <<patternOffsets, voiceMask, noteStates, allocation>>
    BY <1>12 DEF EnvelopeEnds, Tick, vars, settingVars
  <2> QED BY <1>2, <2>1
<1>13. ~Main /\ \A p : ~MainRefresh(p)
  BY DEF Chords, KeysOnly, Settled, MainRefresh, Main, MainCompare, MainVoicesDone, MainWriteMode,
         MainWritePattern, MainClearKeys, MainWritePriority
<1> QED
  BY <1>4, <1>5, <1>6, <1>7, <1>8, <1>9, <1>10, <1>11, <1>12, <1>13
     DEF Next, Key, Preset, Controls

LEMMA UnisonStep ==
  ASSUME Chords, UnisonInv, [Next]_vars, [Rested]_vars
  PROVE  UnisonInv'
<1>0. TypeOK /\ Settled /\ 0 \in voiceMask /\ KeysOnly /\ mono \in BOOLEAN
  BY DEF Chords, UnisonInv, TypeOK
<1>1. Rested
  BY DEF Rested, vars, settingVars
<1>2. TypeOK' /\ Settled' /\ mono' \in BOOLEAN
  <2>1. TypeOK' /\ Settled'
    BY <1>0, TypeStep, SettledStep
  <2> QED BY <2>1 DEF TypeOK
<1>3. \A p : ~MainRefresh(p)
  BY <1>0 DEF KeysOnly, MainRefresh
<1>5. ~Main
  BY <1>0 DEF Settled, Main, MainCompare, MainVoicesDone, MainWriteMode, MainWritePattern,
              MainClearKeys, MainWritePriority
<1>6. 0 \in voiceMask'
  <2>1. ASSUME NEW p \in Presets, NEW mask \in Masks, RefreshSettings(p, mask) PROVE 0 \in voiceMask'
    BY <2>1 DEF Chords, RefreshSettings
  <2>2. \A note, cycle, arpOn : NoteOn(note, cycle, arpOn) \/ NoteOff(note, cycle, arpOn)
          => UNCHANGED voiceMask
    BY DEF NoteOn, NoteOff, settingVars
  <2>3. Controls => UNCHANGED voiceMask
    BY DEF Controls, AllKeysOff, AllSoundOff, AllVoicesDone, UnisonOn, UnisonOff, RefreshSettings,
           HoldEvent, FootLatch, settingVars
  <2>4. HandleFinishedVoices \/ (\E v \in Voices : EnvelopeEnds(v)) \/ Tick \/ UNCHANGED vars
          => UNCHANGED voiceMask
    BY DEF HandleFinishedVoices, EnvelopeEnds, Tick, vars, settingVars
  <2> QED BY <1>0, <1>3, <1>5, <2>1, <2>2, <2>3, <2>4 DEF Next, Key, Preset
<1>7. CASE mono /\ mono'
  <2>1. ChordInv /\ mono' = TRUE
    BY <1>7, <1>2 DEF UnisonInv
  <2>2. ChordInv'
    BY <1>0, <1>1, <2>1, ChordStep
  <2> QED BY <1>2, <1>6, <1>7, <2>2 DEF UnisonInv
<1>8. CASE ~mono /\ ~mono'
  <2>1. PolyInv /\ StaysPoly
    BY <1>2, <1>8 DEF UnisonInv, StaysPoly
  <2>2. PolyInv'
    BY <1>0, <1>2, <2>1, PolyModeStep, PolyStep DEF PolyInv
  <2> QED BY <1>2, <1>6, <1>8, <2>2 DEF UnisonInv
<1>9. CASE mono' # mono
  <2>1. noteStates = {}
    BY <1>1, <1>9 DEF Rested
  <2>2. \/ \E p \in Presets, mask \in Masks : RefreshSettings(p, mask)
        \/ UnisonOn \/ UnisonOff
    <3>1. \A note, cycle, arpOn : NoteOn(note, cycle, arpOn) \/ NoteOff(note, cycle, arpOn)
            => UNCHANGED mono
      BY DEF NoteOn, NoteOff, settingVars
    <3>2. AllKeysOff \/ AllSoundOff \/ AllVoicesDone \/ (\E down \in BOOLEAN : HoldEvent(down))
            \/ (\E arpOn \in BOOLEAN : FootLatch(arpOn)) => UNCHANGED mono
      BY <1>0 DEF Settled, AllKeysOff, AllSoundOff, AllVoicesDone, HoldEvent, FootLatch, settingVars
    <3>3. HandleFinishedVoices \/ (\E v \in Voices : EnvelopeEnds(v)) \/ Tick \/ UNCHANGED vars
            => UNCHANGED mono
      BY DEF HandleFinishedVoices, EnvelopeEnds, Tick, vars, settingVars
    <3> QED BY <1>3, <1>5, <1>9, <3>1, <3>2, <3>3 DEF Next, Key, Preset, Controls
  <2>3. VoicesDone \in [Voices -> Allocation] /\ \A v \in Voices : ~VoicesDone[v].assigned
    BY <1>0, VoicesDoneEffect DEF TypeOK
  <2>4. \A v \in Voices : ~PedalUp(VoicesDone)[v].assigned
    BY <2>3, PedalUpEffect
  <2>5. ASSUME NEW p, NEW mask, IsPreset(p), RefreshSettings(p, mask)
        PROVE  /\ noteStates' = {} /\ \A v \in Voices : ~allocation'[v].assigned
               /\ mono' => IsPattern(patternOffsets')
               /\ ~mono' => patternOffsets' = << 0 >>
    <3>1. /\ allocation' = VoicesDone /\ noteStates' = {} /\ mono' = p.mono
          /\ patternOffsets' = Normalised(PatternOf(p.mono, p))
      BY <1>9, <2>1, <2>5 DEF RefreshSettings, NewPattern
    <3>2. IsPattern(Normalised(PatternOf(p.mono, p)))
      BY <2>5, PatternOfPreset, NormalisedIsPattern DEF IsOffsets, NoNote
    <3>3. ~p.mono => Normalised(PatternOf(p.mono, p)) = << 0 >>
      BY DEF PatternOf, Normalised
    <3> QED BY <2>3, <3>1, <3>2, <3>3
  <2>6. /\ noteStates' = {} /\ \A v \in Voices : ~allocation'[v].assigned
        /\ mono' => IsPattern(patternOffsets')
        /\ ~mono' => patternOffsets' = << 0 >>
    <3>1. ASSUME NEW p \in Presets, NEW mask \in Masks, RefreshSettings(p, mask)
          PROVE  IsPreset(p)
      BY PresetsAssumption
    <3>2. CASE UnisonOff
      <4> DEFINE p == [currentPreset EXCEPT !.mono = FALSE, !.pattern = << 0 >>]
      <4>1. IsPreset(p) /\ RefreshSettings(p, voiceMask)
        BY <1>0, <3>2, UnisonOffPreset
      <4> HIDE DEF p
      <4> QED BY <2>5, <4>1
    <3>3. CASE UnisonOn
      <4>1. mono' = TRUE /\ mono = FALSE
        BY <1>0, <1>9, <3>3 DEF UnisonOn
      <4>2. /\ noteStates' = noteStates /\ IsPattern(patternOffsets')
            /\ allocation' = PedalUp(VoicesDone)
        BY <1>0, <3>3, <4>1, UnisonPattern DEF UnisonOn, Settled
      <4> QED BY <2>1, <2>4, <4>1, <4>2
    <3> QED BY <2>2, <2>5, <3>1, <3>2, <3>3
  <2>7. CASE mono'
    <3>1. ChordInv'
      BY <2>6, <2>7, ChordSilent DEF ChordInv, ChordMode
    <3> QED BY <1>2, <1>6, <2>7, <3>1 DEF UnisonInv
  <2>8. CASE ~mono'
    <3>1. PolyMode'
      BY <1>2, <2>6, <2>8 DEF PolyMode
    <3>2. (VoicesAgree /\ OneVoiceEach /\ NoStarvedKey)'
      BY <2>6 DEF VoicesAgree, OneVoiceEach, NoStarvedKey, Unplayed
    <3> QED BY <1>2, <1>6, <2>8, <3>1, <3>2 DEF UnisonInv, PolyInv
  <2> QED BY <2>7, <2>8
<1> QED
  BY <1>0, <1>2, <1>7, <1>8, <1>9

\* With the pedal up a voice is gated only while its key is down, in unison and out of it,
\* for any number of voices, any chord and any priority, whichever keys are ignored and
\* brought back, as long as chords are changed at rest.
THEOREM AssignerNoStuckNoteInUnison ==
  ASSUME Chords
  PROVE  Spec /\ [][Rested]_vars => []NoStuckNote
<1>1. Init => UnisonInv
  <2> SUFFICES ASSUME Init PROVE UnisonInv
    OBVIOUS
  <2>1. PolyMode /\ mono = FALSE /\ Settled
    BY DEF Init, PolyMode, MainIdle, Settled, InitPreset
  <2>2. VoicesAgree /\ OneVoiceEach /\ NoStarvedKey
    BY DEF Init, VoicesAgree, OneVoiceEach, NoStarvedKey, Unplayed
  <2>3. 0 \in voiceMask
    BY NAssumption DEF Init, Voices
  <2> QED BY <2>1, <2>2, <2>3, InitType DEF PolyInv, UnisonInv
<1>2. UnisonInv /\ [Next]_vars /\ [Rested]_vars => UnisonInv'
  BY UnisonStep
<1>3. UnisonInv => NoStuckNote
  <2>1. PolyInv => NoStuckNote
    BY DEF PolyInv, VoicesAgree, NoStuckNote
  <2>2. ChordInv => NoStuckNote
    BY DEF ChordInv, ChordKeys, NoStuckNote
  <2> QED BY <2>1, <2>2 DEF UnisonInv
<1> QED
  BY <1>1, <1>2, <1>3, PTL DEF Spec

-----------------------------------------------------------------------------
(* What a released voice goes through                                        *)

\* A voice that stays released, its gate down, has an envelope that a gate no longer holds up;
\* no step starts it again, neither its release nor its attack, and once it has ended
\* handleFinishedVoices does not leave the voice assigned. So a released voice is freed, or
\* played again, by its envelope's end and the next handleFinishedVoices.
ReleaseGoesOn ==
  [][\A v \in Voices :
       /\ allocation[v].assigned /\ ~allocation[v].gated
       /\ allocation'[v].assigned /\ ~allocation'[v].gated
       => /\ ampEnv[v] # "on" /\ ampEnv'[v] \in {ampEnv[v], "wait"}
          /\ ampEnv[v] = "wait" => ~HandleFinishedVoices]_vars

\* No handler of keys, pedal or presets gates off a voice that is off already.
LEMMA ReleaseStep ==
  ASSUME OnlyPoly, PolyInv, [Next]_vars, NEW v \in Voices,
         allocation[v].assigned, ~allocation[v].gated,
         allocation'[v].assigned, ~allocation'[v].gated
  PROVE  ampEnv'[v] \in {ampEnv[v], "wait"}
<1>0. /\ allocation \in [Voices -> Allocation] /\ ampEnv \in [Voices -> Env] /\ TypeOK
      /\ mono = FALSE /\ KeysOnly /\ ~allocation[v].keyPressed
      /\ allocation[v].rootNote \notin noteStates
  BY DEF OnlyPoly, PolyInv, PolyMode, VoicesAgree, TypeOK, Env
<1>1. ASSUME NEW note \in Notes, NEW cycle \in BOOLEAN, NEW arpOn \in BOOLEAN,
             NoteOn(note, cycle, arpOn)
      PROVE  ampEnv'[v] = ampEnv[v]
  <2>1. note \in 0 .. 127
    BY NotesAssumption
  <2> QED
    BY <1>0, <1>1, <2>1, PlayEffect DEF NoteOn
<1>2. ASSUME NEW note \in Notes, NEW cycle \in BOOLEAN, NEW arpOn \in BOOLEAN,
             NoteOff(note, cycle, arpOn)
      PROVE  ampEnv'[v] = ampEnv[v]
  <2> DEFINE held    == noteStates \ {note}
             missing == Unplayed(held)
             off     == IF hold /\ ~mono THEN {} ELSE ReleasedBy(note)
  <2>1. CASE missing # {}
    <3>1. missing \in SUBSET (0 .. 127)
      BY <1>0, NotesAssumption DEF Unplayed, TypeOK
    <3>2. Restored(missing) \in 0 .. 127
      BY <2>1, <3>1, RestoredIsMissing
    <3>3. Play(Restored(missing), StartVoices(Restored(missing), held, cycle), arpOn)
      BY <1>2, <2>1 DEF NoteOff
    <3> QED
      BY <1>0, <3>2, <3>3, PlayEffect
  <2>2. CASE missing = {}
    <3>1. ampEnv' = EnvGatedOff(off)
      BY <1>2, <2>2 DEF NoteOff
    <3>2. note \in noteStates
      BY <1>0, <1>2 DEF NoteOff, KeysOnly
    <3>3. v \notin off
      BY <1>0, <3>2 DEF ReleasedBy
    <3> QED
      BY <3>1, <3>3 DEF EnvGatedOff
  <2> QED
    BY <2>1, <2>2
<1>3. CASE AllKeysOff
  BY <1>3 DEF AllKeysOff, EnvGatedOff
<1>4. ASSUME NEW down \in BOOLEAN, HoldEvent(down) PROVE ampEnv'[v] = ampEnv[v]
  BY <1>4 DEF HoldEvent, EnvGatedOff, PedalHeld
<1>5. ~AllSoundOff /\ ~AllVoicesDone /\ ~UnisonOn /\ \A arpOn : ~FootLatch(arpOn)
  BY DEF OnlyPoly, KeysOnly, AllSoundOff, AllVoicesDone, UnisonOn, FootLatch
<1>6. ASSUME NEW p, NEW mask, RefreshSettings(p, mask) PROVE ampEnv'[v] = ampEnv[v]
  BY <1>6 DEF RefreshSettings
<1>7. CASE HandleFinishedVoices
  BY <1>7 DEF HandleFinishedVoices
<1>8. ASSUME NEW w \in Voices, EnvelopeEnds(w) PROVE ampEnv'[v] \in {ampEnv[v], "wait"}
  BY <1>0, <1>8 DEF EnvelopeEnds
<1>9. (\E p \in Presets : MainRefresh(p)) \/ Main \/ Tick \/ UNCHANGED vars => ampEnv' = ampEnv
  BY DEF MainRefresh, Main, MainCompare, MainVoicesDone, MainWriteMode, MainWritePattern,
         MainClearKeys, MainWritePriority, Tick, vars
<1> QED
  BY <1>1, <1>2, <1>3, <1>4, <1>5, <1>6, <1>7, <1>8, <1>9
     DEF Next, Key, Preset, Controls, UnisonOff

\* In presets that are not in unison, and without a key released twice, a released voice only
\* nears the pool: with ReleasedVoiceFreed, what is left is that the envelope's end and
\* handleFinishedVoices come.
THEOREM AssignerReleaseGoesOn ==
  ASSUME OnlyPoly
  PROVE  Spec => ReleaseGoesOn
<1> DEFINE Nears(v) ==
      /\ allocation[v].assigned /\ ~allocation[v].gated
      /\ allocation'[v].assigned /\ ~allocation'[v].gated
      => /\ ampEnv[v] # "on" /\ ampEnv'[v] \in {ampEnv[v], "wait"}
         /\ ampEnv[v] = "wait" => ~HandleFinishedVoices
<1>1. PolyInv /\ NoDrone /\ [Next]_vars => \A v \in Voices : Nears(v)
  <2> SUFFICES ASSUME PolyInv, NoDrone, [Next]_vars, NEW v \in Voices,
                      allocation[v].assigned, ~allocation[v].gated,
                      allocation'[v].assigned, ~allocation'[v].gated
               PROVE  /\ ampEnv[v] # "on" /\ ampEnv'[v] \in {ampEnv[v], "wait"}
                      /\ ampEnv[v] = "wait" => ~HandleFinishedVoices
    OBVIOUS
  <2>1. ampEnv[v] # "on"
    BY DEF NoDrone
  <2>2. ampEnv'[v] \in {ampEnv[v], "wait"}
    BY ReleaseStep
  <2>3. ASSUME ampEnv[v] = "wait", HandleFinishedVoices PROVE FALSE
    <3>1. ~VoiceDone(allocation[v]).assigned
      BY DoneRecord DEF PolyInv, TypeOK
    <3> QED
      BY <2>3, <3>1 DEF HandleFinishedVoices
  <2> QED
    BY <2>1, <2>2, <2>3
<1>2. Spec => [][\A v \in Voices : Nears(v)]_vars
  <2> HIDE DEF Nears
  <2> QED
    BY <1>1, PolyInvariant, AssignerNoDrone, PTL DEF Spec
<1> QED
  BY <1>2 DEF ReleaseGoesOn
=============================================================================
