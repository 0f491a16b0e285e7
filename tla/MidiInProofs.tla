---------------------------- MODULE MidiInProofs ----------------------------
(***************************************************************************)
(* Theorems about MidiIn and the byte queue it is built on, for queues and *)
(* system exclusive buffers of any length and any messages of MIDI. The    *)
(* circular queue is a queue: each operator does to the contents what its  *)
(* name says, wherever it wraps. What the parser has taken in of a message *)
(* is enough to deliver it whole, and so reception implements the channel. *)
(* Transmission, which has a queue of the same kind, is the last part.     *)
(***************************************************************************)
EXTENDS MidiIn, SequenceTheorems, TLAPS

USE LengthAssumption

\* Indexes stay in the array.
LEMMA PlusSlot ==
  ASSUME NEW i \in Slots, NEW n \in 0 .. Length
  PROVE  Plus(i, n) \in Slots
BY DEF Plus, Slots

LEMMA QueueLengthType ==
  ASSUME NEW q \in Queue
  PROVE  QueueLength(q) \in 0 .. Length - 1
BY DEF QueueLength, Queue, Slots

\* A byte that is queued takes the length up by one and leaves the others where
\* they are; one that finds the queue full changes nothing.
LEMMA EnqueueLength ==
  ASSUME NEW q \in Queue, NEW item \in Bytes, ~Full(q)
  PROVE  /\ Enqueue(q, item) \in Queue
         /\ QueueLength(Enqueue(q, item)) = QueueLength(q) + 1
         /\ Enqueue(q, item).start = q.start
         /\ Enqueue(q, item).data = [q.data EXCEPT ![q.end] = item]
<1> DEFINE r == Enqueue(q, item)
<1>1. /\ q.end \in Slots /\ q.start \in Slots /\ q.data \in [Slots -> Bytes]
  BY DEF Queue
<1>2. Plus(q.end, 1) \in Slots
  BY <1>1, PlusSlot
<1>3. /\ r = [data |-> [q.data EXCEPT ![q.end] = item], start |-> q.start, end |-> Plus(q.end, 1)]
  BY <1>1 DEF Enqueue, Queue
<1>4. r \in Queue
  BY <1>1, <1>2, <1>3 DEF Queue
<1>5. QueueLength(r) = QueueLength(q) + 1
  BY <1>1, <1>3, SMTT(60) DEF QueueLength, Plus, Full, Slots
<1> QED
  BY <1>3, <1>4, <1>5

\* Queued bytes come out in the order they went in: enqueueing appends.
THEOREM EnqueueAppends ==
  ASSUME NEW q \in Queue, NEW item \in Bytes, ~Full(q)
  PROVE  Contents(Enqueue(q, item)) = Append(Contents(q), item)
<1> DEFINE r == Enqueue(q, item)
           n == QueueLength(q)
<1>1. /\ q.end \in Slots /\ q.start \in Slots /\ q.data \in [Slots -> Bytes]
  BY DEF Queue
<1>2. /\ QueueLength(r) = n + 1 /\ r.start = q.start
      /\ r.data = [q.data EXCEPT ![q.end] = item]
  BY EnqueueLength
<1>3. n \in 0 .. Length - 1
  BY QueueLengthType
<1>4. Plus(q.start, n) = q.end
  BY <1>1, SMTT(60) DEF Plus, QueueLength, Slots
<1>5. \A i \in 0 .. n - 1 : Plus(q.start, i) \in Slots /\ Plus(q.start, i) # q.end
  BY <1>1, <1>3, SMTT(60) DEF Plus, QueueLength, Slots
<1>6. \A i \in 1 .. n : Get(r, i - 1) = Get(q, i - 1)
  <2> SUFFICES ASSUME NEW i \in 1 .. n PROVE Get(r, i - 1) = Get(q, i - 1)
    OBVIOUS
  <2>1. i - 1 \in 0 .. n - 1
    BY <1>3
  <2> QED
    BY <2>1, <1>1, <1>2, <1>5 DEF Get
<1>7. Get(r, n) = item
  BY <1>1, <1>2, <1>4 DEF Get
<1>8. Contents(r) = [i \in 1 .. n + 1 |-> IF i <= n THEN Get(q, i - 1) ELSE item]
  <2>1. \A i \in 1 .. n + 1 : Get(r, i - 1) = IF i <= n THEN Get(q, i - 1) ELSE item
    <3> SUFFICES ASSUME NEW i \in 1 .. n + 1
                 PROVE  Get(r, i - 1) = IF i <= n THEN Get(q, i - 1) ELSE item
      OBVIOUS
    <3>1. CASE i <= n
      BY <3>1, <1>3, <1>6
    <3>2. CASE ~(i <= n)
      <4>1. i - 1 = n
        BY <3>2, <1>3
      <4> QED
        BY <4>1, <3>2, <1>7
    <3> QED
      BY <3>1, <3>2
  <2> QED
    BY <2>1, <1>2 DEF Contents
<1>9. Append(Contents(q), item) = [i \in 1 .. n + 1 |-> IF i <= n THEN Get(q, i - 1) ELSE item]
  <2>1. Contents(q) = [i \in 1 .. n |-> Get(q, i - 1)]
    BY DEF Contents
  <2>2. \A i \in 1 .. n : Get(q, i - 1) \in Bytes
    <3> SUFFICES ASSUME NEW i \in 1 .. n PROVE Get(q, i - 1) \in Bytes
      OBVIOUS
    <3>1. i - 1 \in 0 .. n - 1
      BY <1>3
    <3> QED
      BY <3>1, <1>1, <1>5 DEF Get
  <2>3. Contents(q) \in Seq(Bytes) /\ Len(Contents(q)) = n
    BY <2>1, <2>2, <1>3
  <2> QED
    BY <2>1, <2>3, <1>3
<1> QED
  BY <1>8, <1>9

\* The head is what get(0) reads, and removing it leaves the tail.
THEOREM RemoveTakesHead ==
  ASSUME NEW q \in Queue, QueueLength(q) > 0
  PROVE  /\ Get(q, 0) = Head(Contents(q))
         /\ Remove(q, 1) \in Queue
         /\ Contents(Remove(q, 1)) = Tail(Contents(q))
<1> DEFINE r == Remove(q, 1)
           n == QueueLength(q)
<1>1. /\ q.end \in Slots /\ q.start \in Slots /\ q.data \in [Slots -> Bytes]
  BY DEF Queue
<1>2. n \in 1 .. Length - 1
  BY QueueLengthType
<1>3. r = [data |-> q.data, start |-> Plus(q.start, 1), end |-> q.end]
  BY DEF Remove, Queue
<1>4. Plus(q.start, 1) \in Slots
  BY <1>1, PlusSlot
<1>5. r \in Queue
  BY <1>1, <1>3, <1>4 DEF Queue
<1>6. QueueLength(r) = n - 1
  BY <1>1, <1>2, <1>3, SMTT(60) DEF QueueLength, Plus, Slots
<1>7. \A i \in 1 .. n - 1 : Get(r, i - 1) = Get(q, i)
  <2> SUFFICES ASSUME NEW i \in 1 .. n - 1 PROVE Get(r, i - 1) = Get(q, i)
    OBVIOUS
  <2>1. Plus(Plus(q.start, 1), i - 1) = Plus(q.start, i)
    BY <1>1, <1>2, SMTT(60) DEF Plus, Slots
  <2> QED
    BY <2>1, <1>3 DEF Get
<1>8. Contents(q) = [i \in 1 .. n |-> Get(q, i - 1)]
  BY DEF Contents
<1>9. \A i \in 1 .. n : Get(q, i - 1) \in Bytes
  <2> SUFFICES ASSUME NEW i \in 1 .. n PROVE Get(q, i - 1) \in Bytes
    OBVIOUS
  <2>1. Plus(q.start, i - 1) \in Slots
    BY <1>1, <1>2, PlusSlot
  <2> QED
    BY <2>1, <1>1 DEF Get
<1>10. Contents(q) \in Seq(Bytes) /\ Len(Contents(q)) = n /\ Contents(q) # <<>>
  <2>1. Contents(q) \in [1 .. n -> Bytes]
    BY <1>8, <1>9
  <2> QED
    BY <2>1, <1>2
<1>11. Tail(Contents(q)) = [i \in 1 .. n - 1 |-> Get(q, i)]
  <2>1. \A i \in 1 .. n - 1 : Contents(q)[i + 1] = Get(q, i)
    BY <1>2, <1>8
  <2>2. /\ Tail(Contents(q)) \in Seq(Bytes) /\ Len(Tail(Contents(q))) = n - 1
        /\ \A i \in 1 .. n - 1 : Tail(Contents(q))[i] = Contents(q)[i + 1]
    BY <1>10, HeadTailProperties
  <2>3. Tail(Contents(q)) \in [1 .. n - 1 -> Bytes]
    BY <2>2, <1>2, LenProperties
  <2>4. \A i \in 1 .. n - 1 : Tail(Contents(q))[i] = Get(q, i)
    BY <2>1, <2>2
  <2> QED
    BY <2>3, <2>4
<1>12. Contents(r) = [i \in 1 .. n - 1 |-> Get(q, i)]
  BY <1>6, <1>7 DEF Contents
<1>13. Get(q, 0) = Head(Contents(q))
  BY <1>2, <1>8, <1>10
<1> QED
  BY <1>5, <1>11, <1>12, <1>13

HIDE LengthAssumption

-----------------------------------------------------------------------------
(* MIDI as a grammar. A prefix is what has come of the message under way:  *)
(* its status byte, sent or running, and data, or nothing.                 *)

Voiced == {NoteOn, ProgChange}

InSysex(p) == p # <<>> /\ p[1] = SysexBegin

Prefix(p) ==
  /\ p \in Seq(Bytes) /\ \A i \in 2 .. Len(p) : p[i] \in DataBytes
  /\ \/ p = <<>>
     \/ p # <<>> /\ p[1] \in Voiced /\ Len(p) < PacketLength(p[1])
     \/ InSysex(p) /\ Len(p) <= MaxSysex + 1

\* A byte that may come after a prefix, when nothing cuts a system exclusive
\* message off.
Fits(b, p) ==
  \/ b \in Clock .. 255
  \/ b \in Voiced \cup {TuneRequest, SysexBegin} /\ ~InSysex(p)
  \/ b = SysexEnd /\ InSysex(p)
  \/ b \in DataBytes /\ p # <<>> /\ (InSysex(p) => Len(p) <= MaxSysex)

\* The data byte is the last of a channel message.
Fills(b, p) == b \in DataBytes /\ ~InSysex(p) /\ Len(p) + 1 = PacketLength(p[1])

\* The prefix after a byte. A channel message leaves its running status.
After(b, p) ==
  IF b \in Clock .. 255 THEN p
  ELSE IF b \in Voiced \cup {SysexBegin} THEN <<b>>
  ELSE IF b \in {TuneRequest, SysexEnd} THEN <<>>
  ELSE IF Fills(b, p) THEN <<p[1]>> ELSE Append(p, b)

\* The messages a byte completes: one or none.
Completed(b, p) ==
  IF b \in Clock .. 255 THEN <<<<b>>>>
  ELSE IF b = SysexEnd \/ Fills(b, p) THEN <<Append(p, b)>>
  ELSE <<>>

LEMMA PrefixKept ==
  ASSUME NEW p, Prefix(p), NEW b \in Bytes, Fits(b, p)
  PROVE  Prefix(After(b, p))
<1>1. CASE b \in Clock .. 255
  BY <1>1 DEF After
<1>2. CASE b \in Voiced \cup {SysexBegin}
  <2>1. After(b, p) = <<b>>
    BY <1>2 DEF After, Voiced, NoteOn, ProgChange, SysexBegin, Clock
  <2>2. <<b>> \in Seq(Bytes) /\ Len(<<b>>) = 1 /\ <<b>>[1] = b /\ <<b>> # <<>>
    OBVIOUS
  <2> QED
    BY <1>2, <2>1, <2>2, BoundsAssumption
    DEF Prefix, InSysex, Voiced, PacketLength, NoteOn, ProgChange, TuneRequest, SysexBegin
<1>3. CASE b \in {TuneRequest, SysexEnd}
  <2>1. After(b, p) = <<>>
    BY <1>3 DEF After, Voiced, NoteOn, ProgChange, SysexBegin, Clock, TuneRequest, SysexEnd
  <2> QED
    BY <2>1 DEF Prefix
<1>4. CASE b \in DataBytes
  <2>1. After(b, p) = IF Fills(b, p) THEN <<p[1]>> ELSE Append(p, b)
    <3>1. b \notin Clock .. 255 /\ b \notin Voiced \cup {SysexBegin} /\ b \notin {TuneRequest, SysexEnd}
      BY <1>4 DEF Voiced, NoteOn, ProgChange, SysexBegin, Clock, TuneRequest, SysexEnd, DataBytes
    <3> QED
      BY <3>1 DEF After
  <2>2. p \in Seq(Bytes) /\ p # <<>> /\ (InSysex(p) => Len(p) <= MaxSysex)
    BY <1>4 DEF Fits, Prefix, Voiced, NoteOn, ProgChange, SysexBegin, Clock, TuneRequest,
         SysexEnd, DataBytes
  <2>3. /\ <<p[1]>> \in Seq(Bytes) /\ Len(<<p[1]>>) = 1 /\ <<p[1]>>[1] = p[1] /\ <<p[1]>> # <<>>
        /\ Append(p, b) \in Seq(Bytes) /\ Len(Append(p, b)) = Len(p) + 1 /\ Len(p) \in Nat \ {0}
        /\ Append(p, b)[1] = p[1] /\ Append(p, b) # <<>>
    BY <2>2
  <2>4. CASE Fills(b, p)
    BY <1>4, <2>1, <2>2, <2>3, <2>4, BoundsAssumption
    DEF Prefix, Fills, InSysex, Voiced, PacketLength, NoteOn, ProgChange, TuneRequest, SysexBegin
  <2>5. CASE ~Fills(b, p)
    BY <1>4, <2>1, <2>2, <2>3, <2>5, BoundsAssumption
    DEF Prefix, Fills, InSysex, Voiced, PacketLength, NoteOn, ProgChange, TuneRequest, SysexBegin
  <2> QED
    BY <2>4, <2>5
<1> QED
  BY <1>1, <1>2, <1>3, <1>4 DEF Fits

-----------------------------------------------------------------------------
(* The gathering of a system exclusive message m                           *)

Gathering == [size : 0 .. MaxSysex, buffer : [0 .. MaxSysex - 1 -> Bytes], used : BOOLEAN,
              out : Seq(Seq(Bytes)), spoils : BOOLEAN]

\* The first n data bytes are gathered, in what is left of the buffer.
Holds(g, m, n) ==
  /\ g \in Gathering /\ g.size = n /\ g.out = <<>> /\ g.spoils = FALSE
  /\ g.used \/ \A i \in 0 .. n - 1 : g.buffer[i] = m[i + 2]

\* The message m has ended: it is given as it was sent if the buffer was not used.
Ends(e, m) ==
  /\ e.out \in Seq(Seq(Bytes)) /\ Len(e.out) = 1
  /\ e.spoils = FALSE => e.out = <<m>>
  /\ e.size = 0 /\ e.buffer \in [0 .. MaxSysex - 1 -> Bytes]
  /\ e.used \in BOOLEAN /\ e.spoils \in BOOLEAN

LEMMA DataIsNoStatus ==
  ASSUME NEW b \in DataBytes
  PROVE  b \in 0 .. 127 /\ b # SysexBegin /\ b # SysexEnd /\ b \notin Voiced /\ b # TuneRequest
         /\ b \notin Clock .. 255 /\ ~IsRealtime(b) /\ ~IsStatus(b)
BY DEF DataBytes, SysexBegin, SysexEnd, Voiced, NoteOn, ProgChange, TuneRequest, Clock, IsRealtime, IsStatus

LEMMA HoldsBegun ==
  ASSUME NEW g, NEW m, NEW n, Holds(g, m, n)
  PROVE  Holds(SysexByte(g, SysexBegin), m, 0)
<1> DEFINE zeros == [i \in DOMAIN g.buffer |-> 0]
<1>1. SysexByte(g, SysexBegin) = [g EXCEPT !.size = 0, !.buffer = zeros, !.used = FALSE]
  BY DEF SysexByte, SysexBegin, SysexEnd
<1>2. zeros \in [0 .. MaxSysex - 1 -> Bytes] /\ g.out = <<>> /\ g.spoils = FALSE /\ g \in Gathering
  BY BytesAssumption DEF Holds, Gathering
<1> HIDE DEF zeros
<1>3. /\ SysexByte(g, SysexBegin) \in Gathering /\ SysexByte(g, SysexBegin).size = 0
      /\ SysexByte(g, SysexBegin).out = g.out /\ SysexByte(g, SysexBegin).spoils = g.spoils
  <2>1. 0 \in 0 .. MaxSysex /\ FALSE \in BOOLEAN
    BY BoundsAssumption
  <2> QED
    BY <1>1, <1>2, <2>1 DEF Gathering
<1> QED
  BY <1>2, <1>3 DEF Holds

LEMMA HoldsMore ==
  ASSUME NEW g, NEW m \in Seq(Bytes), NEW n \in 0 .. MaxSysex - 1, Holds(g, m, n),
         NEW b \in DataBytes, b \in Bytes, b = m[n + 2]
  PROVE  Holds(SysexByte(g, b), m, n + 1)
<1>1. b # SysexBegin /\ b # SysexEnd
  BY DataIsNoStatus
<1>2. g.size = n /\ ~(n >= MaxSysex) /\ n \in Nat /\ n + 1 \in 0 .. MaxSysex
  BY BoundsAssumption DEF Holds
<1> DEFINE f == [g.buffer EXCEPT ![n] = b]
<1>3. SysexByte(g, b) = [g EXCEPT !.size = n + 1, !.buffer = f]
  BY <1>1, <1>2 DEF SysexByte
<1>4. /\ f \in [0 .. MaxSysex - 1 -> Bytes]
      /\ g.used \/ \A i \in 0 .. (n + 1) - 1 : f[i] = m[i + 2]
  BY <1>2, BoundsAssumption DEF Holds, Gathering
<1> HIDE DEF f
<1>5. g \in Gathering /\ g.out = <<>> /\ g.spoils = FALSE
  BY DEF Holds
<1>6. /\ SysexByte(g, b).size = n + 1 /\ SysexByte(g, b).buffer = f /\ SysexByte(g, b).out = g.out
      /\ SysexByte(g, b).used = g.used /\ SysexByte(g, b).spoils = g.spoils
      /\ SysexByte(g, b) \in Gathering
  BY <1>2, <1>3, <1>4, <1>5 DEF Gathering
<1> QED
  BY <1>4, <1>5, <1>6 DEF Holds

\* The gathered message is the one that was sent, if the buffer was not used.
LEMMA HoldsAll ==
  ASSUME NEW g, NEW m \in Seq(Bytes), NEW n \in 0 .. MaxSysex, Holds(g, m, n),
         Len(m) = n + 2, m[1] = SysexBegin, m[Len(m)] = SysexEnd
  PROVE  Ends(SysexByte(g, SysexEnd), m)
<1> DEFINE data == [i \in 1 .. n |-> g.buffer[i - 1]]
<1>1. g.size = n /\ n \in Nat /\ g \in Gathering
  BY BoundsAssumption DEF Holds
<1>2. SysexByte(g, SysexEnd) =
        [g EXCEPT !.size = 0, !.spoils = g.used,
                  !.out = <<(<<SysexBegin>> \o data) \o <<SysexEnd>>>>]
  BY <1>1 DEF SysexByte, SysexBegin, SysexEnd
<1>3. /\ data \in Seq(Bytes) /\ Len(data) = n
      /\ g.used \/ \A i \in 1 .. n : data[i] = m[i + 1]
  <2>1. \A i \in 1 .. n : g.buffer[i - 1] \in Bytes
    BY <1>1, BoundsAssumption DEF Gathering
  <2>2. g.used \/ \A i \in 1 .. n : g.buffer[i - 1] = m[i + 1]
    BY <1>1, BoundsAssumption DEF Holds
  <2> QED
    BY <1>1, <2>1, <2>2
<1> HIDE DEF data
<1> DEFINE whole == (<<SysexBegin>> \o data) \o <<SysexEnd>>
<1>4. whole \in Seq(Bytes) /\ (g.used = FALSE => whole = m)
  <2>1. SysexBegin \in Bytes /\ SysexEnd \in Bytes
    BY <1>1
  <2>2. whole \in Seq(Bytes) /\ Len(whole) = n + 2
    BY <1>1, <1>3, <2>1
  <2>3. g.used = FALSE => \A i \in 1 .. n + 2 : whole[i] = m[i]
    BY <1>1, <1>3, <2>1
  <2> HIDE DEF whole
  <2> QED
    BY <2>2, <2>3, <1>1, SeqEqual
<1> HIDE DEF whole
<1>5. SysexByte(g, SysexEnd) = [g EXCEPT !.size = 0, !.spoils = g.used, !.out = <<whole>>]
  BY <1>2 DEF whole
<1>6. <<whole>> \in Seq(Seq(Bytes)) /\ Len(<<whole>>) = 1
  BY <1>4
<1> DEFINE o == <<whole>>
<1>7. g.used = FALSE => o = <<m>>
  BY <1>4
<1> HIDE DEF o
<1>8. SysexByte(g, SysexEnd) = [g EXCEPT !.size = 0, !.spoils = g.used, !.out = o]
  BY <1>5 DEF o
<1>9. /\ SysexByte(g, SysexEnd).size = 0 /\ SysexByte(g, SysexEnd).buffer = g.buffer
      /\ SysexByte(g, SysexEnd).used = g.used /\ SysexByte(g, SysexEnd).spoils = g.used
      /\ SysexByte(g, SysexEnd).out = o
      /\ g.used \in BOOLEAN /\ g.buffer \in [0 .. MaxSysex - 1 -> Bytes]
  BY <1>1, <1>8 DEF Gathering
<1> QED
  BY <1>6, <1>7, <1>9 DEF Ends, o

\* How much of a prefix is gathered: what came in whole threes.
Sized(n) == IF n < 3 THEN 0 ELSE n - (n % 3) - 1

LEMMA EventTakes ==
  ASSUME NEW call
  PROVE  /\ NewBytes(call) = 1 => SysexEvent(call) = SysexByte(Gathered, call.bytes[1])
         /\ NewBytes(call) = 2 => SysexEvent(call) =
              SysexByte(SysexByte(Gathered, call.bytes[1]), call.bytes[2])
         /\ NewBytes(call) = 3 => SysexEvent(call) =
              SysexByte(SysexByte(SysexByte(Gathered, call.bytes[1]), call.bytes[2]), call.bytes[3])
BY DEF SysexEvent

LEMMA GatheredSize == Gathered.size = sysexSize
BY DEF Gathered

\* Three bytes of a message that goes on.
LEMMA EventMore ==
  ASSUME NEW m \in Seq(Bytes), NEW call,
         Len(m) \in 3 .. MaxSysex + 1, Len(m) % 3 = 0,
         m[1] = SysexBegin, \A i \in 2 .. Len(m) : m[i] \in DataBytes,
         Holds(Gathered, m, Sized(Len(m) - 1)),
         call.count = Len(m), call.bytes = <<m[Len(m) - 2], m[Len(m) - 1], m[Len(m)]>>
  PROVE  Holds(SysexEvent(call), m, Len(m) - 1)
<1> DEFINE L == Len(m)
<1>1. L \in Nat /\ L % 3 = 0 /\ 3 <= L /\ L <= MaxSysex + 1 /\ MaxSysex \in Nat
  BY BoundsAssumption
<1>2. call.bytes[1] = m[L - 2] /\ call.bytes[2] = m[L - 1] /\ call.bytes[3] = m[L]
  OBVIOUS
<1>3. \A i \in 2 .. L : m[i] \in DataBytes /\ m[i] \in Bytes
  BY <1>1
<1>4. call.count = L /\ Holds(Gathered, m, Sized(L - 1))
  OBVIOUS
<1> HIDE DEF L
<1>5. CASE L = 3
  <2>1. Sized(L - 1) = 0
    BY <1>5 DEF Sized
  <2>2. sysexSize = 0
    BY <1>4, <2>1, GatheredSize DEF Holds
  <2>3. NewBytes(call) = 3
    BY <1>4, <1>5, <2>2 DEF NewBytes
  <2> DEFINE g == SysexByte(Gathered, SysexBegin)
             h == SysexByte(g, m[2])
  <2>4. Holds(g, m, 0)
    BY <1>4, <2>1, HoldsBegun
  <2>5. m[2] \in DataBytes /\ m[2] \in Bytes /\ m[3] \in DataBytes /\ m[3] \in Bytes
    BY <1>3, <1>5
  <2>6. 0 \in 0 .. MaxSysex - 1 /\ 1 \in 0 .. MaxSysex - 1 /\ 0 + 1 = 1 /\ 0 + 2 = 2
    BY <1>1, <1>5
  <2>7. SysexEvent(call) = SysexByte(h, m[3])
    BY <1>2, <1>5, <2>3, EventTakes
  <2> HIDE DEF g
  <2>8. Holds(h, m, 1)
    BY <2>4, <2>5, <2>6, HoldsMore
  <2> HIDE DEF h
  <2>9. Holds(SysexByte(h, m[3]), m, 1 + 1)
    BY <2>5, <2>6, <2>8, HoldsMore
  <2> QED
    BY <1>5, <2>7, <2>9 DEF L
<1>6. CASE L > 3
  <2> DEFINE s == L - 4
  <2>1. Sized(L - 1) = s /\ s \in Nat \ {0} /\ L - 1 = ((s + 1) + 1) + 1
    <3>1. (L - 1) % 3 = 2 /\ ~(L - 1 < 3)
      BY <1>1, <1>6
    <3>2. Sized(L - 1) = L - 1 - 2 - 1
      BY <3>1 DEF Sized
    <3> QED
      BY <1>1, <1>6, <3>2
  <2>2. sysexSize = s
    BY <1>4, <2>1, GatheredSize DEF Holds
  <2>3. NewBytes(call) = 3
    BY <1>1, <1>4, <2>1, <2>2 DEF NewBytes
  <2>4. /\ s \in 0 .. MaxSysex - 1 /\ s + 1 \in 0 .. MaxSysex - 1 /\ (s + 1) + 1 \in 0 .. MaxSysex - 1
        /\ L - 2 = s + 2 /\ L - 1 = (s + 1) + 2 /\ L = ((s + 1) + 1) + 2
        /\ L - 2 \in 2 .. L /\ L - 1 \in 2 .. L /\ L \in 2 .. L
    BY <1>1, <1>6
  <2>5. Holds(Gathered, m, s)
    BY <1>4, <2>1
  <2> HIDE DEF s
  <2> DEFINE g == SysexByte(Gathered, m[L - 2])
             h == SysexByte(g, m[L - 1])
  <2>6. Holds(g, m, s + 1)
    BY <1>3, <2>4, <2>5, HoldsMore
  <2>7. SysexEvent(call) = SysexByte(h, m[L])
    BY <1>2, <2>3, EventTakes
  <2> HIDE DEF g
  <2>8. Holds(h, m, (s + 1) + 1)
    BY <1>3, <2>4, <2>6, HoldsMore
  <2> HIDE DEF h
  <2>9. Holds(SysexByte(h, m[L]), m, ((s + 1) + 1) + 1)
    BY <1>3, <2>4, <2>8, HoldsMore
  <2> QED
    BY <2>1, <2>7, <2>9 DEF L
<1> QED
  BY <1>1, <1>5, <1>6

\* What is left when a message ends.
LEMMA EventLast ==
  ASSUME NEW m \in Seq(Bytes), NEW call,
         Len(m) \in 2 .. MaxSysex + 2, m[1] = SysexBegin, m[Len(m)] = SysexEnd,
         \A i \in 2 .. Len(m) - 1 : m[i] \in DataBytes,
         Holds(Gathered, m, Sized(Len(m) - 1)),
         call.count = Len(m),
         \A j \in 0 .. (Len(m) - 1) % 3 :
           call.bytes[j + 1] = m[Len(m) - ((Len(m) - 1) % 3) + j]
  PROVE  Ends(SysexEvent(call), m)
<1> DEFINE L == Len(m)
           r == (L - 1) % 3
<1>1. L \in Nat /\ r \in 0 .. 2 /\ 2 <= L /\ L <= MaxSysex + 2 /\ MaxSysex \in Nat
  BY BoundsAssumption
<1>2. \A j \in 0 .. r : call.bytes[j + 1] = m[L - r + j]
  OBVIOUS
<1>3. \A i \in 2 .. L - 1 : m[i] \in DataBytes /\ m[i] \in Bytes
  BY <1>1
<1>4. call.count = L /\ Holds(Gathered, m, Sized(L - 1)) /\ m[L] = SysexEnd /\ Len(m) = L
  OBVIOUS
<1>5. ASSUME NEW g, Holds(g, m, L - 2), SysexEvent(call) = SysexByte(g, SysexEnd)
      PROVE  Ends(SysexEvent(call), m)
  <2>1. L - 2 \in 0 .. MaxSysex /\ L = (L - 2) + 2
    BY <1>1
  <2> QED
    BY <1>4, <1>5, <2>1, HoldsAll
<1>6. L = 2 => r = 1
  BY <1>1
<1>7. L = 3 => r = 2
  BY <1>1
<1>8. L > 3 => Sized(L - 1) = L - r - 2 /\ L - r - 2 > 0
  <2>1. Sized(L - 1) = IF L - 1 < 3 THEN 0 ELSE (L - 1) - r - 1
    BY DEF Sized
  <2>2. L > 3 => L - r - 2 > 0
    BY <1>1
  <2> HIDE DEF r
  <2> HIDE DEF L
  <2> QED
    BY <1>1, <2>1, <2>2
<1>9. call.bytes[1] = m[L - r] /\ (r >= 1 => call.bytes[2] = m[L - r + 1])
      /\ (r = 2 => call.bytes[3] = m[L - r + 2])
  <2>1. 0 \in 0 .. r /\ (r >= 1 => 1 \in 0 .. r) /\ (r = 2 => 2 \in 0 .. r)
    BY <1>1
  <2> QED
    BY <1>1, <1>2, <2>1
<1> HIDE DEF r
<1> HIDE DEF L
<1>10. CASE L <= 3
  <2>1. Sized(L - 1) = 0 /\ L \in {2, 3}
    BY <1>1, <1>10 DEF Sized
  <2>2. sysexSize = 0
    BY <1>4, <2>1, GatheredSize DEF Holds
  <2>3. NewBytes(call) = L
    BY <1>4, <2>2 DEF NewBytes
  <2> DEFINE g == SysexByte(Gathered, SysexBegin)
  <2>4. Holds(g, m, 0)
    BY <1>4, <2>1, HoldsBegun
  <2>5. CASE L = 2
    <3>1. call.bytes[1] = SysexBegin /\ call.bytes[2] = SysexEnd
      BY <1>4, <1>6, <1>9, <2>5
    <3>2. SysexEvent(call) = SysexByte(g, SysexEnd)
      BY <2>3, <2>5, <3>1, EventTakes
    <3> HIDE DEF g
    <3> QED
      BY <1>5, <2>4, <2>5, <3>2
  <2>6. CASE L = 3
    <3>1. call.bytes[1] = SysexBegin /\ call.bytes[2] = m[2] /\ call.bytes[3] = SysexEnd
      BY <1>4, <1>7, <1>9, <2>6
    <3>2. m[2] \in DataBytes /\ m[2] \in Bytes /\ 0 \in 0 .. MaxSysex - 1
      BY <1>1, <1>3, <2>6
    <3>3. SysexEvent(call) = SysexByte(SysexByte(g, m[2]), SysexEnd)
      BY <2>3, <2>6, <3>1, EventTakes
    <3> HIDE DEF g
    <3>4. Holds(SysexByte(g, m[2]), m, 0 + 1)
      BY <2>4, <3>2, HoldsMore
    <3> QED
      BY <1>5, <2>6, <3>3, <3>4
  <2> QED
    BY <2>1, <2>5, <2>6
<1>11. CASE L > 3
  <2> DEFINE n == L - r - 2
  <2>1. Holds(Gathered, m, n) /\ n \in Nat \ {0} /\ L - r = n + 2 /\ L = n + r + 2
    BY <1>1, <1>4, <1>8, <1>11
  <2> HIDE DEF n
  <2>2. sysexSize = n
    BY <2>1, GatheredSize DEF Holds
  <2>3. NewBytes(call) = r + 1
    BY <1>1, <1>4, <2>1, <2>2 DEF NewBytes
  <2>4. CASE r = 0
    <3>1. SysexEvent(call) = SysexByte(Gathered, SysexEnd)
      BY <1>1, <1>4, <1>9, <2>3, <2>4, EventTakes
    <3> QED
      BY <1>1, <1>5, <2>1, <2>4, <3>1
  <2>5. CASE r = 1
    <3> DEFINE g == SysexByte(Gathered, m[n + 2])
    <3>1. call.bytes[1] = m[n + 2] /\ call.bytes[2] = SysexEnd
      BY <1>1, <1>4, <1>9, <2>1, <2>5
    <3>2. SysexEvent(call) = SysexByte(g, SysexEnd)
      BY <2>3, <2>5, <3>1, EventTakes
    <3>3. n \in 0 .. MaxSysex - 1 /\ n + 2 \in 2 .. L - 1 /\ L - 2 = n + 1
      BY <1>1, <2>1, <2>5
    <3>4. Holds(g, m, n + 1)
      BY <1>3, <2>1, <3>3, HoldsMore
    <3> HIDE DEF g
    <3> QED
      BY <1>5, <3>2, <3>3, <3>4
  <2>6. CASE r = 2
    <3> DEFINE g == SysexByte(Gathered, m[n + 2])
               h == SysexByte(g, m[(n + 1) + 2])
    <3>1. call.bytes[1] = m[n + 2] /\ call.bytes[2] = m[(n + 1) + 2] /\ call.bytes[3] = SysexEnd
      <4>1. L - r + 1 = (n + 1) + 2 /\ L - r + 2 = L
        BY <1>1, <2>1, <2>6
      <4> QED
        BY <1>1, <1>4, <1>9, <2>1, <2>6, <4>1
    <3>2. SysexEvent(call) = SysexByte(h, SysexEnd)
      BY <2>3, <2>6, <3>1, EventTakes
    <3>3. /\ n \in 0 .. MaxSysex - 1 /\ n + 2 \in 2 .. L - 1 /\ L - 2 = (n + 1) + 1
          /\ n + 1 \in 0 .. MaxSysex - 1 /\ (n + 1) + 2 \in 2 .. L - 1
      BY <1>1, <2>1, <2>6
    <3>4. Holds(g, m, n + 1)
      BY <1>3, <2>1, <3>3, HoldsMore
    <3> HIDE DEF g
    <3>5. Holds(h, m, (n + 1) + 1)
      BY <1>3, <3>3, <3>4, HoldsMore
    <3> HIDE DEF h
    <3> QED
      BY <1>5, <3>2, <3>3, <3>5
  <2> QED
    BY <1>1, <2>4, <2>5, <2>6
<1> QED
  BY <1>1, <1>10, <1>11

-----------------------------------------------------------------------------
(* The parser. The device and the gathering hold a prefix: a channel        *)
(* message in its buffer, a system exclusive one in threes.                 *)

Devices == [state : {"idle", "two", "three", "sysex"}, buffer : [0 .. 2 -> Bytes],
            count : 0 .. MaxSysex + 2]

HoldsVoiced(p, d) ==
  /\ p # <<>> /\ p[1] \in Voiced
  /\ d.state = IF p[1] = NoteOn THEN "three" ELSE "two"
  /\ d.count = Len(p) /\ d.buffer[0] = p[1] /\ (Len(p) = 2 => d.buffer[1] = p[2])

HoldsSysex(p, d, g) ==
  /\ InSysex(p) /\ d.state = "sysex" /\ d.count = Len(p)
  /\ \A j \in 0 .. 2 : j < Len(p) % 3 => d.buffer[j] = p[Len(p) - (Len(p) % 3) + j + 1]
  /\ Holds(g, p, Sized(Len(p)))

Agrees(p, d, g) ==
  \/ p = <<>> /\ d.state = "idle" /\ g.size = 0
  \/ HoldsVoiced(p, d) /\ g.size = 0
  \/ HoldsSysex(p, d, g)

\* The gathering after a call, and the messages it delivers.
GatherAfter(call) == IF call.state = "sysex" THEN SysexEvent(call) ELSE Gathered

Delivers(call) == IF call.state = "sysex" THEN SysexEvent(call).out ELSE Delivered(call)

LEMMA StoredFacts ==
  ASSUME NEW d \in Devices, NEW b \in Bytes
  PROVE  /\ Stored(d, b).state = d.state /\ Stored(d, b).count = d.count + 1
         /\ Stored(d, b).buffer = [d.buffer EXCEPT ![d.count % 3] = b]
         /\ Stored(d, b).buffer \in [0 .. 2 -> Bytes]
         /\ d.count <= MaxSysex + 1 => Stored(d, b) \in Devices
<1>1. d.count \in Nat /\ d.count <= MaxSysex + 2 /\ MaxSysex \in Nat
  BY BoundsAssumption DEF Devices
<1> DEFINE f == [d.buffer EXCEPT ![d.count % 3] = b]
<1>2. f \in [0 .. 2 -> Bytes]
  BY DEF Devices
<1>3. Stored(d, b) = [d EXCEPT !.buffer = f, !.count = d.count + 1]
  BY DEF Stored
<1> HIDE DEF f
<1>4. /\ Stored(d, b).state = d.state /\ Stored(d, b).count = d.count + 1 /\ Stored(d, b).buffer = f
  BY <1>3 DEF Devices
<1>5. ASSUME d.count <= MaxSysex + 1 PROVE Stored(d, b) \in Devices
  <2>1. d.count + 1 \in 0 .. MaxSysex + 2
    BY <1>1, <1>5
  <2> QED
    BY <1>2, <1>3, <2>1 DEF Devices
<1> QED
  BY <1>2, <1>4, <1>5 DEF f

LEMMA NoCallDelivers == GatherAfter(NoCall) = Gathered /\ Delivers(NoCall) = <<>>
BY DEF NoCall, GatherAfter, Delivers, Delivered

\* Parsing b after p is right: the device holds what follows and what is complete
\* is delivered, spoilt at most if it is system exclusive.
Right(p, d, b) ==
  /\ Parsed(d, b).dev \in Devices
  /\ Agrees(After(b, p), Parsed(d, b).dev, GatherAfter(Parsed(d, b).call))
  /\ \/ /\ GatherAfter(Parsed(d, b).call).spoils = FALSE
        /\ Delivers(Parsed(d, b).call) = Completed(b, p)
     \/ /\ GatherAfter(Parsed(d, b).call).spoils = TRUE /\ Len(Completed(b, p)) = 1
        /\ Len(Delivers(Parsed(d, b).call)) = 1
        /\ Delivers(Parsed(d, b).call) \in Seq(Seq(Bytes))
  /\ GatherAfter(Parsed(d, b).call).size \in 0 .. MaxSysex
  /\ GatherAfter(Parsed(d, b).call).buffer \in [0 .. MaxSysex - 1 -> Bytes]
  /\ GatherAfter(Parsed(d, b).call).used \in BOOLEAN

LEMMA GatheredFacts ==
  ASSUME Gathered \in Gathering
  PROVE  /\ Gathered.size \in 0 .. MaxSysex /\ Gathered.buffer \in [0 .. MaxSysex - 1 -> Bytes]
         /\ Gathered.used \in BOOLEAN /\ Gathered.spoils = FALSE
BY DEF Gathering, Gathered

LEMMA FirstOf ==
  ASSUME NEW S, NEW x \in S, NEW y \in S, NEW z \in S
  PROVE  SubSeq(<<x, y, z>>, 1, 1) = <<x>> /\ SubSeq(<<x, y, z>>, 1, 2) = <<x, y>>
<1> DEFINE w == <<x, y, z>>
<1>1. w \in Seq(S) /\ Len(w) = 3 /\ w[1] = x /\ w[2] = y
  OBVIOUS
<1> HIDE DEF w
<1>2. SubSeq(w, 1, 1) \in Seq(S) /\ Len(SubSeq(w, 1, 1)) = 1 /\ SubSeq(w, 1, 1)[1] = x
  BY <1>1
<1>3. SubSeq(w, 1, 2) \in Seq(S) /\ Len(SubSeq(w, 1, 2)) = 2
      /\ SubSeq(w, 1, 2)[1] = x /\ SubSeq(w, 1, 2)[2] = y
  BY <1>1
<1>4. SubSeq(w, 1, 1) = <<x>>
  <2>1. <<x>> \in Seq(S) /\ Len(<<x>>) = 1 /\ <<x>>[1] = x
    OBVIOUS
  <2>2. \A i \in 1 .. 1 : SubSeq(w, 1, 1)[i] = <<x>>[i]
    BY <1>2, <2>1
  <2> QED
    BY <1>2, <2>1, <2>2, SeqEqual
<1>5. SubSeq(w, 1, 2) = <<x, y>>
  <2>1. <<x, y>> \in Seq(S) /\ Len(<<x, y>>) = 2 /\ <<x, y>>[1] = x /\ <<x, y>>[2] = y
    OBVIOUS
  <2>2. \A i \in 1 .. 2 : SubSeq(w, 1, 2)[i] = <<x, y>>[i]
    BY <1>3, <2>1
  <2> QED
    BY <1>3, <2>1, <2>2, SeqEqual
<1> QED
  BY <1>4, <1>5 DEF w

LEMMA RightRealtime ==
  ASSUME NEW p, Prefix(p), NEW d \in Devices, Gathered \in Gathering, Agrees(p, d, Gathered),
         NEW b \in Clock .. 255
  PROVE  Right(p, d, b)
<1> DEFINE call == [state |-> "one", count |-> 1, bytes |-> <<b, 0, 0>>]
<1>1. Parsed(d, b).dev = d /\ Parsed(d, b).call = call
  BY DEF Parsed, IsRealtime, Realtime, Clock
<1>2. IsRealtime(b) /\ After(b, p) = p /\ Completed(b, p) = <<<<b>>>>
  BY DEF IsRealtime, After, Completed, Clock
<1>3. SubSeq(<<b, 0, 0>>, 1, 1) = <<b>>
  BY FirstOf, b \in Nat, 0 \in Nat DEF Clock
<1>4. Delivered(call) = <<<<b>>>>
  BY <1>2, <1>3 DEF Delivered
<1>5. GatherAfter(call) = Gathered /\ Delivers(call) = <<<<b>>>>
  BY <1>4 DEF GatherAfter, Delivers
<1> QED
  BY <1>1, <1>2, <1>5, GatheredFacts DEF Right

LEMMA PacketKinds ==
  /\ PacketLength(SysexBegin) = 0 /\ PacketLength(SysexEnd) = 0
  /\ PacketLength(NoteOn) = 3 /\ PacketLength(ProgChange) = 2 /\ PacketLength(TuneRequest) = 1
BY DEF PacketLength, SysexBegin, SysexEnd, NoteOn, ProgChange, TuneRequest

LEMMA StatusBegins ==
  ASSUME NEW d \in Devices, NEW b \in Bytes, d.state # "sysex",
         NEW kind, PacketLength(b) = IF kind = "idle" THEN 1 ELSE IF kind = "two" THEN 2 ELSE 3,
         kind \in {"idle", "two", "three"}
  PROVE  /\ Status(d, b).call = NoCall /\ Status(d, b).dev \in Devices
         /\ Status(d, b).dev.state = kind /\ Status(d, b).dev.count = 1
         /\ Status(d, b).dev.buffer[0] = b
<1> DEFINE f == [d.buffer EXCEPT ![0] = b]
           begun == [d EXCEPT !.buffer = f, !.count = 1]
           e == [begun EXCEPT !.state = kind]
<1>1. f \in [0 .. 2 -> Bytes] /\ f[0] = b /\ 1 \in 0 .. MaxSysex + 2
  BY BoundsAssumption DEF Devices
<1>2. Status(d, b) = [dev |-> e, call |-> NoCall]
  <2>1. CASE kind = "idle"
    BY <2>1, PacketKinds DEF Status
  <2>2. CASE kind = "two"
    BY <2>2, PacketKinds DEF Status
  <2>3. CASE kind = "three"
    BY <2>3, PacketKinds DEF Status
  <2> QED
    BY <2>1, <2>2, <2>3
<1> HIDE DEF f
<1>3. begun \in Devices /\ begun.count = 1 /\ begun.buffer = f
  BY <1>1 DEF Devices
<1> HIDE DEF begun
<1>4. e \in Devices /\ e.state = kind /\ e.count = 1 /\ e.buffer = f
  BY <1>3 DEF Devices
<1> HIDE DEF e
<1> QED
  BY <1>1, <1>2, <1>4

LEMMA RightStatus ==
  ASSUME NEW p, Prefix(p), NEW d \in Devices, Gathered \in Gathering, Agrees(p, d, Gathered),
         NEW b \in Voiced \cup {TuneRequest, SysexBegin}, b \in Bytes, ~InSysex(p)
  PROVE  Right(p, d, b)
<1>1. d.state # "sysex" /\ Gathered.size = 0
  BY DEF Agrees, HoldsVoiced, HoldsSysex
<1>2. Parsed(d, b) = Status(d, b)
  BY DEF Parsed, IsRealtime, IsStatus, Clock, Voiced, NoteOn, ProgChange, TuneRequest, SysexBegin
<1>3. After(b, p) = (IF b = TuneRequest THEN <<>> ELSE <<b>>) /\ Completed(b, p) = <<>>
  <2>1. b \notin Clock .. 255 /\ b # SysexEnd /\ ~Fills(b, p)
        /\ (b = TuneRequest => b \notin Voiced \cup {SysexBegin})
    BY DEF Clock, Voiced, NoteOn, ProgChange, TuneRequest, SysexBegin, SysexEnd, Fills, DataBytes
  <2> QED
    BY <2>1 DEF After, Completed
<1> DEFINE f == [d.buffer EXCEPT ![0] = b]
           begun == [d EXCEPT !.buffer = f, !.count = 1]
<1>4. f \in [0 .. 2 -> Bytes] /\ f[0] = b /\ 1 \in 0 .. MaxSysex + 2
  BY BoundsAssumption DEF Devices
<1>5. /\ <<b>> # <<>> /\ Len(<<b>>) = 1 /\ <<b>>[1] = b /\ 1 % 3 = 1 /\ Sized(1) = 0
  BY DEF Sized
<1>6. CASE b = SysexBegin
  <2>1. Parsed(d, b).dev = [state |-> "sysex", buffer |-> f, count |-> 1] /\ Parsed(d, b).call = NoCall
    <3>1. PacketLength(b) = 0 /\ b # SysexEnd
      BY <1>6 DEF PacketLength, SysexBegin, SysexEnd, NoteOn, ProgChange, TuneRequest
    <3>2. Status(d, b) = [dev |-> [state |-> "sysex", buffer |-> f, count |-> 1], call |-> NoCall]
      BY <1>6, <3>1 DEF Status
    <3> QED
      BY <1>2, <3>2
  <2> DEFINE e == [state |-> "sysex", buffer |-> f, count |-> 1]
  <2> HIDE DEF f
  <2>2. e \in Devices /\ e.state = "sysex" /\ e.buffer[0] = b /\ e.count = 1
    BY <1>4 DEF Devices
  <2> HIDE DEF e
  <2>3. Holds(Gathered, <<b>>, 0)
    <3>1. Gathered.out = <<>> /\ Gathered.spoils = FALSE
      BY DEF Gathered
    <3> QED
      BY <1>1, <3>1 DEF Holds
  <2>4. \A j \in 0 .. 2 : j < 1 => e.buffer[j] = <<b>>[1 - 1 + j + 1]
    BY <1>5, <2>2
  <2>5. HoldsSysex(<<b>>, e, Gathered)
    BY <1>5, <1>6, <2>2, <2>3, <2>4 DEF HoldsSysex, InSysex
  <2>6. After(b, p) = <<b>>
    BY <1>3, <1>6 DEF SysexBegin, TuneRequest
  <2> QED
    BY <1>3, <2>1, <2>2, <2>5, <2>6, NoCallDelivers, GatheredFacts DEF Right, Agrees, e
<1>7. CASE b # SysexBegin
  <2> DEFINE kind == IF b = NoteOn THEN "three" ELSE IF b = ProgChange THEN "two" ELSE "idle"
             e == Status(d, b).dev
  <2>1. /\ PacketLength(b) = IF kind = "idle" THEN 1 ELSE IF kind = "two" THEN 2 ELSE 3
        /\ kind \in {"idle", "two", "three"}
    <3>1. b = NoteOn \/ b = ProgChange \/ b = TuneRequest
      BY <1>7 DEF Voiced
    <3> QED
      BY <3>1, PacketKinds DEF NoteOn, ProgChange, TuneRequest
  <2>2. b \in Bytes /\ d.state # "sysex"
    BY <1>1
  <2> HIDE DEF kind
  <2>3. /\ Status(d, b).call = NoCall /\ e \in Devices
        /\ e.state = kind /\ e.count = 1 /\ e.buffer[0] = b
    BY <2>1, <2>2, StatusBegins
  <2>5. Parsed(d, b).dev = e /\ Parsed(d, b).call = NoCall
    BY <1>2, <2>3
  <2> HIDE DEF e
  <2>6. CASE b = TuneRequest
    <3>1. kind = "idle"
      BY <2>6 DEF kind, TuneRequest, NoteOn, ProgChange
    <3> QED
      BY <1>1, <1>3, <2>3, <2>5, <2>6, <3>1, NoCallDelivers, GatheredFacts DEF Right, Agrees
  <2>7. CASE b \in Voiced
    <3>1. kind = (IF b = NoteOn THEN "three" ELSE "two") /\ After(b, p) = <<b>>
      BY <1>3, <2>7 DEF kind, Voiced, TuneRequest, NoteOn, ProgChange
    <3>2. HoldsVoiced(<<b>>, e)
      BY <1>5, <2>3, <2>7, <3>1 DEF HoldsVoiced
    <3> QED
      BY <1>1, <1>3, <2>3, <2>5, <3>1, <3>2, NoCallDelivers, GatheredFacts DEF Right, Agrees
  <2> QED
    BY <1>7, <2>6, <2>7
<1> QED
  BY <1>6, <1>7

LEMMA RightEnd ==
  ASSUME NEW p, Prefix(p), NEW d \in Devices, Gathered \in Gathering, Agrees(p, d, Gathered),
         InSysex(p), SysexEnd \in Bytes
  PROVE  Right(p, d, SysexEnd)
<1> DEFINE b == SysexEnd
           m == Append(p, b)
           ended == Stored(d, b)
           call == CallOf(ended, 3)
           r == Len(p) % 3
<1>1. /\ p \in Seq(Bytes) /\ p # <<>> /\ p[1] = SysexBegin /\ Len(p) \in Nat \ {0}
      /\ Len(p) <= MaxSysex + 1 /\ MaxSysex \in Nat /\ \A i \in 2 .. Len(p) : p[i] \in DataBytes
  BY BoundsAssumption DEF Prefix, InSysex, Voiced, NoteOn, ProgChange, SysexBegin
<1>2. HoldsSysex(p, d, Gathered)
  BY <1>1 DEF Agrees, HoldsVoiced, Voiced, NoteOn, ProgChange, SysexBegin
<1>3. /\ m \in Seq(Bytes) /\ Len(m) = Len(p) + 1 /\ m[Len(m)] = SysexEnd
      /\ \A i \in 1 .. Len(p) : m[i] = p[i]
  BY <1>1
<1>4. /\ ended.state = "sysex" /\ ended.count = Len(m) /\ ended \in Devices
      /\ ended.buffer = [d.buffer EXCEPT ![r] = b]
  <2>1. d.state = "sysex" /\ d.count = Len(p)
    BY <1>2 DEF HoldsSysex
  <2> QED
    BY <1>1, <1>3, <2>1, StoredFacts
<1>5. /\ Parsed(d, b).dev = [ended EXCEPT !.state = "idle"] /\ Parsed(d, b).call = call
  <2>1. Parsed(d, b) = Status(d, b)
    BY DEF Parsed, IsRealtime, IsStatus, Clock, SysexEnd
  <2>2. d.state = "sysex" /\ SysexBegin # SysexEnd
    BY <1>2 DEF HoldsSysex, SysexBegin, SysexEnd
  <2>3. Status(d, b) = [dev |-> [ended EXCEPT !.state = "idle"], call |-> call]
    BY <2>2, PacketKinds DEF Status
  <2> QED
    BY <2>1, <2>3
<1>6. [ended EXCEPT !.state = "idle"] \in Devices /\ [ended EXCEPT !.state = "idle"].state = "idle"
  <2> HIDE DEF ended
  <2> QED
    BY <1>4 DEF Devices
<1>7. /\ call.state = "sysex" /\ call.count = Len(m)
      /\ call.bytes = <<ended.buffer[0], ended.buffer[1], ended.buffer[2]>>
  BY <1>4 DEF CallOf
<1>8. \A j \in 0 .. (Len(m) - 1) % 3 : call.bytes[j + 1] = m[Len(m) - ((Len(m) - 1) % 3) + j]
  <2>1. Len(m) - 1 = Len(p) /\ r \in 0 .. 2 /\ r <= Len(p)
    BY <1>1, <1>3
  <2>2. ASSUME NEW j \in 0 .. r PROVE call.bytes[j + 1] = m[Len(m) - r + j]
    <3>1. j \in 0 .. 2 /\ j <= r
      BY <2>1
    <3>2. call.bytes[j + 1] = ended.buffer[j]
      BY <1>7, <3>1
    <3>3. CASE j < r
      <4>1. ended.buffer[j] = d.buffer[j]
        BY <1>4, <2>1, <3>1, <3>3 DEF Devices
      <4>2. d.buffer[j] = p[Len(p) - r + j + 1]
        BY <1>2, <3>1, <3>3 DEF HoldsSysex
      <4>3. Len(p) - r + j + 1 \in 1 .. Len(p) /\ Len(p) - r + j + 1 = Len(m) - r + j
        BY <1>1, <1>3, <2>1, <3>1, <3>3
      <4> QED
        BY <1>3, <3>2, <4>1, <4>2, <4>3
    <3>4. CASE j = r
      <4>1. ended.buffer[j] = b
        BY <1>4, <2>1, <3>1, <3>4 DEF Devices
      <4>2. Len(m) - r + j = Len(m)
        BY <1>1, <1>3, <2>1, <3>4
      <4> QED
        BY <1>3, <3>2, <4>1, <4>2
    <3> QED
      BY <2>1, <3>1, <3>3, <3>4
  <2> QED
    BY <2>1, <2>2
<1>9. Holds(Gathered, m, Sized(Len(m) - 1))
  <2>1. Holds(Gathered, p, Sized(Len(p))) /\ Len(m) - 1 = Len(p)
    BY <1>1, <1>2, <1>3 DEF HoldsSysex
  <2>2. \A i \in 0 .. Sized(Len(p)) - 1 : i + 2 \in 1 .. Len(p)
    BY <1>1 DEF Sized
  <2> QED
    BY <1>3, <2>1, <2>2 DEF Holds
<1>10. Ends(SysexEvent(call), m)
  <2>1. /\ m \in Seq(Bytes) /\ Len(m) \in 2 .. MaxSysex + 2 /\ m[1] = SysexBegin
        /\ \A i \in 2 .. Len(m) - 1 : m[i] \in DataBytes
    BY <1>1, <1>3
  <2> HIDE DEF m
  <2> HIDE DEF call
  <2> QED
    BY <1>3, <1>7, <1>8, <1>9, <2>1, EventLast
<1>11. After(b, p) = <<>> /\ Completed(b, p) = <<m>>
  BY DEF After, Completed, Clock, Voiced, NoteOn, ProgChange, SysexBegin, SysexEnd
<1>12. GatherAfter(call) = SysexEvent(call) /\ Delivers(call) = SysexEvent(call).out
  BY <1>7 DEF GatherAfter, Delivers
<1> HIDE DEF call
<1> HIDE DEF ended
<1> HIDE DEF m
<1>13. Len(Completed(b, p)) = 1
  BY <1>11
<1>14. \/ SysexEvent(call).spoils = FALSE /\ Delivers(call) = Completed(b, p)
       \/ /\ SysexEvent(call).spoils = TRUE /\ Len(Delivers(call)) = 1
          /\ Delivers(call) \in Seq(Seq(Bytes))
  BY <1>10, <1>11, <1>12 DEF Ends
<1>15. /\ SysexEvent(call).size = 0 /\ SysexEvent(call).used \in BOOLEAN
       /\ SysexEvent(call).buffer \in [0 .. MaxSysex - 1 -> Bytes]
  BY <1>10 DEF Ends
<1> QED
  BY <1>5, <1>6, <1>11, <1>12, <1>13, <1>14, <1>15, BoundsAssumption DEF Right, Agrees

LEMMA Spelled ==
  ASSUME NEW S, NEW w \in Seq(S)
  PROVE  /\ Len(w) = 2 => w = <<w[1], w[2]>>
         /\ Len(w) = 3 => w = <<w[1], w[2], w[3]>>
<1>1. ASSUME Len(w) = 2 PROVE w = <<w[1], w[2]>>
  <2> DEFINE u == <<w[1], w[2]>>
  <2>1. w[1] \in S /\ w[2] \in S
    BY <1>1
  <2>2. u \in Seq(S) /\ Len(u) = 2 /\ \A i \in 1 .. 2 : u[i] = w[i]
    BY <2>1
  <2> HIDE DEF u
  <2>3. u = w
    BY <1>1, <2>2, SeqEqual
  <2> QED
    BY <2>3 DEF u
<1>2. ASSUME Len(w) = 3 PROVE w = <<w[1], w[2], w[3]>>
  <2> DEFINE u == <<w[1], w[2], w[3]>>
  <2>1. w[1] \in S /\ w[2] \in S /\ w[3] \in S
    <3>1. \A i \in {1, 2, 3} : i \in 1 .. Len(w)
      BY <1>2
    <3>2. \A i \in 1 .. Len(w) : w[i] \in S
      BY ElementOfSeq
    <3> QED
      BY <3>1, <3>2
  <2>2. u \in Seq(S) /\ Len(u) = 3 /\ \A i \in 1 .. 3 : u[i] = w[i]
    BY <2>1
  <2> HIDE DEF u
  <2>3. u = w
    BY <1>2, <2>2, SeqEqual
  <2> QED
    BY <2>3 DEF u
<1> QED
  BY <1>1, <1>2

LEMMA RightVoiced ==
  ASSUME NEW p, Prefix(p), NEW d \in Devices, Gathered \in Gathering, Agrees(p, d, Gathered),
         p # <<>>, ~InSysex(p), NEW b \in DataBytes, b \in Bytes
  PROVE  Right(p, d, b)
<1> DEFINE stored == Stored(d, b)
           q == Append(p, b)
<1>1. /\ p \in Seq(Bytes) /\ p[1] \in Voiced /\ Len(p) \in Nat \ {0}
      /\ Len(p) < PacketLength(p[1]) /\ \A i \in 2 .. Len(p) : p[i] \in DataBytes
  BY DEF Prefix
<1>2. HoldsVoiced(p, d) /\ Gathered.size = 0
  BY DEF Agrees, HoldsSysex
<1>3. /\ q \in Seq(Bytes) /\ Len(q) = Len(p) + 1 /\ q # <<>> /\ q[Len(p) + 1] = b
      /\ \A i \in 1 .. Len(p) : q[i] = p[i]
  BY <1>1
<1>4. Parsed(d, b) = Data(d, b) /\ d.state # "idle" /\ d.state # "sysex"
  BY <1>2, DataIsNoStatus DEF Parsed, HoldsVoiced
<1>5. /\ b \notin Clock .. 255 /\ b \notin Voiced \cup {SysexBegin} /\ b \notin {TuneRequest, SysexEnd}
      /\ After(b, p) = (IF Fills(b, p) THEN <<p[1]>> ELSE q)
      /\ Completed(b, p) = (IF Fills(b, p) THEN <<q>> ELSE <<>>)
  BY DataIsNoStatus DEF After, Completed
<1>6. /\ d.count = Len(p) /\ d.buffer \in [0 .. 2 -> Bytes] /\ d.buffer[0] = p[1]
      /\ Len(p) = 2 => d.buffer[1] = p[2]
  BY <1>2 DEF HoldsVoiced, Devices
<1>7. Fills(b, p) <=> Len(p) + 1 = PacketLength(p[1])
  BY DEF Fills
<1>8. CASE p[1] = NoteOn /\ Len(p) = 1
  <2>1. ~Fills(b, p) /\ After(b, p) = q /\ Completed(b, p) = <<>>
    BY <1>5, <1>7, <1>8, PacketKinds
  <2>2. d.state = "three" /\ d.count % 3 = 1 /\ d.count <= MaxSysex + 1
    BY <1>2, <1>6, <1>8, BoundsAssumption DEF HoldsVoiced
  <2>3. Data(d, b) = [dev |-> stored, call |-> NoCall]
    BY <2>2 DEF Data
  <2>4. /\ stored \in Devices /\ stored.state = "three" /\ stored.count = 2
        /\ stored.buffer[0] = p[1] /\ stored.buffer[1] = b
    BY <1>6, <1>8, <2>2, StoredFacts
  <2> HIDE DEF stored
  <2>5. HoldsVoiced(q, stored)
    BY <1>1, <1>3, <1>8, <2>4 DEF HoldsVoiced
  <2> HIDE DEF q
  <2>6. Parsed(d, b).dev = stored /\ Parsed(d, b).call = NoCall
    BY <1>4, <2>3
  <2> QED
    BY <1>2, <2>1, <2>4, <2>5, <2>6, NoCallDelivers, GatheredFacts DEF Right, Agrees
<1>9. CASE Len(p) + 1 = PacketLength(p[1])
  <2> DEFINE e == [stored EXCEPT !.count = 1]
             call == CallOf(stored, Len(p) + 1)
  <2>1. Fills(b, p) /\ After(b, p) = <<p[1]>> /\ Completed(b, p) = <<q>>
    BY <1>5, <1>7, <1>9
  <2>2. \/ p[1] = NoteOn /\ Len(p) = 2 /\ d.state = "three"
        \/ p[1] = ProgChange /\ Len(p) = 1 /\ d.state = "two"
    <3>1. (p[1] = NoteOn /\ Len(p) = 2) \/ (p[1] = ProgChange /\ Len(p) = 1)
      <4> DEFINE n == Len(p)
      <4>0. n \in Nat
        BY <1>1
      <4>1. CASE p[1] = NoteOn
        <5>1. Len(p) + 1 = 3
          BY <1>9, <4>1, PacketKinds
        <5>2. n + 1 = 3
          BY <5>1
        <5> HIDE DEF n
        <5>3. n = 2
          BY <4>0, <5>2
        <5> QED
          BY <4>1, <5>3 DEF n
      <4>2. CASE p[1] = ProgChange
        <5>1. Len(p) + 1 = 2
          BY <1>9, <4>2, PacketKinds
        <5>2. n + 1 = 2
          BY <5>1
        <5> HIDE DEF n
        <5>3. n = 1
          BY <4>0, <5>2
        <5> QED
          BY <4>2, <5>3 DEF n
      <4> QED
        BY <1>1, <4>1, <4>2 DEF Voiced
    <3>2. NoteOn # ProgChange
      BY DEF NoteOn, ProgChange
    <3> QED
      BY <1>2, <3>1, <3>2 DEF HoldsVoiced
  <2>3. d.count % 3 = Len(p) /\ d.count <= MaxSysex + 1
    <3>1. Len(p) \in {1, 2} /\ d.count = Len(p) /\ MaxSysex \in Nat \ {0}
      BY <1>6, <2>2, BoundsAssumption
    <3>2. \A n \in {1, 2} : n % 3 = n /\ n <= MaxSysex + 1
      BY <3>1
    <3> QED
      BY <3>1, <3>2
  <2>4. Data(d, b) = [dev |-> e, call |-> call]
    BY <1>4, <2>2, <2>3 DEF Data, RunningCount
  <2>5. /\ stored \in Devices /\ stored.state = d.state /\ stored.count = Len(p) + 1
        /\ stored.buffer = [d.buffer EXCEPT ![Len(p)] = b]
    BY <1>6, <2>3, StoredFacts
  <2>6. stored.buffer[0] = p[1] /\ stored.buffer[Len(p)] = b /\ (Len(p) = 2 => stored.buffer[1] = p[2])
    <3>1. Len(p) = 1 \/ Len(p) = 2
      BY <2>2
    <3>2. CASE Len(p) = 1
      BY <1>6, <2>5, <3>2
    <3>3. CASE Len(p) = 2
      BY <1>6, <2>5, <3>3
    <3> QED
      BY <3>1, <3>2, <3>3
  <2>7. call = [state |-> d.state, count |-> Len(p) + 1,
                bytes |-> <<p[1], stored.buffer[1], IF Len(p) + 1 = 2 THEN 0 ELSE stored.buffer[2]>>]
    BY <2>5, <2>6 DEF CallOf
  <2> HIDE DEF stored
  <2>8. e \in Devices /\ e.state = d.state /\ e.count = 1 /\ e.buffer = stored.buffer
    <3>1. 1 \in 0 .. MaxSysex + 2
      BY BoundsAssumption
    <3> QED
      BY <2>5, <3>1 DEF Devices
  <2> HIDE DEF e
  <2> HIDE DEF call
  <2>9. Parsed(d, b).dev = e /\ Parsed(d, b).call = call
    BY <1>4, <2>4
  <2>10. Delivered(call) = <<q>>
    <3>1. CASE p[1] = NoteOn /\ Len(p) = 2
      <4>1. call.count = 3 /\ call.bytes = <<p[1], p[2], b>>
        BY <2>6, <2>7, <3>1
      <4>2. q = <<p[1], p[2], b>>
        <5>1. q \in Seq(Bytes) /\ Len(q) = 3 /\ q[1] = p[1] /\ q[2] = p[2] /\ q[3] = b
          BY <1>3, <3>1
        <5> HIDE DEF q
        <5>2. q = <<q[1], q[2], q[3]>>
          BY <5>1, Spelled
        <5> QED
          BY <5>1, <5>2
      <4> QED
        BY <3>1, <4>1, <4>2 DEF Delivered
    <3>2. CASE p[1] = ProgChange /\ Len(p) = 1
      <4>1. call.count = 2 /\ call.bytes = <<p[1], b, 0>>
        BY <2>6, <2>7, <3>2
      <4>2. q = <<p[1], b>>
        <5>1. q \in Seq(Bytes) /\ Len(q) = 2 /\ q[1] = p[1] /\ q[2] = b
          BY <1>3, <3>2
        <5> HIDE DEF q
        <5>2. q = <<q[1], q[2]>>
          BY <5>1, Spelled
        <5> QED
          BY <5>1, <5>2
      <4>3. SubSeq(call.bytes, 1, 2) = <<p[1], b>>
        BY <1>1, <3>2, <4>1, FirstOf, BytesAssumption
      <4> QED
        BY <3>2, <4>1, <4>2, <4>3 DEF Delivered
    <3> QED
      BY <2>2, <3>1, <3>2
  <2>11. GatherAfter(call) = Gathered /\ Delivers(call) = <<q>>
    BY <1>4, <2>7, <2>10 DEF GatherAfter, Delivers
  <2>12. HoldsVoiced(<<p[1]>>, e)
    <3>1. <<p[1]>> # <<>> /\ Len(<<p[1]>>) = 1 /\ <<p[1]>>[1] = p[1]
      OBVIOUS
    <3> QED
      BY <1>1, <1>2, <2>6, <2>8, <3>1 DEF HoldsVoiced
  <2> QED
    BY <1>2, <2>1, <2>8, <2>9, <2>11, <2>12, GatheredFacts DEF Right, Agrees
<1> QED
  <2>1. p[1] = NoteOn \/ p[1] = ProgChange
    BY <1>1 DEF Voiced
  <2> QED
    BY <1>1, <1>8, <1>9, <2>1, PacketKinds

\* Sizes go up by threes.
LEMMA SizedNext ==
  ASSUME NEW n \in Nat \ {0}
  PROVE  /\ n % 3 = 2 => (n + 1) % 3 = 0 /\ n + 1 >= 3 /\ Sized(n + 1) = n
         /\ n % 3 # 2 => (n + 1) % 3 = (n % 3) + 1 /\ Sized(n + 1) = Sized(n)
         /\ n % 3 \in 0 .. 2 /\ n % 3 <= n /\ Sized(n) \in Nat /\ Sized(n) <= n - 1
BY DEF Sized

LEMMA RightGathered ==
  ASSUME NEW p, Prefix(p), NEW d \in Devices, Gathered \in Gathering, Agrees(p, d, Gathered),
         InSysex(p), Len(p) <= MaxSysex, NEW b \in DataBytes, b \in Bytes
  PROVE  Right(p, d, b)
<1> DEFINE stored == Stored(d, b)
           q == Append(p, b)
           n == Len(p)
           r == n % 3
<1>1. /\ p \in Seq(Bytes) /\ p # <<>> /\ p[1] = SysexBegin /\ n \in Nat \ {0}
      /\ MaxSysex \in Nat /\ n <= MaxSysex /\ \A i \in 2 .. n : p[i] \in DataBytes
  BY BoundsAssumption DEF Prefix, InSysex
<1>2. HoldsSysex(p, d, Gathered)
  BY <1>1 DEF Agrees, HoldsVoiced, Voiced, NoteOn, ProgChange, SysexBegin
<1>3. /\ q \in Seq(Bytes) /\ Len(q) = n + 1 /\ q[n + 1] = b /\ q # <<>>
      /\ \A i \in 1 .. n : q[i] = p[i]
  BY <1>1
<1>4. d.state = "sysex" /\ d.count = n /\ d.buffer \in [0 .. 2 -> Bytes]
  BY <1>2 DEF HoldsSysex, Devices
<1>5. /\ stored \in Devices /\ stored.state = "sysex" /\ stored.count = n + 1
      /\ stored.buffer = [d.buffer EXCEPT ![r] = b]
  BY <1>1, <1>4, StoredFacts
<1>6. /\ r \in 0 .. 2 /\ r <= n /\ Sized(n) \in Nat /\ Sized(n) <= n - 1
      /\ r = 2 => (n + 1) % 3 = 0 /\ n + 1 >= 3 /\ Sized(n + 1) = n
      /\ r # 2 => (n + 1) % 3 = r + 1 /\ Sized(n + 1) = Sized(n)
  BY <1>1, SizedNext
<1>7. Holds(Gathered, q, Sized(n))
  <2>1. Holds(Gathered, p, Sized(n))
    BY <1>2 DEF HoldsSysex
  <2>2. \A i \in 0 .. Sized(n) - 1 : i + 2 \in 1 .. n
    BY <1>1, <1>6
  <2> QED
    BY <1>3, <2>1, <2>2 DEF Holds
<1>8. \A j \in 0 .. 2 : j <= r => stored.buffer[j] = q[n - r + j + 1]
  <2> SUFFICES ASSUME NEW j \in 0 .. 2, j <= r
               PROVE  stored.buffer[j] = q[n - r + j + 1]
    OBVIOUS
  <2>1. CASE j < r
    <3>1. stored.buffer[j] = d.buffer[j]
      BY <1>4, <1>5, <1>6, <2>1
    <3>2. d.buffer[j] = p[n - r + j + 1]
      BY <1>2, <2>1 DEF HoldsSysex
    <3>3. n - r + j + 1 \in 1 .. n
      BY <1>1, <1>6, <2>1
    <3> QED
      BY <1>3, <3>1, <3>2, <3>3
  <2>2. CASE j = r
    <3>1. n - r + j + 1 = n + 1
      BY <1>1, <1>6, <2>2
    <3>2. stored.buffer[j] = b
      BY <1>4, <1>5, <1>6, <2>2
    <3> QED
      BY <1>3, <3>1, <3>2
  <2> QED
    BY <1>6, <2>1, <2>2
<1>9. Parsed(d, b) = Data(d, b)
  BY DataIsNoStatus DEF Parsed
<1>10. After(b, p) = q /\ Completed(b, p) = <<>>
  <2>1. ~Fills(b, p)
    BY DEF Fills
  <2> QED
    BY <2>1, DataIsNoStatus DEF After, Completed
<1>11. InSysex(q)
  BY <1>1, <1>3 DEF InSysex
<1>12. CASE r # 2
  <2>1. Data(d, b) = [dev |-> stored, call |-> NoCall]
    BY <1>4, <1>12 DEF Data
  <2>2. Parsed(d, b).dev = stored /\ Parsed(d, b).call = NoCall
    BY <1>9, <2>1
  <2>3. \A j \in 0 .. 2 : j < Len(q) % 3 => stored.buffer[j] = q[Len(q) - (Len(q) % 3) + j + 1]
    <3>1. Len(q) % 3 = r + 1 /\ Len(q) - (Len(q) % 3) = n - r
      BY <1>1, <1>3, <1>6, <1>12
    <3> HIDE DEF r
    <3>2. \A j \in 0 .. 2 : j < r + 1 => j <= r
      BY <1>6
    <3> QED
      BY <1>8, <3>1, <3>2
  <2> HIDE DEF stored
  <2> HIDE DEF q
  <2>4. HoldsSysex(q, stored, Gathered)
    BY <1>3, <1>5, <1>6, <1>7, <1>11, <1>12, <2>3 DEF HoldsSysex
  <2> QED
    BY <1>5, <1>10, <2>2, <2>4, NoCallDelivers, GatheredFacts DEF Right, Agrees
<1>13. CASE r = 2
  <2> DEFINE call == CallOf(stored, 3)
             e == SysexEvent(call)
  <2>1. Data(d, b) = [dev |-> stored, call |-> call]
    <3>1. d.count % 3 = 2 /\ (d.count % 3) + 1 = 3
      BY <1>4, <1>13
    <3> QED
      BY <1>4, <3>1 DEF Data
  <2>2. Parsed(d, b).dev = stored /\ Parsed(d, b).call = call
    BY <1>9, <2>1
  <2>3. /\ call.state = "sysex" /\ call.count = n + 1
        /\ call.bytes = <<stored.buffer[0], stored.buffer[1], stored.buffer[2]>>
    BY <1>5 DEF CallOf
  <2>4. call.bytes = <<q[n - 1], q[n], q[n + 1]>>
    <3>1. n - r + 0 + 1 = n - 1 /\ n - r + 1 + 1 = n /\ n - r + 2 + 1 = n + 1
      BY <1>1, <1>13
    <3>2. stored.buffer[0] = q[n - r + 0 + 1] /\ stored.buffer[1] = q[n - r + 1 + 1]
          /\ stored.buffer[2] = q[n - r + 2 + 1]
      BY <1>8, <1>13
    <3> QED
      BY <2>3, <3>1, <3>2
  <2> HIDE DEF call
  <2>5. Holds(e, q, n)
    <3>1. /\ Len(q) \in 3 .. MaxSysex + 1 /\ Len(q) % 3 = 0 /\ q[1] = SysexBegin
          /\ Len(q) - 1 = n /\ Len(q) - 2 = n - 1 /\ Len(q) = n + 1
      BY <1>1, <1>3, <1>6, <1>13
    <3>2. \A i \in 2 .. Len(q) : q[i] \in DataBytes
      BY <1>1, <1>3, <3>1
    <3> HIDE DEF n
    <3> HIDE DEF q
    <3> QED
      BY <1>3, <1>7, <2>3, <2>4, <3>1, <3>2, EventMore
  <2> HIDE DEF e
  <2>6. /\ e.size \in 0 .. MaxSysex /\ e.buffer \in [0 .. MaxSysex - 1 -> Bytes] /\ e.out = <<>>
        /\ e.used \in BOOLEAN /\ e.spoils = FALSE
    BY <2>5 DEF Holds, Gathering
  <2>7. GatherAfter(call) = e /\ Delivers(call) = <<>>
    BY <2>3, <2>6 DEF GatherAfter, Delivers, e
  <2> HIDE DEF stored
  <2>8. HoldsSysex(q, stored, e)
    <3>1. Len(q) = n + 1 /\ Len(q) % 3 = 0 /\ Sized(Len(q)) = n
      BY <1>3, <1>6, <1>13
    <3> HIDE DEF q
    <3> QED
      BY <1>5, <1>11, <2>5, <3>1 DEF HoldsSysex
  <2> QED
    BY <1>5, <1>10, <2>2, <2>6, <2>7, <2>8 DEF Right, Agrees
<1> QED
  BY <1>12, <1>13

LEMMA ParsedRight ==
  ASSUME NEW p, Prefix(p), NEW d \in Devices, Gathered \in Gathering, Agrees(p, d, Gathered),
         NEW b \in Bytes, Fits(b, p)
  PROVE  Right(p, d, b)
<1>1. CASE b \in Clock .. 255
  BY <1>1, RightRealtime
<1>2. CASE b \in Voiced \cup {TuneRequest, SysexBegin} /\ ~InSysex(p)
  BY <1>2, RightStatus
<1>3. CASE b = SysexEnd /\ InSysex(p)
  BY <1>3, RightEnd
<1>4. CASE b \in DataBytes /\ p # <<>> /\ (InSysex(p) => Len(p) <= MaxSysex)
  BY <1>4, RightVoiced, RightGathered
<1> QED
  BY <1>1, <1>2, <1>3, <1>4 DEF Fits

-----------------------------------------------------------------------------
(* The sender. After the prefix p of what it has sent, w is left of the     *)
(* message c, and st is its running status.                                 *)

SenderAt(p, w, c, st) ==
  /\ w \in Seq(Bytes)
  /\ w = <<>> => /\ p # <<>> => Len(p) = 1 /\ p[1] \in Voiced
                 /\ st # 0 => p = <<st>>
  /\ w # <<>> => /\ c \in Messages /\ c[1] \notin Clock .. 255 /\ st = StatusAfter(c)
                 /\ \/ w = c /\ ~InSysex(p)
                    \/ p # <<>> /\ p \o w = c

\* What is known of a message that is no realtime byte.
LEMMA MessageKinds ==
  ASSUME NEW c \in Messages, c[1] \notin Clock .. 255
  PROVE  /\ c \in Seq(Bytes) /\ c # <<>> /\ Len(c) \in Nat \ {0}
         /\ \/ c[1] \in Voiced /\ Len(c) = PacketLength(c[1]) /\ (\A i \in 2 .. Len(c) : c[i] \in DataBytes)
            \/ c[1] = TuneRequest /\ Len(c) = 1
            \/ /\ c[1] = SysexBegin /\ Len(c) \in 2 .. MaxSysex + 2 /\ c[Len(c)] = SysexEnd
               /\ \A i \in 2 .. Len(c) - 1 : c[i] \in DataBytes
<1>1. c \in Seq(Bytes) /\ c # <<>> /\ IsMidi(c)
  BY MessagesAssumption
<1> QED
  BY <1>1 DEF IsMidi, IsSysex, Voiced

\* A byte moves from the rest to the prefix.
LEMMA Moved ==
  ASSUME NEW p \in Seq(Bytes), NEW w \in Seq(Bytes), w # <<>>
  PROVE  /\ Append(p, Head(w)) \o Tail(w) = p \o w
         /\ Len(w) = 1 => Append(p, Head(w)) = p \o w
         /\ (p \o w)[Len(p) + 1] = Head(w) /\ Len(p \o w) = Len(p) + Len(w)
         /\ (p # <<>> => (p \o w)[1] = p[1])
         /\ Tail(w) \in Seq(Bytes) /\ (Tail(w) = <<>> <=> Len(w) = 1)
<1> DEFINE l == Append(p, Head(w)) \o Tail(w)
           r == p \o w
           a == Append(p, Head(w))
<1>1. /\ Head(w) \in Bytes /\ Tail(w) \in Seq(Bytes) /\ Len(Tail(w)) = Len(w) - 1
      /\ \A i \in 1 .. Len(w) - 1 : Tail(w)[i] = w[i + 1]
      /\ Head(w) = w[1] /\ Len(w) \in Nat \ {0} /\ Len(p) \in Nat
  BY HeadTailProperties
<1>2. /\ a \in Seq(Bytes) /\ Len(a) = Len(p) + 1 /\ a[Len(p) + 1] = w[1]
      /\ \A i \in 1 .. Len(p) : a[i] = p[i]
  BY <1>1
<1>3. /\ r \in Seq(Bytes) /\ Len(r) = Len(p) + Len(w)
      /\ \A i \in 1 .. Len(r) : r[i] = IF i <= Len(p) THEN p[i] ELSE w[i - Len(p)]
  BY <1>1, ConcatProperties
<1>4. /\ l \in Seq(Bytes) /\ Len(l) = Len(p) + Len(w)
      /\ \A i \in 1 .. Len(l) : l[i] = IF i <= Len(p) + 1 THEN a[i] ELSE Tail(w)[i - (Len(p) + 1)]
  <2> DEFINE t == Tail(w)
  <2>1. l = a \o t
    OBVIOUS
  <2>2. t \in Seq(Bytes) /\ Len(t) = Len(w) - 1 /\ a \in Seq(Bytes) /\ Len(a) = Len(p) + 1
    BY <1>1, <1>2
  <2> HIDE DEF a, t, l
  <2>3. /\ a \o t \in Seq(Bytes) /\ Len(a \o t) = Len(a) + Len(t)
        /\ \A i \in 1 .. Len(a) + Len(t) : (a \o t)[i] = IF i <= Len(a) THEN a[i] ELSE t[i - Len(a)]
    BY <2>2, ConcatProperties
  <2>4. Len(a) + Len(t) = Len(p) + Len(w)
    BY <1>1, <2>2
  <2>5. \A i \in 1 .. Len(l) : l[i] = IF i <= Len(p) + 1 THEN a[i] ELSE t[i - (Len(p) + 1)]
    BY <2>1, <2>2, <2>3
  <2> QED
    BY <2>1, <2>3, <2>4, <2>5 DEF t
<1> HIDE DEF a
<1> HIDE DEF l
<1> HIDE DEF r
<1>5. l = r
  <2> SUFFICES ASSUME NEW i \in 1 .. Len(r) PROVE l[i] = r[i]
    BY <1>3, <1>4, SeqEqual
  <2>1. CASE i <= Len(p)
    BY <1>1, <1>2, <1>3, <1>4, <2>1
  <2>2. CASE i = Len(p) + 1
    <3>1. i - Len(p) = 1 /\ ~(i <= Len(p)) /\ i <= Len(p) + 1
      BY <1>1, <2>2
    <3> QED
      BY <1>2, <1>3, <1>4, <2>2, <3>1
  <2>3. CASE i > Len(p) + 1
    <3>1. i - (Len(p) + 1) \in 1 .. Len(w) - 1 /\ (i - (Len(p) + 1)) + 1 = i - Len(p)
          /\ ~(i <= Len(p)) /\ ~(i <= Len(p) + 1)
      BY <1>1, <1>3, <2>3
    <3>2. l[i] = Tail(w)[i - (Len(p) + 1)]
      BY <1>3, <1>4, <3>1
    <3>3. Tail(w)[i - (Len(p) + 1)] = w[i - Len(p)]
      BY <1>1, <3>1
    <3> QED
      BY <1>3, <3>1, <3>2, <3>3
  <2>4. i \in Nat /\ Len(p) \in Nat
    BY <1>1, <1>3
  <2>5. i <= Len(p) \/ i = Len(p) + 1 \/ i > Len(p) + 1
    BY <2>4
  <2> QED
    BY <2>1, <2>2, <2>3, <2>5
<1>6. ASSUME Len(w) = 1 PROVE a = r
  <2> SUFFICES ASSUME NEW i \in 1 .. Len(r) PROVE a[i] = r[i]
    BY <1>2, <1>3, <1>6, SeqEqual
  <2>1. CASE i <= Len(p)
    BY <1>1, <1>2, <1>3, <2>1
  <2>2. CASE ~(i <= Len(p))
    <3>1. i = Len(p) + 1 /\ i - Len(p) = 1
      BY <1>1, <1>3, <1>6, <2>2
    <3> QED
      BY <1>2, <1>3, <2>2, <3>1
  <2> QED
    BY <2>1, <2>2
<1>7. r[Len(p) + 1] = Head(w)
  <2>1. Len(p) + 1 \in 1 .. Len(r) /\ ~(Len(p) + 1 <= Len(p)) /\ (Len(p) + 1) - Len(p) = 1
    BY <1>1, <1>3
  <2> QED
    BY <1>1, <1>3, <2>1
<1>8. p # <<>> => r[1] = p[1]
  <2>1. p # <<>> => 1 \in 1 .. Len(r) /\ 1 <= Len(p)
    BY <1>1, <1>3
  <2> QED
    BY <1>3, <2>1
<1>9. Tail(w) = <<>> <=> Len(w) = 1
  <2> DEFINE t == Tail(w)
  <2>1. t \in Seq(Bytes) /\ Len(t) = Len(w) - 1
    BY <1>1
  <2> HIDE DEF t
  <2>2. t = <<>> <=> Len(t) = 0
    BY <2>1, EmptySeq
  <2>3. t = <<>> <=> Len(w) = 1
    BY <1>1, <2>1, <2>2
  <2> QED
    BY <2>3 DEF t
<1> QED
  BY <1>1, <1>3, <1>5, <1>6, <1>7, <1>8, <1>9 DEF a, l, r

\* The next byte of a message fits, and completes the message it is the last of.
LEMMA SenderGoesOn ==
  ASSUME NEW p, Prefix(p), NEW w, NEW c, NEW st, SenderAt(p, w, c, st), w # <<>>
  PROVE  /\ Fits(Head(w), p) /\ Head(w) \in Bytes
         /\ SenderAt(After(Head(w), p), Tail(w), c, st)
         /\ Completed(Head(w), p) = IF Tail(w) = <<>> /\ Owed(c) THEN <<c>> ELSE <<>>
<1> DEFINE b == Head(w)
           rest == Tail(w)
           q == Append(p, b)
<1>1. /\ p \in Seq(Bytes) /\ w \in Seq(Bytes) /\ c \in Messages /\ c[1] \notin Clock .. 255
      /\ st = StatusAfter(c)
  BY DEF SenderAt, Prefix
<1>2. b \in Bytes /\ rest \in Seq(Bytes) /\ b = w[1]
  BY <1>1, HeadTailProperties
<1>3. /\ q \o rest = p \o w /\ (Len(w) = 1 => q = p \o w) /\ (p \o w)[Len(p) + 1] = b
      /\ Len(p \o w) = Len(p) + Len(w) /\ (p # <<>> => (p \o w)[1] = p[1])
      /\ (rest = <<>> <=> Len(w) = 1) /\ q \in Seq(Bytes) /\ q # <<>>
  BY <1>1, <1>2, Moved
<1>4. /\ Len(p) \in Nat /\ Len(w) \in Nat \ {0} /\ Len(c) \in Nat \ {0} /\ c \in Seq(Bytes) /\ c # <<>>
  BY <1>1, MessageKinds
<1>5. Len(c) > 1 => Owed(c)
  <2> DEFINE tune == <<TuneRequest>>
  <2>1. Len(tune) = 1
    OBVIOUS
  <2> HIDE DEF tune
  <2>2. c = tune => ~(Len(c) > 1)
    BY <2>1
  <2> QED
    BY <2>2 DEF Owed, tune
<1>6. c[1] \in Voiced => st = c[1]
  BY <1>1 DEF StatusAfter, Voiced, NoteOn, ProgChange, SysexBegin
<1>7. c[1] \in {TuneRequest, SysexBegin} => st = 0
  BY <1>1 DEF StatusAfter, TuneRequest, SysexBegin
<1>8. CASE w = c /\ ~InSysex(p)
  <2>1. b = c[1] /\ b \in Voiced \cup {TuneRequest, SysexBegin} /\ Fits(b, p)
    BY <1>1, <1>2, <1>8, MessageKinds DEF Fits
  <2>2. After(b, p) = (IF b = TuneRequest THEN <<>> ELSE <<b>>) /\ Completed(b, p) = <<>>
    <3>1. b \notin Clock .. 255 /\ b # SysexEnd /\ ~Fills(b, p)
          /\ (b = TuneRequest => b \notin Voiced \cup {SysexBegin})
      <4> HIDE DEF b
      <4>1. b \in {144, 192, 246, 240}
        BY <2>1 DEF Voiced, NoteOn, ProgChange, TuneRequest, SysexBegin
      <4>2. b \notin Clock .. 255 /\ b # SysexEnd /\ b \notin DataBytes
        BY <4>1 DEF Clock, SysexEnd, DataBytes
      <4>3. b = TuneRequest => b \notin Voiced \cup {SysexBegin}
        BY <4>1 DEF Voiced, NoteOn, ProgChange, TuneRequest, SysexBegin
      <4> QED
        BY <4>2, <4>3 DEF Fills
    <3> QED
      BY <2>1, <3>1 DEF After, Completed
  <2>3. CASE b = TuneRequest
    <3>1. Len(c) = 1 /\ st = 0
      BY <1>1, <1>7, <2>1, <2>3, MessageKinds DEF TuneRequest, SysexBegin, Voiced, NoteOn, ProgChange
    <3>2. rest = <<>> /\ c = <<TuneRequest>>
      BY <1>3, <1>4, <1>8, <2>1, <2>3, <3>1
    <3> HIDE DEF b
    <3> HIDE DEF rest
    <3>3. ~Owed(c)
      BY <3>2 DEF Owed
    <3>4. SenderAt(<<>>, rest, c, st)
      BY <3>1, <3>2 DEF SenderAt
    <3>5. After(b, p) = <<>>
      BY <2>2, <2>3
    <3> QED
      BY <1>2, <2>1, <2>2, <3>3, <3>4, <3>5 DEF b, rest
  <2>4. CASE b # TuneRequest
    <3>1. Len(c) > 1
      <4>1. (Len(c) = PacketLength(c[1]) /\ c[1] \in Voiced) \/ Len(c) \in 2 .. MaxSysex + 2
        BY <1>1, <2>1, <2>4, MessageKinds
      <4> QED
        BY <4>1, PacketKinds DEF Voiced
    <3>2. rest # <<>>
      BY <1>3, <1>8, <3>1
    <3>3. <<b>> \o rest = c /\ <<b>> # <<>>
      <4>1. <<>> \in Seq(Bytes) /\ Append(<<>>, b) = <<b>> /\ <<>> \o w = w
        BY <1>1
      <4>2. Append(<<>>, b) \o rest = <<>> \o w
        BY <1>1, <4>1, Moved
      <4> QED
        BY <1>8, <4>1, <4>2
    <3> HIDE DEF b
    <3> HIDE DEF rest
    <3>4. SenderAt(<<b>>, rest, c, st)
      BY <1>1, <1>2, <3>2, <3>3 DEF SenderAt
    <3>5. After(b, p) = <<b>>
      BY <2>2, <2>4
    <3> QED
      BY <1>2, <2>1, <2>2, <3>2, <3>4, <3>5 DEF b, rest
  <2> QED
    BY <2>3, <2>4
<1>9. CASE p # <<>> /\ p \o w = c
  <2>1. p[1] = c[1] /\ Len(c) = Len(p) + Len(w) /\ b = c[Len(p) + 1] /\ Len(p) > 0
    BY <1>3, <1>4, <1>9
  <2>2. Len(c) > 1 /\ Owed(c)
    BY <1>4, <1>5, <2>1
  <2>3. CASE c[1] \in Voiced
    <3>1. Len(c) = PacketLength(c[1]) /\ b \in DataBytes /\ ~InSysex(p)
      <4>1. c[1] # TuneRequest /\ c[1] # SysexBegin
        BY <2>3 DEF Voiced, NoteOn, ProgChange, TuneRequest, SysexBegin
      <4>2. Len(c) = PacketLength(c[1]) /\ \A i \in 2 .. Len(c) : c[i] \in DataBytes
        BY <1>1, <4>1, MessageKinds
      <4>3. Len(p) + 1 \in 2 .. Len(c)
        BY <1>4, <2>1
      <4> QED
        BY <2>1, <4>1, <4>2, <4>3 DEF InSysex
    <3>2. Fits(b, p) /\ (Fills(b, p) <=> Len(w) = 1)
      <4>1. p # <<>> /\ p[1] = c[1]
        BY <1>9, <2>1
      <4>2. Len(p) + 1 = Len(c) <=> Len(w) = 1
        <5>1. Len(p) \in Nat /\ Len(w) \in Nat /\ Len(c) = Len(p) + Len(w)
          BY <1>4, <2>1
        <5> DEFINE i == Len(p)
                   j == Len(w)
                   k == Len(c)
        <5>2. i \in Nat /\ j \in Nat /\ k = i + j
          BY <5>1
        <5> HIDE DEF i, j, k
        <5>3. i + 1 = k <=> j = 1
          BY <5>2
        <5> QED
          BY <5>3 DEF i, j, k
      <4> HIDE DEF b
      <4> QED
        BY <3>1, <4>1, <4>2 DEF Fits, Fills
    <3>3. After(b, p) = (IF Len(w) = 1 THEN <<p[1]>> ELSE q)
          /\ Completed(b, p) = (IF Len(w) = 1 THEN <<q>> ELSE <<>>)
      BY <3>1, <3>2, DataIsNoStatus DEF After, Completed
    <3>4. CASE Len(w) = 1
      <4>1. rest = <<>> /\ q = c /\ <<p[1]>> = <<st>> /\ Len(<<p[1]>>) = 1 /\ <<p[1]>>[1] \in Voiced
        BY <1>3, <1>6, <1>9, <2>1, <2>3, <3>4
      <4> HIDE DEF b
      <4> HIDE DEF rest
      <4> HIDE DEF q
      <4>2. SenderAt(<<p[1]>>, rest, c, st)
        BY <4>1 DEF SenderAt
      <4> QED
        BY <1>2, <2>2, <3>2, <3>3, <3>4, <4>1, <4>2 DEF b, rest
    <3>5. CASE Len(w) # 1
      <4>1. rest # <<>> /\ q \o rest = c
        BY <1>3, <1>9, <3>5
      <4>2. q # <<>>
        BY <1>3
      <4> HIDE DEF b
      <4> HIDE DEF rest
      <4> HIDE DEF q
      <4>3. SenderAt(q, rest, c, st)
        BY <1>1, <1>2, <4>1, <4>2 DEF SenderAt
      <4> QED
        BY <1>2, <3>2, <3>3, <3>5, <4>1, <4>3 DEF b, rest
    <3> QED
      BY <3>4, <3>5
  <2>4. CASE c[1] = SysexBegin
    <3>1. /\ Len(c) \in 2 .. MaxSysex + 2 /\ c[Len(c)] = SysexEnd
          /\ \A i \in 2 .. Len(c) - 1 : c[i] \in DataBytes
      BY <1>1, <2>4, MessageKinds DEF Voiced, NoteOn, ProgChange, TuneRequest, SysexBegin
    <3>2. InSysex(p)
      BY <1>9, <2>1, <2>4 DEF InSysex
    <3>3. CASE Len(w) = 1
      <4>1. b = SysexEnd /\ rest = <<>> /\ q = c /\ st = 0
        BY <1>3, <1>4, <1>7, <1>9, <2>1, <2>4, <3>1, <3>3
      <4>2. Fits(b, p)
        BY <3>2, <4>1 DEF Fits
      <4>3. After(b, p) = <<>> /\ Completed(b, p) = <<q>>
        BY <4>1 DEF After, Completed, Clock, Voiced, NoteOn, ProgChange, SysexBegin, SysexEnd
      <4> HIDE DEF b
      <4> HIDE DEF rest
      <4> HIDE DEF q
      <4>4. SenderAt(<<>>, rest, c, st)
        BY <4>1 DEF SenderAt
      <4> QED
        BY <1>2, <2>2, <4>1, <4>2, <4>3, <4>4 DEF b, rest
    <3>4. CASE Len(w) # 1
      <4>1. Len(p) + 1 \in 2 .. Len(c) - 1 /\ Len(p) <= MaxSysex
        <5>1. MaxSysex \in Nat /\ Len(w) >= 2 /\ Len(p) \in Nat \ {0} /\ Len(w) \in Nat
          <6>1. Len(p) \in Nat /\ Len(p) > 0 /\ Len(w) \in Nat \ {0} /\ Len(w) # 1
            BY <1>4, <2>1, <3>4
          <6> QED
            BY <6>1, BoundsAssumption
        <5>2. Len(c) = Len(p) + Len(w) /\ Len(c) <= MaxSysex + 2
          BY <2>1, <3>1
        <5> QED
          BY <5>1, <5>2
      <4>2. b \in DataBytes
        BY <2>1, <3>1, <4>1
      <4>3. Fits(b, p) /\ ~Fills(b, p)
        BY <1>9, <3>2, <4>1, <4>2 DEF Fits, Fills
      <4>4. After(b, p) = q /\ Completed(b, p) = <<>>
        BY <4>2, <4>3, DataIsNoStatus DEF After, Completed
      <4>5. rest # <<>> /\ q \o rest = c /\ q # <<>>
        BY <1>3, <1>9, <3>4
      <4> HIDE DEF b
      <4> HIDE DEF rest
      <4> HIDE DEF q
      <4>6. SenderAt(q, rest, c, st)
        BY <1>1, <1>2, <4>5 DEF SenderAt
      <4> QED
        BY <1>2, <4>3, <4>4, <4>5, <4>6 DEF b, rest
    <3> QED
      BY <3>3, <3>4
  <2>5. c[1] # TuneRequest
    <3>1. c[1] = TuneRequest => c[1] \notin Voiced /\ c[1] # SysexBegin
      BY DEF TuneRequest, SysexBegin, Voiced, NoteOn, ProgChange
    <3>2. c[1] = TuneRequest => Len(c) = 1
      BY <1>1, <3>1, MessageKinds
    <3>3. Len(c) # 1
      <4> DEFINE k == Len(c)
      <4>1. k \in Nat /\ k > 1
        BY <1>4, <2>2
      <4> HIDE DEF k
      <4>2. k # 1
        BY <4>1
      <4> QED
        BY <4>2 DEF k
    <3> QED
      BY <3>2, <3>3
  <2> QED
    BY <1>1, <2>3, <2>4, <2>5, MessageKinds
<1> QED
  BY <1>8, <1>9 DEF SenderAt
-----------------------------------------------------------------------------
(* The way from the sender to the parser                                    *)

\* What is queued, as a sequence.
LEMMA ContentsSeq ==
  ASSUME NEW q \in Queue
  PROVE  /\ Contents(q) \in Seq(Bytes) /\ Len(Contents(q)) = QueueLength(q)
         /\ QueueLength(q) \in Nat
<1> DEFINE n == QueueLength(q)
           s == [i \in 1 .. n |-> Get(q, i - 1)]
<1>1. n \in 0 .. Length - 1 /\ Length \in Nat /\ n \in Nat
  BY QueueLengthType, LengthAssumption
<1>2. \A i \in 1 .. n : Get(q, i - 1) \in Bytes
  <2> SUFFICES ASSUME NEW i \in 1 .. n PROVE Get(q, i - 1) \in Bytes
    OBVIOUS
  <2>1. i - 1 \in 0 .. Length
    BY <1>1
  <2>2. Plus(q.start, i - 1) \in Slots
    BY <2>1, PlusSlot, LengthAssumption DEF Queue
  <2> QED
    BY <2>2 DEF Get, Queue
<1>3. Contents(q) = s
  BY DEF Contents
<1> HIDE DEF n
<1>4. s \in Seq(Bytes) /\ Len(s) = n
  BY <1>1, <1>2
<1> HIDE DEF s
<1> QED
  BY <1>1, <1>3, <1>4 DEF n

\* Byte b takes the prefix from p to q and the count of messages from m to n.
Step(b, p, m, q, n, out) ==
  /\ b \in Bytes /\ Fits(b, p) /\ q = After(b, p)
  /\ \/ Completed(b, p) = <<>> /\ n = m
     \/ n = m + 1 /\ n <= Len(out) /\ Completed(b, p) = <<out[n]>>

\* Before byte i + 1 of u, ps[i] is the prefix and ns[i] the count of messages.
Traced(u, out, ps, ns) ==
  /\ DOMAIN ps = 0 .. Len(u) /\ DOMAIN ns = 0 .. Len(u)
  /\ \A i \in 0 .. Len(u) : Prefix(ps[i]) /\ ns[i] \in 0 .. Len(out)
  /\ \A i \in 1 .. Len(u) : Step(u[i], ps[i - 1], ns[i - 1], ps[i], ns[i], out)

\* Parsing the bytes u that are on their way makes what is received what is sent,
\* and leaves the parser with what the sender has sent of its message.
OnWay(u, out, in, d, g, w, c, st) ==
  \E ps, ns :
    /\ Traced(u, out, ps, ns)
    /\ ns[0] = Len(in) /\ Agrees(ps[0], d, g)
    /\ ns[Len(u)] = Len(out) /\ SenderAt(ps[Len(u)], w, c, st)

\* The oldest byte is taken.
Takes(u, out, in, d, g, w, c, st) ==
  \E p : /\ Prefix(p) /\ Agrees(p, d, g) /\ Head(u) \in Bytes /\ Fits(Head(u), p)
         /\ \E more \in {<<>>, <<out[Len(in) + 1]>>} :
              /\ Completed(Head(u), p) = more /\ (more # <<>> => Len(in) < Len(out))
              /\ \A e, h : Agrees(After(Head(u), p), e, h)
                             => OnWay(Tail(u), out, in \o more, e, h, w, c, st)

\* A byte is queued, or the sender goes on to another message.
Grows(u, out, in, d, g, w, c, st) ==
  \E p : /\ Prefix(p) /\ SenderAt(p, w, c, st)
         /\ \A v, e, s : SenderAt(p, v, e, s) => OnWay(u, out, in, d, g, v, e, s)
         /\ \A b \in Bytes, more \in Seq(Messages) : \A v, e, s :
              (/\ Fits(b, p) /\ Completed(b, p) = more /\ Len(more) <= 1
               /\ SenderAt(After(b, p), v, e, s))
              => OnWay(Append(u, b), out \o more, in, d, g, v, e, s)

LEMMA WayTaken ==
  ASSUME NEW u \in Seq(Bytes), u # <<>>, NEW out \in Seq(Messages), NEW in \in Seq(Messages),
         NEW d, NEW g, NEW w, NEW c, NEW st, OnWay(u, out, in, d, g, w, c, st)
  PROVE  Takes(u, out, in, d, g, w, c, st)
<1> DEFINE L == Len(u)
           n == Len(in)
           N == Len(out)
           t == Tail(u)
<1>1. PICK ps, ns : /\ Traced(u, out, ps, ns) /\ ns[0] = n /\ Agrees(ps[0], d, g)
                    /\ ns[L] = N /\ SenderAt(ps[L], w, c, st)
  BY DEF OnWay
<1>2. /\ t \in Seq(Bytes) /\ Len(t) = L - 1 /\ L \in Nat \ {0} /\ Head(u) = u[1]
      /\ \A i \in 1 .. L - 1 : t[i] = u[i + 1]
  BY HeadTailProperties
<1>3. n \in Nat /\ N \in Nat
  OBVIOUS
<1> DEFINE qs == [i \in 0 .. L - 1 |-> ps[i + 1]]
           ms == [i \in 0 .. L - 1 |-> ns[i + 1]]
           p == ps[0]
           b == u[1]
<1> HIDE DEF L, n, N, t
<1>4. /\ \A i \in 0 .. L : Prefix(ps[i]) /\ ns[i] \in 0 .. N
      /\ \A i \in 1 .. L : Step(u[i], ps[i - 1], ns[i - 1], ps[i], ns[i], out)
  BY <1>1 DEF Traced, L, N
<1>5. Traced(t, out, qs, ms)
  <2>1. \A i \in 0 .. L - 1 : i + 1 \in 0 .. L
    BY <1>2
  <2>2. \A i \in 0 .. L - 1 : Prefix(qs[i]) /\ ms[i] \in 0 .. N
    BY <1>4, <2>1
  <2>3. ASSUME NEW i \in 1 .. L - 1 PROVE Step(t[i], qs[i - 1], ms[i - 1], qs[i], ms[i], out)
    <3>1. /\ i + 1 \in 1 .. L /\ (i + 1) - 1 = i /\ i \in 0 .. L - 1 /\ i - 1 \in 0 .. L - 1
          /\ (i - 1) + 1 = i
      BY <1>2
    <3>2. Step(u[i + 1], ps[i], ns[i], ps[i + 1], ns[i + 1], out)
      BY <1>4, <3>1
    <3>3. t[i] = u[i + 1] /\ qs[i] = ps[i + 1] /\ qs[i - 1] = ps[i] /\ ms[i] = ns[i + 1]
          /\ ms[i - 1] = ns[i]
      BY <1>2, <3>1
    <3> HIDE DEF qs, ms
    <3> QED
      BY <3>2, <3>3
  <2>4. DOMAIN qs = 0 .. L - 1 /\ DOMAIN ms = 0 .. L - 1
    OBVIOUS
  <2> HIDE DEF qs, ms
  <2>5. Len(t) = L - 1
    BY <1>2
  <2> QED
    BY <2>2, <2>3, <2>4, <2>5 DEF Traced, N
<1>6. 0 \in 0 .. L - 1 /\ L - 1 \in 0 .. L - 1 /\ 1 \in 1 .. L /\ 0 \in 0 .. L /\ (L - 1) + 1 = L
      /\ 1 - 1 = 0 /\ 0 + 1 = 1
  BY <1>2
<1>7. qs[0] = ps[1] /\ ms[0] = ns[1] /\ qs[L - 1] = ps[L] /\ ms[L - 1] = ns[L]
  BY <1>6
<1>8. Step(b, p, n, ps[1], ns[1], out) /\ ns[1] \in 0 .. N /\ Prefix(p)
  BY <1>1, <1>4, <1>6
<1> HIDE DEF qs, ms
<1>9. ASSUME NEW e, NEW h, Agrees(After(b, p), e, h), NEW more, Len(in \o more) = ns[1]
      PROVE  OnWay(t, out, in \o more, e, h, w, c, st)
  <2>1. qs[0] = After(b, p)
    BY <1>7, <1>8 DEF Step
  <2>2. Agrees(qs[0], e, h) /\ ms[0] = Len(in \o more)
    BY <1>7, <1>9, <2>1
  <2>3. ms[Len(t)] = Len(out) /\ SenderAt(qs[Len(t)], w, c, st)
    BY <1>1, <1>2, <1>7 DEF N
  <2> QED
    BY <1>5, <2>2, <2>3 DEF OnWay
<1>10. b \in Bytes /\ Fits(b, p) /\ Agrees(p, d, g) /\ Head(u) = b
  BY <1>1, <1>2, <1>8 DEF Step
<1>11. CASE Completed(b, p) = <<>> /\ ns[1] = n
  <2>1. in \o <<>> = in
    OBVIOUS
  <2>2. Len(in \o <<>>) = ns[1]
    BY <1>11, <2>1 DEF n
  <2>3. \A e, h : Agrees(After(b, p), e, h) => OnWay(t, out, in \o <<>>, e, h, w, c, st)
    BY <1>9, <2>2
  <2> QED
    BY <1>8, <1>10, <1>11, <2>3 DEF Takes, t, n
<1>12. CASE ns[1] = n + 1 /\ ns[1] <= N /\ Completed(b, p) = <<out[ns[1]]>>
  <2> DEFINE more == <<out[n + 1]>>
  <2>1. n + 1 \in 1 .. N /\ 1 \in 1 .. N - n
    BY <1>3, <1>8, <1>12
  <2>2. out[n + 1] \in Messages
    BY <2>1 DEF N
  <2>3. Len(in \o more) = n + 1
    BY <2>2 DEF n
  <2>4. Completed(b, p) = more
    BY <1>12
  <2>5. more \in {<<>>, <<out[n + 1]>>} /\ n < N
    BY <1>3, <2>1
  <2> HIDE DEF more
  <2>6. \A e, h : Agrees(After(b, p), e, h) => OnWay(t, out, in \o more, e, h, w, c, st)
    BY <1>9, <1>12, <2>3
  <2> QED
    BY <1>8, <1>10, <2>4, <2>5, <2>6 DEF Takes, t, n, N
<1> QED
  BY <1>8, <1>11, <1>12 DEF Step, N

LEMMA WayAdded ==
  ASSUME NEW u \in Seq(Bytes), NEW out \in Seq(Messages), NEW in,
         NEW d, NEW g, NEW w, NEW c, NEW st, OnWay(u, out, in, d, g, w, c, st)
  PROVE  Grows(u, out, in, d, g, w, c, st)
<1> DEFINE L == Len(u)
           N == Len(out)
<1>1. PICK ps, ns : /\ Traced(u, out, ps, ns) /\ ns[0] = Len(in) /\ Agrees(ps[0], d, g)
                    /\ ns[L] = N /\ SenderAt(ps[L], w, c, st)
  BY DEF OnWay
<1> DEFINE p == ps[L]
<1>2. L \in Nat /\ N \in Nat
  OBVIOUS
<1> HIDE DEF L, N
<1>3. /\ \A i \in 0 .. L : Prefix(ps[i]) /\ ns[i] \in 0 .. N
      /\ \A i \in 1 .. L : Step(u[i], ps[i - 1], ns[i - 1], ps[i], ns[i], out)
  BY <1>1 DEF Traced, L, N
<1>4. Prefix(p)
  BY <1>2, <1>3
<1>5. \A v, e, s : SenderAt(p, v, e, s) => OnWay(u, out, in, d, g, v, e, s)
  BY <1>1 DEF OnWay, L, N
<1>6. ASSUME NEW b \in Bytes, NEW more \in Seq(Messages), NEW v, NEW e, NEW s,
             Fits(b, p), Completed(b, p) = more, Len(more) <= 1, SenderAt(After(b, p), v, e, s)
      PROVE  OnWay(Append(u, b), out \o more, in, d, g, v, e, s)
  <2> DEFINE x == Append(u, b)
             r == out \o more
             qs == [i \in 0 .. L + 1 |-> IF i <= L THEN ps[i] ELSE After(b, p)]
             ms == [i \in 0 .. L + 1 |-> IF i <= L THEN ns[i] ELSE Len(r)]
  <2>1. x \in Seq(Bytes) /\ Len(x) = L + 1 /\ x[L + 1] = b /\ \A i \in 1 .. L : x[i] = u[i]
    BY DEF L
  <2>2. Len(r) = N + Len(more) /\ Len(more) \in 0 .. 1 /\ \A i \in 1 .. N : r[i] = out[i]
    <3>1. /\ Len(r) = N + Len(more)
          /\ \A i \in 1 .. N + Len(more) : r[i] = IF i <= N THEN out[i] ELSE more[i - N]
      BY ConcatProperties DEF N
    <3>2. Len(more) \in 0 .. 1
      <4> DEFINE k == Len(more)
      <4>1. k \in Nat /\ k <= 1
        BY <1>6
      <4> HIDE DEF k
      <4>2. k \in 0 .. 1
        BY <4>1
      <4> QED
        BY <4>2 DEF k
    <3> HIDE DEF r
    <3>3. \A i \in 1 .. N : i \in 1 .. N + Len(more) /\ i <= N
      BY <1>2, <3>2
    <3> QED
      BY <3>1, <3>2, <3>3
  <2>3. Len(more) = 1 => more = <<r[N + 1]>>
    <3> SUFFICES ASSUME Len(more) = 1 PROVE more = <<r[N + 1]>>
      OBVIOUS
    <3>1. r[N + 1] = more[1]
      <4>1. \A i \in 1 .. N + Len(more) : r[i] = IF i <= N THEN out[i] ELSE more[i - N]
        BY ConcatProperties DEF N
      <4>2. N + 1 \in 1 .. N + Len(more) /\ ~(N + 1 <= N) /\ (N + 1) - N = 1
        BY <1>2
      <4> HIDE DEF r
      <4> QED
        BY <4>1, <4>2
    <3> HIDE DEF r
    <3> QED
      BY <3>1
  <2>4. Len(more) = 0 => more = <<>>
    OBVIOUS
  <2> HIDE DEF x, r
  <2>5. \A i \in 0 .. L + 1 : i <= L => qs[i] = ps[i] /\ ms[i] = ns[i]
    OBVIOUS
  <2>6. qs[L + 1] = After(b, p) /\ ms[L + 1] = Len(r)
    BY <1>2
  <2>7. DOMAIN qs = 0 .. L + 1 /\ DOMAIN ms = 0 .. L + 1
    OBVIOUS
  <2> HIDE DEF qs, ms
  <2>8. \A i \in 0 .. L + 1 : Prefix(qs[i]) /\ ms[i] \in 0 .. Len(r)
    <3> SUFFICES ASSUME NEW i \in 0 .. L + 1 PROVE Prefix(qs[i]) /\ ms[i] \in 0 .. Len(r)
      OBVIOUS
    <3>1. CASE i <= L
      <4>1. i \in 0 .. L
        BY <1>2, <3>1
      <4>2. Prefix(qs[i]) /\ ms[i] \in 0 .. N
        BY <1>3, <2>5, <3>1, <4>1
      <4> QED
        BY <1>2, <2>2, <4>2
    <3>2. CASE ~(i <= L)
      <4>1. i = L + 1
        BY <1>2, <3>2
      <4>2. Prefix(After(b, p))
        BY <1>4, <1>6, PrefixKept
      <4>3. Len(r) \in 0 .. Len(r)
        BY <1>2, <2>2
      <4> QED
        BY <2>6, <4>1, <4>2, <4>3
    <3> QED
      BY <3>1, <3>2
  <2>9. \A i \in 1 .. L + 1 : Step(x[i], qs[i - 1], ms[i - 1], qs[i], ms[i], r)
    <3> SUFFICES ASSUME NEW i \in 1 .. L + 1
                 PROVE  Step(x[i], qs[i - 1], ms[i - 1], qs[i], ms[i], r)
      OBVIOUS
    <3>0. i - 1 \in 0 .. L + 1 /\ i - 1 <= L /\ i \in 0 .. L + 1
      BY <1>2
    <3>1. CASE i <= L
      <4>1. i \in 1 .. L
        BY <1>2, <3>1
      <4>2. /\ x[i] = u[i] /\ qs[i - 1] = ps[i - 1] /\ qs[i] = ps[i] /\ ms[i - 1] = ns[i - 1]
            /\ ms[i] = ns[i]
        BY <2>1, <2>5, <3>0, <3>1, <4>1
      <4>3. Step(u[i], ps[i - 1], ns[i - 1], ps[i], ns[i], out)
        BY <1>3, <4>1
      <4>4. ns[i] \in 0 .. N /\ ns[i - 1] \in 0 .. N
        BY <1>2, <1>3, <3>0, <4>1
      <4>5. ns[i] = ns[i - 1] + 1 => r[ns[i]] = out[ns[i]] /\ ns[i] <= Len(r)
        <5>1. ns[i] = ns[i - 1] + 1 => ns[i] \in 1 .. N
          BY <1>2, <4>4
        <5>2. ns[i] \in 1 .. N => ns[i] <= Len(r)
          BY <1>2, <2>2
        <5> QED
          BY <2>2, <5>1, <5>2
      <4> QED
        BY <4>2, <4>3, <4>5 DEF Step
    <3>2. CASE ~(i <= L)
      <4>1. i = L + 1 /\ i - 1 = L
        BY <1>2, <3>2
      <4>2. x[i] = b /\ qs[i - 1] = p /\ qs[i] = After(b, p) /\ ms[i] = Len(r)
        BY <2>1, <2>5, <2>6, <3>0, <4>1
      <4>3. ms[i - 1] = N
        BY <1>1, <2>5, <3>0, <4>1
      <4>4. CASE Len(more) = 0
        <5>1. Completed(b, p) = <<>> /\ Len(r) = N
          BY <1>2, <1>6, <2>2, <2>4, <4>4
        <5> QED
          BY <1>6, <4>2, <4>3, <5>1 DEF Step
      <4>5. CASE Len(more) = 1
        <5>1. Completed(b, p) = <<r[N + 1]>> /\ Len(r) = N + 1
          BY <1>6, <2>2, <2>3, <4>5
        <5>2. Len(r) <= Len(r)
          BY <1>2, <5>1
        <5> QED
          BY <1>6, <4>2, <4>3, <5>1, <5>2 DEF Step
      <4> QED
        BY <2>2, <4>4, <4>5
    <3> QED
      BY <3>1, <3>2
  <2>10. Traced(x, r, qs, ms)
    BY <2>1, <2>7, <2>8, <2>9 DEF Traced
  <2>11. qs[0] = ps[0] /\ ms[0] = ns[0]
    BY <1>2, <2>5
  <2> QED
    BY <1>1, <1>6, <2>1, <2>6, <2>10, <2>11 DEF OnWay, x, r
<1> QED
  BY <1>1, <1>4, <1>5, <1>6 DEF Grows
-----------------------------------------------------------------------------
(* Reception. The senders considered keep the queue from running over and   *)
(* let a system exclusive message end.                                      *)

\* The bytes that are queued and not yet parsed.
Unparsed(q, done) == IF done THEN Tail(Contents(q)) ELSE Contents(q)

ReceptionInv ==
  /\ queue \in Queue /\ len \in 0 .. QueueLength(queue)
  /\ processed \in BOOLEAN /\ (processed => len > 0)
  /\ Device \in Devices /\ Gathered \in Gathering
  /\ sent \in Seq(Messages) /\ received \in Seq(Seq(Bytes)) /\ Len(received) <= Len(sent)
  /\ spoilt \subseteq 1 .. Len(received) /\ Heard \in Seq(Messages)
  /\ OnWay(Unparsed(queue, processed), sent, Heard, Device, Gathered, wire, current, status)

LEMMA UnparsedSeq ==
  ASSUME NEW q \in Queue, NEW done \in BOOLEAN, done => QueueLength(q) > 0
  PROVE  Unparsed(q, done) \in Seq(Bytes)
<1>1. Contents(q) \in Seq(Bytes) /\ Len(Contents(q)) = QueueLength(q)
  BY ContentsSeq
<1>2. done => Contents(q) # <<>>
  BY <1>1
<1>3. done => Tail(Contents(q)) \in Seq(Bytes)
  BY <1>1, <1>2, HeadTailProperties
<1> QED
  BY <1>1, <1>3 DEF Unparsed

\* Queueing adds to what is not parsed.
LEMMA UnparsedGrows ==
  ASSUME NEW q \in Queue, NEW done \in BOOLEAN, done => QueueLength(q) > 0,
         NEW b \in Bytes, ~Full(q)
  PROVE  /\ Enqueue(q, b) \in Queue /\ QueueLength(Enqueue(q, b)) = QueueLength(q) + 1
         /\ Unparsed(Enqueue(q, b), done) = Append(Unparsed(q, done), b)
<1> DEFINE s == Contents(q)
<1>1. s \in Seq(Bytes) /\ Len(s) = QueueLength(q)
  BY ContentsSeq
<1>2. Contents(Enqueue(q, b)) = Append(s, b)
  BY EnqueueAppends, LengthAssumption
<1>3. done => s # <<>>
  BY <1>1
<1> HIDE DEF s
<1>4. s # <<>> => Tail(Append(s, b)) = Append(Tail(s), b)
  <2> SUFFICES ASSUME s # <<>> PROVE Tail(Append(s, b)) = Append(Tail(s), b)
    OBVIOUS
  <2> DEFINE t == Tail(s)
             a == Append(s, b)
  <2>1. /\ t \in Seq(Bytes) /\ Len(t) = Len(s) - 1 /\ Len(s) \in Nat \ {0}
        /\ \A i \in 1 .. Len(s) - 1 : t[i] = s[i + 1]
    BY <1>1, HeadTailProperties
  <2>2. /\ a \in Seq(Bytes) /\ a # <<>> /\ Len(a) = Len(s) + 1 /\ a[Len(s) + 1] = b
        /\ \A i \in 1 .. Len(s) : a[i] = s[i]
    BY <1>1
  <2> DEFINE ta == Tail(a)
             at == Append(t, b)
  <2> HIDE DEF a
  <2>3. ta \in Seq(Bytes) /\ Len(ta) = Len(s) /\ \A i \in 1 .. Len(s) : ta[i] = a[i + 1]
    <3>1. ta \in Seq(Bytes) /\ Len(ta) = Len(a) - 1 /\ \A i \in 1 .. Len(a) - 1 : ta[i] = a[i + 1]
      BY <2>2, HeadTailProperties
    <3>2. Len(a) - 1 = Len(s)
      BY <2>1, <2>2
    <3> HIDE DEF ta
    <3> QED
      BY <3>1, <3>2
  <2> HIDE DEF t
  <2>4. /\ at \in Seq(Bytes) /\ Len(at) = Len(s) /\ at[Len(s)] = b
        /\ \A i \in 1 .. Len(s) - 1 : at[i] = t[i]
    <3>1. (Len(s) - 1) + 1 = Len(s)
      BY <2>1
    <3> QED
      BY <2>1, <3>1
  <2> HIDE DEF ta, at
  <2>5. ASSUME NEW i \in 1 .. Len(s) PROVE ta[i] = at[i]
    <3>1. CASE i = Len(s)
      BY <2>1, <2>2, <2>3, <2>4, <3>1
    <3>2. CASE i # Len(s)
      <4>1. i \in 1 .. Len(s) - 1 /\ i + 1 \in 1 .. Len(s)
        BY <2>1, <3>2
      <4> QED
        BY <2>1, <2>2, <2>3, <2>4, <4>1
    <3> QED
      BY <3>1, <3>2
  <2> QED
    BY <2>3, <2>4, <2>5, SeqEqual DEF ta, at, a, t
<1> QED
  BY <1>2, <1>3, <1>4, EnqueueLength, LengthAssumption DEF Unparsed, s

\* What the parser makes of an agreeing device goes for a gathering with nothing
\* to deliver.
LEMMA AgreesFresh ==
  ASSUME NEW p, NEW d, NEW g, NEW h \in Gathering, Agrees(p, d, g),
         h.size = g.size, h.used \/ (g.used = FALSE /\ h.buffer = g.buffer), h.out = <<>>,
         h.spoils = FALSE
  PROVE  Agrees(p, d, h)
BY DEF Agrees, HoldsSysex, Holds

\* Elsewhere in the timer interrupt the buffer is used: what is gathered is as long
\* as it was.
LEMMA AgreesUsed ==
  ASSUME NEW p, NEW d, NEW g \in Gathering, NEW h \in Gathering, Agrees(p, d, g),
         h.size = g.size, h.used = TRUE, h.out = <<>>, h.spoils = FALSE
  PROVE  Agrees(p, d, h)
BY DEF Agrees, HoldsSysex, Holds

LEMMA MessagesBytes == Seq(Messages) \subseteq Seq(Seq(Bytes))
<1>1. Messages \subseteq Seq(Bytes)
  BY MessagesAssumption
<1> QED
  BY <1>1

LEMMA HeardLength ==
  ASSUME NEW S, received \in Seq(S)
  PROVE  DOMAIN received = 1 .. Len(received) /\ DOMAIN Heard = 1 .. Len(received)
         /\ (Heard \in Seq(Messages) => Len(Heard) = Len(received))
<1>1. DOMAIN received = 1 .. Len(received) /\ Len(received) \in Nat
  BY LenProperties
<1>2. DOMAIN Heard = 1 .. Len(received)
  BY <1>1 DEF Heard
<1>3. ASSUME Heard \in Seq(Messages) PROVE Len(Heard) = Len(received)
  <2>1. DOMAIN Heard = 1 .. Len(Heard) /\ Len(Heard) \in Nat
    BY <1>3, LenProperties
  <2> HIDE DEF Heard
  <2> QED
    BY <1>1, <1>2, <2>1
<1> QED
  BY <1>1, <1>2, <1>3

\* Sending on changes nothing of what was heard.
LEMMA HeardKept ==
  ASSUME ReceptionInv, receivedVars' = receivedVars,
         sent' = sent \/ \E m : sent' = Append(sent, m)
  PROVE  Heard' = Heard
<1>1. /\ received' = received /\ spoilt' = spoilt /\ received \in Seq(Seq(Bytes))
      /\ sent \in Seq(Messages) /\ Len(received) <= Len(sent)
  BY DEF receivedVars, ReceptionInv
<1>2. DOMAIN received = 1 .. Len(received) /\ Len(received) \in Nat
  BY <1>1, LenProperties
<1>3. \A i \in 1 .. Len(received) : sent'[i] = sent[i]
  <2>1. CASE sent' = sent
    BY <2>1
  <2>2. ASSUME NEW m, sent' = Append(sent, m)
        PROVE  \A i \in 1 .. Len(received) : sent'[i] = sent[i]
    <3>1. \A i \in 1 .. Len(sent) : Append(sent, m)[i] = sent[i]
      BY <1>1
    <3> QED
      BY <1>1, <1>2, <2>2, <3>1
  <2> QED
    BY <2>1, <2>2
<1> QED
  BY <1>1, <1>2, <1>3 DEF Heard

\* One more message is received, spoilt or as it was sent.
LEMMA HeardMore ==
  ASSUME ReceptionInv, NEW x \in Seq(Bytes), NEW spoils \in BOOLEAN, Len(received) < Len(sent),
         received' = Append(received, x), sent' = sent,
         spoilt' = IF spoils THEN spoilt \cup {Len(received) + 1} ELSE spoilt,
         spoils = FALSE => x = sent[Len(received) + 1]
  PROVE  /\ Heard' = Append(Heard, sent[Len(Heard) + 1]) /\ Len(Heard) = Len(received)
         /\ Heard' \in Seq(Messages) /\ received' \in Seq(Seq(Bytes))
         /\ Len(received') <= Len(sent') /\ spoilt' \subseteq 1 .. Len(received')
<1> DEFINE n == Len(received)
<1>1. /\ received \in Seq(Seq(Bytes)) /\ sent \in Seq(Messages) /\ Heard \in Seq(Messages)
      /\ spoilt \subseteq 1 .. n /\ n \in Nat /\ Len(sent) \in Nat /\ n < Len(sent)
  BY DEF ReceptionInv
<1>2. DOMAIN received = 1 .. n /\ DOMAIN Heard = 1 .. n /\ Len(Heard) = n
  BY <1>1, HeardLength
<1>3. /\ received' \in Seq(Seq(Bytes)) /\ Len(received') = n + 1 /\ received'[n + 1] = x
      /\ \A i \in 1 .. n : received'[i] = received[i]
  BY <1>1
<1>4. DOMAIN received' = 1 .. n + 1
  BY <1>3, LenProperties
<1>5. sent[n + 1] \in Messages
  <2>1. n + 1 \in 1 .. Len(sent)
    BY <1>1
  <2> HIDE DEF n
  <2> QED
    BY <1>1, <2>1
<1> DEFINE more == Append(Heard, sent[n + 1])
<1>6. /\ more \in Seq(Messages) /\ Len(more) = n + 1 /\ more[n + 1] = sent[n + 1]
      /\ \A i \in 1 .. n : more[i] = Heard[i]
  <2> HIDE DEF Heard
  <2> QED
    BY <1>1, <1>2, <1>5
<1>7. DOMAIN more = 1 .. n + 1 /\ more = [i \in 1 .. n + 1 |-> more[i]]
  <2> HIDE DEF more
  <2>1. more \in [1 .. n + 1 -> Messages]
    BY <1>6, LenProperties
  <2> QED
    BY <2>1
<1>8. Heard' = [i \in 1 .. n + 1 |-> IF i \in spoilt' THEN sent[i] ELSE received'[i]]
  BY <1>4 DEF Heard
<1>9. \A i \in 1 .. n + 1 : more[i] = IF i \in spoilt' THEN sent[i] ELSE received'[i]
  <2> SUFFICES ASSUME NEW i \in 1 .. n + 1
               PROVE  more[i] = IF i \in spoilt' THEN sent[i] ELSE received'[i]
    OBVIOUS
  <2> HIDE DEF more
  <2>1. CASE i \in 1 .. n
    <3>1. i # n + 1 /\ more[i] = Heard[i] /\ received'[i] = received[i]
      BY <1>1, <1>3, <1>6, <2>1
    <3>2. Heard[i] = IF i \in spoilt THEN sent[i] ELSE received[i]
      BY <1>2, <2>1 DEF Heard
    <3>3. i \in spoilt' <=> i \in spoilt
      BY <3>1
    <3> QED
      BY <3>1, <3>2, <3>3
  <2>2. CASE i = n + 1
    <3>1. i \notin spoilt
      BY <1>1, <2>2
    <3>2. spoils = FALSE => i \notin spoilt' /\ x = sent[i]
      BY <2>2, <3>1
    <3>3. more[i] = sent[i] /\ received'[i] = x
      BY <1>3, <1>6, <2>2
    <3>4. spoils = TRUE => i \in spoilt'
      BY <2>2
    <3> QED
      BY <3>2, <3>3, <3>4
  <2> QED
    BY <1>1, <2>1, <2>2
<1>10. Heard' = more
  <2> HIDE DEF more
  <2> QED
    BY <1>7, <1>8, <1>9
<1>11. spoilt' \subseteq 1 .. n + 1 /\ n + 1 <= Len(sent)
  <2>1. spoilt' \subseteq spoilt \cup {n + 1}
    OBVIOUS
  <2>2. spoilt \subseteq 1 .. n /\ n \in Nat /\ n < Len(sent) /\ Len(sent) \in Nat
    BY <1>1
  <2> HIDE DEF n
  <2>3. 1 .. n \subseteq 1 .. n + 1 /\ n + 1 \in 1 .. n + 1 /\ n + 1 <= Len(sent)
    BY <2>2
  <2> QED
    BY <2>1, <2>2, <2>3, Zenon
<1> QED
  BY <1>2, <1>3, <1>6, <1>10, <1>11

LEMMA ReceptionBegins == Init => ReceptionInv
<1> SUFFICES ASSUME Init PROVE ReceptionInv
  OBVIOUS
<1>1. /\ EmptyQueue \in Queue /\ QueueLength(EmptyQueue) = 0
  <2>1. 0 \in Slots
    BY LengthAssumption DEF Slots
  <2> QED
    BY <2>1, BytesAssumption DEF EmptyQueue, Queue, QueueLength
<1>2. Contents(queue) = <<>>
  <2>1. Contents(queue) \in Seq(Bytes) /\ Len(Contents(queue)) = 0
    BY <1>1, ContentsSeq DEF Init
  <2> QED
    BY <2>1
<1>3. Unparsed(queue, processed) = <<>>
  BY <1>2 DEF Unparsed, Init
<1>4. Device \in Devices /\ Device.state = "idle"
  BY BoundsAssumption, BytesAssumption DEF Device, Devices, Init
<1>5. Gathered \in Gathering /\ Gathered.size = 0
  <2>1. [i \in 0 .. MaxSysex - 1 |-> 0] \in [0 .. MaxSysex - 1 -> Bytes]
    BY BytesAssumption
  <2>2. <<>> \in Seq(Seq(Bytes)) /\ 0 \in 0 .. MaxSysex
    BY BoundsAssumption
  <2> QED
    BY <2>1, <2>2 DEF Gathered, Gathering, Init
<1>6. OnWay(<<>>, <<>>, <<>>, Device, Gathered, <<>>, <<>>, 0)
  <2> DEFINE ps == [i \in 0 .. 0 |-> << >>]
             ns == [i \in 0 .. 0 |-> 0]
  <2>1. ps[0] = <<>> /\ ns[0] = 0 /\ DOMAIN ps = 0 .. 0 /\ DOMAIN ns = 0 .. 0
    OBVIOUS
  <2> HIDE DEF ps, ns
  <2>2. Prefix(<<>>) /\ Agrees(<<>>, Device, Gathered) /\ SenderAt(<<>>, <<>>, <<>>, 0)
    BY <1>4, <1>5 DEF Prefix, Agrees, SenderAt
  <2>3. Len(<<>>) = 0
    OBVIOUS
  <2>4. Traced(<<>>, <<>>, ps, ns)
    BY <2>1, <2>2, <2>3 DEF Traced
  <2> QED
    BY <2>1, <2>2, <2>3, <2>4 DEF OnWay
<1>7. <<>> \in Seq(Messages) /\ 0 \in 0 .. 0
  OBVIOUS
<1>8. /\ queue = EmptyQueue /\ len = 0 /\ processed = FALSE /\ sent = <<>> /\ received = <<>> /\ spoilt = {}
      /\ wire = <<>> /\ current = <<>> /\ status = 0
  BY DEF Init
<1>9. Heard = <<>> /\ received \in Seq(Seq(Bytes)) /\ Len(received) = 0 /\ Len(sent) = 0
  BY <1>8 DEF Heard
<1>10. OnWay(Unparsed(queue, processed), sent, Heard, Device, Gathered, wire, current, status)
  BY <1>3, <1>6, <1>8, <1>9
<1>11. /\ Len(received) <= Len(sent) /\ spoilt \subseteq 1 .. Len(received)
       /\ Heard \in Seq(Messages) /\ sent \in Seq(Messages)
  BY <1>7, <1>8, <1>9
<1>12. /\ queue \in Queue /\ len \in 0 .. QueueLength(queue)
       /\ processed \in BOOLEAN /\ (processed => len > 0)
  <2>1. QueueLength(queue) = 0
    BY <1>1, <1>8
  <2>2. len \in 0 .. QueueLength(queue)
    BY <1>8, <2>1
  <2> QED
    BY <1>1, <1>8, <2>2
<1> QED
  BY <1>4, <1>5, <1>9, <1>10, <1>11, <1>12, Zenon DEF ReceptionInv

\* The timer begins to take what is queued.
LEMMA ReceptionProcess ==
  ASSUME ReceptionInv, Process
  PROVE  ReceptionInv'
<1>1. len' \in 0 .. QueueLength(queue)
  BY ContentsSeq DEF ReceptionInv, Process
<1>2. ~processed /\ queue' = queue /\ processed' = processed
  BY DEF ReceptionInv, Process
<1>3. Device' = Device /\ Gathered' = Gathered
  BY DEF Process, parserVars, Device, Gathered
<1>4. Heard' = Heard
  BY HeardKept DEF Process, senderVars
<1> QED
  BY <1>1, <1>2, <1>3, <1>4 DEF ReceptionInv, Process, senderVars, receivedVars

\* The byte that has been parsed leaves the queue.
LEMMA ReceptionRemove ==
  ASSUME ReceptionInv, RemoveByte
  PROVE  ReceptionInv'
<1>1. queue \in Queue /\ len \in 1 .. QueueLength(queue) /\ processed = TRUE /\ processed' = FALSE
      /\ queue' = Remove(queue, 1)
  BY ContentsSeq DEF ReceptionInv, RemoveByte
<1>2. Remove(queue, 1) \in Queue /\ Contents(Remove(queue, 1)) = Tail(Contents(queue))
      /\ QueueLength(queue) > 0
  <2>1. QueueLength(queue) > 0
    BY <1>1, ContentsSeq
  <2> QED
    BY <1>1, <2>1, RemoveTakesHead, LengthAssumption
<1>3. Unparsed(queue', processed') = Unparsed(queue, processed)
  BY <1>1, <1>2 DEF Unparsed
<1>4. QueueLength(queue') = QueueLength(queue) - 1
  <2>1. /\ Len(Contents(queue)) = QueueLength(queue) /\ Contents(queue) \in Seq(Bytes)
        /\ Len(Contents(queue')) = QueueLength(queue') /\ QueueLength(queue) \in Nat
    BY <1>1, <1>2, ContentsSeq
  <2>2. Contents(queue) # <<>>
    BY <1>2, <2>1
  <2>3. Len(Tail(Contents(queue))) = Len(Contents(queue)) - 1
    BY <2>1, <2>2, HeadTailProperties
  <2> QED
    BY <1>1, <1>2, <2>1, <2>3
<1>5. len' \in 0 .. QueueLength(queue')
  BY <1>1, <1>4, ContentsSeq DEF RemoveByte
<1>6. Device' = Device /\ Gathered' = Gathered
  BY DEF RemoveByte, parserVars, Device, Gathered
<1>7. Heard' = Heard
  BY HeardKept DEF RemoveByte, senderVars
<1> QED
  BY <1>1, <1>2, <1>3, <1>5, <1>6, <1>7 DEF ReceptionInv, RemoveByte, senderVars, receivedVars

LEMMA ReceptionUsed ==
  ASSUME ReceptionInv, BufferUsed
  PROVE  ReceptionInv' /\ Heard' = Heard
<1>1. /\ Device' = Device /\ queue' = queue /\ processed' = processed /\ len' = len
      /\ wire' = wire /\ current' = current /\ status' = status /\ sent' = sent
      /\ receivedVars' = receivedVars
  BY DEF BufferUsed, Device, senderVars
<1>2. /\ Gathered \in Gathering /\ Gathered' \in Gathering /\ Gathered'.size = Gathered.size
      /\ Gathered'.used = TRUE /\ Gathered'.out = <<>> /\ Gathered'.spoils = FALSE
  <2>1. tempBuffer' \in [0 .. MaxSysex - 1 -> Bytes] /\ sysexSize' = sysexSize /\ used' = TRUE
    BY ScratchAssumption DEF BufferUsed
  <2>2. sysexSize \in 0 .. MaxSysex /\ Gathered \in Gathering /\ <<>> \in Seq(Seq(Bytes))
    BY DEF ReceptionInv, Gathered, Gathering
  <2> QED
    BY <2>1, <2>2 DEF Gathered, Gathering
<1>3. Heard' = Heard
  BY <1>1, HeardKept
<1> DEFINE u == Unparsed(queue, processed)
<1>4. OnWay(u, sent, Heard, Device, Gathered, wire, current, status)
  BY DEF ReceptionInv
<1> HIDE DEF u
<1>5. PICK ps, ns :
        /\ Traced(u, sent, ps, ns)
        /\ ns[0] = Len(Heard) /\ Agrees(ps[0], Device, Gathered)
        /\ ns[Len(u)] = Len(sent) /\ SenderAt(ps[Len(u)], wire, current, status)
  BY <1>4 DEF OnWay
<1>6. Agrees(ps[0], Device, Gathered')
  BY <1>2, <1>5, AgreesUsed
<1>7. OnWay(u, sent, Heard, Device, Gathered', wire, current, status)
  BY <1>5, <1>6 DEF OnWay
<1> QED
  BY <1>1, <1>2, <1>3, <1>7 DEF ReceptionInv, receivedVars, u

\* The oldest byte is parsed: nothing is delivered, or the next of the messages
\* sent.
LEMMA ReceptionParses ==
  ASSUME ReceptionInv, ProcessByte
  PROVE  /\ ReceptionInv'
         /\ \/ Heard' = Heard
            \/ /\ Len(Heard) < Len(sent)
               /\ Heard' = Append(Heard, sent[Len(Heard) + 1])
<1> DEFINE u == Contents(queue)
           call == Parsed(Device, Get(queue, 0)).call
           e == Parsed(Device, Get(queue, 0)).dev
           h == GatherAfter(call)
<1>1. queue \in Queue /\ len \in 1 .. QueueLength(queue) /\ processed = FALSE /\ processed' = TRUE
      /\ queue' = queue /\ len' = len
  BY ContentsSeq DEF ReceptionInv, ProcessByte
<1>2. u \in Seq(Bytes) /\ u # <<>> /\ Get(queue, 0) = Head(u) /\ QueueLength(queue) > 0
  <2>1. u \in Seq(Bytes) /\ Len(u) = QueueLength(queue) /\ QueueLength(queue) > 0
    BY <1>1, ContentsSeq
  <2>2. u # <<>>
    BY <2>1
  <2> QED
    BY <1>1, <2>1, <2>2, RemoveTakesHead, LengthAssumption
<1>3. OnWay(u, sent, Heard, Device, Gathered, wire, current, status)
  BY <1>1 DEF ReceptionInv, Unparsed
<1>4. /\ sent \in Seq(Messages) /\ Heard \in Seq(Messages) /\ Device \in Devices
      /\ Gathered \in Gathering /\ received \in Seq(Seq(Bytes)) /\ Len(Heard) = Len(received)
  BY HeardLength DEF ReceptionInv
<1> HIDE DEF u
<1>5. Takes(u, sent, Heard, Device, Gathered, wire, current, status)
  BY <1>2, <1>3, <1>4, WayTaken
<1>6. PICK p : /\ Prefix(p) /\ Agrees(p, Device, Gathered) /\ Head(u) \in Bytes /\ Fits(Head(u), p)
               /\ \E more \in {<<>>, <<sent[Len(Heard) + 1]>>} :
                    /\ Completed(Head(u), p) = more
                    /\ (more # <<>> => Len(Heard) < Len(sent))
                    /\ \A e1, h1 : Agrees(After(Head(u), p), e1, h1)
                         => OnWay(Tail(u), sent, Heard \o more, e1, h1, wire, current, status)
  BY <1>5, Zenon DEF Takes
<1>7. PICK more \in {<<>>, <<sent[Len(Heard) + 1]>>} :
                    /\ Completed(Head(u), p) = more
                    /\ (more # <<>> => Len(Heard) < Len(sent))
                    /\ \A e1, h1 : Agrees(After(Head(u), p), e1, h1)
                         => OnWay(Tail(u), sent, Heard \o more, e1, h1, wire, current, status)
  BY <1>6
<1>7a. Right(p, Device, Get(queue, 0))
  BY <1>2, <1>4, <1>6, ParsedRight
<1>8. /\ e \in Devices /\ Agrees(After(Head(u), p), e, h)
      /\ h.size \in 0 .. MaxSysex /\ h.buffer \in [0 .. MaxSysex - 1 -> Bytes]
      /\ h.used \in BOOLEAN
      /\ \/ h.spoils = FALSE /\ Delivers(call) = more
         \/ /\ h.spoils = TRUE /\ Len(more) = 1
            /\ Len(Delivers(call)) = 1 /\ Delivers(call) \in Seq(Seq(Bytes))
  BY <1>2, <1>7, <1>7a DEF Right
<1>9. /\ input_state' = e.state /\ input_buffer' = e.buffer /\ input_count' = e.count
      /\ sysexSize' = h.size /\ tempBuffer' = h.buffer /\ used' = h.used
      /\ received' = received \o Delivers(call)
      /\ spoilt' = (IF h.spoils THEN spoilt \cup {Len(received) + 1} ELSE spoilt)
      /\ sent' = sent /\ wire' = wire /\ current' = current /\ status' = status
  BY DEF ProcessByte, GatherAfter, Delivers, senderVars
<1> HIDE DEF call, e, h
<1>10. Device' = e
  BY <1>8, <1>9 DEF Device, Devices
<1>11. /\ Gathered' \in Gathering /\ Gathered'.size = h.size /\ Gathered'.buffer = h.buffer
       /\ Gathered'.used = h.used /\ Gathered'.out = <<>> /\ Gathered'.spoils = FALSE
  <2>1. <<>> \in Seq(Seq(Bytes))
    OBVIOUS
  <2>2. Gathered' = [size |-> h.size, buffer |-> h.buffer, used |-> h.used, out |-> <<>>,
                     spoils |-> FALSE]
    BY <1>9 DEF Gathered
  <2> QED
    BY <1>8, <2>1, <2>2 DEF Gathering
<1>12. Agrees(After(Head(u), p), e, Gathered')
  BY <1>8, <1>11, AgreesFresh
<1>13. OnWay(Tail(u), sent, Heard \o more, e, Gathered', wire, current, status)
  BY <1>7, <1>12
<1>14. Unparsed(queue', processed') = Tail(u)
  BY <1>1 DEF Unparsed, u
<1>15. CASE more = <<>>
  <2>1. h.spoils = FALSE /\ Delivers(call) = <<>>
    BY <1>8, <1>15
  <2>2. received' = received /\ spoilt' = spoilt
    BY <1>4, <1>9, <2>1
  <2>3. Heard' = Heard /\ Heard \o more = Heard
    BY <1>4, <1>9, <1>15, <2>2, HeardKept DEF receivedVars
  <2>4. OnWay(Unparsed(queue, processed)', sent', Heard', Device', Gathered', wire', current', status')
    BY <1>9, <1>10, <1>13, <1>14, <2>3
  <2>5. /\ Len(received') <= Len(sent') /\ spoilt' \subseteq 1 .. Len(received')
        /\ Heard' \in Seq(Messages) /\ received' \in Seq(Seq(Bytes))
    BY <1>4, <1>9, <2>2, <2>3 DEF ReceptionInv
  <2>6. Device' \in Devices
    BY <1>8, <1>10
  <2> QED
    BY <1>1, <1>4, <1>9, <1>11, <2>3, <2>4, <2>5, <2>6 DEF ReceptionInv
<1>16. CASE more = <<sent[Len(Heard) + 1]>> /\ more # <<>>
  <2> DEFINE i == Len(received) + 1
             d == Delivers(call)
  <2>1. Len(received) < Len(sent)
    BY <1>4, <1>7, <1>16
  <2>2. sent[i] \in Messages /\ sent[i] \in Seq(Bytes)
    <3>1. i \in 1 .. Len(sent)
      BY <1>4, <2>1
    <3> HIDE DEF i
    <3> QED
      BY <1>4, <3>1, MessagesAssumption
  <2>3. PICK x \in Seq(Bytes) : d = <<x>> /\ (h.spoils = FALSE => x = sent[i])
    <3>1. CASE h.spoils = FALSE
      BY <1>4, <1>8, <1>16, <2>2, <3>1
    <3>2. CASE h.spoils # FALSE
      <4>1. h.spoils = TRUE /\ d \in Seq(Seq(Bytes)) /\ Len(d) = 1
        BY <1>8, <3>2
      <4> HIDE DEF d
      <4>2. d[1] \in Seq(Bytes) /\ d = <<d[1]>>
        <5> DEFINE u1 == <<d[1]>>
        <5>1. d[1] \in Seq(Bytes)
          BY <4>1
        <5>2. u1 \in Seq(Seq(Bytes)) /\ Len(u1) = 1 /\ \A j \in 1 .. 1 : u1[j] = d[j]
          BY <5>1
        <5> HIDE DEF u1
        <5>3. u1 = d
          BY <4>1, <5>2, SeqEqual
        <5> QED
          BY <5>1, <5>3 DEF u1
      <4> QED
        BY <3>2, <4>2
    <3> QED
      BY <3>1, <3>2
  <2>4. received' = Append(received, x)
    BY <1>4, <1>9, <2>3
  <2>5. h.spoils \in BOOLEAN
    BY <1>8
  <2>6. /\ Heard' = Append(Heard, sent[Len(Heard) + 1])
        /\ Heard' \in Seq(Messages) /\ received' \in Seq(Seq(Bytes))
        /\ Len(received') <= Len(sent') /\ spoilt' \subseteq 1 .. Len(received')
    BY <1>9, <2>1, <2>3, <2>4, <2>5, HeardMore
  <2>7. Heard \o more = Heard' /\ Len(Heard) < Len(sent)
    <3> HIDE DEF Heard
    <3> QED
      BY <1>4, <1>16, <2>1, <2>2, <2>6
  <2> QED
    BY <1>1, <1>4, <1>8, <1>9, <1>10, <1>11, <1>13, <1>14, <2>6, <2>7 DEF ReceptionInv
<1> QED
  BY <1>7, <1>15, <1>16

\* A byte of the message under way is queued.
LEMMA ReceptionNewData ==
  ASSUME ReceptionInv, NewData, "overrun" \notin Stimuli
  PROVE  /\ ReceptionInv'
         /\ Heard' = Heard
         /\ sent' = sent \/ \E m \in Messages : sent' = Append(sent, m)
<1> DEFINE u == Unparsed(queue, processed)
           b == Head(wire)
           more == IF Tail(wire) = <<>> /\ Owed(current) THEN <<current>> ELSE <<>>
<1>1. /\ queue \in Queue /\ processed \in BOOLEAN /\ (processed => QueueLength(queue) > 0)
      /\ len \in 0 .. QueueLength(queue) /\ QueueLength(queue) \in Nat
      /\ sent \in Seq(Messages) /\ Heard \in Seq(Messages)
      /\ OnWay(u, sent, Heard, Device, Gathered, wire, current, status)
  BY ContentsSeq DEF ReceptionInv
<1>2. u \in Seq(Bytes)
  BY <1>1, UnparsedSeq
<1>3. /\ wire # <<>> /\ ~Full(queue) /\ queue' = Enqueue(queue, b) /\ wire' = Tail(wire)
      /\ sent' = (IF Tail(wire) = <<>> /\ Owed(current) THEN Append(sent, current) ELSE sent)
      /\ len' = len /\ processed' = processed /\ current' = current /\ status' = status
      /\ receivedVars' = receivedVars /\ received' = received /\ spoilt' = spoilt
  BY DEF receivedVars, NewData, HasRoom
<1>4. Device' = Device /\ Gathered' = Gathered
  BY DEF NewData, parserVars, Device, Gathered
<1> HIDE DEF u
<1>5. Grows(u, sent, Heard, Device, Gathered, wire, current, status)
  BY <1>1, <1>2, WayAdded
<1>6. PICK p : /\ Prefix(p) /\ SenderAt(p, wire, current, status)
               /\ \A b1 \in Bytes, more1 \in Seq(Messages) : \A v, e, s :
                    (/\ Fits(b1, p) /\ Completed(b1, p) = more1 /\ Len(more1) <= 1
                     /\ SenderAt(After(b1, p), v, e, s))
                    => OnWay(Append(u, b1), sent \o more1, Heard, Device, Gathered, v, e, s)
  BY <1>5 DEF Grows
<1>7. /\ Fits(b, p) /\ b \in Bytes /\ SenderAt(After(b, p), Tail(wire), current, status)
      /\ Completed(b, p) = more
  BY <1>3, <1>6, SenderGoesOn
<1>8. current \in Messages
  BY <1>3, <1>6 DEF SenderAt
<1>9. /\ more \in Seq(Messages) /\ Len(more) <= 1 /\ sent' = sent \o more
      /\ sent' \in Seq(Messages) /\ (sent' = sent \/ sent' = Append(sent, current))
  <2>1. sent \o <<>> = sent /\ sent \o <<current>> = Append(sent, current)
        /\ Append(sent, current) \in Seq(Messages)
    BY <1>1, <1>8
  <2>2. <<current>> \in Seq(Messages) /\ Len(<<current>>) = 1 /\ <<>> \in Seq(Messages) /\ Len(<<>>) = 0
    BY <1>8
  <2>3. CASE Tail(wire) = <<>> /\ Owed(current)
    <3>1. more = <<current>> /\ sent' = Append(sent, current)
      BY <1>3, <2>3
    <3> HIDE DEF more
    <3> QED
      BY <2>1, <2>2, <3>1
  <2>4. CASE ~(Tail(wire) = <<>> /\ Owed(current))
    <3>1. more = <<>> /\ sent' = sent
      BY <1>3, <2>4
    <3> HIDE DEF more
    <3> QED
      BY <1>1, <2>1, <2>2, <3>1
  <2> QED
    BY <2>3, <2>4
<1> HIDE DEF b, more
<1>10. OnWay(Append(u, b), sent', Heard, Device, Gathered, Tail(wire), current, status)
  BY <1>6, <1>7, <1>9
<1>11. /\ queue' \in Queue /\ QueueLength(queue') = QueueLength(queue) + 1
       /\ Unparsed(queue', processed') = Append(u, b)
  BY <1>1, <1>3, <1>7, UnparsedGrows DEF u
<1>12. len' \in 0 .. QueueLength(queue')
  BY <1>1, <1>3, <1>11
<1>13. Heard' = Heard /\ Len(received) <= Len(sent')
  <2>1. Heard' = Heard
    BY <1>3, <1>9, HeardKept
  <2>2. Len(sent) <= Len(sent') /\ Len(received) <= Len(sent) /\ Len(received) \in Nat
    BY <1>1, <1>8, <1>9 DEF ReceptionInv
  <2> QED
    BY <1>1, <1>9, <2>1, <2>2
<1>14. OnWay(Unparsed(queue, processed)', sent', Heard', Device', Gathered', wire', current', status')
  BY <1>3, <1>4, <1>10, <1>11, <1>13
<1> QED
  BY <1>1, <1>3, <1>4, <1>8, <1>9, <1>11, <1>12, <1>13, <1>14 DEF ReceptionInv

\* A realtime byte is queued, wherever the message under way has got to.
LEMMA ReceptionRealtime ==
  ASSUME ReceptionInv, NEW m \in Messages, NewRealtime(m), "overrun" \notin Stimuli
  PROVE  /\ ReceptionInv'
         /\ Heard' = Heard /\ sent' = Append(sent, m)
<1> DEFINE u == Unparsed(queue, processed)
           b == m[1]
<1>1. /\ queue \in Queue /\ processed \in BOOLEAN /\ (processed => QueueLength(queue) > 0)
      /\ len \in 0 .. QueueLength(queue) /\ QueueLength(queue) \in Nat
      /\ sent \in Seq(Messages) /\ Heard \in Seq(Messages)
      /\ OnWay(u, sent, Heard, Device, Gathered, wire, current, status)
  BY ContentsSeq DEF ReceptionInv
<1>2. u \in Seq(Bytes)
  BY <1>1, UnparsedSeq
<1>3. /\ IsRealtime(b) /\ ~Full(queue) /\ queue' = Enqueue(queue, b) /\ wire' = wire
      /\ sent' = Append(sent, m)
      /\ len' = len /\ processed' = processed /\ current' = current /\ status' = status
      /\ receivedVars' = receivedVars /\ received' = received /\ spoilt' = spoilt
  BY DEF receivedVars, NewRealtime, HasRoom
<1>4. Device' = Device /\ Gathered' = Gathered
  BY DEF NewRealtime, parserVars, Device, Gathered
<1>5. /\ m \in Seq(Bytes) /\ m # <<>> /\ b \in Clock .. 255 /\ Len(m) = 1
  <2>1. m \in Seq(Bytes) /\ m # <<>> /\ IsMidi(m)
    BY MessagesAssumption
  <2>2. b >= 248
    BY <1>3 DEF IsRealtime, Clock
  <2> HIDE DEF b
  <2>3. b \notin {NoteOn, ProgChange} /\ b # SysexBegin /\ b # TuneRequest
    BY <2>2 DEF NoteOn, ProgChange, SysexBegin, TuneRequest
  <2> QED
    BY <2>1, <2>3 DEF IsMidi, IsSysex, b
<1>6. m = <<b>> /\ b \in Bytes
  BY <1>5
<1> HIDE DEF u, b
<1>7. Grows(u, sent, Heard, Device, Gathered, wire, current, status)
  BY <1>1, <1>2, WayAdded
<1>8. PICK p : /\ Prefix(p) /\ SenderAt(p, wire, current, status)
               /\ \A b1 \in Bytes, more1 \in Seq(Messages) : \A v, e, s :
                    (/\ Fits(b1, p) /\ Completed(b1, p) = more1 /\ Len(more1) <= 1
                     /\ SenderAt(After(b1, p), v, e, s))
                    => OnWay(Append(u, b1), sent \o more1, Heard, Device, Gathered, v, e, s)
  BY <1>7 DEF Grows
<1>9. Fits(b, p) /\ After(b, p) = p /\ Completed(b, p) = << <<b>> >>
  BY <1>5 DEF Fits, After, Completed
<1>10. /\ <<m>> \in Seq(Messages) /\ Len(<<m>>) = 1 /\ sent' = sent \o <<m>>
       /\ sent' \in Seq(Messages)
  BY <1>1, <1>3
<1>11. OnWay(Append(u, b), sent', Heard, Device, Gathered, wire, current, status)
  <2> DEFINE more == <<m>>
  <2>1. Completed(b, p) = more /\ SenderAt(After(b, p), wire, current, status)
    BY <1>6, <1>8, <1>9
  <2>2. more \in Seq(Messages) /\ Len(more) <= 1 /\ sent' = sent \o more
    BY <1>10
  <2> HIDE DEF more
  <2> QED
    BY <1>6, <1>8, <1>9, <2>1, <2>2
<1>12. /\ queue' \in Queue /\ QueueLength(queue') = QueueLength(queue) + 1
       /\ Unparsed(queue', processed') = Append(u, b)
  BY <1>1, <1>3, <1>6, UnparsedGrows DEF u
<1>13. len' \in 0 .. QueueLength(queue')
  BY <1>1, <1>3, <1>12
<1>14. Heard' = Heard /\ Len(received) <= Len(sent')
  <2>1. Heard' = Heard
    BY <1>3, HeardKept
  <2>2. Len(sent') = Len(sent) + 1 /\ Len(received) <= Len(sent) /\ Len(received) \in Nat
    BY <1>1, <1>3 DEF ReceptionInv
  <2> QED
    BY <1>1, <2>1, <2>2
<1>15. OnWay(Unparsed(queue, processed)', sent', Heard', Device', Gathered', wire', current', status')
  BY <1>3, <1>4, <1>11, <1>12, <1>14
<1> QED
  BY <1>1, <1>3, <1>4, <1>10, <1>12, <1>13, <1>14, <1>15 DEF ReceptionInv

\* A message begins, with or without its status byte, or cuts off another that is
\* not system exclusive.
LEMMA ReceptionBegin ==
  ASSUME ReceptionInv, NEW m \in Messages, NEW running \in BOOLEAN, Begin(m, running),
         "abort" \notin Stimuli
  PROVE  ReceptionInv' /\ Heard' = Heard /\ sent' = sent
<1> DEFINE u == Unparsed(queue, processed)
<1>1. /\ queue \in Queue /\ processed \in BOOLEAN /\ (processed => QueueLength(queue) > 0)
      /\ sent \in Seq(Messages) /\ Heard \in Seq(Messages)
      /\ OnWay(u, sent, Heard, Device, Gathered, wire, current, status)
  BY ContentsSeq DEF ReceptionInv
<1>2. u \in Seq(Bytes)
  BY <1>1, UnparsedSeq
<1>3. /\ ~IsRealtime(m[1]) /\ (wire # <<>> => ~running /\ ~IsSysex(current))
      /\ (running => status = m[1]) /\ wire' = (IF running THEN Tail(m) ELSE m)
      /\ current' = m /\ status' = StatusAfter(m) /\ queue' = queue /\ processed' = processed
      /\ len' = len /\ sent' = sent
      /\ receivedVars' = receivedVars /\ received' = received /\ spoilt' = spoilt
  BY DEF Begin, receivedVars
<1>4. Device' = Device /\ Gathered' = Gathered
  BY DEF Begin, parserVars, Device, Gathered
<1>5. m[1] \notin Clock .. 255 /\ m \in Seq(Bytes) /\ m # <<>>
  BY <1>3, MessagesAssumption DEF IsRealtime, Clock
<1> HIDE DEF u
<1>6. Grows(u, sent, Heard, Device, Gathered, wire, current, status)
  BY <1>1, <1>2, WayAdded
<1>7. PICK p : /\ Prefix(p) /\ SenderAt(p, wire, current, status)
               /\ \A v, e, s : SenderAt(p, v, e, s)
                    => OnWay(u, sent, Heard, Device, Gathered, v, e, s)
  BY <1>6 DEF Grows
<1>8. SenderAt(p, wire', m, StatusAfter(m))
  <2>1. CASE ~running
    <3>1. ~InSysex(p)
      <4>1. CASE wire = <<>>
        BY <1>7, <4>1 DEF SenderAt, InSysex, Voiced, NoteOn, ProgChange, SysexBegin
      <4>2. CASE wire # <<>>
        <5>1. current[1] # SysexBegin
          BY <1>3, <4>2 DEF IsSysex
        <5>2. p # <<>> => (p \o wire)[1] = p[1]
          <6>1. p \in Seq(Bytes) /\ wire \in Seq(Bytes)
            BY <1>7 DEF Prefix, SenderAt
          <6> QED
            BY <4>2, <6>1, Moved
        <5> QED
          BY <1>7, <4>2, <5>1, <5>2 DEF SenderAt, InSysex
      <4> QED
        BY <4>1, <4>2
    <3>2. wire' = m
      BY <1>3, <2>1
    <3> QED
      BY <1>5, <3>1, <3>2 DEF SenderAt
  <2>2. CASE running
    <3>1. wire = <<>> /\ status = m[1] /\ wire' = Tail(m)
      BY <1>3, <2>2
    <3>2. m[1] # 0
      BY <1>5, MessageKinds DEF Voiced, NoteOn, ProgChange, TuneRequest, SysexBegin
    <3>3. p = <<m[1]>> /\ p # <<>> /\ p[1] = m[1] /\ p[1] \in Voiced
      <4>1. p = <<m[1]>>
        BY <1>7, <3>1, <3>2 DEF SenderAt
      <4>2. p # <<>> /\ p[1] = m[1]
        BY <4>1
      <4> QED
        BY <1>7, <3>1, <4>1, <4>2 DEF SenderAt
    <3>4. p \o Tail(m) = m
      <4>1. <<>> \in Seq(Bytes) /\ Append(<<>>, Head(m)) = <<Head(m)>> /\ <<>> \o m = m
            /\ Head(m) = m[1]
        BY <1>5
      <4>2. Append(<<>>, Head(m)) \o Tail(m) = <<>> \o m
        BY <1>5, <4>1, Moved
      <4> QED
        BY <3>3, <4>1, <4>2
    <3>5. Tail(m) \in Seq(Bytes) /\ Tail(m) # <<>>
      <4>1. Len(m) = PacketLength(m[1])
        BY <1>5, <3>3, MessageKinds DEF Voiced, NoteOn, ProgChange, TuneRequest, SysexBegin
      <4>2. Len(m) # 1
        BY <3>3, <4>1, PacketKinds DEF Voiced
      <4>3. Tail(m) \in Seq(Bytes) /\ (Tail(m) = <<>> <=> Len(m) = 1)
        <5>1. <<>> \in Seq(Bytes)
          OBVIOUS
        <5> QED
          BY <1>5, <5>1, Moved
      <4> QED
        BY <4>2, <4>3
    <3> QED
      BY <1>5, <3>1, <3>3, <3>4, <3>5 DEF SenderAt
  <2> QED
    BY <2>1, <2>2
<1>9. OnWay(u, sent, Heard, Device, Gathered, wire', m, StatusAfter(m))
  BY <1>7, <1>8
<1>10. Heard' = Heard
  BY <1>3, HeardKept
<1>11. OnWay(Unparsed(queue, processed)', sent', Heard', Device', Gathered', wire', current', status')
  BY <1>3, <1>4, <1>9, <1>10 DEF u
<1> QED
  BY <1>3, <1>4, <1>10, <1>11 DEF ReceptionInv

\* Every step of reception is a step of the channel, or changes neither of its
\* variables.
LEMMA ReceptionKept ==
  ASSUME ReceptionInv, [Next]_vars, "overrun" \notin Stimuli, "abort" \notin Stimuli
  PROVE  ReceptionInv' /\ [Channel!Next]_(Channel!vars)
<1>1. CASE Process
  <2>1. sent' = sent /\ Heard' = Heard
    BY <1>1, HeardKept DEF Process, senderVars
  <2> QED
    BY <1>1, <2>1, ReceptionProcess DEF Channel!vars
<1>2. CASE ProcessByte
  <2>1. sent' = sent
    BY <1>2 DEF ProcessByte, senderVars
  <2> QED
    BY <1>2, <2>1, ReceptionParses DEF Channel!vars, Channel!Next, Channel!Receive
<1>3. CASE RemoveByte
  <2>1. sent' = sent /\ Heard' = Heard
    BY <1>3, HeardKept DEF RemoveByte, senderVars
  <2> QED
    BY <1>3, <2>1, ReceptionRemove DEF Channel!vars
<1>4. CASE NewData
  BY <1>4, ReceptionNewData DEF Channel!vars, Channel!Next, Channel!Send
<1>5. ASSUME NEW m \in Messages, NewRealtime(m)
      PROVE  ReceptionInv' /\ [Channel!Next]_(Channel!vars)
  BY <1>5, ReceptionRealtime DEF Channel!vars, Channel!Next, Channel!Send
<1>6. ASSUME NEW m \in Messages, NEW running \in BOOLEAN, Begin(m, running)
      PROVE  ReceptionInv' /\ [Channel!Next]_(Channel!vars)
  BY <1>6, ReceptionBegin DEF Channel!vars
<1>8. CASE BufferUsed
  <2>1. sent' = sent
    BY <1>8 DEF BufferUsed, senderVars
  <2> QED
    BY <1>8, <2>1, ReceptionUsed DEF Channel!vars
<1>7. CASE UNCHANGED vars
  <2>1. /\ Device' = Device /\ Gathered' = Gathered /\ received' = received /\ spoilt' = spoilt
        /\ receivedVars' = receivedVars
    BY <1>7 DEF vars, parserVars, receivedVars, Device, Gathered
  <2>2. sent' = sent /\ wire' = wire /\ current' = current /\ status' = status
    BY <1>7 DEF vars, senderVars
  <2>3. queue' = queue /\ len' = len /\ processed' = processed
    BY <1>7 DEF vars
  <2>4. Heard' = Heard
    BY <2>1, <2>2, HeardKept
  <2> QED
    BY <2>1, <2>2, <2>3, <2>4 DEF ReceptionInv, Channel!vars
<1> QED
  BY <1>1, <1>2, <1>3, <1>4, <1>5, <1>6, <1>7, <1>8 DEF Next, Timer, Uart, Sender

LEMMA ReceptionAlways ==
  ASSUME "overrun" \notin Stimuli, "abort" \notin Stimuli
  PROVE  Spec => []ReceptionInv
<1>1. Init => ReceptionInv
  BY ReceptionBegins
<1>2. ReceptionInv /\ [Next]_vars => ReceptionInv'
  BY ReceptionKept
<1> QED
  BY <1>1, <1>2, PTL DEF Spec

\* The state of the parser stays within its arrays and counts (midi_device.c and
\* the gathering of common/midi.c), and nothing is delivered that was not sent,
\* for any messages of MIDI and any lengths of the queue and of system exclusive
\* messages, when the queue does not run over and no system exclusive message is
\* cut off.
THEOREM MidiInTypeOK ==
  ASSUME "overrun" \notin Stimuli, "abort" \notin Stimuli
  PROVE  Spec => []TypeOK
<1>1. ReceptionInv => TypeOK
  <2> SUFFICES ASSUME ReceptionInv PROVE TypeOK
    OBVIOUS
  <2>1. /\ input_state \in {"idle", "two", "three", "sysex"}
        /\ input_buffer \in [0 .. 2 -> Bytes] /\ input_count \in 0 .. MaxSysex + 2
    BY DEF ReceptionInv, Device, Devices
  <2>2. /\ sysexSize \in 0 .. MaxSysex /\ tempBuffer \in [0 .. MaxSysex - 1 -> Bytes]
    BY DEF ReceptionInv, Gathered, Gathering
  <2>3. Len(received) <= Len(sent) /\ spoilt \subseteq 1 .. Len(received) /\ used \in BOOLEAN
    BY DEF ReceptionInv, Gathered, Gathering
  <2> QED
    BY <2>1, <2>2, <2>3 DEF ReceptionInv, TypeOK
<1> QED
  BY <1>1, ReceptionAlways, PTL

\* Reception implements the channel step by step: whatever the UART interrupt
\* queues between two steps of the timer interrupt, running status, realtime
\* bytes inside a message and messages cut off included, the messages sent are
\* delivered once each and in order; and they are unchanged, but for what is in a system
\* exclusive one whose buffer was used for something else while it came.
THEOREM MidiInImplementsChannel ==
  ASSUME "overrun" \notin Stimuli, "abort" \notin Stimuli
  PROVE  Spec => Channel!Init /\ [][Channel!Next]_(Channel!vars)
<1>1. Init => Channel!Init
  BY DEF Init, Channel!Init, Heard
<1>2. ReceptionInv /\ [Next]_vars => [Channel!Next]_(Channel!vars)
  BY ReceptionKept
<1> QED
  BY <1>1, <1>2, ReceptionAlways, PTL DEF Spec

-----------------------------------------------------------------------------
(* What holds whatever is lost on the way or cut off.                       *)

\* All bytes of messages; those that may get into the buffer behind a status byte.
Spoken == DataBytes \cup {NoteOn, ProgChange, TuneRequest, SysexBegin, SysexEnd} \cup Clock .. 255
Kept   == DataBytes \cup {SysexEnd}

\* The count of a message that never ends has no bound.
Parsers == [state : {"idle", "two", "three", "sysex"}, buffer : [0 .. 2 -> Bytes], count : Nat]

\* What the buffer may hold: a system exclusive message that was cut off leaves its own bytes,
\* but never the status byte of the message that cut it off.
Sane(d) ==
  /\ d \in Parsers
  /\ d.buffer[1] \in Kept /\ d.buffer[2] \in Kept
  /\ d.state = "sysex" => d.buffer[0] \in Kept \cup {SysexBegin}
  /\ d.state = "two" => d.buffer[0] # NoteOn
  /\ d.state = "three" /\ d.buffer[0] = NoteOn =>
       d.count \in {1, 2} /\ (d.count = 2 => d.buffer[1] \in DataBytes)

Gatherings == [size : 0 .. MaxSysex, buffer : [0 .. MaxSysex - 1 -> Bytes], used : BOOLEAN,
               out : Seq(Seq(Nat)), spoils : BOOLEAN]

GathersMidi(g) ==
  /\ g \in Gatherings
  /\ g.used \/ \A i \in 0 .. MaxSysex - 1 : g.buffer[i] \in DataBytes
  /\ \/ g.out = <<>> /\ g.spoils = FALSE
     \/ Len(g.out) = 1 /\ (g.spoils \/ IsMidi(g.out[1]))

LEMMA SpokenBytes ==
  ASSUME NEW m \in Messages
  PROVE  m \in Seq(Bytes) /\ m # <<>> /\ \A i \in 1 .. Len(m) : m[i] \in Spoken
<1>1. m \in Seq(Bytes) /\ m # <<>> /\ Len(m) \in Nat \ {0} /\ IsMidi(m)
  BY MessagesAssumption
<1>2. ASSUME NEW i \in 1 .. Len(m) PROVE m[i] \in Spoken
  <2>1. CASE i = 1
    BY <1>1, <2>1 DEF IsMidi, IsSysex, Spoken
  <2>2. CASE i # 1
    <3>1. i \in 2 .. Len(m) /\ (i # Len(m) => i \in 2 .. Len(m) - 1)
      BY <1>1, <2>2
    <3> QED
      BY <1>1, <3>1 DEF IsMidi, Spoken
  <2> QED
    BY <2>1, <2>2
<1> QED
  BY <1>1, <1>2

\* sysexReceiveByte stores inside the buffer and gives only system exclusive messages
\* that fit it.
LEMMA ByteGathered ==
  ASSUME NEW g, GathersMidi(g), NEW b \in Kept \cup {SysexBegin}, b \in Bytes
  PROVE  GathersMidi(SysexByte(g, b))
<1>1. g \in Gatherings /\ g.size \in 0 .. MaxSysex /\ g.size \in Nat /\ MaxSysex \in Nat \ {0}
  BY BoundsAssumption DEF GathersMidi, Gatherings
<1>2. CASE b = SysexBegin
  <2> DEFINE zeros == [i \in DOMAIN g.buffer |-> 0]
  <2>1. SysexByte(g, b) = [g EXCEPT !.size = 0, !.buffer = zeros, !.used = FALSE]
    BY <1>2 DEF SysexByte, SysexBegin, SysexEnd
  <2>2. zeros \in [0 .. MaxSysex - 1 -> Bytes]
    BY <1>1, BytesAssumption DEF Gatherings
  <2>3. \A i \in 0 .. MaxSysex - 1 : zeros[i] \in DataBytes
    <3>1. 0 \in DataBytes
      BY DEF DataBytes
    <3>2. DOMAIN g.buffer = 0 .. MaxSysex - 1
      BY <1>1 DEF Gatherings
    <3> QED
      BY <3>1, <3>2
  <2> HIDE DEF zeros
  <2>4. 0 \in 0 .. MaxSysex
    BY <1>1
  <2>5. /\ SysexByte(g, b) \in Gatherings /\ SysexByte(g, b).buffer = zeros
        /\ SysexByte(g, b).out = g.out /\ SysexByte(g, b).spoils = g.spoils
    BY <1>1, <2>1, <2>2, <2>4 DEF Gatherings
  <2> QED
    BY <2>3, <2>5 DEF GathersMidi
<1>3. CASE b = SysexEnd
  <2> DEFINE n == g.size
             data == [i \in 1 .. n |-> g.buffer[i - 1]]
  <2>1. SysexByte(g, b) = [g EXCEPT !.size = 0, !.spoils = g.used,
                                    !.out = <<(<<SysexBegin>> \o data) \o <<SysexEnd>>>>]
    BY <1>3 DEF SysexByte, SysexBegin, SysexEnd
  <2>2. /\ data \in Seq(Bytes) /\ Len(data) = n
        /\ g.used \/ \A i \in 1 .. n : data[i] \in DataBytes
    <3>1. \A i \in 1 .. n : i - 1 \in 0 .. MaxSysex - 1
      BY <1>1
    <3>2. \A i \in 1 .. n : g.buffer[i - 1] \in Bytes
      BY <1>1, <3>1 DEF Gatherings
    <3>3. g.used \/ \A i \in 1 .. n : g.buffer[i - 1] \in DataBytes
      BY <3>1 DEF GathersMidi
    <3> QED
      BY <1>1, <3>2, <3>3
  <2>3. n \in Nat /\ n <= MaxSysex
    BY <1>1
  <2> HIDE DEF data, n
  <2> DEFINE whole == (<<SysexBegin>> \o data) \o <<SysexEnd>>
  <2>4. /\ whole \in Seq(Nat) /\ Len(whole) = n + 2
        /\ whole[1] = SysexBegin /\ whole[n + 2] = SysexEnd
        /\ \A i \in 2 .. n + 1 : whole[i] = data[i - 1]
    <3>1. data \in Seq(Nat) /\ SysexBegin \in Nat /\ SysexEnd \in Nat
      <4>1. \A i \in 1 .. Len(data) : data[i] \in Nat
        <5>1. \A i \in 1 .. Len(data) : data[i] \in Bytes
          BY <2>2, ElementOfSeq
        <5>2. Bytes \subseteq Nat
          BY BytesAssumption
        <5> QED
          BY <5>1, <5>2
      <4> QED
        BY <2>2, <4>1, SeqDef, SMTT(30) DEF SysexBegin, SysexEnd
    <3> QED
      BY <2>2, <2>3, <3>1
  <2> HIDE DEF whole
  <2>5. ASSUME g.used = FALSE PROVE IsMidi(whole)
    <3>1. \A i \in 2 .. Len(whole) - 1 : whole[i] \in DataBytes
      <4>1. \A i \in 2 .. n + 1 : i - 1 \in 1 .. n
        BY <2>3
      <4>2. \A i \in 1 .. n : data[i] \in DataBytes
        BY <2>2, <2>5
      <4>3. Len(whole) - 1 = n + 1
        BY <2>3, <2>4
      <4>4. \A i \in 2 .. n + 1 : whole[i] \in DataBytes
        BY <2>4, <4>1, <4>2
      <4> QED
        BY <4>3, <4>4
    <3>2. Len(whole) \in 2 .. MaxSysex + 2 /\ whole[Len(whole)] = SysexEnd
      BY <1>1, <2>3, <2>4
    <3> QED
      BY <2>4, <3>1, <3>2 DEF IsMidi, IsSysex
  <2>6. <<whole>> \in Seq(Seq(Nat)) /\ Len(<<whole>>) = 1 /\ <<whole>>[1] = whole
    BY <2>4
  <2>7. SysexByte(g, b) = [g EXCEPT !.size = 0, !.spoils = g.used, !.out = <<whole>>]
    BY <2>1 DEF whole
  <2>8. 0 \in 0 .. MaxSysex
    BY <1>1
  <2> DEFINE o == <<whole>>
  <2> HIDE DEF o
  <2>9. /\ SysexByte(g, b) \in Gatherings /\ SysexByte(g, b).buffer = g.buffer
        /\ SysexByte(g, b).used = g.used /\ SysexByte(g, b).spoils = g.used
        /\ SysexByte(g, b).out = o /\ g.used \in BOOLEAN
    BY <1>1, <2>6, <2>7, <2>8 DEF Gatherings, o
  <2> QED
    BY <2>5, <2>6, <2>9 DEF GathersMidi, o
<1>4. CASE b \notin {SysexBegin, SysexEnd}
  <2> DEFINE size == IF g.size >= MaxSysex THEN 0 ELSE g.size
             f == [g.buffer EXCEPT ![size] = b]
  <2>1. SysexByte(g, b) = [g EXCEPT !.size = size + 1, !.buffer = f]
    BY <1>4 DEF SysexByte
  <2>2. size \in 0 .. MaxSysex - 1 /\ size + 1 \in 0 .. MaxSysex
    BY <1>1
  <2>3. b \in DataBytes
    BY <1>4 DEF Kept
  <2> HIDE DEF size
  <2>4. /\ f \in [0 .. MaxSysex - 1 -> Bytes]
        /\ g.used \/ \A i \in 0 .. MaxSysex - 1 : f[i] \in DataBytes
    BY <2>2, <2>3 DEF GathersMidi, Gatherings
  <2> HIDE DEF f
  <2>5. /\ SysexByte(g, b) \in Gatherings /\ SysexByte(g, b).buffer = f
        /\ SysexByte(g, b).out = g.out /\ SysexByte(g, b).spoils = g.spoils
        /\ SysexByte(g, b).used = g.used
    BY <1>1, <2>1, <2>2, <2>4 DEF Gatherings
  <2> QED
    BY <2>4, <2>5 DEF GathersMidi
<1> QED
  BY <1>2, <1>3, <1>4

\* Stale counts may make any number of the three bytes of a call new.
LEMMA EventGathered ==
  ASSUME GathersMidi(Gathered), NEW call,
         \A i \in 1 .. 3 : call.bytes[i] \in (Kept \cup {SysexBegin}) \cap Bytes
  PROVE  GathersMidi(SysexEvent(call))
<1> DEFINE taken(g, n) == IF NewBytes(call) >= n THEN SysexByte(g, call.bytes[n]) ELSE g
<1>1. ASSUME NEW g, GathersMidi(g), NEW n \in 1 .. 3 PROVE GathersMidi(taken(g, n))
  BY <1>1, ByteGathered
<1>2. SysexEvent(call) = taken(taken(taken(Gathered, 1), 2), 3)
  BY DEF SysexEvent
<1> HIDE DEF taken
<1>3. GathersMidi(taken(Gathered, 1))
  BY <1>1
<1>4. GathersMidi(taken(taken(Gathered, 1), 2))
  BY <1>1, <1>3
<1> QED
  BY <1>1, <1>2, <1>4

\* A byte is parsed safely: the device stays sane, what goes to the gathering may be
\* gathered, and what else is delivered is MIDI.
Safely(r) ==
  /\ Sane(r.dev)
  /\ r.call.state = "sysex" =>
       \A i \in 1 .. 3 : r.call.bytes[i] \in (Kept \cup {SysexBegin}) \cap Bytes
  /\ r.call.state # "sysex" =>
       \/ Delivered(r.call) = <<>>
       \/ \E m \in Seq(Nat) : Delivered(r.call) = <<m>> /\ IsMidi(m)

LEMMA StoredSafe ==
  ASSUME NEW d \in Parsers, NEW b \in Bytes
  PROVE  /\ Stored(d, b) \in Parsers /\ Stored(d, b).state = d.state
         /\ Stored(d, b).count = d.count + 1
         /\ Stored(d, b).buffer = [d.buffer EXCEPT ![d.count % 3] = b]
         /\ \A j \in 0 .. 2 : Stored(d, b).buffer[j] = IF j = d.count % 3 THEN b ELSE d.buffer[j]
<1> DEFINE f == [d.buffer EXCEPT ![d.count % 3] = b]
<1>1. d.count \in Nat /\ d.count + 1 \in Nat /\ d.count % 3 \in 0 .. 2
  BY DEF Parsers
<1>2. f \in [0 .. 2 -> Bytes] /\ \A j \in 0 .. 2 : f[j] = IF j = d.count % 3 THEN b ELSE d.buffer[j]
  BY <1>1 DEF Parsers
<1>3. Stored(d, b) = [d EXCEPT !.buffer = f, !.count = d.count + 1]
  BY DEF Stored
<1> HIDE DEF f
<1>4. /\ Stored(d, b).state = d.state /\ Stored(d, b).count = d.count + 1 /\ Stored(d, b).buffer = f
      /\ Stored(d, b) \in Parsers
  BY <1>1, <1>2, <1>3 DEF Parsers
<1> QED
  BY <1>2, <1>4 DEF f

LEMMA NothingDelivered ==
  /\ NoCall.state # "sysex" /\ Delivered(NoCall) = <<>>
  /\ \A call : /\ call.count \in Nat
               /\ ~(call.count = 3 /\ call.bytes[1] = NoteOn)
               /\ ~(call.count = 2 /\ call.bytes[1] = ProgChange)
               /\ ~(call.count = 1 /\ IsRealtime(call.bytes[1]))
               => Delivered(call) = <<>>
BY DEF NoCall, Delivered

LEMMA RealtimeSafe ==
  ASSUME NEW d, Sane(d), NEW b \in Clock .. 255
  PROVE  Safely(Realtime(d, b))
<1> DEFINE call == [state |-> "one", count |-> 1, bytes |-> <<b, 0, 0>>]
<1>1. Realtime(d, b).dev = d /\ Realtime(d, b).call = call
  BY DEF Realtime
<1>2. SubSeq(<<b, 0, 0>>, 1, 1) = <<b>> /\ IsRealtime(b) /\ b \in Nat
  <2>1. b \in Nat /\ 0 \in Nat /\ IsRealtime(b)
    BY DEF Clock, IsRealtime
  <2> QED
    BY <2>1, FirstOf
<1>3. Delivered(call) = <<<<b>>>>
  BY <1>2 DEF Delivered
<1>4. IsMidi(<<b>>) /\ <<b>> \in Seq(Nat)
  BY <1>2 DEF IsMidi
<1>5. call.state # "sysex"
  OBVIOUS
<1> HIDE DEF call
<1>6. \E m \in Seq(Nat) : Delivered(call) = <<m>> /\ IsMidi(m)
  BY <1>3, <1>4
<1> QED
  BY <1>1, <1>5, <1>6 DEF Safely

\* A status byte outside system exclusive messages.
LEMMA Restarted ==
  ASSUME NEW d \in Parsers, NEW b \in Bytes
  PROVE  LET e == [d EXCEPT !.buffer = [@ EXCEPT ![0] = b], !.count = 1] IN
         /\ e \in Parsers /\ e.state = d.state /\ e.count = 1
         /\ e.buffer[0] = b /\ e.buffer[1] = d.buffer[1] /\ e.buffer[2] = d.buffer[2]
<1> DEFINE f == [d.buffer EXCEPT ![0] = b]
           e == [d EXCEPT !.buffer = f, !.count = 1]
<1>1. f \in [0 .. 2 -> Bytes] /\ f[0] = b /\ f[1] = d.buffer[1] /\ f[2] = d.buffer[2]
  BY DEF Parsers
<1> HIDE DEF f
<1>2. e \in Parsers /\ e.state = d.state /\ e.count = 1 /\ e.buffer = f
  BY <1>1 DEF Parsers
<1> QED
  BY <1>1, <1>2 DEF f

LEMMA StatusSafe ==
  ASSUME NEW d, Sane(d), NEW b \in {NoteOn, ProgChange, TuneRequest}, b \in Bytes
  PROVE  Safely(Status(d, b))
<1> DEFINE kind == IF b = TuneRequest THEN "idle" ELSE IF b = ProgChange THEN "two" ELSE "three"
           begun == IF d.state = "sysex" THEN d
                    ELSE [d EXCEPT !.buffer = [@ EXCEPT ![0] = b], !.count = 1]
           e == [begun EXCEPT !.state = kind]
<1>0. d \in Parsers
  BY DEF Sane
<1>1. Status(d, b) = [dev |-> e, call |-> NoCall]
  <2>1. CASE b = TuneRequest
    BY <2>1, PacketKinds DEF Status
  <2>2. CASE b = ProgChange
    BY <2>2, PacketKinds DEF Status, ProgChange, TuneRequest
  <2>3. CASE b = NoteOn
    BY <2>3, PacketKinds DEF Status, ProgChange, TuneRequest, NoteOn
  <2> QED
    BY <2>1, <2>2, <2>3
<1>2. kind \in {"idle", "two", "three"} /\ (kind = "two" => b = ProgChange)
      /\ (kind = "three" => b = NoteOn)
  OBVIOUS
<1> HIDE DEF kind
<1>3. /\ begun \in Parsers /\ begun.buffer[1] = d.buffer[1] /\ begun.buffer[2] = d.buffer[2]
      /\ d.state = "sysex" => begun = d
      /\ d.state # "sysex" => begun.buffer[0] = b /\ begun.count = 1
  <2>1. CASE d.state = "sysex"
    BY <1>0, <2>1
  <2>2. CASE d.state # "sysex"
    BY <1>0, <2>2, Restarted
  <2> QED
    BY <2>1, <2>2
<1> HIDE DEF begun
<1>4. e \in Parsers /\ e.state = kind /\ e.buffer = begun.buffer /\ e.count = begun.count
  BY <1>2, <1>3 DEF Parsers
<1> HIDE DEF e
<1>5. NoteOn \notin Kept \cup {SysexBegin} /\ NoteOn # ProgChange
  BY DEF Kept, DataBytes, NoteOn, SysexBegin, SysexEnd, ProgChange
<1>6. Sane(e)
  BY <1>2, <1>3, <1>4, <1>5 DEF Sane
<1> QED
  BY <1>1, <1>6, NothingDelivered DEF Safely

LEMMA BeginSafe ==
  ASSUME NEW d, Sane(d), SysexBegin \in Bytes
  PROVE  Safely(Status(d, SysexBegin))
<1> DEFINE f == [d.buffer EXCEPT ![0] = SysexBegin]
           e == [state |-> "sysex", buffer |-> f, count |-> 1]
<1>1. Status(d, SysexBegin) = [dev |-> e, call |-> NoCall]
  BY PacketKinds, SysexBegin # SysexEnd DEF Status, SysexBegin, SysexEnd
<1>2. f \in [0 .. 2 -> Bytes] /\ f[0] = SysexBegin /\ f[1] = d.buffer[1] /\ f[2] = d.buffer[2]
  BY DEF Sane, Parsers
<1> HIDE DEF f
<1>3. e \in Parsers /\ e.state = "sysex" /\ e.buffer = f
  BY <1>2 DEF Parsers
<1> HIDE DEF e
<1>4. Sane(e)
  BY <1>2, <1>3 DEF Sane
<1> QED
  BY <1>1, <1>4, NothingDelivered DEF Safely

\* An end without a beginning gives two bytes and delivers nothing.
LEMMA EndSafe ==
  ASSUME NEW d, Sane(d), SysexEnd \in Bytes
  PROVE  Safely(Status(d, SysexEnd))
<1> DEFINE begun == IF d.state = "sysex" THEN d
                    ELSE [d EXCEPT !.buffer = [@ EXCEPT ![0] = SysexEnd], !.count = 1]
           ended == Stored(begun, SysexEnd)
           e == [ended EXCEPT !.state = "idle"]
           call == CallOf(ended, 3)
<1>0. d \in Parsers
  BY DEF Sane
<1>1. Status(d, SysexEnd) = [dev |-> e, call |-> call]
  BY PacketKinds DEF Status, SysexBegin, SysexEnd
<1>2. /\ begun \in Parsers /\ begun.buffer[1] = d.buffer[1] /\ begun.buffer[2] = d.buffer[2]
      /\ begun.state = d.state
      /\ d.state = "sysex" => begun = d
      /\ d.state # "sysex" => begun.buffer[0] = SysexEnd /\ begun.count = 1
  <2>1. CASE d.state = "sysex"
    BY <1>0, <2>1
  <2>2. CASE d.state # "sysex"
    BY <1>0, <2>2, Restarted
  <2> QED
    BY <2>1, <2>2
<1> HIDE DEF begun
<1>3. /\ ended \in Parsers /\ ended.state = begun.state /\ ended.count = begun.count + 1
      /\ \A j \in 0 .. 2 : ended.buffer[j] = IF j = begun.count % 3 THEN SysexEnd ELSE begun.buffer[j]
  BY <1>2, StoredSafe
<1> HIDE DEF ended
<1>4. e \in Parsers /\ e.state = "idle" /\ e.buffer = ended.buffer
  BY <1>3 DEF Parsers
<1> HIDE DEF e
<1>5. /\ call.state = d.state /\ call.count = ended.count
      /\ call.bytes[1] = ended.buffer[0] /\ call.bytes[2] = ended.buffer[1]
      /\ call.bytes[3] = ended.buffer[2]
  BY <1>2, <1>3 DEF CallOf
<1> HIDE DEF call
<1>6. SysexEnd \in Kept
  BY DEF Kept
<1>7. ended.buffer[1] \in Kept /\ ended.buffer[2] \in Kept
  BY <1>2, <1>3, <1>6 DEF Sane
<1>8. Sane(e)
  BY <1>4, <1>7 DEF Sane
<1>9. ASSUME d.state = "sysex"
      PROVE  \A i \in 1 .. 3 : call.bytes[i] \in (Kept \cup {SysexBegin}) \cap Bytes
  <2>1. ended.buffer[0] \in Kept \cup {SysexBegin}
    BY <1>2, <1>3, <1>6, <1>9 DEF Sane
  <2>2. \A j \in 0 .. 2 : ended.buffer[j] \in Bytes
    BY <1>3 DEF Parsers
  <2> QED
    BY <1>5, <1>7, <2>1, <2>2
<1>10. ASSUME d.state # "sysex" PROVE Delivered(call) = <<>>
  <2>1. call.count = 2 /\ call.bytes[1] = SysexEnd
    <3>1. begun.count = 1 /\ begun.count % 3 = 1
      BY <1>2, <1>10
    <3> QED
      BY <1>2, <1>3, <1>5, <1>10, <3>1
  <2>2. SysexEnd # ProgChange
    BY DEF SysexEnd, ProgChange
  <2> QED
    BY <2>1, <2>2, NothingDelivered
<1> QED
  BY <1>1, <1>5, <1>8, <1>9, <1>10 DEF Safely

LEMMA DataSafe ==
  ASSUME NEW d, Sane(d), NEW b \in DataBytes, b \in Bytes
  PROVE  Safely(Data(d, b))
<1> DEFINE stored == Stored(d, b)
           r == d.count % 3
           complete == r = 2 \/ (r = 1 /\ d.state = "two")
           again == [stored EXCEPT !.count = RunningCount]
           call == CallOf(stored, r + 1)
<1>1. d \in Parsers /\ d.count \in Nat /\ r \in 0 .. 2
  BY DEF Sane, Parsers
<1>2. /\ stored \in Parsers /\ stored.state = d.state /\ stored.count = d.count + 1
      /\ \A j \in 0 .. 2 : stored.buffer[j] = IF j = r THEN b ELSE d.buffer[j]
  BY <1>1, StoredSafe
<1>3. b \in Kept /\ b # NoteOn
  BY DEF Kept, DataBytes, NoteOn
<1>4. CASE d.state = "idle"
  BY <1>4, NothingDelivered DEF Data, Safely
<1>5. CASE d.state # "idle" /\ ~complete
  <2>1. Data(d, b) = [dev |-> stored, call |-> NoCall]
    BY <1>5 DEF Data
  <2> HIDE DEF stored
  <2>2. Sane(stored)
    <3>1. stored.buffer[1] \in Kept /\ stored.buffer[2] \in Kept
      BY <1>1, <1>2, <1>3 DEF Sane
    <3>2. d.state = "sysex" => stored.buffer[0] \in Kept \cup {SysexBegin}
      BY <1>1, <1>2, <1>3 DEF Sane
    <3>3. d.state = "two" => stored.buffer[0] # NoteOn
      BY <1>1, <1>2, <1>3 DEF Sane
    <3>4. d.state = "three" /\ stored.buffer[0] = NoteOn =>
            stored.count \in {1, 2} /\ (stored.count = 2 => stored.buffer[1] \in DataBytes)
      <4> SUFFICES ASSUME d.state = "three", stored.buffer[0] = NoteOn
                   PROVE  stored.count = 2 /\ stored.buffer[1] \in DataBytes
        OBVIOUS
      <4>1. r # 0 /\ d.buffer[0] = NoteOn
        BY <1>1, <1>2, <1>3
      <4>2. d.count \in {1, 2} /\ r # 2
        BY <1>5, <4>1 DEF Sane
      <4>3. d.count = 1 /\ r = 1
        BY <4>2
      <4> QED
        BY <1>2, <4>3
    <3> QED
      BY <1>2, <3>1, <3>2, <3>3, <3>4 DEF Sane
  <2> QED
    BY <2>1, <2>2, NothingDelivered DEF Safely
<1>6. CASE d.state # "idle" /\ complete
  <2> DEFINE e == IF d.state = "sysex" THEN stored ELSE again
  <2>1. Data(d, b) = [dev |-> e, call |-> call]
    BY <1>6 DEF Data
  <2> HIDE DEF stored
  <2>2. /\ again \in Parsers /\ again.state = d.state /\ again.buffer = stored.buffer
        /\ again.count = 1
    BY <1>2 DEF Parsers, RunningCount
  <2>3. /\ e \in Parsers /\ e.state = d.state /\ e.buffer = stored.buffer
        /\ d.state # "sysex" => e.count = 1
    BY <1>2, <2>2
  <2> HIDE DEF e, again
  <2>4. /\ call.state = d.state /\ call.count = d.count + 1
        /\ call.bytes = <<stored.buffer[0], stored.buffer[1],
                          IF r + 1 = 2 THEN 0 ELSE stored.buffer[2]>>
    BY <1>2 DEF CallOf
  <2> HIDE DEF call
  <2>5. stored.buffer[1] \in Kept /\ stored.buffer[2] \in Kept
    BY <1>1, <1>2, <1>3 DEF Sane
  <2>6. Sane(e)
    <3>1. d.state \in {"sysex", "two"} => (d.state = "sysex" => e.buffer[0] \in Kept \cup {SysexBegin})
                                        /\ (d.state = "two" => e.buffer[0] # NoteOn)
      BY <1>1, <1>2, <1>3, <2>3 DEF Sane
    <3> QED
      BY <2>3, <2>5, <3>1 DEF Sane
  <2>7. ASSUME d.state = "sysex"
        PROVE  \A i \in 1 .. 3 : call.bytes[i] \in (Kept \cup {SysexBegin}) \cap Bytes
    <3>1. stored.buffer[0] \in Kept \cup {SysexBegin}
      BY <1>1, <1>2, <1>3, <2>7 DEF Sane
    <3>2. \A j \in 0 .. 2 : stored.buffer[j] \in Bytes
      BY <1>2 DEF Parsers
    <3>3. 0 \in Kept /\ 0 \in Bytes
      BY BytesAssumption DEF Kept, DataBytes
    <3> QED
      BY <2>4, <2>5, <3>1, <3>2, <3>3
  <2>8. ASSUME d.state # "sysex"
        PROVE  \/ Delivered(call) = <<>>
               \/ \E m \in Seq(Nat) : Delivered(call) = <<m>> /\ IsMidi(m)
    <3>0. call.bytes[1] = stored.buffer[0]
      BY <2>4
    <3>1. CASE call.count = 3 /\ call.bytes[1] = NoteOn
      <4>1. d.count = 2 /\ r = 2 /\ d.buffer[0] = NoteOn
        <5>1. d.count = 2
          BY <1>1, <2>4, <3>1
        <5>2. r = 2
          BY <5>1
        <5>3. stored.buffer[0] = d.buffer[0]
          BY <1>2, <5>2
        <5> QED
          BY <3>0, <3>1, <5>1, <5>2, <5>3
      <4>2. d.state = "three"
        BY <1>1, <1>6, <2>8, <4>1 DEF Sane, Parsers
      <4>3. d.buffer[1] \in DataBytes
        BY <4>1, <4>2 DEF Sane
      <4> DEFINE x == d.buffer[1]
                 m == <<NoteOn, x, b>>
      <4>4. call.bytes = m
        BY <1>2, <2>4, <4>1
      <4> HIDE DEF x
      <4>5. IsMidi(m) /\ m \in Seq(Nat)
        <5>1. DataBytes \subseteq Nat /\ NoteOn \in Nat
          BY DEF DataBytes, NoteOn
        <5>0. x \in DataBytes
          BY <4>3 DEF x
        <5>4. x \in Nat /\ b \in Nat
          BY <5>0, <5>1
        <5>2. /\ m \in Seq(Nat) /\ Len(m) = 3 /\ m[1] = NoteOn
              /\ m[2] = x /\ m[3] = b /\ x \in DataBytes
          BY <5>0, <5>1, <5>4
        <5> HIDE DEF m
        <5> QED
          BY <5>2, PacketKinds DEF IsMidi
      <4>6. Delivered(call) = <<call.bytes>>
        BY <3>1 DEF Delivered
      <4> QED
        BY <4>4, <4>5, <4>6
    <3>2. CASE call.count = 2 /\ call.bytes[1] = ProgChange
      <4>1. d.count = 1 /\ r = 1 /\ d.buffer[0] = ProgChange
        <5>1. d.count = 1 /\ r = 1
          BY <1>1, <2>4, <3>2
        <5>2. stored.buffer[0] = d.buffer[0]
          BY <1>2, <5>1
        <5> QED
          BY <3>0, <3>2, <5>1, <5>2
      <4> DEFINE w == <<ProgChange, b, 0>>
                 m == <<ProgChange, b>>
      <4>4. call.bytes = w
        BY <1>2, <2>4, <4>1
      <4>5. IsMidi(m) /\ m \in Seq(Nat) /\ SubSeq(w, 1, 2) = m
        <5>1. b \in Nat /\ ProgChange \in Nat /\ 0 \in Nat
          BY DEF DataBytes, ProgChange
        <5>2. m \in Seq(Nat) /\ Len(m) = 2 /\ m[1] = ProgChange /\ m[2] \in DataBytes
          BY <5>1
        <5>3. SubSeq(w, 1, 2) = m
          BY <5>1, FirstOf
        <5> HIDE DEF m
        <5> QED
          BY <5>2, <5>3, PacketKinds DEF IsMidi
      <4>6. Delivered(call) = <<SubSeq(call.bytes, 1, 2)>>
        BY <3>2 DEF Delivered
      <4> QED
        BY <4>4, <4>5, <4>6
    <3>3. CASE call.count = 1 /\ IsRealtime(call.bytes[1])
      BY <1>1, <1>6, <2>4, <3>3
    <3>4. call.count \in Nat
      BY <1>1, <2>4
    <3> QED
      BY <3>1, <3>2, <3>3, <3>4, NothingDelivered
  <2> QED
    BY <2>1, <2>4, <2>6, <2>7, <2>8 DEF Safely
<1> QED
  BY <1>4, <1>5, <1>6

LEMMA ParsedSafe ==
  ASSUME NEW d, Sane(d), NEW b \in Spoken, b \in Bytes
  PROVE  Safely(Parsed(d, b))
<1>1. CASE b \in Clock .. 255
  <2>1. IsRealtime(b)
    BY <1>1 DEF IsRealtime, Clock
  <2> QED
    BY <1>1, <2>1, RealtimeSafe DEF Parsed
<1>2. CASE b \in DataBytes
  BY <1>2, DataSafe, DataIsNoStatus DEF Parsed
<1>3. CASE b \in {NoteOn, ProgChange, TuneRequest, SysexBegin, SysexEnd}
  <2>1. ~IsRealtime(b) /\ IsStatus(b)
    BY <1>3 DEF IsRealtime, IsStatus, Clock, NoteOn, ProgChange, TuneRequest, SysexBegin, SysexEnd
  <2> QED
    BY <1>3, <2>1, StatusSafe, BeginSafe, EndSafe DEF Parsed
<1> QED
  BY <1>1, <1>2, <1>3 DEF Spoken

\* The queue may drop the byte.
LEMMA EnqueueSafe ==
  ASSUME NEW q \in Queue, NEW b \in Bytes, b \in Spoken,
         \A i \in Slots : q.data[i] \in Spoken
  PROVE  /\ Enqueue(q, b) \in Queue /\ QueueLength(q) <= QueueLength(Enqueue(q, b))
         /\ \A i \in Slots : Enqueue(q, b).data[i] \in Spoken
<1>1. QueueLength(q) \in Nat
  BY ContentsSeq
<1>2. CASE Full(q)
  BY <1>1, <1>2 DEF Enqueue
<1>3. CASE ~Full(q)
  <2>1. q.data \in [Slots -> Bytes] /\ q.end \in Slots
    BY DEF Queue
  <2>2. /\ Enqueue(q, b) \in Queue /\ QueueLength(Enqueue(q, b)) = QueueLength(q) + 1
        /\ Enqueue(q, b).data = [q.data EXCEPT ![q.end] = b]
    BY <1>3, EnqueueLength, LengthAssumption
  <2> QED
    BY <1>1, <2>1, <2>2
<1> QED
  BY <1>2, <1>3

SafetyInv ==
  /\ queue \in Queue /\ \A i \in Slots : queue.data[i] \in Spoken
  /\ len \in 0 .. QueueLength(queue)
  /\ processed \in BOOLEAN /\ (processed => len > 0)
  /\ wire \in Seq(Bytes) /\ \A i \in 1 .. Len(wire) : wire[i] \in Spoken
  /\ Sane(Device)
  /\ GathersMidi(Gathered)
  /\ received \in Seq(Seq(Nat)) /\ ReceivedMidi

LEMMA SafetyBegins == Init => SafetyInv
<1> SUFFICES ASSUME Init PROVE SafetyInv
  OBVIOUS
<1> DEFINE zeros == [i \in 0 .. MaxSysex - 1 |-> 0]
           none == [i \in 0 .. 2 |-> 0]
<1>1. 0 \in Bytes /\ 0 \in DataBytes /\ 0 \in Spoken /\ 0 \in Kept /\ MaxSysex \in Nat
  BY BytesAssumption, BoundsAssumption DEF Spoken, Kept, DataBytes
<1>2. /\ EmptyQueue \in Queue /\ QueueLength(EmptyQueue) = 0
      /\ \A i \in Slots : EmptyQueue.data[i] \in Spoken
  <2>1. 0 \in Slots /\ [i \in Slots |-> 0] \in [Slots -> Bytes]
    BY <1>1, LengthAssumption DEF Slots
  <2> QED
    BY <1>1, <2>1 DEF EmptyQueue, Queue, QueueLength
<1>3. /\ zeros \in [0 .. MaxSysex - 1 -> Bytes] /\ \A i \in 0 .. MaxSysex - 1 : zeros[i] \in DataBytes
  BY <1>1
<1>4. none \in [0 .. 2 -> Bytes] /\ none[0] = 0 /\ none[1] = 0 /\ none[2] = 0
  BY <1>1
<1>5. /\ queue = EmptyQueue /\ input_state = "idle" /\ input_buffer = none /\ input_count = 0
      /\ sysexSize = 0 /\ tempBuffer = zeros /\ used = FALSE /\ len = 0 /\ processed = FALSE
      /\ wire = <<>> /\ received = <<>>
  BY DEF Init
<1> HIDE DEF zeros, none
<1>6. Device = [state |-> "idle", buffer |-> none, count |-> 0]
  BY <1>5 DEF Device
<1>7. Sane(Device)
  BY <1>1, <1>4, <1>6 DEF Sane, Parsers
<1>8. Gathered = [size |-> 0, buffer |-> zeros, used |-> FALSE, out |-> <<>>, spoils |-> FALSE]
  BY <1>5 DEF Gathered
<1>9. <<>> \in Seq(Seq(Nat)) /\ Len(<<>>) = 0 /\ 0 \in 0 .. MaxSysex
  BY <1>1
<1>10. GathersMidi(Gathered)
  BY <1>3, <1>8, <1>9 DEF GathersMidi, Gatherings
<1>11. ReceivedMidi
  BY <1>5, <1>9 DEF ReceivedMidi
<1>12. wire \in Seq(Bytes) /\ Len(wire) = 0
  BY <1>5
<1>13. queue \in Queue /\ \A i \in Slots : queue.data[i] \in Spoken
  BY <1>2, <1>5
<1>14. len \in 0 .. QueueLength(queue)
  BY <1>2, <1>5
<1>15. processed \in BOOLEAN /\ (processed => len > 0)
  BY <1>5
<1>16. \A i \in 1 .. Len(wire) : wire[i] \in Spoken
  BY <1>12
<1>17. received \in Seq(Seq(Nat))
  BY <1>5, <1>9
<1> HIDE DEF Device, Gathered
<1> QED
  BY <1>7, <1>10, <1>11, <1>12, <1>13, <1>14, <1>15, <1>16, <1>17 DEF SafetyInv

\* Messages of MIDI are added to messages of MIDI.
LEMMA DeliveredMidi ==
  ASSUME NEW in \in Seq(Seq(Nat)), NEW out \in Seq(Seq(Nat)), NEW old, NEW new,
         \A i \in (1 .. Len(in)) \ old : IsMidi(in[i]), old \subseteq new,
         \/ out = <<>>
         \/ Len(out) = 1 /\ (Len(in) + 1 \in new \/ IsMidi(out[1]))
  PROVE  /\ in \o out \in Seq(Seq(Nat))
         /\ \A i \in (1 .. Len(in \o out)) \ new : IsMidi((in \o out)[i])
<1> DEFINE both == in \o out
           n == Len(in)
           k == Len(out)
<1>1. both \in Seq(Seq(Nat)) /\ Len(both) = n + k /\ n \in Nat /\ k \in Nat
  OBVIOUS
<1>2. \A i \in 1 .. n : both[i] = in[i]
  OBVIOUS
<1>3. \A i \in n + 1 .. n + k : both[i] = out[i - n]
  OBVIOUS
<1> HIDE DEF both, n, k
<1>4. ASSUME NEW i \in (1 .. n + k) \ new PROVE IsMidi(both[i])
  <2>1. CASE i \in 1 .. n
    BY <1>2, <1>4, <2>1 DEF n
  <2>2. CASE i \notin 1 .. n
    <3>1. i \in n + 1 .. n + k /\ i - n \in 1 .. k
      BY <1>1, <1>4, <2>2
    <3>2. k \in {0, 1}
      BY <1>1 DEF k
    <3>3. k = 1 /\ i = n + 1 /\ i - n = 1
      BY <1>1, <3>1, <3>2
    <3>4. out # <<>>
      <4>1. Len(out) = 1
        BY <3>3 DEF k
      <4> QED
        BY <4>1
    <3>5. IsMidi(out[1])
      BY <1>4, <3>3, <3>4 DEF n
    <3> QED
      BY <1>3, <3>1, <3>3, <3>5
  <2> QED
    BY <2>1, <2>2
<1>5. both \in Seq(Seq(Nat)) /\ \A i \in (1 .. Len(both)) \ new : IsMidi(both[i])
  BY <1>1, <1>4
<1> QED
  BY <1>5 DEF both

\* The oldest byte is parsed, whatever the bytes before it were.
LEMMA SafetyParses ==
  ASSUME SafetyInv, ProcessByte
  PROVE  SafetyInv'
<1> DEFINE b == Get(queue, 0)
           r == Parsed(Device, b)
           h == IF r.call.state = "sysex" THEN SysexEvent(r.call) ELSE Gathered
           more == IF r.call.state = "sysex" THEN h.out ELSE Delivered(r.call)
<1>1. /\ queue \in Queue /\ len > 0 /\ queue' = queue /\ len' = len /\ processed' = TRUE
      /\ wire' = wire /\ Sane(Device) /\ GathersMidi(Gathered)
      /\ received \in Seq(Seq(Nat)) /\ ReceivedMidi
      /\ \A i \in Slots : queue.data[i] \in Spoken
  BY DEF SafetyInv, ProcessByte, senderVars
<1>2. b \in Bytes /\ b \in Spoken
  <2>1. 0 \in 0 .. Length /\ queue.start \in Slots /\ queue.data \in [Slots -> Bytes]
    BY <1>1, LengthAssumption DEF Queue
  <2>2. Plus(queue.start, 0) \in Slots
    BY <2>1, PlusSlot, LengthAssumption
  <2> QED
    BY <1>1, <2>1, <2>2 DEF Get
<1>3. Safely(r)
  BY <1>1, <1>2, ParsedSafe
<1>4. /\ input_state' = r.dev.state /\ input_buffer' = r.dev.buffer /\ input_count' = r.dev.count
      /\ sysexSize' = h.size /\ tempBuffer' = h.buffer /\ used' = h.used
      /\ received' = received \o more
      /\ spoilt' = (IF h.spoils THEN spoilt \cup {Len(received) + 1} ELSE spoilt)
  BY DEF ProcessByte
<1> HIDE DEF b, r
<1>5. Sane(r.dev) /\ r.dev \in Parsers
  BY <1>3 DEF Safely, Sane
<1>6. Device' = r.dev
  BY <1>4, <1>5 DEF Device, Parsers
<1>7. GathersMidi(h)
  BY <1>1, <1>3, EventGathered DEF Safely
<1>8. /\ more \in Seq(Seq(Nat))
      /\ more = <<>> \/ (Len(more) = 1 /\ (h.spoils \/ IsMidi(more[1])))
  <2>1. CASE r.call.state = "sysex"
    BY <1>7, <2>1 DEF GathersMidi, Gatherings
  <2>2. CASE r.call.state # "sysex"
    <3>1. CASE Delivered(r.call) = <<>>
      BY <2>2, <3>1
    <3>2. ASSUME NEW m \in Seq(Nat), Delivered(r.call) = <<m>> /\ IsMidi(m)
          PROVE  more \in Seq(Seq(Nat)) /\ Len(more) = 1 /\ IsMidi(more[1])
      <4>1. more = <<m>>
        BY <2>2, <3>2
      <4> HIDE DEF more
      <4>2. <<m>> \in Seq(Seq(Nat)) /\ Len(<<m>>) = 1 /\ <<m>>[1] = m
        OBVIOUS
      <4> QED
        BY <3>2, <4>1, <4>2
    <3> QED
      BY <1>3, <2>2, <3>1, <3>2 DEF Safely
  <2> QED
    BY <2>1, <2>2
<1> HIDE DEF h, more
<1>9. received' \in Seq(Seq(Nat)) /\ ReceivedMidi'
  <2>1. spoilt \subseteq spoilt' /\ (h.spoils => Len(received) + 1 \in spoilt')
    BY <1>4
  <2>2. \A i \in (1 .. Len(received)) \ spoilt : IsMidi(received[i])
    BY <1>1 DEF ReceivedMidi
  <2>3. /\ received \o more \in Seq(Seq(Nat))
        /\ \A i \in (1 .. Len(received \o more)) \ spoilt' : IsMidi((received \o more)[i])
    BY <1>1, <1>8, <2>1, <2>2, DeliveredMidi
  <2> QED
    BY <1>4, <2>3 DEF ReceivedMidi
<1>10. GathersMidi(Gathered')
  <2>1. Gathered' = [size |-> h.size, buffer |-> h.buffer, used |-> h.used, out |-> <<>>,
                     spoils |-> FALSE]
    BY <1>4 DEF Gathered
  <2>2. <<>> \in Seq(Seq(Nat)) /\ Len(<<>>) = 0
    OBVIOUS
  <2> QED
    BY <1>7, <2>1, <2>2 DEF GathersMidi, Gatherings
<1>11. len' \in 0 .. QueueLength(queue')
  BY <1>1 DEF SafetyInv
<1> QED
  BY <1>1, <1>5, <1>6, <1>9, <1>10, <1>11 DEF SafetyInv

LEMMA SafetyKept ==
  ASSUME SafetyInv, [Next]_vars
  PROVE  SafetyInv'
<1>1. /\ queue \in Queue /\ QueueLength(queue) \in Nat /\ len \in Nat /\ len <= QueueLength(queue)
      /\ \A i \in Slots : queue.data[i] \in Spoken
      /\ wire \in Seq(Bytes) /\ \A i \in 1 .. Len(wire) : wire[i] \in Spoken
  BY ContentsSeq DEF SafetyInv
<1>2. parserVars' = parserVars => Device' = Device /\ Gathered' = Gathered
  BY DEF parserVars, Device, Gathered
<1>3. /\ receivedVars' = receivedVars => received' = received /\ spoilt' = spoilt
      /\ received' = received /\ spoilt' = spoilt => ReceivedMidi' = ReceivedMidi
  BY DEF ReceivedMidi, receivedVars
<1>4. CASE Process
  <2>1. len' \in 0 .. QueueLength(queue')
    BY <1>1, <1>4 DEF Process
  <2>2. ~processed
    BY <1>4 DEF Process, SafetyInv
  <2> QED
    BY <1>2, <1>3, <1>4, <2>1, <2>2 DEF Process, SafetyInv, senderVars
<1>5. CASE ProcessByte
  BY <1>5, SafetyParses
<1>6. CASE RemoveByte
  <2>1. len > 0 /\ len' = len - 1 /\ queue' = Remove(queue, 1) /\ processed' = FALSE
        /\ QueueLength(queue) > 0
    BY <1>1, <1>6 DEF RemoveByte, SafetyInv
  <2>2. /\ queue' \in Queue /\ Contents(queue') = Tail(Contents(queue))
        /\ queue'.data = queue.data
    <3>1. Remove(queue, 1) \in Queue /\ Contents(Remove(queue, 1)) = Tail(Contents(queue))
      BY <1>1, <2>1, RemoveTakesHead, LengthAssumption
    <3>2. Remove(queue, 1).data = queue.data
      BY <1>1 DEF Remove, Queue
    <3> QED
      BY <2>1, <3>1, <3>2
  <2>3. QueueLength(queue') = QueueLength(queue) - 1
    <3>1. /\ Len(Contents(queue)) = QueueLength(queue) /\ Contents(queue) \in Seq(Bytes)
          /\ Len(Contents(queue')) = QueueLength(queue')
      BY <1>1, <2>2, ContentsSeq
    <3>2. Contents(queue) # <<>>
      BY <2>1, <3>1
    <3>3. Len(Tail(Contents(queue))) = Len(Contents(queue)) - 1
      BY <3>1, <3>2, HeadTailProperties
    <3> QED
      BY <2>2, <3>1, <3>3
  <2>4. len' \in 0 .. QueueLength(queue')
    BY <1>1, <2>1, <2>3
  <2> QED
    BY <1>1, <1>2, <1>3, <1>6, <2>1, <2>2, <2>4 DEF RemoveByte, SafetyInv, senderVars
<1>7. ASSUME NEW b \in Bytes, b \in Spoken, queue' = Enqueue(queue, b), len' = len,
             processed' = processed, parserVars' = parserVars, receivedVars' = receivedVars,
             wire' \in Seq(Bytes), \A i \in 1 .. Len(wire') : wire'[i] \in Spoken
      PROVE  SafetyInv'
  <2>1. /\ queue' \in Queue /\ QueueLength(queue) <= QueueLength(queue')
        /\ \A i \in Slots : queue'.data[i] \in Spoken
    BY <1>1, <1>7, EnqueueSafe
  <2>2. QueueLength(queue') \in Nat
    BY <2>1, ContentsSeq
  <2>3. len' \in 0 .. QueueLength(queue')
    BY <1>1, <1>7, <2>1, <2>2
  <2> QED
    BY <1>2, <1>3, <1>7, <2>1, <2>3 DEF SafetyInv
<1>8. CASE NewData
  <2>1. wire # <<>>
    BY <1>8 DEF NewData
  <2>2. /\ Head(wire) = wire[1] /\ Tail(wire) \in Seq(Bytes) /\ Len(wire) \in Nat \ {0}
        /\ Len(Tail(wire)) = Len(wire) - 1
        /\ \A i \in 1 .. Len(wire) - 1 : Tail(wire)[i] = wire[i + 1]
    BY <1>1, <2>1, HeadTailProperties
  <2>3. Head(wire) \in Bytes /\ Head(wire) \in Spoken
    BY <1>1, <2>2
  <2>4. \A i \in 1 .. Len(Tail(wire)) : Tail(wire)[i] \in Spoken
    <3> DEFINE k == Len(wire)
               t == Tail(wire)
    <3>1. k \in Nat \ {0} /\ Len(t) = k - 1 /\ \A i \in 1 .. k - 1 : t[i] = wire[i + 1]
      BY <2>2
    <3>2. \A i \in 1 .. k : wire[i] \in Spoken
      BY <1>1
    <3> HIDE DEF k, t
    <3>3. \A i \in 1 .. Len(t) : t[i] \in Spoken
      BY <3>1, <3>2
    <3> QED
      BY <3>3 DEF t
  <2> QED
    BY <1>7, <1>8, <2>2, <2>3, <2>4 DEF NewData
<1>9. ASSUME NEW m \in Messages, NewRealtime(m) PROVE SafetyInv'
  <2>1. m[1] \in Bytes /\ m[1] \in Spoken
    <3>1. m \in Seq(Bytes) /\ m # <<>> /\ \A i \in 1 .. Len(m) : m[i] \in Spoken
      BY SpokenBytes
    <3>2. 1 \in 1 .. Len(m) /\ m[1] \in Bytes
      BY <3>1
    <3> QED
      BY <3>1, <3>2
  <2> QED
    BY <1>1, <1>7, <1>9, <2>1 DEF NewRealtime
<1>10. ASSUME NEW m \in Messages, NEW running \in BOOLEAN, Begin(m, running) PROVE SafetyInv'
  <2>1. m \in Seq(Bytes) /\ m # <<>> /\ \A i \in 1 .. Len(m) : m[i] \in Spoken
    BY SpokenBytes
  <2>2. /\ Tail(m) \in Seq(Bytes) /\ Len(m) \in Nat \ {0} /\ Len(Tail(m)) = Len(m) - 1
        /\ \A i \in 1 .. Len(m) - 1 : Tail(m)[i] = m[i + 1]
    BY <2>1, HeadTailProperties
  <2>3. \A i \in 1 .. Len(Tail(m)) : Tail(m)[i] \in Spoken
    <3> DEFINE k == Len(m)
               t == Tail(m)
    <3>1. k \in Nat \ {0} /\ Len(t) = k - 1 /\ \A i \in 1 .. k - 1 : t[i] = m[i + 1]
      BY <2>2
    <3>2. \A i \in 1 .. k : m[i] \in Spoken
      BY <2>1
    <3> HIDE DEF k, t
    <3>3. \A i \in 1 .. Len(t) : t[i] \in Spoken
      BY <3>1, <3>2
    <3> QED
      BY <3>3 DEF t
  <2>4. wire' \in Seq(Bytes) /\ \A i \in 1 .. Len(wire') : wire'[i] \in Spoken
    BY <1>10, <2>1, <2>2, <2>3 DEF Begin
  <2> QED
    BY <1>2, <1>3, <1>10, <2>4 DEF Begin, SafetyInv
<1>12. CASE BufferUsed
  <2>1. /\ tempBuffer' \in [0 .. MaxSysex - 1 -> Bytes] /\ sysexSize' = sysexSize /\ used' = TRUE
        /\ Device' = Device
    BY <1>12, ScratchAssumption DEF BufferUsed, Device
  <2>2. sysexSize \in 0 .. MaxSysex /\ <<>> \in Seq(Seq(Nat))
    BY DEF SafetyInv, GathersMidi, Gatherings, Gathered
  <2>3. /\ Gathered' = [size |-> sysexSize, buffer |-> tempBuffer', used |-> TRUE, out |-> <<>>,
                        spoils |-> FALSE]
    BY <2>1 DEF Gathered
  <2>4. GathersMidi(Gathered')
    BY <2>1, <2>2, <2>3 DEF GathersMidi, Gatherings
  <2> QED
    BY <1>3, <1>12, <2>1, <2>4 DEF BufferUsed, SafetyInv, senderVars
<1>11. CASE UNCHANGED vars
  BY <1>2, <1>3, <1>11 DEF vars, senderVars, SafetyInv
<1> QED
  BY <1>4, <1>5, <1>6, <1>8, <1>9, <1>10, <1>11, <1>12 DEF Next, Timer, Uart, Sender

LEMMA SafetyAlways == Spec => []SafetyInv
<1>1. SafetyInv /\ [Next]_vars => SafetyInv'
  BY SafetyKept
<1> QED
  BY <1>1, SafetyBegins, PTL DEF Spec

\* What is delivered is MIDI (midi_device.c, sysexReceiveByte of common/midi.c), whatever
\* bytes the full queue drops and wherever messages are cut off: no status byte gets among
\* the data of a note or a program change, and no system exclusive message comes out longer
\* than it may be or with anything but data in it, but for one whose buffer was used for
\* something else while it came.
THEOREM MidiInReceivesMidi == Spec => []ReceivedMidi
<1>1. SafetyInv => ReceivedMidi
  BY DEF SafetyInv
<1> QED
  BY <1>1, SafetyAlways, PTL

\* Where the parser and the gathering write, whatever is lost or cut off: inside their
\* arrays, and no byte is taken of a queue that is empty.
InBounds ==
  /\ queue \in Queue /\ len \in 0 .. QueueLength(queue) /\ (processed => len > 0)
  /\ input_buffer \in [0 .. 2 -> Bytes]
  /\ sysexSize \in 0 .. MaxSysex /\ tempBuffer \in [0 .. MaxSysex - 1 -> Bytes]

\* The arrays of reception are never left, with a queue that overflows and system exclusive
\* messages that never end, too; of the types only the bound of the count is lost.
THEOREM MidiInInBounds == Spec => []InBounds
<1>1. SafetyInv => InBounds
  BY DEF SafetyInv, InBounds, Sane, Parsers, Device, GathersMidi, Gatherings, Gathered
<1> QED
  BY <1>1, SafetyAlways, PTL
-----------------------------------------------------------------------------
(* Transmission (MidiOut): the same queue the other way, with two senders.   *)

CONSTANTS MainMessages, TimerMessages, MaxMessages
VARIABLES sendQueue, outLine, outCount, outPc, outTodo, outByte

Out == INSTANCE MidiOut WITH line <- outLine, count <- outCount, pc <- outPc,
                             todo <- outTodo, b <- outByte

\* Messages are of three bytes; the main loop has any, none, or some of the timer's.
ThreeBytes ==
  /\ MaxMessages \in Nat
  /\ \A m \in Out!Messages : m \in Seq(Bytes) /\ Len(m) = 3

USE LengthAssumption

\* The queue of transmission is the queue of reception.
LEMMA OneQueue ==
  /\ Out!Queue = Queue /\ Out!EmptyQueue = EmptyQueue
  /\ \A q, n : Out!Remove(q, n) = Remove(q, n) /\ Out!Get(q, n) = Get(q, n)
  /\ \A q : Out!Full(q) = Full(q) /\ Out!QueueLength(q) = QueueLength(q)
  /\ \A q, item : Out!Enqueue(q, item) = Enqueue(q, item)
<1>1. Out!Slots = Slots
  BY DEF Out!Slots, Slots
<1>2. \A i, n : Out!Plus(i, n) = Plus(i, n)
  BY DEF Out!Plus, Plus
<1>3. Out!Queue = Queue /\ Out!EmptyQueue = EmptyQueue
  BY <1>1 DEF Out!Queue, Queue, Out!EmptyQueue, EmptyQueue
<1>4. \A q, n : Out!Remove(q, n) = Remove(q, n) /\ Out!Get(q, n) = Get(q, n)
  BY <1>2 DEF Out!Remove, Remove, Out!Get, Get
<1>5. \A q : Out!Full(q) = Full(q)
  BY <1>2 DEF Out!Full, Full
<1>6. \A q : Out!QueueLength(q) = QueueLength(q)
  BY DEF Out!QueueLength, QueueLength
<1>7. \A q, item : Out!Enqueue(q, item) = Enqueue(q, item)
  BY <1>2, <1>5 DEF Out!Enqueue, Enqueue
<1> QED
  BY <1>3, <1>4, <1>5, <1>6, <1>7

\* The bytes that have left and those that wait, in order.
Flow(s) == s.line \o Contents(s.queue)

OutStates == [queue : Queue, line : Seq(Bytes)]

LEMMA ContentsType ==
  ASSUME NEW q \in Queue
  PROVE  Contents(q) \in Seq(Bytes) /\ Len(Contents(q)) = QueueLength(q)
<1> DEFINE n == QueueLength(q)
<1>1. n \in 0 .. Length - 1
  BY QueueLengthType
<1>2. \A i \in 1 .. n : Get(q, i - 1) \in Bytes
  <2> SUFFICES ASSUME NEW i \in 1 .. n PROVE Get(q, i - 1) \in Bytes
    OBVIOUS
  <2>0. q.start \in Slots /\ q.data \in [Slots -> Bytes]
    BY DEF Queue
  <2> DEFINE k == QueueLength(q)
  <2>3. k \in 0 .. Length - 1 /\ i \in 1 .. k
    BY <1>1
  <2> HIDE DEF k
  <2>1. i - 1 \in 0 .. Length
    BY <2>3
  <2>2. Plus(q.start, i - 1) \in Slots
    BY <2>0, <2>1, PlusSlot
  <2> QED
    BY <2>0, <2>2 DEF Get
<1> HIDE DEF n
<1>3. Contents(q) = [i \in 1 .. n |-> Get(q, i - 1)]
  BY DEF Contents, n
<1> QED
  BY <1>1, <1>2, <1>3 DEF n

\* Of an array of two or more an empty queue is not full.
LEMMA FullLength ==
  ASSUME NEW q, q.start \in Slots, q.end \in Slots, QueueLength(q) = 0
  PROVE  ~Full(q)
<1>1. q.end = q.start
  BY DEF QueueLength, Slots
<1> QED
  BY <1>1 DEF Full, Plus, Slots

\* The head of one sequence moved to the end of the one before it changes nothing.
LEMMA MovedHead ==
  ASSUME NEW l \in Seq(Bytes), NEW c \in Seq(Bytes), Len(c) > 0
  PROVE  Append(l, Head(c)) \o Tail(c) = l \o c
<1> DEFINE a == Append(l, Head(c))
           t == Tail(c)
           n == Len(l)
           k == Len(c)
<1>1. /\ k \in Nat \ {0} /\ n \in Nat
      /\ Head(c) = c[1] /\ t \in Seq(Bytes) /\ Len(t) = k - 1
      /\ \A i \in 1 .. k - 1 : t[i] = c[i + 1]
  BY HeadTailProperties
<1>2. Head(c) \in Bytes
  BY <1>1
<1>3. /\ a \in Seq(Bytes) /\ Len(a) = n + 1 /\ a[n + 1] = Head(c)
      /\ \A i \in 1 .. n : a[i] = l[i]
  BY <1>2, AppendProperties
<1> HIDE DEF a, t
<1>4. /\ a \o t \in Seq(Bytes) /\ Len(a \o t) = Len(a) + Len(t)
      /\ \A i \in 1 .. Len(a) + Len(t) : (a \o t)[i] = IF i <= Len(a) THEN a[i] ELSE t[i - Len(a)]
  BY <1>1, <1>3, ConcatProperties
<1>5. /\ l \o c \in Seq(Bytes) /\ Len(l \o c) = n + k
      /\ \A i \in 1 .. n + k : (l \o c)[i] = IF i <= n THEN l[i] ELSE c[i - n]
  BY ConcatProperties
<1> HIDE DEF n, k
<1>6. Len(a \o t) = n + k
  BY <1>1, <1>3, <1>4
<1>7. ASSUME NEW i \in 1 .. n + k PROVE (a \o t)[i] = (l \o c)[i]
  <2>1. (a \o t)[i] = IF i <= n + 1 THEN a[i] ELSE t[i - (n + 1)]
    BY <1>1, <1>3, <1>4
  <2>2. CASE i <= n
    BY <1>1, <1>3, <1>5, <2>1, <2>2
  <2>3. CASE i = n + 1
    BY <1>1, <1>3, <1>5, <2>1, <2>3
  <2>4. CASE i > n + 1
    <3>1. i - (n + 1) \in 1 .. k - 1 /\ i - (n + 1) + 1 = i - n
      BY <1>1, <2>4
    <3>2. t[i - (n + 1)] = c[i - n]
      BY <1>1, <3>1
    <3>3. ~(i <= n) /\ ~(i <= n + 1)
      BY <1>1, <2>4
    <3>4. (l \o c)[i] = c[i - n]
      BY <1>5, <3>3
    <3>5. (a \o t)[i] = t[i - (n + 1)]
      BY <2>1, <3>3
    <3> QED
      BY <3>2, <3>4, <3>5
  <2>5. i <= n \/ i = n + 1 \/ i > n + 1
    BY <1>1
  <2> QED
    BY <2>2, <2>3, <2>4, <2>5
<1> QED
  BY <1>4, <1>5, <1>6, <1>7, SeqEqual DEF a, t

\* midi_update(1) moves the oldest byte from the queue to the line.
LEMMA UpdatedFlows ==
  ASSUME NEW s \in OutStates
  PROVE  /\ Out!Updated(s) \in OutStates /\ Flow(Out!Updated(s)) = Flow(s)
         /\ Full(s.queue) => ~Full(Out!Updated(s).queue)
<1> DEFINE q == s.queue
           u == Out!Updated(s)
<1>1. q \in Queue /\ s.line \in Seq(Bytes)
  BY DEF OutStates
<1>2. QueueLength(q) \in 0 .. Length - 1
  BY <1>1, QueueLengthType
<1>5. q.start \in Slots /\ q.end \in Slots
  BY <1>1 DEF Queue
<1>3. CASE QueueLength(q) = 0
  <2>1. u = s
    BY <1>3, OneQueue DEF Out!Updated
  <2>2. ~Full(q)
    BY <1>3, <1>5, FullLength
  <2> QED
    BY <2>1, <2>2
<1>4. CASE QueueLength(q) > 0
  <2> DEFINE l == s.line
             c == Contents(q)
  <2>1. u = [queue |-> Remove(q, 1), line |-> Append(l, Get(q, 0))]
    <3>1. Out!QueueLength(q) # 0 /\ Out!Remove(q, 1) = Remove(q, 1) /\ Out!Get(q, 0) = Get(q, 0)
      BY <1>2, <1>4, OneQueue
    <3> QED
      BY <3>1 DEF Out!Updated
  <2>2. Get(q, 0) = Head(c) /\ Remove(q, 1) \in Queue /\ Contents(Remove(q, 1)) = Tail(c)
    BY <1>1, <1>4, RemoveTakesHead
  <2>3. c \in Seq(Bytes) /\ Len(c) > 0
    BY <1>1, <1>4, ContentsType
  <2>4. Flow(u) = Append(l, Head(c)) \o Tail(c)
    <3> HIDE DEF c, l, u
    <3>1. u.line = Append(l, Head(c)) /\ Contents(u.queue) = Tail(c)
      BY <2>1, <2>2
    <3> QED
      BY <3>1 DEF Flow
  <2>5. Flow(s) = l \o c
    BY DEF Flow
  <2>6. ~Full(Remove(q, 1))
    <3> DEFINE r == Remove(q, 1)
    <3>1. r.start = Plus(q.start, 1) /\ r.end = q.end
      BY <1>1 DEF Remove, Queue
    <3>3. Plus(q.start, 1) \in Slots
      BY <1>5, PlusSlot
    <3>4. Plus(q.end, 1) = r.start => q.end = q.start
      BY <1>5, <3>1, SMTT(60) DEF Plus, Slots
    <3>5. q.end # q.start
      BY <1>4, <1>5 DEF QueueLength, Slots
    <3> QED
      BY <3>1, <3>4, <3>5 DEF Full
  <2> HIDE DEF c, q, u, l
  <2>7. l \in Seq(Bytes)
    BY <1>1 DEF l
  <2>8. Append(l, Head(c)) \o Tail(c) = l \o c
    BY <2>3, <2>7, MovedHead
  <2>9. Head(c) \in Bytes
    BY <2>3
  <2>10. u \in OutStates
    BY <2>1, <2>2, <2>7, <2>9 DEF OutStates
  <2>11. ~Full(u.queue)
    BY <2>1, <2>6
  <2> QED
    BY <2>4, <2>5, <2>8, <2>10, <2>11 DEF q, u
<1> QED
  BY <1>2, <1>3, <1>4

\* sendEnqueue of the timer puts its byte behind all others, also when it has to give one away.
LEMMA EnqueuedFlows ==
  ASSUME NEW s \in OutStates, NEW item \in Bytes
  PROVE  /\ Out!Enqueued(s, item) \in OutStates
         /\ Flow(Out!Enqueued(s, item)) = Append(Flow(s), item)
<1> DEFINE r == IF Full(s.queue) THEN Out!Updated(s) ELSE s
           e == Out!Enqueued(s, item)
<1>1. r \in OutStates /\ Flow(r) = Flow(s) /\ ~Full(r.queue)
  BY UpdatedFlows
<1>2. e = [r EXCEPT !.queue = Enqueue(@, item)]
  BY OneQueue DEF Out!Enqueued
<1> HIDE DEF r, e
<1>3. r.queue \in Queue /\ r.line \in Seq(Bytes)
  BY <1>1 DEF OutStates
<1>4. e.line = r.line /\ e.queue = Enqueue(r.queue, item) /\ e.queue \in Queue /\ e \in OutStates
  BY <1>1, <1>2, <1>3, EnqueueLength DEF OutStates
<1>5. Contents(e.queue) = Append(Contents(r.queue), item)
  BY <1>1, <1>3, <1>4, EnqueueAppends
<1> DEFINE l == r.line
           c == Contents(r.queue)
<1>6. Flow(e) = l \o Append(c, item) /\ Flow(r) = l \o c
  BY <1>4, <1>5 DEF Flow
<1>7. c \in Seq(Bytes) /\ l \in Seq(Bytes)
  BY <1>3, ContentsType
<1> HIDE DEF l, c
<1>8. l \o Append(c, item) = Append(l \o c, item)
  BY <1>7
<1> QED
  BY <1>1, <1>4, <1>6, <1>8 DEF e

\* Both senders and both who take bytes away, at any point of each other.
LEMMA OutTyped == ThreeBytes /\ Out!TypeOK /\ [Out!Next]_(Out!vars) => Out!TypeOK'
<1> SUFFICES ASSUME ThreeBytes, Out!TypeOK, [Out!Next]_(Out!vars) PROVE Out!TypeOK'
  OBVIOUS
<1>1. /\ sendQueue \in Queue /\ outLine \in Seq(Bytes) /\ outCount \in 0 .. MaxMessages
      /\ outPc \in {"enqueue", "length", "get", "remove", "send"}
      /\ outTodo \in Seq(Bytes) /\ Len(outTodo) <= 3 /\ outByte \in Bytes /\ MaxMessages \in Nat
  BY OneQueue DEF Out!TypeOK, ThreeBytes
<1>2. sendQueue.start \in Slots /\ sendQueue.end \in Slots /\ sendQueue.data \in [Slots -> Bytes]
  BY <1>1 DEF Queue
<1>3. Out!Now \in OutStates
  BY <1>1 DEF Out!Now, OutStates
<1>4. ASSUME NEW m \in MainMessages, Out!MainSend(m) PROVE Out!TypeOK'
  <2>1. m \in Seq(Bytes) /\ Len(m) = 3
    BY DEF ThreeBytes, Out!Messages
  <2> QED
    BY <1>1, <1>4, <2>1, OneQueue DEF Out!MainSend, Out!TypeOK
<1>5. CASE Out!MainEnqueue
  <2>1. CASE Full(sendQueue)
    BY <1>1, <1>5, <2>1, OneQueue DEF Out!MainEnqueue, Out!TypeOK
  <2>2. CASE ~Full(sendQueue)
    <3>1. outTodo # <<>>
      BY <1>5 DEF Out!MainEnqueue
    <3>2. Head(outTodo) \in Bytes /\ Tail(outTodo) \in Seq(Bytes) /\ Len(Tail(outTodo)) = Len(outTodo) - 1
      BY <1>1, <3>1, HeadTailProperties
    <3>3. Enqueue(sendQueue, Head(outTodo)) \in Queue
      BY <1>1, <2>2, <3>2, EnqueueLength
    <3>4. /\ sendQueue' \in Queue /\ outTodo' \in Seq(Bytes) /\ Len(outTodo') <= 3
          /\ outPc' = outPc /\ outLine' = outLine /\ outCount' = outCount /\ outByte' = outByte
      BY <1>1, <1>5, <2>2, <3>2, <3>3, OneQueue DEF Out!MainEnqueue
    <3> QED
      BY <1>1, <3>4, OneQueue DEF Out!TypeOK
  <2> QED
    BY <2>1, <2>2
<1>6. CASE Out!MainLength
  BY <1>1, <1>6, OneQueue DEF Out!MainLength, Out!TypeOK
<1>7. CASE Out!MainGet
  <2>1. Plus(sendQueue.start, 0) \in Slots
    BY <1>2, PlusSlot
  <2>2. Get(sendQueue, 0) \in Bytes
    BY <1>2, <2>1 DEF Get
  <2> QED
    BY <1>1, <1>7, <2>2, OneQueue DEF Out!MainGet, Out!TypeOK
<1>8. CASE Out!MainRemove
  <2>1. Plus(sendQueue.start, 1) \in Slots
    BY <1>2, PlusSlot
  <2>2. Remove(sendQueue, 1) \in Queue
    BY <1>1, <1>2, <2>1 DEF Remove, Queue
  <2> QED
    BY <1>1, <1>8, <2>2, OneQueue DEF Out!MainRemove, Out!TypeOK
<1>9. CASE Out!MainUart
  BY <1>1, <1>9, OneQueue DEF Out!MainUart, Out!TypeOK
<1>10. CASE Out!TimerUpdate
  <2>1. Out!Updated(Out!Now) \in OutStates
    BY <1>3, UpdatedFlows
  <2>2. sendQueue' \in Queue /\ outLine' \in Seq(Bytes)
    BY <1>10, <2>1 DEF Out!TimerUpdate, OutStates
  <2> QED
    BY <1>1, <1>10, <2>2, OneQueue DEF Out!TimerUpdate, Out!mainVars, Out!TypeOK
<1>11. ASSUME NEW m \in TimerMessages, Out!TimerSend(m) PROVE Out!TypeOK'
  <2>1. m[1] \in Bytes /\ m[2] \in Bytes /\ m[3] \in Bytes
    BY DEF ThreeBytes, Out!Messages
  <2> DEFINE sent3 == Out!Enqueued(Out!Enqueued(Out!Enqueued(Out!Now, m[1]), m[2]), m[3])
  <2>2. sent3 \in OutStates
    BY <1>3, <2>1, EnqueuedFlows
  <2>3. sendQueue' \in Queue /\ outLine' \in Seq(Bytes)
    BY <1>11, <2>2 DEF Out!TimerSend, OutStates
  <2> QED
    BY <1>1, <1>11, <2>3, OneQueue DEF Out!TimerSend, Out!mainVars, Out!TypeOK
<1>12. CASE UNCHANGED Out!vars
  BY <1>12 DEF Out!vars, Out!mainVars, Out!TypeOK
<1> QED
  BY <1>4, <1>5, <1>6, <1>7, <1>8, <1>9, <1>10, <1>11, <1>12 DEF Out!Next, Out!Main, Out!Timer

LEMMA OutBegins == ThreeBytes /\ Out!Init => Out!TypeOK
<1> SUFFICES ASSUME ThreeBytes, Out!Init PROVE Out!TypeOK
  OBVIOUS
<1>1. EmptyQueue \in Queue
  <2>1. 0 \in Slots /\ [i \in Slots |-> 0] \in [Slots -> Bytes]
    BY BytesAssumption DEF Slots
  <2> QED
    BY <2>1 DEF EmptyQueue, Queue
<1> QED
  BY <1>1, OneQueue, BytesAssumption DEF Out!Init, Out!TypeOK, ThreeBytes

\* However the main loop and the timer race for the send queue (sendEnqueue, midi_update of
\* common/midi.c), no index leaves the array and only bytes of messages are on the line: the
\* race can mix up messages, but not the queue itself.
THEOREM MidiOutTypes == ThreeBytes => (Out!Spec => []Out!TypeOK)
<1> SUFFICES ASSUME ThreeBytes PROVE Out!Spec => []Out!TypeOK
  OBVIOUS
<1>1. Out!TypeOK /\ [Out!Next]_(Out!vars) => Out!TypeOK'
  BY OutTyped
<1>2. Out!Init => Out!TypeOK
  BY OutBegins
<1> QED
  BY <1>1, <1>2, PTL DEF Out!Spec

\* A sequence that is messages end to end.
Whole(f) ==
  \E k \in Nat :
    /\ Len(f) = 3 * k
    /\ \A i \in 1 .. k : \E m \in Out!Messages :
         f[3 * i - 2] = m[1] /\ f[3 * i - 1] = m[2] /\ f[3 * i] = m[3]

LEMMA WholeGrows ==
  ASSUME ThreeBytes, NEW f \in Seq(Bytes), Whole(f), NEW m \in Out!Messages
  PROVE  Whole(Append(Append(Append(f, m[1]), m[2]), m[3]))
<1>1. m[1] \in Bytes /\ m[2] \in Bytes /\ m[3] \in Bytes
  BY DEF ThreeBytes
<1>2. PICK k \in Nat :
        /\ Len(f) = 3 * k
        /\ \A i \in 1 .. k : \E n \in Out!Messages :
             f[3 * i - 2] = n[1] /\ f[3 * i - 1] = n[2] /\ f[3 * i] = n[3]
  BY DEF Whole
<1> DEFINE f1 == Append(f, m[1])
           f2 == Append(f1, m[2])
           f3 == Append(f2, m[3])
<1>3. /\ f1 \in Seq(Bytes) /\ Len(f1) = 3 * k + 1 /\ f1[3 * k + 1] = m[1]
      /\ \A i \in 1 .. 3 * k : f1[i] = f[i]
  BY <1>1, <1>2, AppendProperties
<1> HIDE DEF f1
<1>4. /\ f2 \in Seq(Bytes) /\ Len(f2) = 3 * k + 2 /\ f2[3 * k + 2] = m[2]
      /\ \A i \in 1 .. 3 * k + 1 : f2[i] = f1[i]
  <2>1. Len(f1) + 1 = 3 * k + 2
    BY <1>3
  <2> QED
    BY <1>1, <1>3, <2>1, AppendProperties
<1> HIDE DEF f2
<1>5. /\ Len(f3) = 3 * k + 3 /\ f3[3 * k + 3] = m[3]
      /\ \A i \in 1 .. 3 * k + 2 : f3[i] = f2[i]
  <2>1. Len(f2) + 1 = 3 * k + 3
    BY <1>4
  <2> QED
    BY <1>1, <1>4, <2>1, AppendProperties
<1> HIDE DEF f3
<1>6. Len(f3) = 3 * (k + 1)
  BY <1>5
<1>7. ASSUME NEW i \in 1 .. k + 1
      PROVE  \E n \in Out!Messages : f3[3 * i - 2] = n[1] /\ f3[3 * i - 1] = n[2] /\ f3[3 * i] = n[3]
  <2>1. CASE i = k + 1
    <3>1. 3 * i - 2 = 3 * k + 1 /\ 3 * i - 1 = 3 * k + 2 /\ 3 * i = 3 * k + 3
      BY <2>1
    <3>2. f3[3 * k + 1] = m[1] /\ f3[3 * k + 2] = m[2] /\ f3[3 * k + 3] = m[3]
      BY <1>3, <1>4, <1>5
    <3> QED
      BY <3>1, <3>2
  <2>2. CASE i \in 1 .. k
    <3>1. PICK n \in Out!Messages : f[3 * i - 2] = n[1] /\ f[3 * i - 1] = n[2] /\ f[3 * i] = n[3]
      BY <1>2, <2>2
    <3>2. ASSUME NEW j \in 1 .. 3 * k PROVE f3[j] = f[j]
      BY <1>3, <1>4, <1>5
    <3>3. 3 * i - 2 \in 1 .. 3 * k /\ 3 * i - 1 \in 1 .. 3 * k /\ 3 * i \in 1 .. 3 * k
      BY <2>2
    <3>4. f3[3 * i - 2] = f[3 * i - 2] /\ f3[3 * i - 1] = f[3 * i - 1] /\ f3[3 * i] = f[3 * i]
      BY <3>2, <3>3
    <3> QED
      BY <3>1, <3>4
  <2> QED
    BY <2>1, <2>2
<1> DEFINE k1 == k + 1
<1>9. k1 \in Nat /\ Len(f3) = 3 * k1
  BY <1>6
<1>10. \A i \in 1 .. k1 : \E n \in Out!Messages :
         f3[3 * i - 2] = n[1] /\ f3[3 * i - 1] = n[2] /\ f3[3 * i] = n[3]
  BY <1>7
<1> HIDE DEF k1
<1>8. Whole(f3)
  BY <1>9, <1>10 DEF Whole
<1> QED
  BY <1>8 DEF f1, f2, f3

\* What has left and what waits is whole messages; the main loop is between its own.
WholeFlow ==
  /\ Out!TypeOK
  /\ outPc = "enqueue" /\ outTodo = <<>>
  /\ Whole(Flow(Out!Now))

LEMMA FlowType ==
  ASSUME NEW s \in OutStates
  PROVE  Flow(s) \in Seq(Bytes)
<1>1. s.line \in Seq(Bytes) /\ Contents(s.queue) \in Seq(Bytes)
  BY ContentsType DEF OutStates
<1> QED
  BY <1>1, ConcatProperties DEF Flow

LEMMA WholeKept ==
  ThreeBytes /\ MainMessages = {} /\ WholeFlow /\ [Out!Next]_(Out!vars) => WholeFlow'
<1> SUFFICES ASSUME ThreeBytes, MainMessages = {}, WholeFlow, [Out!Next]_(Out!vars)
             PROVE  WholeFlow'
  OBVIOUS
<1>1. Out!TypeOK'
  BY OutTyped DEF WholeFlow
<1>2. Out!Now \in OutStates
  BY OneQueue DEF WholeFlow, Out!TypeOK, Out!Now, OutStates
<1>3. outPc = "enqueue" /\ outTodo = <<>> /\ Whole(Flow(Out!Now))
  BY DEF WholeFlow
<1>4. ~Out!Main
  BY <1>3 DEF Out!Main, Out!MainSend, Out!MainEnqueue, Out!MainLength, Out!MainGet, Out!MainRemove,
              Out!MainUart
<1>5. CASE Out!TimerUpdate
  <2> DEFINE u == Out!Updated(Out!Now)
  <2>1. Flow(u) = Flow(Out!Now) /\ u \in OutStates
    BY <1>2, UpdatedFlows
  <2>2. Out!Now' = u
    BY <1>5, <2>1 DEF Out!TimerUpdate, Out!Now, OutStates
  <2>3. outPc' = "enqueue" /\ outTodo' = <<>>
    BY <1>3, <1>5 DEF Out!TimerUpdate, Out!mainVars
  <2>5. Whole(Flow(u))
    BY <1>3, <2>1
  <2>4. Whole(Flow(Out!Now))'
    <3> HIDE DEF u
    <3> QED
      BY <2>2, <2>5 DEF Whole, Flow
  <2> QED
    BY <1>1, <2>3, <2>4 DEF WholeFlow
<1>6. ASSUME NEW m \in TimerMessages, Out!TimerSend(m) PROVE WholeFlow'
  <2> DEFINE s0 == Out!Now
             s1 == Out!Enqueued(s0, m[1])
             s2 == Out!Enqueued(s1, m[2])
             s3 == Out!Enqueued(s2, m[3])
  <2>1. m \in Out!Messages /\ m[1] \in Bytes /\ m[2] \in Bytes /\ m[3] \in Bytes
    BY DEF ThreeBytes, Out!Messages
  <2>2. s1 \in OutStates /\ Flow(s1) = Append(Flow(s0), m[1])
    BY <1>2, <2>1, EnqueuedFlows
  <2>3. s2 \in OutStates /\ Flow(s2) = Append(Flow(s1), m[2])
    BY <2>1, <2>2, EnqueuedFlows
  <2>4. s3 \in OutStates /\ Flow(s3) = Append(Flow(s2), m[3])
    BY <2>1, <2>3, EnqueuedFlows
  <2>5. Whole(Flow(s3))
    BY <1>2, <1>3, <2>1, <2>2, <2>3, <2>4, FlowType, WholeGrows
  <2>6. Out!Now' = s3
    BY <1>6, <2>4 DEF Out!TimerSend, Out!Now, OutStates
  <2>7. outPc' = "enqueue" /\ outTodo' = <<>>
    BY <1>3, <1>6 DEF Out!TimerSend, Out!mainVars
  <2>8. Whole(Flow(Out!Now))'
    <3> HIDE DEF s3
    <3> QED
      BY <2>5, <2>6 DEF Whole, Flow
  <2> QED
    BY <1>1, <2>7, <2>8 DEF WholeFlow
<1>7. CASE UNCHANGED Out!vars
  <2>1. Out!Now' = Out!Now /\ outPc' = outPc /\ outTodo' = outTodo
    BY <1>7 DEF Out!vars, Out!mainVars, Out!Now
  <2>2. Whole(Flow(Out!Now))'
    BY <1>3, <2>1 DEF Whole, Flow
  <2> QED
    BY <1>1, <1>3, <2>1, <2>2 DEF WholeFlow
<1> QED
  BY <1>4, <1>5, <1>6, <1>7 DEF Out!Next, Out!Timer

LEMMA WholeBegins == ThreeBytes /\ Out!Init => WholeFlow
<1> SUFFICES ASSUME ThreeBytes, Out!Init PROVE WholeFlow
  OBVIOUS
<1>1. Out!TypeOK
  BY OutBegins
<1>2. outLine = <<>> /\ sendQueue = EmptyQueue /\ outPc = "enqueue" /\ outTodo = <<>>
  BY OneQueue DEF Out!Init
<1>3. sendQueue \in Queue /\ outLine \in Seq(Bytes)
  BY <1>1, OneQueue DEF Out!TypeOK
<1>4. QueueLength(sendQueue) = 0
  BY <1>2 DEF EmptyQueue, QueueLength
<1>5. Contents(sendQueue) \in Seq(Bytes) /\ Len(Contents(sendQueue)) = 0
  BY <1>3, <1>4, ContentsType
<1>6. Len(outLine) = 0
  BY <1>2
<1> DEFINE f == Flow(Out!Now)
<1>7. f = outLine \o Contents(sendQueue)
  BY DEF Flow, Out!Now
<1> HIDE DEF f
<1>8. Len(f) = 3 * 0
  BY <1>3, <1>5, <1>6, <1>7, ConcatProperties
<1>9. Whole(f)
  BY <1>8 DEF Whole
<1> QED
  BY <1>1, <1>2, <1>9 DEF WholeFlow, f

LEMMA WholeLine == ThreeBytes /\ WholeFlow => Out!MessagesWhole
<1> SUFFICES ASSUME ThreeBytes, WholeFlow,
                    NEW i \in 1 .. Len(outLine) \div 3
             PROVE  SubSeq(outLine, 3 * i - 2, 3 * i) \in Out!Messages
  BY DEF Out!MessagesWhole
<1> DEFINE f == Flow(Out!Now)
           n == Len(outLine)
           c == Contents(sendQueue)
<1>1. outLine \in Seq(Bytes) /\ c \in Seq(Bytes) /\ n \in Nat
  BY OneQueue, ContentsType DEF WholeFlow, Out!TypeOK
<1>2. PICK k \in Nat :
        /\ Len(f) = 3 * k
        /\ \A j \in 1 .. k : \E m \in Out!Messages :
             f[3 * j - 2] = m[1] /\ f[3 * j - 1] = m[2] /\ f[3 * j] = m[3]
  BY DEF WholeFlow, Whole
<1>3. f = outLine \o c
  BY DEF Flow, Out!Now
<1> HIDE DEF f, c
<1>4. /\ Len(f) = n + Len(c) /\ Len(c) \in Nat
      /\ \A j \in 1 .. n : f[j] = outLine[j]
  <2>1. /\ Len(f) = n + Len(c)
        /\ \A j \in 1 .. n + Len(c) : f[j] = IF j <= n THEN outLine[j] ELSE c[j - n]
    BY <1>1, <1>3, ConcatProperties
  <2>2. Len(c) \in Nat
    BY <1>1
  <2> HIDE DEF n
  <2> QED
    BY <1>1, <2>1, <2>2
<1>5. i \in Nat \ {0} /\ 3 * i <= n
  <2> HIDE DEF n
  <2>1. i \in 1 .. n \div 3
    BY DEF n
  <2> QED
    BY <1>1, <2>1, SMTT(30)
<1> HIDE DEF n
<1>6. i \in 1 .. k
  BY <1>1, <1>2, <1>4, <1>5
<1>7. PICK m \in Out!Messages : f[3 * i - 2] = m[1] /\ f[3 * i - 1] = m[2] /\ f[3 * i] = m[3]
  BY <1>2, <1>6
<1>8. 3 * i - 2 \in 1 .. n /\ 3 * i - 1 \in 1 .. n /\ 3 * i \in 1 .. n
  BY <1>1, <1>5
<1>9. outLine[3 * i - 2] = m[1] /\ outLine[3 * i - 1] = m[2] /\ outLine[3 * i] = m[3]
  BY <1>4, <1>7, <1>8
<1> DEFINE s == SubSeq(outLine, 3 * i - 2, 3 * i)
<1>10. s \in Seq(Bytes) /\ Len(s) = 3
       /\ s[1] = outLine[3 * i - 2] /\ s[2] = outLine[3 * i - 1] /\ s[3] = outLine[3 * i]
  <2> DEFINE x == 3 * i - 2
             y == 3 * i
  <2>1. x \in Nat /\ y \in Nat /\ 1 <= x /\ x <= y + 1 /\ y <= n /\ y - x + 1 = 3
        /\ x + 1 - 1 = x /\ x + 2 - 1 = 3 * i - 1 /\ x + 3 - 1 = y
    BY <1>1, <1>5
  <2> HIDE DEF x, y
  <2>2. SubSeq(outLine, x, y) \in Seq(Bytes) /\ Len(SubSeq(outLine, x, y)) = 3
        /\ \A j \in 1 .. 3 : SubSeq(outLine, x, y)[j] = outLine[x + j - 1]
    BY <1>1, <2>1 DEF n
  <2> QED
    BY <2>1, <2>2 DEF x, y
<1> HIDE DEF s
<1>11. m \in Seq(Bytes) /\ Len(m) = 3
  BY DEF ThreeBytes
<1>12. s = m
  BY <1>9, <1>10, <1>11, SeqEqual
<1> QED
  BY <1>12 DEF s

\* Messages of the timer alone leave whole and one after the other, also when the queue runs
\* over and gives bytes away in the middle of a message (sendEnqueue, midi_sendFunc of
\* common/midi.c): it is the main loop's sending that the library's advice to disable
\* interrupts (midi_device.h) is about.
THEOREM MidiOutTimerWhole ==
  ThreeBytes /\ MainMessages = {} => (Out!Spec => []Out!MessagesWhole)
<1> SUFFICES ASSUME ThreeBytes, MainMessages = {} PROVE Out!Spec => []Out!MessagesWhole
  OBVIOUS
<1>1. WholeFlow /\ [Out!Next]_(Out!vars) => WholeFlow'
  BY WholeKept
<1>2. Out!Init => WholeFlow
  BY WholeBegins
<1>3. WholeFlow => Out!MessagesWhole
  BY WholeLine
<1> QED
  BY <1>1, <1>2, <1>3, PTL DEF Out!Spec
=============================================================================
