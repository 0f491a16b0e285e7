------------------------------- MODULE MidiIn -------------------------------
(***************************************************************************)
(* MIDI reception: a sender's bytes are queued by the UART interrupt,      *)
(* which may come at any time, and taken out and parsed by the timer       *)
(* interrupt (xnormidi/midi_device.c); system exclusive messages are       *)
(* gathered three bytes at a time (common/midi.c) in a buffer that the     *)
(* front panel uses too.                                                   *)
(***************************************************************************)
EXTENDS ByteQueue

CONSTANTS
  MaxSysex,      \* MAX_SYSEX_SIZE
  Messages,      \* messages the sender may send, as sequences of bytes
  MaxSent,       \* bound on the messages of a behaviour
  Scratch,       \* what its other users may leave in tempBuffer
  Stimuli        \* "overrun": bytes arrive when the queue is full
                 \* "abort": a system exclusive message is cut off by another

\* Status bytes. Those from NoteOn up to SysexBegin carry a channel.
NoteOn      == 144
ProgChange  == 192
SysexBegin  == 240
TuneRequest == 246
SysexEnd    == 247
Clock       == 248

IsStatus(b)   == b >= 128
IsRealtime(b) == b >= Clock
IsSysex(m)    == m[1] = SysexBegin

\* midi_packet_length, the status byte included; 0 for the undefined ones.
PacketLength(b) ==
  CASE b = NoteOn -> 3 [] b = ProgChange -> 2 [] b = TuneRequest -> 1 [] OTHER -> 0

\* What follows a status byte.
DataBytes == 0 .. 127

\* The sender keeps to MIDI, with the messages the synthesizer knows.
IsMidi(m) ==
  \/ /\ m[1] \in {NoteOn, ProgChange} /\ Len(m) = PacketLength(m[1])
     /\ \A i \in 2 .. Len(m) : m[i] \in DataBytes
  \/ m[1] \in {TuneRequest} \cup Clock .. 255 /\ Len(m) = 1
  \/ /\ IsSysex(m) /\ Len(m) \in 2 .. MaxSysex + 2 /\ m[Len(m)] = SysexEnd
     /\ \A i \in 2 .. Len(m) - 1 : m[i] \in DataBytes

ASSUME MessagesAssumption ==
  \A m \in Messages : m \in Seq(Bytes) /\ m # <<>> /\ IsMidi(m)
ASSUME BoundsAssumption == MaxSysex \in Nat \ {0} /\ MaxSent \in Nat
ASSUME ScratchAssumption == Scratch \subseteq [0 .. MaxSysex - 1 -> Bytes]

VARIABLES
  queue,
  input_state, input_buffer, input_count,   \* of the MidiDevice
  sysexSize,
  tempBuffer,   \* "general purpose chunk of RAM": the first MaxSysex bytes
  used,         \* history: it has served something else since the message began
  len,          \* bytes that midi_device_process has yet to take
  processed,    \* the byte at the head of the queue has been processed
  wire,         \* what is left to send of the current message
  current,      \* the message being sent
  status,       \* the running status of the sender
  sent, received,
  spoilt        \* history: which of those received were gathered in a used buffer

parserVars == <<input_state, input_buffer, input_count, sysexSize, tempBuffer, used>>
senderVars == <<wire, current, status, sent>>
receivedVars == <<received, spoilt>>
vars == <<queue, parserVars, len, processed, senderVars, receivedVars>>

TypeOK ==
  /\ queue \in Queue
  /\ input_state \in {"idle", "two", "three", "sysex"}
  /\ input_buffer \in [0 .. 2 -> Bytes]
  /\ input_count \in 0 .. MaxSysex + 2
  /\ sysexSize \in 0 .. MaxSysex
  /\ tempBuffer \in [0 .. MaxSysex - 1 -> Bytes]
  /\ used \in BOOLEAN
  /\ len \in 0 .. QueueLength(queue)
  /\ processed \in BOOLEAN
  /\ Len(received) <= Len(sent)
  /\ spoilt \subseteq 1 .. Len(received)

Init ==
  /\ queue = EmptyQueue
  /\ input_state = "idle" /\ input_buffer = [i \in 0 .. 2 |-> 0] /\ input_count = 0
  /\ sysexSize = 0 /\ tempBuffer = [i \in 0 .. MaxSysex - 1 |-> 0] /\ used = FALSE
  /\ len = 0 /\ processed = FALSE
  /\ wire = <<>> /\ current = <<>> /\ status = 0
  /\ sent = <<>> /\ received = <<>> /\ spoilt = {}

-----------------------------------------------------------------------------
(* The sender and the UART interrupt *)

\* Messages nobody registered a callback for are not owed.
Owed(m) == m # <<TuneRequest>>

\* The running status lasts until a message without a channel comes.
StatusAfter(m) == IF m[1] < SysexBegin THEN m[1] ELSE 0

\* A message begins, without its status byte if that is the running status,
\* or cuts the current one off.
Begin(m, running) ==
  /\ Len(sent) < MaxSent
  /\ ~IsRealtime(m[1])
  /\ wire # <<>> => ~running /\ (IsSysex(current) => "abort" \in Stimuli)
  /\ running => status = m[1]
  /\ wire' = IF running THEN Tail(m) ELSE m
  /\ current' = m
  /\ status' = StatusAfter(m)
  /\ UNCHANGED <<queue, parserVars, len, processed, sent, receivedVars>>

HasRoom == ~Full(queue) \/ "overrun" \in Stimuli

\* midi_newData with the next byte of the message.
NewData ==
  /\ wire # <<>> /\ HasRoom
  /\ queue' = Enqueue(queue, Head(wire))
  /\ wire' = Tail(wire)
  /\ sent' = IF wire' = <<>> /\ Owed(current) THEN Append(sent, current) ELSE sent
  /\ UNCHANGED <<parserVars, len, processed, current, status, receivedVars>>

\* midi_newData with a realtime byte, which may come inside a message.
NewRealtime(m) ==
  /\ Len(sent) + Len(wire) < MaxSent /\ IsRealtime(m[1]) /\ HasRoom
  /\ queue' = Enqueue(queue, m[1])
  /\ sent' = Append(sent, m)
  /\ UNCHANGED <<parserVars, len, processed, wire, current, status, receivedVars>>

-----------------------------------------------------------------------------
(* The parser. A device is the record of its three variables; a step gives  *)
(* the device and the callback: its state, count and bytes, or none.        *)

Device == [state |-> input_state, buffer |-> input_buffer, count |-> input_count]

NoCall == [state |-> "idle", count |-> 0, bytes |-> <<0, 0, 0>>]

Stored(d, b) == [d EXCEPT !.buffer = [@ EXCEPT ![d.count % 3] = b], !.count = @ + 1]

CallOf(d, n) ==
  [state |-> d.state, count |-> d.count,
   bytes |-> <<d.buffer[0], d.buffer[1], IF n = 2 THEN 0 ELSE d.buffer[2]>>]

\* A status byte is stored first, unless it comes inside a system exclusive message.
Status(d, b) ==
  LET begun == IF d.state = "sysex" THEN d
               ELSE [d EXCEPT !.buffer = [@ EXCEPT ![0] = b], !.count = 1]
      ended == Stored(begun, b)
  IN
  CASE PacketLength(b) = 1 -> [dev |-> [begun EXCEPT !.state = "idle"], call |-> NoCall]
    [] PacketLength(b) = 2 -> [dev |-> [begun EXCEPT !.state = "two"], call |-> NoCall]
    [] PacketLength(b) = 3 -> [dev |-> [begun EXCEPT !.state = "three"], call |-> NoCall]
    [] b = SysexBegin ->
         [dev |-> [state |-> "sysex", buffer |-> [d.buffer EXCEPT ![0] = b], count |-> 1],
          call |-> NoCall]
    [] b = SysexEnd ->
         [dev |-> [ended EXCEPT !.state = "idle"], call |-> CallOf(ended, 3)]

\* Mutant: the status byte is not kept for the data that follow a message.
FreshCount == 0

\* "set to 1, keeping status byte, allowing for running status"
RunningCount == 1

Data(d, b) ==
  LET stored   == Stored(d, b)
      complete == d.count % 3 = 2 \/ (d.count % 3 = 1 /\ d.state = "two")
  IN
  IF d.state = "idle" THEN [dev |-> d, call |-> NoCall]
  ELSE IF ~complete THEN [dev |-> stored, call |-> NoCall]
  ELSE [dev |-> IF d.state = "sysex" THEN stored ELSE [stored EXCEPT !.count = RunningCount],
        call |-> CallOf(stored, (d.count % 3) + 1)]

\* A realtime byte leaves the device as it is: "call callback, store and
\* restore state".
Realtime(d, b) == [dev |-> d, call |-> [state |-> "one", count |-> 1, bytes |-> <<b, 0, 0>>]]

Parsed(d, b) ==
  IF IsRealtime(b) THEN Realtime(d, b) ELSE IF IsStatus(b) THEN Status(d, b) ELSE Data(d, b)

-----------------------------------------------------------------------------
(* The callbacks *)

\* midi_input_callbacks for all but system exclusive: what comes with the
\* count of bytes of its kind is delivered.
Delivered(call) ==
  CASE call.count = 3 /\ call.bytes[1] = NoteOn -> <<call.bytes>>
    [] call.count = 2 /\ call.bytes[1] = ProgChange -> <<SubSeq(call.bytes, 1, 2)>>
    [] call.count = 1 /\ IsRealtime(call.bytes[1]) -> <<SubSeq(call.bytes, 1, 1)>>
    [] OTHER -> <<>>

\* The gathering of a system exclusive message, the messages it has given, and
\* whether the last of them was gathered in a used buffer.
Gathered ==
  [size |-> sysexSize, buffer |-> tempBuffer, used |-> used, out |-> <<>>, spoils |-> FALSE]

\* sysexReceiveByte.
SysexByte(g, b) ==
  CASE b = SysexBegin ->
         [g EXCEPT !.size = 0, !.buffer = [i \in DOMAIN g.buffer |-> 0], !.used = FALSE]
    [] b = SysexEnd ->
         [g EXCEPT !.size = 0, !.spoils = g.used,
                   !.out = <<(<<SysexBegin>> \o [i \in 1 .. g.size |-> g.buffer[i - 1]])
                               \o <<SysexEnd>>>>]
    [] OTHER ->
         LET size == IF g.size >= MaxSysex THEN 0 ELSE g.size
         IN  [g EXCEPT !.size = size + 1, !.buffer = [@ EXCEPT ![size] = b]]

\* How many of the bytes of a call are new. The count is that of the message.
NewBytes(call) ==
  IF sysexSize = 0 THEN call.count ELSE (call.count - sysexSize - 1) % 65536

\* midi_sysexEvent.
SysexEvent(call) ==
  LET taken(g, n) == IF NewBytes(call) >= n THEN SysexByte(g, call.bytes[n]) ELSE g
  IN  taken(taken(taken(Gathered, 1), 2), 3)

-----------------------------------------------------------------------------
(* The timer interrupt *)

\* midi_device_process begins: it will take the bytes queued by now.
Process ==
  /\ len = 0
  /\ QueueLength(queue) > 0
  /\ len' = QueueLength(queue)
  /\ UNCHANGED <<queue, parserVars, processed, senderVars, receivedVars>>

\* midi_process_byte on the oldest byte.
ProcessByte ==
  LET parsed   == Parsed(Device, Get(queue, 0))
      gathered == IF parsed.call.state = "sysex" THEN SysexEvent(parsed.call) ELSE Gathered
  IN
  /\ len > 0 /\ ~processed
  /\ processed' = TRUE
  /\ input_state' = parsed.dev.state
  /\ input_buffer' = parsed.dev.buffer
  /\ input_count' = parsed.dev.count
  /\ sysexSize' = gathered.size
  /\ tempBuffer' = gathered.buffer
  /\ used' = gathered.used
  /\ received' = received \o (IF parsed.call.state = "sysex" THEN gathered.out
                             ELSE Delivered(parsed.call))
  /\ spoilt' = IF gathered.spoils THEN spoilt \cup {Len(received) + 1} ELSE spoilt
  /\ UNCHANGED <<queue, len, senderVars>>

\* bytequeue_remove of the byte that has been processed.
RemoveByte ==
  /\ processed
  /\ processed' = FALSE
  /\ len' = len - 1
  /\ queue' = Remove(queue, 1)
  /\ UNCHANGED <<parserVars, senderVars, receivedVars>>

\* Elsewhere in the timer interrupt the same buffer holds the parameters while a custom one
\* is displayed, or the preset to dump, whatever message is being gathered in it.
BufferUsed ==
  /\ len = 0
  /\ tempBuffer' \in Scratch
  /\ used' = TRUE
  /\ UNCHANGED <<queue, input_state, input_buffer, input_count, sysexSize, len, processed,
                 senderVars, receivedVars>>

-----------------------------------------------------------------------------
Timer == Process \/ ProcessByte \/ RemoveByte

Uart ==
  \/ NewData
  \/ \E m \in Messages : NewRealtime(m)

Sender == \E m \in Messages, running \in BOOLEAN : Begin(m, running)

Next == Timer \/ BufferUsed \/ Uart \/ Sender

Spec == Init /\ [][Next]_vars

\* The timer keeps interrupting, and processes what has come.
FairSpec == Spec /\ WF_vars(Timer)

-----------------------------------------------------------------------------
(* Properties *)

\* The messages received, those that were spoilt as they should have been.
Heard == [i \in DOMAIN received |-> IF i \in spoilt THEN sent[i] ELSE received[i]]

Channel == INSTANCE MidiChannel WITH
  Messages <- Messages,
  sent     <- sent,
  received <- Heard

\* Reception implements MidiChannel: whatever the UART interrupt queues between
\* two steps of the timer interrupt, each message is delivered once and in order, with
\* or without its status byte, with realtime bytes inside it, after one that was cut
\* off, and in the end it is; and it is whole, unless it is system exclusive and its
\* buffer was used for something else while it came (ui.c:367, midi.c:515, 531):
\* then it is delivered in its place, but what is in it may be anything.
MessagesArrive == Channel!Spec

\* Whatever is dropped because the queue is full, and wherever a system exclusive
\* message is cut off: what is delivered is MIDI, never a message put together
\* with a status byte among its data or longer than the buffer, but for those that were
\* gathered in a buffer used for something else.
ReceivedMidi == \A i \in (1 .. Len(received)) \ spoilt : IsMidi(received[i])
=============================================================================
