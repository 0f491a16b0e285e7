------------------------------ MODULE MidiOut ------------------------------
(***************************************************************************)
(* MIDI transmission (common/midi.c): the main loop (wheels, program       *)
(* changes) and the timer interrupt (keys, arpeggiator, sequencer) put     *)
(* messages into one send queue, byte by byte; both also take bytes out of *)
(* it. The timer interrupt may come between any two steps of the main loop.*)
(***************************************************************************)
EXTENDS ByteQueue

CONSTANTS
  MainMessages,  \* messages of the main loop, three bytes each
  TimerMessages, \* messages of the timer interrupt
  MaxMessages    \* bound on the messages of a behaviour

Messages == MainMessages \cup TimerMessages

VARIABLES
  sendQueue,
  line,         \* bytes that have left through the UART
  count,        \* messages begun
  pc,           \* where the main loop is in sendEnqueue and midi_update
  todo,         \* bytes of its message that the main loop has yet to enqueue
  b             \* byte that the main loop's midi_update has read

mainVars == <<pc, todo, b>>
vars == <<sendQueue, line, count, mainVars>>

TypeOK ==
  /\ sendQueue \in Queue
  /\ line \in Seq(Bytes)
  /\ count \in 0 .. MaxMessages
  /\ pc \in {"enqueue", "length", "get", "remove", "send"}
  /\ todo \in Seq(Bytes) /\ Len(todo) <= 3
  /\ b \in Bytes

Init ==
  /\ sendQueue = EmptyQueue /\ line = <<>> /\ count = 0
  /\ pc = "enqueue" /\ todo = <<>> /\ b = 0

-----------------------------------------------------------------------------
(* The timer interrupt, whole as the main loop sees it. State s is a record  *)
(* of the queue and the line.                                                *)

\* midi_update(1): the oldest byte, if any, goes out.
Updated(s) ==
  IF QueueLength(s.queue) = 0 THEN s
  ELSE [queue |-> Remove(s.queue, 1), line |-> Append(s.line, Get(s.queue, 0))]

\* sendEnqueue: a full queue gives a byte away first.
Enqueued(s, item) ==
  LET roomy == IF Full(s.queue) THEN Updated(s) ELSE s
  IN  [roomy EXCEPT !.queue = Enqueue(@, item)]

Now == [queue |-> sendQueue, line |-> line]

TimerUpdate ==
  /\ QueueLength(sendQueue) > 0
  /\ sendQueue' = Updated(Now).queue
  /\ line' = Updated(Now).line
  /\ UNCHANGED <<count, mainVars>>

TimerSend(m) ==
  LET sent == Enqueued(Enqueued(Enqueued(Now, m[1]), m[2]), m[3]) IN
  /\ count < MaxMessages
  /\ count' = count + 1
  /\ sendQueue' = sent.queue
  /\ line' = sent.line
  /\ UNCHANGED mainVars

-----------------------------------------------------------------------------
(* The main loop *)

MainSend(m) ==
  /\ pc = "enqueue" /\ todo = <<>> /\ count < MaxMessages
  /\ todo' = m
  /\ count' = count + 1
  /\ UNCHANGED <<sendQueue, line, pc, b>>

\* sendEnqueue tries the next byte; with the queue full it calls midi_update(1).
MainEnqueue ==
  /\ pc = "enqueue" /\ todo # <<>>
  /\ IF Full(sendQueue) THEN pc' = "length" /\ UNCHANGED <<sendQueue, todo>>
     ELSE /\ sendQueue' = Enqueue(sendQueue, Head(todo))
          /\ todo' = Tail(todo)
          /\ UNCHANGED pc
  /\ UNCHANGED <<line, count, b>>

MainLength ==
  /\ pc = "length"
  /\ pc' = IF QueueLength(sendQueue) > 0 THEN "get" ELSE "enqueue"
  /\ UNCHANGED <<sendQueue, line, count, todo, b>>

MainGet ==
  /\ pc = "get"
  /\ b' = Get(sendQueue, 0)
  /\ pc' = "remove"
  /\ UNCHANGED <<sendQueue, line, count, todo>>

MainRemove ==
  /\ pc = "remove"
  /\ sendQueue' = Remove(sendQueue, 1)
  /\ pc' = "send"
  /\ UNCHANGED <<line, count, todo, b>>

\* uart_send waits for the UART; then the loop of sendEnqueue tries again.
MainUart ==
  /\ pc = "send"
  /\ line' = Append(line, b)
  /\ pc' = "enqueue"
  /\ UNCHANGED <<sendQueue, count, todo, b>>

-----------------------------------------------------------------------------
Main ==
  \/ \E m \in MainMessages : MainSend(m)
  \/ MainEnqueue
  \/ MainLength
  \/ MainGet
  \/ MainRemove
  \/ MainUart

Timer ==
  \/ TimerUpdate
  \/ \E m \in TimerMessages : TimerSend(m)

Next == Main \/ Timer

Spec == Init /\ [][Next]_vars

-----------------------------------------------------------------------------
(* Properties *)

\* What leaves is whole messages, one after the other. The sending function is
\* expected "to disable interrupts so that you can call the various midi send
\* functions without worrying about locking" (midi_device.h).
MessagesWhole ==
  \A i \in 1 .. Len(line) \div 3 : SubSeq(line, 3 * i - 2, 3 * i) \in Messages
=============================================================================
