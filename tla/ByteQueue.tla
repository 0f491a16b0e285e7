----------------------------- MODULE ByteQueue -----------------------------
(***************************************************************************)
(* The circular byte queue of xnormidi (bytequeue/bytequeue.c), as         *)
(* operators on the structure byteQueue_t. It holds one byte less than its *)
(* array is long.                                                          *)
(***************************************************************************)
EXTENDS Integers, Sequences

CONSTANTS
  Length,        \* length of the array
  Bytes          \* bytes that get queued, 0 among them

ASSUME LengthAssumption == Length \in Nat \ {0, 1}
ASSUME BytesAssumption  == 0 \in Bytes /\ Bytes \subseteq 0 .. 255

Slots == 0 .. Length - 1

Queue == [data : [Slots -> Bytes], start : Slots, end : Slots]

EmptyQueue == [data |-> [i \in Slots |-> 0], start |-> 0, end |-> 0]

\* (i + n) % Length, for an index i and n at most Length.
Plus(i, n) == IF i + n >= Length THEN i + n - Length ELSE i + n

\* Mutant: the slot that tells full from empty is used too.
NeverFull(q) == FALSE

Full(q) == Plus(q.end, 1) = q.start

\* A byte that finds the queue full is dropped (the result is ignored for input).
Enqueue(q, item) ==
  IF Full(q) THEN q
  ELSE [q EXCEPT !.data = [@ EXCEPT ![q.end] = item], !.end = Plus(@, 1)]

QueueLength(q) ==
  IF q.end >= q.start THEN q.end - q.start ELSE (Length - q.start) + q.end

\* Mutant: the newest byte is read.
GetFromEnd(q, index) == q.data[Plus(q.end, Length - 1 - index)]

Get(q, index) == q.data[Plus(q.start, index)]

Remove(q, n) == [q EXCEPT !.start = Plus(@, n)]

\* The bytes in the queue, the oldest first.
Contents(q) == [i \in 1 .. QueueLength(q) |-> Get(q, i - 1)]
=============================================================================
