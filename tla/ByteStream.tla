----------------------------- MODULE ByteStream -----------------------------
(***************************************************************************)
(* What a circular buffer promises its users: a bounded queue of bytes,    *)
(* filled one byte at a time in stream order, emptied from the front in    *)
(* chunks, into which nothing goes once it is shut.                        *)
(***************************************************************************)
EXTENDS Integers, Sequences

CONSTANTS
  Capacity,   \* most bytes the queue may hold
  SeqModulus      \* bytes are named by their stream position modulo SeqModulus

VARIABLES
  queue,      \* the bytes put and not yet taken, oldest first
  next,       \* name of the next byte to be put
  shut        \* TRUE once the stream has been closed

vars == <<queue, next, shut>>

Init ==
  /\ queue = <<>>
  /\ next \in 0 .. (SeqModulus - 1)
  /\ shut = FALSE

Put ==
  /\ ~shut
  /\ Len(queue) < Capacity
  /\ queue' = Append(queue, next)
  /\ next' = IF next + 1 < SeqModulus THEN next + 1 ELSE 0
  /\ UNCHANGED shut

Take(n) ==
  /\ queue' = SubSeq(queue, n + 1, Len(queue))
  /\ UNCHANGED <<next, shut>>

Shut ==
  /\ shut' = TRUE
  /\ UNCHANGED <<queue, next>>

Next == Put \/ (\E n \in 1 .. Len(queue) : Take(n)) \/ Shut

Spec == Init /\ [][Next]_vars

=============================================================================
