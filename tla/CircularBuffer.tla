--------------------------- MODULE CircularBuffer ---------------------------
(***************************************************************************)
(* The blocking ring buffer of libchitcp (chitcp/src/libchitcp/buffer.c).  *)
(*                                                                         *)
(* Each chiTCP socket owns two of them: a SEND handler writes into `send`  *)
(* and the socket's TCP thread reads it; the TCP thread writes into `recv` *)
(* and a RECV handler reads it; a debugger's GET_SOCKET_BUFFER_CONTENTS    *)
(* peeks at both.                                                          *)
(*                                                                         *)
(* A call runs under the buffer's mutex, except that `closed` is set with  *)
(* no lock held and that pthread_cond_wait gives the mutex up. One action  *)
(* is therefore one byte of a copying loop: circular_buffer_close can fall *)
(* between any two of them.                                                *)
(*                                                                         *)
(* A byte is named by its position in the stream, modulo SeqModulus (2^32 *)
(* in the code), so the content of a slot says which byte it holds.        *)
(***************************************************************************)
EXTENDS Integers

CONSTANTS
  Writers,      \* threads that call circular_buffer_write
  Readers,      \* threads that call circular_buffer_read
  Peekers,      \* threads that call circular_buffer_peek
  MaxSize,      \* buf->maxsize
  SeqModulus,   \* sequence numbers are uint32_t: 2^32 of them
  WriteLens,    \* values of the len argument of circular_buffer_write
  ReadLens,     \* values of the len argument of circular_buffer_read
  PeekLens,     \* values of the len argument of circular_buffer_peek
  WriteModes,   \* values of the blocking argument of circular_buffer_write
  ReadModes,    \* values of the blocking argument of circular_buffer_read
  PeekModes,    \* values of the blocking argument of circular_buffer_peek
  CanClose,     \* TRUE when some thread may call circular_buffer_close
  Spurious      \* TRUE when pthread_cond_wait may wake up unsignalled

Modes == {"BLOCKING", "NONBLOCKING"}
NoThread == "none"
Threads == Writers \cup Readers \cup Peekers

ASSUME ThreadsAssumption ==
  /\ Writers \cap Readers = {}
  /\ Writers \cap Peekers = {}
  /\ Readers \cap Peekers = {}
  /\ NoThread \notin Threads

ASSUME SizeAssumption ==
  /\ MaxSize \in Nat \ {0}
  /\ SeqModulus \in Nat
  /\ MaxSize < SeqModulus
  /\ WriteLens \subseteq Nat
  /\ ReadLens \subseteq Nat
  /\ PeekLens \subseteq Nat

ASSUME ModeAssumption ==
  /\ WriteModes \subseteq Modes
  /\ ReadModes \subseteq Modes
  /\ PeekModes \subseteq Modes
  /\ CanClose \in BOOLEAN
  /\ Spurious \in BOOLEAN

VARIABLES
  data,      \* the array: which byte each slot holds, SeqModulus when none yet
  start,     \* slot of the oldest unread byte
  end,       \* slot after the newest byte, as of the last completed write
  seqStart,  \* sequence number of the oldest unread byte
  seqEnd,    \* sequence number after the newest published byte
  empty,     \* the flag a blocking reader waits on
  full,      \* the flag a blocked writer waits on
  closing,   \* how far circular_buffer_close has gone
  lock,      \* holder of buf->lock
  pc,        \* where each thread is
  len,       \* len argument of the call in progress, once clamped
  mode,      \* blocking argument of the call in progress
  k,         \* local k of the call: the slot it works on
  j,         \* bytes the call has copied so far
  offset,    \* local seq_end_update_offset of a write
  stored     \* ghost: sequence number of the next byte to be stored

shared == <<data, start, end, seqStart, seqEnd, empty, full>>
locals == <<len, mode, k, j, offset>>
vars == <<shared, closing, lock, pc, locals, stored>>

Slots == 0 .. (MaxSize - 1)
SeqNums == 0 .. (SeqModulus - 1)
MinOf(a, b) == IF a < b THEN a ELSE b

\* Sequence numbers wrap around like the uint32_t they are.
Plus(a, b) == IF a + b >= SeqModulus THEN a + b - SeqModulus
              ELSE IF a + b < 0 THEN a + b + SeqModulus ELSE a + b
Minus(a, b) == IF a >= b THEN a - b ELSE a - b + SeqModulus

\* The slot `i` places after slot 0, for i below twice the capacity: a local k
\* that reaches maxsize goes back to 0. Mutant: it does not.
SlotNoWrap(i) == i
Slot(i) == IF i < MaxSize THEN i ELSE i - MaxSize

\* circular_buffer_count and circular_buffer_available, which take no lock.
Count == Minus(seqEnd, seqStart)
Available == MaxSize - Count

Closed == closing # "open"

-----------------------------------------------------------------------------

Init ==
  /\ data = [s \in Slots |-> SeqModulus]
  /\ start = 0
  /\ end = 0
  /\ seqStart \in SeqNums          \* circular_buffer_set_seq_initial
  /\ seqEnd = seqStart
  /\ stored = seqStart
  /\ empty = TRUE
  /\ full = FALSE
  /\ closing = "open"
  /\ lock = NoThread
  /\ pc = [t \in Threads |-> "idle"]
  /\ len = [t \in Threads |-> 0]
  /\ mode = [t \in Threads |-> "BLOCKING"]
  /\ k = [t \in Threads |-> 0]
  /\ j = [t \in Threads |-> 0]
  /\ offset = [t \in Threads |-> 0]

\* The threads asleep in pthread_cond_wait on each condition variable.
OnNotEmpty == {t \in Readers \cup Peekers : pc[t] = "wait"}
OnNotFull == {t \in Writers : pc[t] = "wait"}

\* pthread_cond_signal: one of the sleepers, if any, leaves the wait set and
\* has yet to get the mutex back.
Signal(sleepers) ==
  IF sleepers = {}
    THEN UNCHANGED pc
    ELSE \E t \in sleepers : pc' = [pc EXCEPT ![t] = "woken"]

\* A stored byte wakes one reader. Mutant: only the byte that ends the
\* emptiness does.
SignalReaderOnce == IF empty THEN Signal(OnNotEmpty) ELSE UNCHANGED pc
SignalReader == Signal(OnNotEmpty)

\* A copied byte wakes one writer and ends the fullness. Mutants: it wakes none;
\* the flag stays.
SignalNoWriter == UNCHANGED pc
SignalWriter == Signal(OnNotFull)
KeepFull == UNCHANGED full
ClearFull == full' = FALSE

\* A thread leaves pthread_cond_wait without a signal.
SpuriousWakeup(t) ==
  /\ Spurious
  /\ pc[t] = "wait"
  /\ pc' = [pc EXCEPT ![t] = "woken"]
  /\ UNCHANGED <<shared, closing, lock, locals, stored>>

\* A call that returns loses its locals.
Forget(t) ==
  /\ pc' = [pc EXCEPT ![t] = "idle"]
  /\ len' = [len EXCEPT ![t] = 0]
  /\ mode' = [mode EXCEPT ![t] = "BLOCKING"]
  /\ k' = [k EXCEPT ![t] = 0]
  /\ j' = [j EXCEPT ![t] = 0]
  /\ offset' = [offset EXCEPT ![t] = 0]

\* The call of thread t returns and gives the mutex up.
Return(t) == lock' = NoThread /\ Forget(t)

\* The call of thread t returns with the mutex still held.
ReturnHolding(t) == lock' = t /\ Forget(t)

\* pthread_cond_wait: the mutex is released and the thread sleeps.
Sleep(t) ==
  /\ lock' = NoThread
  /\ pc' = [pc EXCEPT ![t] = "wait"]

\* Every call first looks at `closed` with no lock held, and returns 0 when it
\* is set (no state changes then); otherwise it goes for the mutex.
Call(t, n, m) ==
  /\ pc[t] = "idle"
  /\ ~Closed
  /\ pc' = [pc EXCEPT ![t] = "lock"]
  /\ len' = [len EXCEPT ![t] = n]
  /\ mode' = [mode EXCEPT ![t] = m]
  /\ UNCHANGED <<shared, closing, lock, k, j, offset, stored>>

-----------------------------------------------------------------------------
(* circular_buffer_write *)

WriteCall(w) == \E n \in WriteLens, m \in WriteModes : Call(w, n, m)

\* The mutex is taken: the length is clamped to the capacity, and an end that
\* has caught up with the start while there is space means an empty buffer.
WriteLock(w) ==
  /\ pc[w] = "lock"
  /\ lock = NoThread
  /\ Available >= len[w] \/ mode[w] = "BLOCKING"
  /\ lock' = w
  /\ pc' = [pc EXCEPT ![w] = "run"]
  /\ len' = [len EXCEPT ![w] = MinOf(@, MaxSize)]
  /\ k' = [k EXCEPT ![w] = end]
  /\ j' = [j EXCEPT ![w] = 0]
  /\ offset' = [offset EXCEPT ![w] = 0]
  /\ empty' = (empty \/ (end = start /\ Available > 0))
  /\ UNCHANGED <<data, start, end, seqStart, seqEnd, full, closing, mode, stored>>

\* A non-blocking write without room returns CHITCP_EWOULDBLOCK, and has no
\* unlock on that path.
WriteWouldBlock(w) ==
  /\ pc[w] = "lock"
  /\ lock = NoThread
  /\ Available < len[w]
  /\ mode[w] = "NONBLOCKING"
  /\ ReturnHolding(w)
  /\ UNCHANGED <<shared, closing, stored>>

\* seq_end_update_offset remembers what has been published while blocked.
\* Mutant: it does not, and the write publishes those bytes again.
ForgetPublished(w) == UNCHANGED offset
RememberPublished(w) == offset' = [offset EXCEPT ![w] = @ + Available]

\* No free slot is left: what has been stored is published, and the writer
\* sleeps until a reader clears `full`.
WriteBlock(w) ==
  /\ pc[w] = "run"
  /\ j[w] < len[w]
  /\ k[w] = start
  /\ ~empty
  /\ full' = TRUE
  /\ end' = start
  /\ RememberPublished(w)
  /\ seqEnd' = Plus(seqEnd, Available)
  /\ Sleep(w)
  /\ UNCHANGED <<data, start, seqStart, empty, closing, len, mode, k, j, stored>>

\* The test of `while (full)`. Mutant: `if (full)`, not tested after a wake-up.
NotRetested == FALSE
StillFull == full

\* pthread_cond_wait has the mutex again, and the writer looks at `full`.
WriteWake(w) ==
  /\ pc[w] = "woken"
  /\ lock = NoThread
  /\ IF StillFull
       THEN /\ Sleep(w)
            /\ UNCHANGED empty
       ELSE /\ lock' = w
            /\ pc' = [pc EXCEPT ![w] = "run"]
            /\ empty' = (empty \/ k[w] = start)
  /\ UNCHANGED <<data, start, end, seqStart, seqEnd, full, closing, locals, stored>>

\* The copying loop goes on. Mutant: it does not look at `closed`.
MayStoreClosed(w) == j[w] < len[w] /\ (k[w] # start \/ empty)
MayStore(w) == j[w] < len[w] /\ (k[w] # start \/ empty) /\ ~Closed

\* One byte of the copying loop, and the signal to one reader.
WriteByte(w) ==
  /\ pc[w] = "run"
  /\ MayStore(w)
  /\ data' = [data EXCEPT ![k[w]] = stored]
  /\ stored' = Plus(stored, 1)
  /\ k' = [k EXCEPT ![w] = Slot(@ + 1)]
  /\ j' = [j EXCEPT ![w] = @ + 1]
  /\ empty' = FALSE
  /\ SignalReader
  /\ UNCHANGED <<start, end, seqStart, seqEnd, full, closing, lock, len, mode, offset>>

\* The buffer was closed: the call returns j and leaves end and seq_end alone.
WriteAbort(w) ==
  /\ pc[w] = "run"
  /\ j[w] < len[w]
  /\ k[w] # start \/ empty
  /\ Closed
  /\ Return(w)
  /\ UNCHANGED <<shared, closing, stored>>

\* All bytes are stored: the part not published while blocked is published.
WriteFinish(w) ==
  /\ pc[w] = "run"
  /\ j[w] = len[w]
  /\ end' = k[w]
  /\ seqEnd' = Plus(seqEnd, len[w] - offset[w])
  /\ Return(w)
  /\ UNCHANGED <<data, start, seqStart, empty, full, closing, stored>>

Write(w) ==
  \/ WriteCall(w) \/ WriteLock(w) \/ WriteWouldBlock(w) \/ WriteBlock(w)
  \/ WriteWake(w) \/ WriteByte(w) \/ WriteAbort(w) \/ WriteFinish(w)

-----------------------------------------------------------------------------
(* circular_buffer_read and circular_buffer_peek *)

\* The argument len becomes toread, and the copying loop starts.
StartCopy(r) ==
  /\ lock' = r
  /\ pc' = [pc EXCEPT ![r] = "run"]
  /\ len' = [len EXCEPT ![r] = MinOf(@, Count)]
  /\ k' = [k EXCEPT ![r] = start]
  /\ j' = [j EXCEPT ![r] = 0]
  /\ UNCHANGED <<mode, offset>>

ReadCall(r) == \E n \in ReadLens, m \in ReadModes : Call(r, n, m)

PeekCall(p) == \E n \in PeekLens, m \in PeekModes : Call(p, n, m)

\* A blocking call that has the mutex, first or after a sleep: it sleeps while
\* the buffer is empty; if the buffer was closed meanwhile it returns 0
\* without unlocking; otherwise it starts copying.
ReadLockBlocking(r) ==
  /\ pc[r] \in {"lock", "woken"}
  /\ lock = NoThread
  /\ mode[r] = "BLOCKING"
  /\ \/ empty /\ Sleep(r) /\ UNCHANGED locals
     \/ ~empty /\ Closed /\ ReturnHolding(r)
     \/ ~empty /\ ~Closed /\ StartCopy(r)
  /\ UNCHANGED <<shared, closing, stored>>

ReadLockNonblocking(r) ==
  /\ pc[r] = "lock"
  /\ lock = NoThread
  /\ mode[r] = "NONBLOCKING"
  /\ \/ empty /\ Return(r)        \* CHITCP_EWOULDBLOCK
     \/ ~empty /\ StartCopy(r)
  /\ UNCHANGED <<shared, closing, stored>>

\* One byte of the copying loop, which a peek shares: `full` is cleared and a
\* writer is signalled for every byte, removed or not.
CopyByte(r) ==
  /\ pc[r] = "run"
  /\ j[r] < len[r]
  /\ ~Closed
  /\ k' = [k EXCEPT ![r] = Slot(@ + 1)]
  /\ j' = [j EXCEPT ![r] = @ + 1]
  /\ ClearFull
  /\ SignalWriter
  /\ UNCHANGED <<data, start, end, seqStart, seqEnd, empty, closing, lock,
                 len, mode, offset, stored>>

\* The buffer was closed: the call returns 0, whatever it has copied.
CopyAbort(r) ==
  /\ pc[r] = "run"
  /\ j[r] < len[r]
  /\ Closed
  /\ Return(r)
  /\ UNCHANGED <<shared, closing, stored>>

\* All bytes are copied: a read removes them.
ReadFinish(r) ==
  /\ pc[r] = "run"
  /\ j[r] = len[r]
  /\ start' = k[r]
  /\ seqStart' = Plus(seqStart, len[r])
  /\ empty' = (empty \/ (k[r] = end /\ len[r] > 0))
  /\ Return(r)
  /\ UNCHANGED <<data, end, seqEnd, full, closing, stored>>

\* A peek leaves them.
PeekFinish(p) ==
  /\ pc[p] = "run"
  /\ j[p] = len[p]
  /\ Return(p)
  /\ UNCHANGED <<shared, closing, stored>>

Copying(r) ==
  \/ ReadLockBlocking(r) \/ ReadLockNonblocking(r) \/ CopyByte(r) \/ CopyAbort(r)

Read(r) == ReadCall(r) \/ Copying(r) \/ ReadFinish(r)
Peek(p) == PeekCall(p) \/ Copying(p) \/ PeekFinish(p)

-----------------------------------------------------------------------------
(* circular_buffer_close: no lock is taken, and a socket may close twice *)

Close ==
  /\ CanClose
  /\ closing \in {"open", "signalledBoth"}
  /\ closing' = "closed"
  /\ UNCHANGED <<shared, lock, pc, locals, stored>>

CloseSignalNotEmpty ==
  /\ closing = "closed"
  /\ closing' = "signalledNotEmpty"
  /\ Signal(OnNotEmpty)
  /\ UNCHANGED <<shared, lock, locals, stored>>

CloseSignalNotFull ==
  /\ closing = "signalledNotEmpty"
  /\ closing' = "signalledBoth"
  /\ Signal(OnNotFull)
  /\ UNCHANGED <<shared, lock, locals, stored>>

Next ==
  \/ \E w \in Writers : Write(w)
  \/ \E r \in Readers : Read(r)
  \/ \E p \in Peekers : Peek(p)
  \/ \E t \in Threads : SpuriousWakeup(t)
  \/ Close \/ CloseSignalNotEmpty \/ CloseSignalNotFull

Spec == Init /\ [][Next]_vars

\* The steps of a writer inside a call, which fairness is about: nothing is
\* assumed of when it calls.
WriterSteps(w) ==
  \/ WriteLock(w) \/ WriteWouldBlock(w) \/ WriteBlock(w) \/ WriteWake(w)
  \/ WriteByte(w) \/ WriteAbort(w) \/ WriteFinish(w)

-----------------------------------------------------------------------------
(* Properties *)

ClosePhases == {"open", "closed", "signalledNotEmpty", "signalledBoth"}

\* The types of the buffer's fields and of the calls' locals.
TypeOK ==
  /\ data \in [Slots -> 0 .. SeqModulus]
  /\ start \in Slots
  /\ end \in Slots
  /\ seqStart \in SeqNums
  /\ seqEnd \in SeqNums
  /\ empty \in BOOLEAN
  /\ full \in BOOLEAN
  /\ closing \in ClosePhases
  /\ lock \in Threads \cup {NoThread}
  /\ pc \in [Threads -> {"idle", "lock", "run", "wait", "woken"}]
  /\ len \in [Threads -> Nat]
  /\ mode \in [Threads -> Modes]
  /\ k \in [Threads -> Slots]
  /\ j \in [Threads -> Nat]
  /\ offset \in [Threads -> Nat]
  /\ stored \in SeqNums

\* Between calls and in the middle of any of them, the Count oldest bytes the
\* buffer has published and nobody has read are still in their slots, in
\* stream order: a writer that wraps around, is blocked half-way, is woken
\* late or is aborted by a close never overwrites one of them.
UnreadIntact ==
  /\ Count <= MaxSize
  /\ \A o \in 0 .. (Count - 1) : data[Slot(start + o)] = Plus(seqStart, o)

\* The byte a reader is about to copy is the next one of the stream, across
\* any number of reads by any number of readers.
ReadsInOrder ==
  \A r \in Readers :
    pc[r] = "run" /\ j[r] < len[r] => data[k[r]] = Plus(seqStart, j[r])

\* send_all (tcp.c:633-638) looks at the count without the lock and then makes
\* a BLOCKING read: while the buffer is open a positive count must mean the
\* read will not sleep, and a full flag must mean no room at all.
FlagsAgreeWithCount ==
  ~Closed => /\ Count > 0 => ~empty
             /\ full => Count = MaxSize

\* No lost wake-up: while the buffer is open and the mutex free, a writer is asleep only while `full`
\* holds, and a reader is asleep with data in the buffer only if some other
\* reader has been woken and is on its way to it.
NoLostWakeup ==
  /\ \A w \in Writers : (pc[w] = "wait" /\ ~Closed) => full
  /\ (OnNotEmpty # {} /\ ~empty /\ ~Closed /\ lock = NoThread) =>
       \E r \in Readers \cup Peekers : pc[r] = "woken"

\* The bytes stored and not yet removed, oldest first, as the slots hold them.
Unread == [i \in 1 .. Minus(stored, seqStart) |-> data[Slot(start + i - 1)]]

\* The buffer implements a bounded FIFO byte stream: every step puts the next
\* byte of the stream behind the unread ones, removes some from the front,
\* closes it, or changes nothing a user sees; and no byte enters once closed.
Stream == INSTANCE ByteStream
            WITH Capacity <- MaxSize, queue <- Unread, next <- stored, shut <- Closed
ImplementsByteStream == Stream!Spec

\* Every write that has started returns, however far its length exceeds the free space, as
\* long as readers keep reading; and a blocking read returns once a byte has been stored.
CallsComplete ==
  /\ \A w \in Writers : pc[w] # "idle" ~> pc[w] = "idle"
  /\ \A r \in Readers : (pc[r] \in {"lock", "wait"} /\ ~empty) ~> pc[r] = "idle"

=============================================================================
