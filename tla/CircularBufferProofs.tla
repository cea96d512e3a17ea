------------------------ MODULE CircularBufferProofs ------------------------
(***************************************************************************)
(* Theorems about CircularBuffer, for every capacity, every sequence       *)
(* number space larger than it, every number of readers and all lengths,   *)
(* blocking or not, with closes and spurious wake-ups. They assume what    *)
(* chitcpd does with a socket's buffer as long as its program sends from   *)
(* one thread and no debugger peeks: one writer, no peekers.               *)
(*                                                                         *)
(* First the inductive invariant IInv and what follows from it; then that  *)
(* no wake-up is lost, which counts them; then that the buffer implements  *)
(* ByteStream.                                                             *)
(***************************************************************************)
EXTENDS CircularBuffer, FiniteSetTheorems, SequenceTheorems, TLAPS

SingleWriter == \E w : Writers = {w}
NoPeekers == Peekers = {}

\* Bytes stored and not yet removed; bytes stored and not yet published.
Held == Minus(stored, seqStart)
Unpublished == Minus(stored, seqEnd)

\* A write that has the mutex or sleeps in the middle of its loop.
Active(w) == pc[w] \in {"run", "wait", "woken"}

\* The mutex excludes: a running call holds it.
MutexInv == \A t \in Threads : pc[t] = "run" => lock = t

\* The two sequence numbers and the ghost describe one window of the stream.
WindowInv ==
  /\ Held <= MaxSize
  /\ Count + Unpublished = Held

\* The held bytes are in consecutive slots, from start on, in stream order.
ContentInv ==
  \A o \in 0 .. (MaxSize - 1) :
    o < Held => data[Slot(start + o)] = Plus(seqStart, o)

\* Where an unfinished write stands.
WriterInv ==
  \A w \in Writers : Active(w) =>
    /\ j[w] <= len[w]
    /\ len[w] <= MaxSize
    /\ Unpublished = j[w] - offset[w]
    /\ offset[w] <= j[w]
    /\ k[w] = Slot(start + Held)
    /\ Held = 0 => empty
    /\ pc[w] # "run" => end = k[w] /\ Unpublished = 0

\* Between writes, while the buffer is open or a write has passed its test of
\* `closed`: all is published and end is where it should be.
RestInv ==
  \A w \in Writers :
    (~Active(w) /\ (~Closed \/ pc[w] = "lock")) =>
      /\ Unpublished = 0
      /\ end = Slot(start + Held)
      /\ Held = 0 => empty

\* While the buffer is open, empty means empty; full means full and someone
\* blocked; and a blocked writer whose flag was cleared has room, now or when
\* the reader that cleared it is done.
FlagsInv ==
  /\ ~Closed => (empty => Held = 0)
  /\ full => /\ Count = MaxSize /\ Held = MaxSize
             /\ \A w \in Writers : pc[w] \in {"wait", "woken"}
             /\ \A r \in Readers : pc[r] = "run" => j[r] = 0
  /\ (~Closed /\ ~full) =>
       \A w \in Writers : pc[w] \in {"wait", "woken"} =>
         \/ Held < MaxSize
         \/ \E r \in Readers : pc[r] = "run" /\ j[r] > 0

\* Where a copying read stands.
ReaderInv ==
  \A r \in Readers : pc[r] = "run" =>
    /\ j[r] <= len[r]
    /\ len[r] <= Count
    /\ k[r] = Slot(start + j[r])

IInv ==
  /\ TypeOK
  /\ MutexInv
  /\ WindowInv
  /\ ContentInv
  /\ WriterInv
  /\ RestInv
  /\ FlagsInv
  /\ ReaderInv

-----------------------------------------------------------------------------

\* A signal changes the pc of a sleeper at most, and that to "woken".
LEMMA SignalEffect ==
  ASSUME TypeOK, NEW S \in SUBSET Threads, \A t \in S : pc[t] = "wait", Signal(S)
  PROVE  /\ pc' \in [Threads -> {"idle", "lock", "run", "wait", "woken"}]
         /\ \A t \in Threads :
              pc'[t] = pc[t] \/ (t \in S /\ pc[t] = "wait" /\ pc'[t] = "woken")
  BY DEF Signal, TypeOK

\* The arithmetic of the window, on the values of one state.
LEMMA WindowTypes ==
  ASSUME TypeOK
  PROVE  /\ start \in Slots /\ end \in Slots
         /\ Held \in Nat /\ Count \in Nat /\ Unpublished \in Nat
         /\ \A t \in Threads : /\ k[t] \in Slots
                              /\ j[t] \in Nat /\ len[t] \in Nat /\ offset[t] \in Nat
  BY SizeAssumption DEF TypeOK, Held, Count, Unpublished, Minus, SeqNums

\* Two places of the buffer less than MaxSize apart are different slots.
LEMMA SlotInjective ==
  ASSUME NEW s \in Slots, NEW a \in Nat, NEW b \in Nat,
         a <= MaxSize, b <= MaxSize, Slot(s + a) = Slot(s + b), a # b
  PROVE  (a = 0 /\ b = MaxSize) \/ (a = MaxSize /\ b = 0)
  BY SizeAssumption DEF Slot, Slots

LEMMA SlotType ==
  ASSUME NEW s \in Slots, NEW a \in 0 .. MaxSize
  PROVE  /\ Slot(s + a) \in Slots
         /\ Slot(s + 0) = s
         /\ Slot(s + MaxSize) = s
         /\ a < MaxSize => Slot(Slot(s + a) + 1) = Slot(s + (a + 1))
  BY SizeAssumption DEF Slot, Slots

LEMMA SlotSum ==
  ASSUME NEW s \in Slots, NEW a \in Nat, NEW b \in Nat, a + b <= MaxSize
  PROVE  Slot(Slot(s + a) + b) = Slot(s + (a + b))
  BY SizeAssumption DEF Slot, Slots

LEMMA PlusSum ==
  ASSUME NEW s \in SeqNums, NEW a \in Nat, NEW b \in Nat, a + b <= MaxSize
  PROVE  /\ Plus(s, a) \in SeqNums
         /\ Plus(Plus(s, a), b) = Plus(s, a + b)
  BY SizeAssumption DEF Plus, SeqNums

\* With the mutex free nobody runs; held by t, nobody else does.
LEMMA Exclusion ==
  ASSUME MutexInv
  PROVE  /\ lock = NoThread => \A t \in Threads : pc[t] # "run"
         /\ \A t, u \in Threads : pc[t] = "run" /\ pc[u] = "run" => t = u
  BY ThreadsAssumption DEF MutexInv

\* A step that leaves the buffer's fields alone leaves the window alone.
LEMMA SameBuffer ==
  ASSUME WindowInv, ContentInv,
         UNCHANGED <<data, start, seqStart, seqEnd, stored>>
  PROVE  /\ Held' = Held /\ Count' = Count /\ Unpublished' = Unpublished
         /\ WindowInv' /\ ContentInv'
<1>1. Held' = Held /\ Count' = Count /\ Unpublished' = Unpublished
  BY DEF Held, Count, Unpublished, Minus
<1>2. WindowInv'
  BY <1>1 DEF WindowInv
<1>3. ContentInv'
  BY <1>1 DEF ContentInv, Slot, Plus
<1> QED BY <1>1, <1>2, <1>3

-----------------------------------------------------------------------------

LEMMA InitInv ==
  ASSUME Init
  PROVE  IInv
<1> USE ThreadsAssumption, SizeAssumption DEF Init
<1>1. TypeOK
  <2>1. 0 \in Slots /\ seqStart \in SeqNums /\ SeqModulus \in 0 .. SeqModulus
    BY DEF Slots, SeqNums
  <2>2. "BLOCKING" \in Modes /\ closing \in ClosePhases
    BY DEF ClosePhases, Modes
  <2>3. /\ data \in [Slots -> 0 .. SeqModulus]
        /\ pc \in [Threads -> {"idle", "lock", "run", "wait", "woken"}]
        /\ mode \in [Threads -> Modes]
    BY <2>1, <2>2
  <2>4. /\ len \in [Threads -> Nat] /\ j \in [Threads -> Nat]
        /\ k \in [Threads -> Slots] /\ offset \in [Threads -> Nat]
    BY <2>1
  <2> QED BY <2>1, <2>2, <2>3, <2>4 DEF TypeOK
<1>2. Held = 0 /\ Count = 0 /\ Unpublished = 0
  BY DEF Held, Count, Unpublished, Minus, SeqNums
<1>3. MutexInv /\ WriterInv /\ ReaderInv
  BY DEF MutexInv, WriterInv, ReaderInv, Active, Threads
<1>4. WindowInv /\ ContentInv /\ FlagsInv
  BY <1>2 DEF WindowInv, ContentInv, FlagsInv, Threads
<1>5. RestInv
  BY <1>2 DEF RestInv, Slot
<1> QED BY <1>1, <1>3, <1>4, <1>5 DEF IInv

LEMMA CallInv ==
  ASSUME IInv, NEW t \in Threads, NEW n \in Nat, NEW m \in Modes, Call(t, n, m)
  PROVE  IInv'
<1> USE DEF Call, shared
<1>1. TypeOK'
  BY DEF IInv, TypeOK
<1>2. /\ Held' = Held /\ Count' = Count /\ Unpublished' = Unpublished
      /\ WindowInv' /\ ContentInv'
  BY SameBuffer DEF IInv
<1>3. pc[t] = "idle" /\ pc'[t] = "lock" /\ \A u \in Threads : u # t => pc'[u] = pc[u]
  BY DEF IInv, TypeOK
<1>4. MutexInv'
  BY <1>3 DEF IInv, MutexInv
<1>5. WriterInv'
  BY <1>2, <1>3 DEF IInv, WriterInv, Active, Threads, TypeOK
<1>6. RestInv'
  BY <1>2, <1>3 DEF IInv, RestInv, Active, Threads, Closed
<1>7. FlagsInv'
  BY <1>2, <1>3 DEF IInv, FlagsInv, Threads, Closed
<1>8. ReaderInv'
  BY <1>2, <1>3 DEF IInv, ReaderInv, Threads, TypeOK
<1> QED BY <1>1, <1>2, <1>4, <1>5, <1>6, <1>7, <1>8 DEF IInv

-----------------------------------------------------------------------------

LEMMA WriteByteInv ==
  ASSUME SingleWriter, NoPeekers, IInv, NEW w \in Writers, WriteByte(w)
  PROVE  IInv'
<1> USE ThreadsAssumption, SizeAssumption DEF Threads, IInv
<1> DEFINE PcOf(t) ==
      pc'[t] = pc[t] \/ (t \in Readers /\ pc[t] = "wait" /\ pc'[t] = "woken")
<1>1. /\ pc' \in [Threads -> {"idle", "lock", "run", "wait", "woken"}]
      /\ \A t \in Threads : PcOf(t)
  <2>1. OnNotEmpty \subseteq Readers /\ \A t \in OnNotEmpty : pc[t] = "wait"
    BY DEF OnNotEmpty, NoPeekers
  <2>2. Signal(OnNotEmpty)
    BY DEF WriteByte, SignalReader
  <2> QED BY <2>1, <2>2, SignalEffect
<1>2. /\ \A v \in Writers : v = w
      /\ pc[w] = "run" /\ pc'[w] = "run" /\ lock = w /\ lock' = w
      /\ \A r \in Readers : pc[r] # "run" /\ pc'[r] # "run"
  BY <1>1 DEF WriteByte, MutexInv, SingleWriter
<1>3. /\ Held \in Nat /\ Count \in Nat /\ Unpublished \in Nat /\ start \in Slots
      /\ k[w] \in Slots /\ j[w] \in Nat /\ len[w] \in Nat /\ offset[w] \in Nat
  BY WindowTypes
<1>4. /\ k[w] = Slot(start + Held) /\ (k[w] # start \/ empty) /\ ~Closed
      /\ j[w] < len[w] /\ len[w] <= MaxSize /\ offset[w] <= j[w]
      /\ Unpublished = j[w] - offset[w]
  BY <1>2 DEF WriterInv, Active, WriteByte, MayStore
<1>5. Held < MaxSize
  <2>1. empty => Held = 0
    BY <1>4 DEF FlagsInv
  <2> QED BY <1>3, <1>4, <2>1 DEF WindowInv, Slot, Slots
<1>6. Held' = Held + 1 /\ Unpublished' = Unpublished + 1 /\ Count' = Count
  BY <1>3, <1>5 DEF WriteByte, Held, Unpublished, Count, Plus, Minus, TypeOK, WindowInv, SeqNums
<1>7. k'[w] = Slot(start' + Held') /\ k'[w] \in Slots
  BY <1>3, <1>4, <1>5, <1>6, SlotType DEF WriteByte, TypeOK
<1>8. TypeOK'
  <2>1. k' \in [Threads -> Slots] /\ j' \in [Threads -> Nat]
    BY <1>3, <1>7 DEF WriteByte, TypeOK
  <2>2. stored' \in SeqNums /\ data' \in [Slots -> 0 .. SeqModulus]
    BY <1>3 DEF WriteByte, TypeOK, SeqNums, Plus
  <2> QED BY <1>1, <2>1, <2>2 DEF WriteByte, TypeOK
<1>9. MutexInv'
  BY <1>1, <1>2 DEF MutexInv, NoPeekers
<1>10. WindowInv'
  BY <1>3, <1>5, <1>6 DEF WindowInv
<1>11. ContentInv'
  <2> SUFFICES ASSUME NEW o \in 0 .. (MaxSize - 1), o < Held'
               PROVE  data'[Slot(start' + o)] = (Plus(seqStart, o))'
    BY DEF ContentInv
  <2>1. CASE o = Held
    <3>1. Plus(seqStart, Held) = stored
      BY DEF TypeOK, SeqNums, Plus, Held, Minus
    <3>2. data'[k[w]] = stored /\ start' = start /\ seqStart' = seqStart
      BY <1>3 DEF WriteByte, TypeOK
    <3>3. (Plus(seqStart, o))' = Plus(seqStart, o)
      BY <3>2 DEF Plus
    <3> QED BY <1>4, <2>1, <3>1, <3>2, <3>3
  <2>2. CASE o < Held
    <3>1. Slot(start + o) # k[w]
      BY <1>3, <1>4, <1>5, <2>2, SlotInjective
    <3>2. data[Slot(start + o)] = Plus(seqStart, o)
      BY <2>2 DEF ContentInv
    <3>3. Slot(start + o) \in Slots
      BY <1>3, SlotType
    <3> QED BY <3>1, <3>2, <3>3 DEF WriteByte, TypeOK, Plus
  <2> QED BY <1>3, <1>6, <2>1, <2>2
<1>12. WriterInv'
  <2>1. j'[w] = j[w] + 1 /\ len'[w] = len[w] /\ offset'[w] = offset[w]
    BY <1>3 DEF WriteByte, TypeOK
  <2> QED BY <1>2, <1>3, <1>4, <1>5, <1>6, <1>7, <2>1 DEF WriterInv
<1>13. RestInv'
  BY <1>2 DEF RestInv, Active
<1>14. FlagsInv'
  BY <1>2, <1>4, <1>6 DEF FlagsInv, WriteByte, Closed
<1>15. ReaderInv'
  BY <1>2 DEF ReaderInv
<1> QED BY <1>8, <1>9, <1>10, <1>11, <1>12, <1>13, <1>14, <1>15

-----------------------------------------------------------------------------

\* Steps that only move threads in and out of pthread_cond_wait, or close: a
\* signal, a spurious wake-up, a flag tested again, a reader that finds nothing.
LEMMA WaitInv ==
  ASSUME IInv,
         UNCHANGED <<shared, lock, locals, stored>>,
         closing' \in ClosePhases, Closed => Closed',
         pc' \in [Threads -> {"idle", "lock", "run", "wait", "woken"}],
         \A t \in Threads :
           \/ pc'[t] = pc[t]
           \/ pc[t] \in {"wait", "woken"} /\ pc'[t] \in {"wait", "woken"}
           \/ t \in Readers /\ pc[t] = "lock" /\ pc'[t] = "wait"
  PROVE  IInv'
<1> USE ThreadsAssumption DEF Threads, shared, locals
<1>1. TypeOK'
  BY DEF IInv, TypeOK
<1>2. /\ Held' = Held /\ Count' = Count /\ Unpublished' = Unpublished
      /\ WindowInv' /\ ContentInv'
  BY SameBuffer DEF IInv
<1>3. MutexInv'
  BY DEF IInv, MutexInv
<1>4. WriterInv'
  <2> SUFFICES ASSUME NEW w \in Writers, Active(w)'
               PROVE  /\ Active(w)
                      /\ pc'[w] # "run" => pc[w] # "run"
    BY <1>2 DEF IInv, WriterInv, Slot
  <2> QED BY DEF Active
<1>5. RestInv'
  <2>1. \A w \in Writers : ~(Active(w)') => ~Active(w) /\ pc[w] = pc'[w]
    BY DEF Active
  <2> QED BY <1>2, <2>1 DEF IInv, RestInv, Slot
<1>6. FlagsInv'
  <2>1. \A w \in Writers : pc'[w] \in {"wait", "woken"} <=> pc[w] \in {"wait", "woken"}
    OBVIOUS
  <2>2. \A r \in Readers : pc'[r] = "run" <=> pc[r] = "run"
    OBVIOUS
  <2> QED BY <1>2, <2>1, <2>2 DEF IInv, FlagsInv
<1>7. ReaderInv'
  BY <1>2 DEF IInv, ReaderInv, Slot
<1> QED BY <1>1, <1>2, <1>3, <1>4, <1>5, <1>6, <1>7 DEF IInv

\* Calls that return and leave the buffer as it is: a call that found nothing
\* to do before its loop, and one that met a close inside it.
LEMMA LeaveInv ==
  ASSUME IInv, NEW t \in Threads,
         UNCHANGED <<shared, closing, stored>>,
         Forget(t), lock' \in {NoThread, t},
         \/ lock = NoThread /\ pc[t] = "lock"
         \/ lock = NoThread /\ pc[t] = "woken" /\ t \in Readers
         \/ pc[t] = "run" /\ Closed
  PROVE  IInv'
<1> USE ThreadsAssumption DEF Threads, shared
<1>1. TypeOK'
  <2>1. "BLOCKING" \in Modes /\ 0 \in Slots
    BY SizeAssumption DEF Modes, Slots
  <2> QED BY <2>1 DEF IInv, TypeOK, Forget
<1>2. /\ Held' = Held /\ Count' = Count /\ Unpublished' = Unpublished
      /\ WindowInv' /\ ContentInv'
  BY SameBuffer DEF IInv
<1>3. /\ pc'[t] = "idle"
      /\ \A u \in Threads : u # t =>
           /\ pc'[u] = pc[u] /\ len'[u] = len[u] /\ k'[u] = k[u]
           /\ j'[u] = j[u] /\ offset'[u] = offset[u]
  BY DEF IInv, TypeOK, Forget
<1>4. \A u \in Threads : pc'[u] # "run"
  BY <1>3, Exclusion DEF IInv
<1>5. MutexInv'
  BY <1>4 DEF MutexInv
<1>6. WriterInv'
  <2> SUFFICES ASSUME NEW w \in Writers, Active(w)'
               PROVE  w # t /\ Active(w)
    BY <1>2, <1>3 DEF IInv, WriterInv, Slot
  <2> QED BY <1>3 DEF Active
<1>7. RestInv'
  <2> SUFFICES ASSUME NEW w \in Writers, ~(Active(w)'),
                      ~Closed' \/ pc'[w] = "lock"
               PROVE  ~Active(w) /\ (~Closed \/ pc[w] = "lock")
    BY <1>2 DEF IInv, RestInv, Slot
  <2>1. CASE w = t
    BY <1>3, <2>1 DEF Active, Closed
  <2>2. CASE w # t
    BY <1>3, <2>2 DEF Active, Closed
  <2> QED BY <2>1, <2>2
<1>8. FlagsInv'
  <2>1. ~Closed => (empty' => Held' = 0)
    BY <1>2 DEF IInv, FlagsInv
  <2>2. ASSUME full' PROVE t \notin Writers
    BY <2>2 DEF IInv, FlagsInv
  <2>3. ASSUME full'
        PROVE /\ Count' = MaxSize /\ Held' = MaxSize
              /\ \A w \in Writers : pc'[w] \in {"wait", "woken"}
    BY <1>2, <1>3, <2>2, <2>3 DEF IInv, FlagsInv
  <2>4. ASSUME ~Closed, ~full', NEW w \in Writers, pc'[w] \in {"wait", "woken"}
        PROVE  Held' < MaxSize
    <3>1. lock = NoThread /\ pc[w] \in {"wait", "woken"}
      BY <1>3, <2>4
    <3>2. \A r \in Readers : pc[r] # "run"
      BY <3>1, Exclusion DEF IInv
    <3> QED BY <1>2, <2>4, <3>1, <3>2 DEF IInv, FlagsInv
  <2> QED BY <1>4, <2>1, <2>3, <2>4 DEF FlagsInv, Closed
<1>9. ReaderInv'
  BY <1>4 DEF ReaderInv
<1> QED BY <1>1, <1>2, <1>5, <1>6, <1>7, <1>8, <1>9 DEF IInv

\* A read takes the mutex and sets out from start.
LEMMA StartCopyInv ==
  ASSUME IInv, NEW r \in Readers,
         UNCHANGED <<shared, closing, stored>>, lock = NoThread,
         pc[r] \in {"lock", "woken"}, StartCopy(r)
  PROVE  IInv'
<1> USE ThreadsAssumption DEF Threads, shared
<1>1. Count \in Nat /\ start \in Slots /\ len[r] \in Nat
  BY WindowTypes DEF IInv
<1>2. MinOf(len[r], Count) \in Nat /\ MinOf(len[r], Count) <= Count
  BY <1>1 DEF MinOf
<1>3. TypeOK'
  BY <1>1, <1>2 DEF IInv, TypeOK, StartCopy
<1>4. /\ Held' = Held /\ Count' = Count /\ Unpublished' = Unpublished
      /\ WindowInv' /\ ContentInv'
  BY SameBuffer DEF IInv
<1>5. /\ pc'[r] = "run" /\ lock' = r /\ j'[r] = 0 /\ k'[r] = start
      /\ len'[r] = MinOf(len[r], Count) /\ offset' = offset
      /\ \A u \in Threads : u # r =>
           /\ pc'[u] = pc[u] /\ len'[u] = len[u] /\ k'[u] = k[u] /\ j'[u] = j[u]
  BY DEF IInv, TypeOK, StartCopy
<1>6. \A u \in Threads : pc[u] # "run"
  BY Exclusion DEF IInv
<1>7. MutexInv'
  BY <1>5, <1>6 DEF MutexInv
<1>8. WriterInv'
  <2> SUFFICES ASSUME NEW w \in Writers, Active(w)'
               PROVE  w # r /\ Active(w)
    BY <1>4, <1>5 DEF IInv, WriterInv, Slot
  <2> QED BY <1>5 DEF Active
<1>9. RestInv'
  <2>1. \A w \in Writers : pc'[w] = pc[w]
    BY <1>5
  <2> QED BY <1>4, <2>1 DEF IInv, RestInv, Active, Closed, Slot
<1>10. FlagsInv'
  <2>1. \A w \in Writers : pc'[w] = pc[w]
    BY <1>5
  <2>2. \A u \in Readers : pc'[u] = "run" => j'[u] = 0
    BY <1>5, <1>6
  <2> QED BY <1>4, <1>6, <2>1, <2>2 DEF IInv, FlagsInv, Closed
<1>11. ReaderInv'
  <2> SUFFICES ASSUME NEW u \in Readers, pc'[u] = "run"
               PROVE  /\ j'[u] <= len'[u] /\ len'[u] <= Count'
                      /\ k'[u] = Slot(start' + j'[u])
    BY DEF ReaderInv, Slot
  <2>1. u = r
    BY <1>5, <1>6
  <2>2. Slot(start + 0) = start
    BY <1>1, SizeAssumption, SlotType
  <2> QED BY <1>1, <1>2, <1>4, <1>5, <2>1, <2>2
<1> QED BY <1>3, <1>4, <1>7, <1>8, <1>9, <1>10, <1>11 DEF IInv

-----------------------------------------------------------------------------

LEMMA WriteLockInv ==
  ASSUME SingleWriter, IInv, NEW w \in Writers, WriteLock(w)
  PROVE  IInv'
<1> USE ThreadsAssumption, SizeAssumption DEF Threads, WriteLock
<1>1. /\ Count \in Nat /\ Held \in Nat /\ Unpublished \in Nat
      /\ start \in Slots /\ end \in Slots /\ len[w] \in Nat
  BY WindowTypes DEF IInv
<1>2. TypeOK'
  <2>1. MinOf(len[w], MaxSize) \in Nat
    BY <1>1 DEF MinOf
  <2> QED BY <2>1 DEF IInv, TypeOK
<1>3. /\ Held' = Held /\ Count' = Count /\ Unpublished' = Unpublished
      /\ WindowInv' /\ ContentInv'
  BY SameBuffer DEF IInv
<1>4. /\ Unpublished = 0 /\ end = Slot(start + Held) /\ (Held = 0 => empty)
      /\ Held <= MaxSize /\ Count = Held /\ ~full
  BY <1>1 DEF IInv, RestInv, WindowInv, FlagsInv, Active
<1>5. /\ pc'[w] = "run" /\ lock' = w /\ k'[w] = end /\ j'[w] = 0 /\ offset'[w] = 0
      /\ len'[w] = MinOf(len[w], MaxSize)
      /\ \A u \in Threads : u # w =>
           /\ pc'[u] = pc[u] /\ len'[u] = len[u] /\ k'[u] = k[u] /\ j'[u] = j[u]
      /\ \A v \in Writers : v = w
  BY DEF IInv, TypeOK, SingleWriter
<1>6. \A u \in Threads : pc[u] # "run"
  BY Exclusion DEF IInv
<1>7. MutexInv'
  BY <1>5, <1>6 DEF MutexInv
<1>8. end = start /\ Available > 0 => Held = 0
  BY <1>1, <1>4 DEF Available, Slot, Slots
<1>9. WriterInv'
  <2>1. len'[w] \in Nat /\ len'[w] <= MaxSize
    BY <1>1, <1>5 DEF MinOf
  <2>2. k'[w] = Slot(start' + Held')
    BY <1>3, <1>4, <1>5
  <2>3. Held' = 0 => empty'
    BY <1>3, <1>4
  <2>4. Unpublished' = j'[w] - offset'[w] /\ j'[w] <= len'[w] /\ offset'[w] <= j'[w]
    BY <1>3, <1>4, <1>5, <2>1
  <2> QED BY <1>5, <2>1, <2>2, <2>3, <2>4 DEF WriterInv
<1>10. RestInv'
  BY <1>5 DEF RestInv, Active
<1>11. FlagsInv'
  <2>1. ~Closed => (empty' => Held' = 0)
    BY <1>3, <1>8 DEF IInv, FlagsInv
  <2> QED BY <1>4, <1>5, <2>1 DEF FlagsInv, Closed
<1>12. ReaderInv'
  BY <1>5, <1>6 DEF ReaderInv
<1> QED BY <1>2, <1>3, <1>7, <1>9, <1>10, <1>11, <1>12 DEF IInv

\* A writer meets the oldest unread byte only when the buffer holds MaxSize
\* bytes, so what it publishes before it sleeps is all that it has stored.
LEMMA WriteBlockInv ==
  ASSUME SingleWriter, IInv, NEW w \in Writers, WriteBlock(w)
  PROVE  IInv'
<1> USE ThreadsAssumption, SizeAssumption DEF Threads
<1>1. /\ Count \in Nat /\ Held \in Nat /\ Unpublished \in Nat
      /\ start \in Slots /\ k[w] \in Slots
      /\ j[w] \in Nat /\ len[w] \in Nat /\ offset[w] \in Nat
  BY WindowTypes DEF IInv
<1>2. /\ pc[w] = "run" /\ lock = w /\ k[w] = start /\ ~empty
      /\ \A u \in Threads : u # w => pc[u] # "run"
      /\ \A v \in Writers : v = w
  BY Exclusion DEF IInv, MutexInv, WriteBlock, SingleWriter
<1>3. /\ k[w] = Slot(start + Held) /\ j[w] <= len[w] /\ len[w] <= MaxSize
      /\ offset[w] <= j[w] /\ Unpublished = j[w] - offset[w] /\ Held # 0
      /\ Held <= MaxSize /\ Count + Unpublished = Held
  BY <1>2 DEF IInv, WriterInv, WindowInv, Active
<1>4. Held = MaxSize
  <2>1. Slot(start + Held) = start /\ Slot(start + 0) = start
    BY <1>1, <1>2, <1>3, SlotType
  <2> QED BY <1>1, <1>3, <2>1, SlotInjective
<1>5. Available = Unpublished
  BY <1>1, <1>3, <1>4 DEF Available
<1>6. /\ pc'[w] = "wait" /\ lock' = NoThread /\ offset'[w] = j[w]
      /\ j' = j /\ len' = len /\ k' = k /\ end' = start /\ full' = TRUE
      /\ UNCHANGED <<data, start, seqStart, stored, empty, closing>>
      /\ \A u \in Threads : u # w => pc'[u] = pc[u] /\ offset'[u] = offset[u]
  BY <1>1, <1>3, <1>5 DEF IInv, TypeOK, WriteBlock, RememberPublished, Sleep
<1>7. seqEnd' = stored
  <2>1. seqEnd' = Plus(seqEnd, Unpublished)
    BY <1>5 DEF WriteBlock
  <2> QED BY <2>1 DEF IInv, TypeOK, Unpublished, Plus, Minus, SeqNums
<1>8. Held' = MaxSize /\ Count' = MaxSize /\ Unpublished' = 0
  BY <1>4, <1>6, <1>7 DEF IInv, TypeOK, SeqNums, Held, Count, Unpublished, Minus
<1>9. TypeOK'
  <2>1. offset' \in [Threads -> Nat]
    BY <1>1, <1>3, <1>5 DEF IInv, TypeOK, WriteBlock, RememberPublished
  <2>2. pc' \in [Threads -> {"idle", "lock", "run", "wait", "woken"}]
    BY DEF IInv, TypeOK, WriteBlock, Sleep
  <2> QED BY <1>6, <1>7, <2>1, <2>2 DEF IInv, TypeOK, WriteBlock
<1>10. MutexInv'
  BY <1>2, <1>6 DEF MutexInv
<1>11. WindowInv'
  BY <1>8 DEF WindowInv
<1>12. ContentInv'
  BY <1>4, <1>6, <1>8 DEF IInv, ContentInv, Slot, Plus
<1>13. WriterInv'
  <2>1. k'[w] = Slot(start' + Held') /\ end' = k'[w]
    BY <1>2, <1>3, <1>4, <1>6, <1>8
  <2>2. /\ Unpublished' = j'[w] - offset'[w] /\ offset'[w] <= j'[w]
        /\ j'[w] <= len'[w] /\ len'[w] <= MaxSize
    BY <1>1, <1>3, <1>6, <1>8
  <2>3. Held' # 0
    BY <1>8
  <2> QED BY <1>2, <1>8, <2>1, <2>2, <2>3 DEF WriterInv
<1>14. RestInv'
  BY <1>2, <1>6 DEF RestInv, Active
<1>15. FlagsInv'
  BY <1>2, <1>3, <1>6, <1>8 DEF IInv, FlagsInv, Closed
<1>16. ReaderInv'
  BY <1>2, <1>6 DEF ReaderInv
<1> QED BY <1>9, <1>10, <1>11, <1>12, <1>13, <1>14, <1>15, <1>16 DEF IInv

LEMMA WriteWakeInv ==
  ASSUME SingleWriter, IInv, NEW w \in Writers, WriteWake(w)
  PROVE  IInv'
<1> USE ThreadsAssumption, SizeAssumption DEF Threads
<1>1. CASE full
  <2>1. /\ UNCHANGED <<shared, lock, closing, locals, stored>>
        /\ pc' = [pc EXCEPT ![w] = "wait"] /\ pc[w] = "woken"
    BY <1>1 DEF WriteWake, StillFull, Sleep, shared, locals
  <2> QED BY <2>1, WaitInv DEF IInv, TypeOK, Closed
<1>2. CASE ~full
  <2>1. /\ Count \in Nat /\ Held \in Nat /\ Unpublished \in Nat
        /\ start \in Slots /\ k[w] \in Slots
    BY WindowTypes DEF IInv
  <2>2. /\ pc[w] = "woken" /\ pc' = [pc EXCEPT ![w] = "run"] /\ lock' = w
        /\ empty' = (empty \/ k[w] = start) /\ lock = NoThread
        /\ UNCHANGED <<data, start, end, seqStart, seqEnd, full, closing, locals, stored>>
    BY <1>2 DEF WriteWake, StillFull
  <2>3. TypeOK'
    BY <2>2 DEF IInv, TypeOK, locals
  <2>4. /\ Held' = Held /\ Count' = Count /\ Unpublished' = Unpublished
        /\ WindowInv' /\ ContentInv'
    BY <2>2, SameBuffer DEF IInv
  <2>5. /\ pc'[w] = "run"
        /\ \A u \in Threads : u # w => pc'[u] = pc[u] /\ pc[u] # "run"
        /\ \A v \in Writers : v = w
    BY <2>2, Exclusion DEF IInv, TypeOK, SingleWriter
  <2>6. MutexInv'
    BY <2>2, <2>5 DEF MutexInv
  <2>7. k[w] = Slot(start + Held) /\ (Held = 0 => empty) /\ Held <= MaxSize
    BY <2>2 DEF IInv, WriterInv, WindowInv, Active
  <2>8. ~Closed /\ k[w] = start => Held = 0
    <3>1. ~Closed => Held < MaxSize
      BY <1>2, <2>2, <2>5 DEF IInv, FlagsInv
    <3> QED BY <2>1, <2>7, <3>1 DEF Slot, Slots
  <2>9. WriterInv'
    <3>1. Active(w)
      BY <2>2 DEF Active
    <3> QED BY <2>2, <2>4, <2>5, <2>7, <3>1 DEF IInv, WriterInv, Slot, locals
  <2>10. RestInv'
    BY <2>5 DEF RestInv, Active
  <2>11. FlagsInv'
    BY <1>2, <2>2, <2>4, <2>5, <2>8 DEF IInv, FlagsInv, Closed
  <2>12. ReaderInv'
    BY <2>2, <2>5 DEF ReaderInv
  <2> QED BY <2>3, <2>4, <2>6, <2>9, <2>10, <2>11, <2>12 DEF IInv
<1> QED BY <1>1, <1>2

\* The last publication of a write brings seq_end up to what it has stored.
LEMMA WriteFinishInv ==
  ASSUME SingleWriter, IInv, NEW w \in Writers, WriteFinish(w)
  PROVE  IInv'
<1> USE ThreadsAssumption, SizeAssumption DEF Threads
<1>1. /\ Count \in Nat /\ Held \in Nat /\ Unpublished \in Nat
      /\ start \in Slots /\ k[w] \in Slots
      /\ j[w] \in Nat /\ len[w] \in Nat /\ offset[w] \in Nat
  BY WindowTypes DEF IInv
<1>2. /\ pc[w] = "run" /\ lock = w /\ j[w] = len[w]
      /\ \A u \in Threads : u # w => pc[u] # "run"
      /\ \A v \in Writers : v = w
  BY Exclusion DEF IInv, MutexInv, WriteFinish, SingleWriter
<1>3. /\ k[w] = Slot(start + Held) /\ Unpublished = len[w] - offset[w]
      /\ (Held = 0 => empty) /\ Held <= MaxSize /\ ~full
  BY <1>2 DEF IInv, WriterInv, WindowInv, FlagsInv, Active
<1>4. /\ pc'[w] = "idle" /\ lock' = NoThread /\ end' = k[w]
      /\ UNCHANGED <<data, start, seqStart, stored, empty, full, closing>>
      /\ \A u \in Threads : u # w => pc'[u] = pc[u]
  BY DEF IInv, TypeOK, WriteFinish, Return, Forget
<1>5. seqEnd' = stored
  <2>1. seqEnd' = Plus(seqEnd, Unpublished)
    BY <1>3 DEF WriteFinish
  <2> QED BY <2>1 DEF IInv, TypeOK, Unpublished, Plus, Minus, SeqNums
<1>6. Held' = Held /\ Count' = Held /\ Unpublished' = 0
  BY <1>1, <1>4, <1>5 DEF IInv, TypeOK, SeqNums, Held, Count, Unpublished, Minus
<1>7. TypeOK'
  <2>1. "BLOCKING" \in Modes /\ 0 \in Slots
    BY DEF Modes, Slots
  <2>2. /\ pc' \in [Threads -> {"idle", "lock", "run", "wait", "woken"}]
        /\ len' \in [Threads -> Nat] /\ mode' \in [Threads -> Modes]
        /\ k' \in [Threads -> Slots] /\ j' \in [Threads -> Nat]
        /\ offset' \in [Threads -> Nat]
    BY <2>1 DEF IInv, TypeOK, WriteFinish, Return, Forget
  <2> QED BY <1>1, <1>4, <1>5, <2>2 DEF IInv, TypeOK
<1>8. MutexInv'
  BY <1>2, <1>4 DEF MutexInv
<1>9. WindowInv'
  BY <1>1, <1>3, <1>6 DEF WindowInv
<1>10. ContentInv'
  BY <1>4, <1>6 DEF IInv, ContentInv, Slot, Plus
<1>11. WriterInv'
  BY <1>2, <1>4 DEF WriterInv, Active
<1>12. RestInv'
  BY <1>2, <1>3, <1>4, <1>6 DEF RestInv, Slot
<1>13. FlagsInv'
  BY <1>2, <1>3, <1>4, <1>6 DEF IInv, FlagsInv, Closed
<1>14. ReaderInv'
  BY <1>2, <1>4 DEF ReaderInv
<1> QED BY <1>7, <1>8, <1>9, <1>10, <1>11, <1>12, <1>13, <1>14 DEF IInv

-----------------------------------------------------------------------------

LEMMA CopyByteInv ==
  ASSUME SingleWriter, NoPeekers, IInv, NEW r \in Readers, CopyByte(r)
  PROVE  IInv'
<1> USE ThreadsAssumption, SizeAssumption DEF Threads
<1>1. /\ pc' \in [Threads -> {"idle", "lock", "run", "wait", "woken"}]
      /\ \A t \in Threads :
           pc'[t] = pc[t] \/ (t \in Writers /\ pc[t] = "wait" /\ pc'[t] = "woken")
  <2>1. OnNotFull \subseteq Writers /\ \A t \in OnNotFull : pc[t] = "wait"
    BY DEF OnNotFull
  <2>2. Signal(OnNotFull)
    BY DEF CopyByte, SignalWriter
  <2> QED BY <2>1, <2>2, SignalEffect DEF IInv
<1>2. /\ pc[r] = "run" /\ lock = r /\ lock' = r /\ full' = FALSE
      /\ j[r] < len[r] /\ ~Closed
      /\ k' = [k EXCEPT ![r] = Slot(@ + 1)] /\ j' = [j EXCEPT ![r] = @ + 1]
      /\ UNCHANGED <<data, start, end, seqStart, seqEnd, empty, closing, len, mode, offset, stored>>
      /\ \A u \in Threads : u # r => pc[u] # "run"
  BY Exclusion DEF IInv, MutexInv, CopyByte, ClearFull
<1>3. /\ Count \in Nat /\ Held \in Nat /\ Unpublished \in Nat
      /\ start \in Slots /\ k[r] \in Slots /\ j[r] \in Nat /\ len[r] \in Nat
  BY WindowTypes DEF IInv
<1>4. /\ len[r] <= Count /\ k[r] = Slot(start + j[r])
      /\ Count + Unpublished = Held /\ Held <= MaxSize
  BY <1>2 DEF IInv, ReaderInv, WindowInv
<1>5. Slot(k[r] + 1) = Slot(start + (j[r] + 1)) /\ Slot(k[r] + 1) \in Slots
  BY <1>2, <1>3, <1>4, SlotType
<1>6. j'[r] = j[r] + 1 /\ k'[r] = Slot(start + j'[r])
  BY <1>2, <1>5 DEF IInv, TypeOK
<1>7. TypeOK'
  <2>1. j' \in [Threads -> Nat] /\ k' \in [Threads -> Slots]
    BY <1>2, <1>3, <1>5 DEF IInv, TypeOK
  <2> QED BY <1>1, <1>2, <2>1 DEF IInv, TypeOK
<1>8. /\ Held' = Held /\ Count' = Count /\ Unpublished' = Unpublished
      /\ WindowInv' /\ ContentInv'
  BY <1>2, SameBuffer DEF IInv
<1>9. MutexInv'
  BY <1>1, <1>2 DEF MutexInv
<1>10. WriterInv'
  <2> SUFFICES ASSUME NEW w \in Writers, Active(w)'
               PROVE  Active(w) /\ pc[w] # "run" /\ j'[w] = j[w] /\ k'[w] = k[w]
    BY <1>2, <1>8 DEF IInv, WriterInv, Slot
  <2> QED BY <1>1, <1>2 DEF Active, IInv, TypeOK
<1>11. RestInv'
  <2>1. \A w \in Writers : ~(Active(w)') => ~Active(w) /\ pc[w] = pc'[w]
    BY <1>1 DEF Active
  <2> QED BY <1>2, <1>8, <2>1 DEF IInv, RestInv, Slot, Closed
<1>12. FlagsInv'
  <2>1. pc'[r] = "run" /\ j'[r] > 0
    BY <1>1, <1>2, <1>3, <1>6
  <2> QED BY <1>2, <1>8, <2>1 DEF IInv, FlagsInv, Closed
<1>13. ReaderInv'
  <2> SUFFICES ASSUME NEW u \in Readers, pc'[u] = "run"
               PROVE  /\ j'[u] <= len'[u] /\ len'[u] <= Count'
                      /\ k'[u] = Slot(start' + j'[u])
    BY DEF ReaderInv
  <2>1. u = r
    BY <1>1, <1>2
  <2> QED BY <1>2, <1>3, <1>4, <1>6, <1>8, <2>1
<1> QED BY <1>7, <1>8, <1>9, <1>10, <1>11, <1>12, <1>13 DEF IInv

\* A read moves start and seq_start by what it copied. It makes the buffer empty
\* exactly when it has caught up with end and no byte is left.
LEMMA ReadFinishInv ==
  ASSUME SingleWriter, IInv, NEW r \in Readers, ReadFinish(r)
  PROVE  IInv'
<1> USE ThreadsAssumption, SizeAssumption DEF Threads
<1>1. /\ pc[r] = "run" /\ lock = r /\ j[r] = len[r]
      /\ \A u \in Threads : u # r => pc[u] # "run"
  BY Exclusion DEF IInv, MutexInv, ReadFinish
<1>2. /\ Count \in Nat /\ Held \in Nat /\ Unpublished \in Nat
      /\ start \in Slots /\ k[r] \in Slots /\ len[r] \in Nat
  BY WindowTypes DEF IInv
<1>3. /\ len[r] <= Count /\ k[r] = Slot(start + len[r])
      /\ Count + Unpublished = Held /\ Held <= MaxSize
  BY <1>1 DEF IInv, ReaderInv, WindowInv
<1>4. /\ pc'[r] = "idle" /\ lock' = NoThread
      /\ start' = k[r] /\ seqStart' = Plus(seqStart, len[r])
      /\ empty' = (empty \/ (k[r] = end /\ len[r] > 0))
      /\ UNCHANGED <<data, end, seqEnd, full, closing, stored>>
      /\ \A u \in Threads : u # r =>
           /\ pc'[u] = pc[u] /\ len'[u] = len[u] /\ k'[u] = k[u]
           /\ j'[u] = j[u] /\ offset'[u] = offset[u]
  BY DEF IInv, TypeOK, ReadFinish, Return, Forget
<1>5. seqStart' \in SeqNums /\ start' \in Slots
  BY <1>2, <1>3, <1>4, PlusSum DEF IInv, TypeOK
<1>6. Held' = Held - len[r] /\ Count' = Count - len[r] /\ Unpublished' = Unpublished
  <2>1. seqStart \in SeqNums /\ seqEnd \in SeqNums /\ stored \in SeqNums
    BY DEF IInv, TypeOK
  <2>2. len[r] <= Minus(stored, seqStart) /\ len[r] <= Minus(seqEnd, seqStart)
    BY <1>2, <1>3 DEF Held, Count
  <2>3. Minus(stored, Plus(seqStart, len[r])) = Minus(stored, seqStart) - len[r]
    BY <1>2, <2>1, <2>2 DEF Plus, Minus, SeqNums
  <2>4. Minus(seqEnd, Plus(seqStart, len[r])) = Minus(seqEnd, seqStart) - len[r]
    BY <1>2, <2>1, <2>2 DEF Plus, Minus, SeqNums
  <2> QED BY <1>4, <2>3, <2>4 DEF Held, Count, Unpublished
<1>7. /\ Held' \in Nat /\ Count' \in Nat
      /\ Slot(start' + Held') = Slot(start + Held)
  <2>1. Held' \in Nat /\ Count' \in Nat /\ len[r] + Held' = Held
    BY <1>2, <1>3, <1>6
  <2>2. Slot(Slot(start + len[r]) + Held') = Slot(start + (len[r] + Held'))
    BY <1>2, <1>3, <2>1, SlotSum
  <2> QED BY <1>3, <1>4, <2>1, <2>2
<1>8. TypeOK'
  <2>1. "BLOCKING" \in Modes /\ 0 \in Slots
    BY DEF Modes, Slots
  <2>2. /\ pc' \in [Threads -> {"idle", "lock", "run", "wait", "woken"}]
        /\ len' \in [Threads -> Nat] /\ mode' \in [Threads -> Modes]
        /\ k' \in [Threads -> Slots] /\ j' \in [Threads -> Nat]
        /\ offset' \in [Threads -> Nat]
    BY <2>1 DEF IInv, TypeOK, ReadFinish, Return, Forget
  <2>3. empty' \in BOOLEAN
    BY <1>4
  <2> QED BY <1>4, <1>5, <2>2, <2>3 DEF IInv, TypeOK
<1>9. MutexInv'
  BY <1>1, <1>4 DEF MutexInv
<1>10. WindowInv'
  BY <1>2, <1>3, <1>6 DEF WindowInv
<1>11. ContentInv'
  <2> SUFFICES ASSUME NEW o \in 0 .. (MaxSize - 1), o < Held'
               PROVE  data'[Slot(start' + o)] = Plus(seqStart', o)
    BY DEF ContentInv, Plus
  <2>1. len[r] + o \in 0 .. (MaxSize - 1) /\ len[r] + o < Held
    BY <1>2, <1>3, <1>6
  <2>2. data[Slot(start + (len[r] + o))] = Plus(seqStart, len[r] + o)
    BY <2>1 DEF IInv, ContentInv
  <2>3. Slot(Slot(start + len[r]) + o) = Slot(start + (len[r] + o))
    BY <1>2, <2>1, SlotSum
  <2>4. Plus(Plus(seqStart, len[r]), o) = Plus(seqStart, len[r] + o)
    BY <1>2, <2>1, PlusSum DEF IInv, TypeOK
  <2> QED BY <1>3, <1>4, <2>2, <2>3, <2>4
<1>12. ASSUME Held' = 0, end = Slot(start + Held), Held = 0 => empty
       PROVE  empty'
  <2>1. Held = len[r]
    BY <1>2, <1>3, <1>6, <1>12
  <2>2. CASE Held = 0
    BY <1>4, <1>12, <2>2
  <2>3. CASE Held # 0
    <3>1. k[r] = end /\ len[r] > 0
      BY <1>2, <1>3, <1>12, <2>1, <2>3
    <3> QED BY <1>4, <3>1
  <2> QED BY <2>2, <2>3
<1>13. WriterInv'
  <2> SUFFICES ASSUME NEW w \in Writers, Active(w)'
               PROVE  /\ j'[w] <= len'[w] /\ len'[w] <= MaxSize
                      /\ Unpublished' = j'[w] - offset'[w] /\ offset'[w] <= j'[w]
                      /\ k'[w] = Slot(start' + Held') /\ (Held' = 0 => empty')
                      /\ end' = k'[w] /\ Unpublished' = 0
    BY DEF WriterInv
  <2>1. Active(w) /\ pc[w] # "run" /\ w # r
    BY <1>1, <1>4 DEF Active
  <2>2. /\ j[w] <= len[w] /\ len[w] <= MaxSize
        /\ Unpublished = j[w] - offset[w] /\ offset[w] <= j[w]
        /\ k[w] = Slot(start + Held) /\ (Held = 0 => empty)
        /\ end = k[w] /\ Unpublished = 0
    BY <2>1 DEF IInv, WriterInv
  <2>3. Held' = 0 => empty'
    BY <1>12, <2>2
  <2> QED BY <1>4, <1>6, <1>7, <2>1, <2>2, <2>3
<1>14. RestInv'
  <2> SUFFICES ASSUME NEW w \in Writers, ~(Active(w)'),
                      ~Closed' \/ pc'[w] = "lock"
               PROVE  /\ Unpublished' = 0 /\ end' = Slot(start' + Held')
                      /\ (Held' = 0 => empty')
    BY DEF RestInv
  <2>1. /\ Unpublished = 0 /\ end = Slot(start + Held)
        /\ (Held = 0 => empty)
    BY <1>4 DEF IInv, RestInv, Active, Closed
  <2>2. Held' = 0 => empty'
    BY <1>12, <2>1
  <2> QED BY <1>4, <1>6, <1>7, <2>1, <2>2
<1>15. FlagsInv'
  <2>1. ASSUME ~Closed, empty' PROVE Held' = 0
    <3>1. CASE empty
      BY <1>2, <1>3, <1>6, <2>1, <3>1 DEF IInv, FlagsInv
    <3>2. CASE ~empty
      <4>1. k[r] = end /\ len[r] > 0
        BY <1>4, <2>1, <3>2
      <4>2. end = Slot(start + Held)
        BY <1>1, <2>1 DEF IInv, WriterInv, RestInv, SingleWriter
      <4>3. len[r] = Held
        BY <1>2, <1>3, <4>1, <4>2, SlotInjective
      <4> QED BY <1>2, <1>6, <4>3
    <3> QED BY <3>1, <3>2
  <2>2. ASSUME full'
        PROVE  /\ Count' = MaxSize /\ Held' = MaxSize
               /\ \A w \in Writers : pc'[w] \in {"wait", "woken"}
    <3>1. /\ Count = MaxSize /\ Held = MaxSize /\ j[r] = 0
          /\ \A w \in Writers : pc[w] \in {"wait", "woken"}
      BY <1>1, <1>4, <2>2 DEF IInv, FlagsInv
    <3> QED BY <1>1, <1>4, <1>6, <3>1
  <2>3. \A u \in Readers : pc'[u] # "run"
    BY <1>1, <1>4
  <2>4. ASSUME ~Closed, ~full', NEW w \in Writers, pc'[w] \in {"wait", "woken"}
        PROVE  Held' < MaxSize
    <3>1. pc[w] \in {"wait", "woken"}
      BY <1>4, <2>4
    <3>2. Held < MaxSize \/ len[r] > 0
      BY <1>1, <1>4, <2>4, <3>1 DEF IInv, FlagsInv
    <3> QED BY <1>2, <1>3, <1>6, <3>2
  <2>5. Closed' = Closed
    BY <1>4 DEF Closed
  <2> QED BY <2>1, <2>2, <2>3, <2>4, <2>5 DEF FlagsInv
<1>16. ReaderInv'
  BY <1>1, <1>4 DEF ReaderInv
<1> QED BY <1>8, <1>9, <1>10, <1>11, <1>13, <1>14, <1>15, <1>16 DEF IInv

-----------------------------------------------------------------------------

LEMMA WriteStepInv ==
  ASSUME SingleWriter, NoPeekers, IInv, NEW w \in Writers, Write(w)
  PROVE  IInv'
<1> USE DEF Threads
<1>1. CASE WriteCall(w)
  BY <1>1, CallInv, SizeAssumption, ModeAssumption DEF WriteCall
<1>2. CASE WriteLock(w)
  BY <1>2, WriteLockInv
<1>3. CASE WriteWouldBlock(w)
  BY <1>3, LeaveInv DEF WriteWouldBlock, ReturnHolding
<1>4. CASE WriteBlock(w)
  BY <1>4, WriteBlockInv
<1>5. CASE WriteWake(w)
  BY <1>5, WriteWakeInv
<1>6. CASE WriteByte(w)
  BY <1>6, WriteByteInv
<1>7. CASE WriteAbort(w)
  BY <1>7, LeaveInv DEF WriteAbort, Return
<1>8. CASE WriteFinish(w)
  BY <1>8, WriteFinishInv
<1> QED BY <1>1, <1>2, <1>3, <1>4, <1>5, <1>6, <1>7, <1>8 DEF Write

LEMMA ReadStepInv ==
  ASSUME SingleWriter, NoPeekers, IInv, NEW r \in Readers, Read(r)
  PROVE  IInv'
<1> USE DEF Threads
<1>1. CASE ReadCall(r)
  BY <1>1, CallInv, SizeAssumption, ModeAssumption DEF ReadCall
<1>2. CASE ReadLockBlocking(r)
  <2>1. CASE empty /\ Sleep(r) /\ UNCHANGED locals
    <3>1. /\ UNCHANGED <<shared, lock, closing, locals, stored>>
          /\ pc' = [pc EXCEPT ![r] = "wait"] /\ pc[r] \in {"lock", "woken"}
      BY <1>2, <2>1 DEF ReadLockBlocking, Sleep
    <3>2. /\ pc' \in [Threads -> {"idle", "lock", "run", "wait", "woken"}]
          /\ closing' \in ClosePhases
      BY <3>1 DEF IInv, TypeOK
    <3> QED BY <3>1, <3>2, WaitInv DEF IInv, TypeOK, Closed
  <2>2. CASE ~empty /\ Closed /\ ReturnHolding(r)
    BY <1>2, <2>2, LeaveInv DEF ReadLockBlocking, ReturnHolding
  <2>3. CASE ~empty /\ ~Closed /\ StartCopy(r)
    BY <1>2, <2>3, StartCopyInv DEF ReadLockBlocking
  <2> QED BY <1>2, <2>1, <2>2, <2>3 DEF ReadLockBlocking
<1>3. CASE ReadLockNonblocking(r)
  <2>1. CASE Return(r)
    BY <1>3, <2>1, LeaveInv DEF ReadLockNonblocking, Return
  <2>2. CASE StartCopy(r)
    BY <1>3, <2>2, StartCopyInv DEF ReadLockNonblocking
  <2> QED BY <1>3, <2>1, <2>2 DEF ReadLockNonblocking
<1>4. CASE CopyByte(r)
  BY <1>4, CopyByteInv
<1>5. CASE CopyAbort(r)
  BY <1>5, LeaveInv DEF CopyAbort, Return
<1>6. CASE ReadFinish(r)
  BY <1>6, ReadFinishInv
<1> QED BY <1>1, <1>2, <1>3, <1>4, <1>5, <1>6 DEF Read, Copying

LEMMA OtherStepInv ==
  ASSUME IInv,
         \/ \E t \in Threads : SpuriousWakeup(t)
         \/ Close \/ CloseSignalNotEmpty \/ CloseSignalNotFull
         \/ UNCHANGED vars
  PROVE  IInv'
<1>1. ASSUME NEW t \in Threads, SpuriousWakeup(t)
      PROVE  IInv'
  BY <1>1, WaitInv DEF SpuriousWakeup, IInv, TypeOK, Closed
<1>2. CASE Close
  BY <1>2, WaitInv DEF Close, IInv, TypeOK, Closed, ClosePhases
<1>3. ASSUME NEW S \in SUBSET Threads, \A t \in S : pc[t] = "wait", Signal(S),
             closing' \in ClosePhases \ {"open"},
             UNCHANGED <<shared, lock, locals, stored>>
      PROVE  IInv'
  BY <1>3, SignalEffect, WaitInv DEF IInv, Closed
<1>4. CASE CloseSignalNotEmpty
  BY <1>3, <1>4 DEF CloseSignalNotEmpty, OnNotEmpty, Threads, ClosePhases
<1>5. CASE CloseSignalNotFull
  BY <1>3, <1>5 DEF CloseSignalNotFull, OnNotFull, Threads, ClosePhases
<1>6. CASE UNCHANGED vars
  BY <1>6, WaitInv DEF vars, IInv, TypeOK, Closed
<1> QED BY <1>1, <1>2, <1>4, <1>5, <1>6

\* The inductive invariant holds of every behaviour of the buffer.
THEOREM Invariance ==
  ASSUME SingleWriter, NoPeekers
  PROVE  Spec => []IInv
<1>1. Init => IInv
  BY InitInv
<1>2. ASSUME IInv, [Next]_vars PROVE IInv'
  BY <1>2, WriteStepInv, ReadStepInv, OtherStepInv DEF Next, NoPeekers
<1> QED BY <1>1, <1>2, PTL DEF Spec

\* The fields of the buffer and the locals of its calls keep their types: no
\* slot index leaves the array, no sequence number leaves its range.
THEOREM TypesHold ==
  ASSUME SingleWriter, NoPeekers
  PROVE  Spec => []TypeOK
<1>1. IInv => TypeOK
  BY DEF IInv
<1> QED BY <1>1, Invariance, PTL

\* No write overwrites a published byte that nobody has read.
THEOREM UnreadStaysIntact ==
  ASSUME SingleWriter, NoPeekers
  PROVE  Spec => []UnreadIntact
<1>1. ASSUME IInv PROVE UnreadIntact
  <2>1. Count \in Nat /\ Unpublished \in Nat /\ Held \in Nat
    BY <1>1, WindowTypes DEF IInv
  <2>2. Count <= Held /\ Held <= MaxSize
    BY <1>1, <2>1 DEF IInv, WindowInv
  <2>3. ASSUME NEW o \in 0 .. (Count - 1)
        PROVE  data[Slot(start + o)] = Plus(seqStart, o)
    <3>1. o \in 0 .. (MaxSize - 1) /\ o < Held
      BY <2>1, <2>2, SizeAssumption
    <3> QED BY <1>1, <3>1 DEF IInv, ContentInv
  <2> QED BY <2>1, <2>2, <2>3, SizeAssumption DEF UnreadIntact
<1> QED BY <1>1, Invariance, PTL

\* Readers copy the bytes of the stream in order, each once.
THEOREM ReadsAreInOrder ==
  ASSUME SingleWriter, NoPeekers
  PROVE  Spec => []ReadsInOrder
<1>1. ASSUME IInv PROVE ReadsInOrder
  <2> SUFFICES ASSUME NEW r \in Readers, pc[r] = "run", j[r] < len[r]
               PROVE  data[k[r]] = Plus(seqStart, j[r])
    BY DEF ReadsInOrder
  <2>1. /\ Count \in Nat /\ Unpublished \in Nat /\ Held \in Nat
        /\ j[r] \in Nat /\ len[r] \in Nat
    BY <1>1, WindowTypes DEF IInv, Threads
  <2>2. /\ len[r] <= Count /\ k[r] = Slot(start + j[r])
        /\ Count + Unpublished = Held /\ Held <= MaxSize
    BY <1>1 DEF IInv, ReaderInv, WindowInv
  <2>3. j[r] \in 0 .. (MaxSize - 1) /\ j[r] < Held
    BY <2>1, <2>2, SizeAssumption
  <2> QED BY <1>1, <2>2, <2>3 DEF IInv, ContentInv
<1> QED BY <1>1, Invariance, PTL

\* While the buffer is open, a positive count means a read does not sleep, and
\* the full flag means there is no room at all.
THEOREM FlagsAgree ==
  ASSUME SingleWriter, NoPeekers
  PROVE  Spec => []FlagsAgreeWithCount
<1>1. ASSUME IInv PROVE FlagsAgreeWithCount
  <2>1. Count \in Nat /\ Unpublished \in Nat /\ Held \in Nat
    BY <1>1, WindowTypes DEF IInv
  <2>2. Count + Unpublished = Held
    BY <1>1 DEF IInv, WindowInv
  <2>3. ~Closed /\ empty => Count = 0
    BY <1>1, <2>1, <2>2 DEF IInv, FlagsInv
  <2>4. full => Count = MaxSize
    BY <1>1, SizeAssumption DEF IInv, FlagsInv
  <2> QED BY <2>1, <2>3, <2>4 DEF FlagsAgreeWithCount
<1> QED BY <1>1, Invariance, PTL

-----------------------------------------------------------------------------
(* No wake-up is lost *)

\* A reader takes at least a byte: a read of length 0 consumes the wake-up that a byte
\* sends and leaves the byte, so that with such reads the property fails (TLC finds it).
ReadersWantBytes == 0 \notin ReadLens
FewReaders == IsFiniteSet(Readers)

WokenReaders == {r \in Readers : pc[r] = "woken"}

WritersSleep == \A w \in Writers : pc[w] = "wait" /\ ~Closed => full

ReadersWant ==
  \A r \in Readers : /\ pc[r] \in {"lock", "wait", "woken"} => len[r] > 0
                     /\ pc[r] = "run" /\ ~Closed => len[r] > 0

\* While someone sleeps, there is a wake-up on its way for each byte that the read
\* in progress leaves.
ReadersOnTheirWay ==
  (\E r \in Readers : pc[r] = "wait") /\ ~Closed =>
     \/ (\A r \in Readers : pc[r] # "run") /\ Cardinality(WokenReaders) >= Held
     \/ \E r \in Readers : pc[r] = "run" /\ Cardinality(WokenReaders) + len[r] >= Held

WakeInv == WritersSleep /\ ReadersWant /\ ReadersOnTheirWay

LEMMA WokenCount ==
  ASSUME FewReaders
  PROVE  IsFiniteSet(WokenReaders) /\ Cardinality(WokenReaders) \in Nat
<1>1. WokenReaders \subseteq Readers
  BY DEF WokenReaders
<1> QED BY <1>1, FS_Subset, FS_CardinalityType DEF FewReaders

\* A reader that is woken is one more; one that leaves the woken is one fewer.
LEMMA WokenGrows ==
  ASSUME FewReaders, NEW r \in Readers, pc[r] # "woken", pc'[r] = "woken",
         \A u \in Readers : u # r => pc'[u] = pc[u]
  PROVE  Cardinality(WokenReaders') = Cardinality(WokenReaders) + 1
<1>1. WokenReaders' = WokenReaders \cup {r} /\ r \notin WokenReaders
  BY DEF WokenReaders
<1> QED BY <1>1, WokenCount, FS_AddElement

LEMMA WokenShrinks ==
  ASSUME FewReaders, NEW r \in Readers, pc[r] = "woken", pc'[r] # "woken",
         \A u \in Readers : u # r => pc'[u] = pc[u]
  PROVE  Cardinality(WokenReaders') = Cardinality(WokenReaders) - 1
<1>1. WokenReaders' = WokenReaders \ {r} /\ r \in WokenReaders
  BY DEF WokenReaders
<1> QED BY <1>1, WokenCount, FS_RemoveElement

LEMMA WakeInit ==
  ASSUME Init
  PROVE  WakeInv
<1>1. \A t \in Threads : pc[t] = "idle"
  BY DEF Init
<1> QED BY <1>1 DEF WakeInv, WritersSleep, ReadersWant, ReadersOnTheirWay, Threads

\* Steps that wake sleepers only, or after which the buffer is closed.
LEMMA WakeMore ==
  ASSUME FewReaders, IInv, WakeInv, Held' = Held, len' = len,
         Closed => Closed',
         \A t \in Threads : pc'[t] = pc[t] \/ (pc[t] = "wait" /\ pc'[t] = "woken"),
         ~Closed' => full' = full
  PROVE  WakeInv'
<1> USE DEF Threads
<1>1. WritersSleep'
  BY DEF WakeInv, WritersSleep
<1>2. ReadersWant'
  BY DEF WakeInv, ReadersWant
<1>3. ReadersOnTheirWay'
  <2> SUFFICES ASSUME NEW r \in Readers, pc'[r] = "wait", ~Closed'
               PROVE  \/ (\A u \in Readers : pc'[u] # "run") /\ Cardinality(WokenReaders') >= Held
                      \/ \E u \in Readers : pc'[u] = "run" /\ Cardinality(WokenReaders') + len[u] >= Held
    BY DEF ReadersOnTheirWay
  <2>1. WokenReaders \subseteq WokenReaders'
    BY DEF WokenReaders
  <2>2. Cardinality(WokenReaders) <= Cardinality(WokenReaders')
    <3>1. IsFiniteSet(WokenReaders')
      <4>1. WokenReaders' \subseteq Readers
        BY DEF WokenReaders
      <4> QED BY <4>1, FS_Subset DEF FewReaders
    <3> QED BY <2>1, <3>1, FS_Subset
  <2>3. Cardinality(WokenReaders') \in Nat /\ Cardinality(WokenReaders) \in Nat
    <3>1. WokenReaders' \subseteq Readers
      BY DEF WokenReaders
    <3> QED BY <3>1, WokenCount, FS_Subset, FS_CardinalityType DEF FewReaders
  <2>4. Held \in Nat /\ \A u \in Readers : len[u] \in Nat
    BY WindowTypes DEF IInv
  <2>5. pc[r] = "wait" /\ ~Closed
    OBVIOUS
  <2>6. \A u \in Readers : pc'[u] = "run" <=> pc[u] = "run"
    OBVIOUS
  <2> QED BY <2>2, <2>3, <2>4, <2>5, <2>6 DEF WakeInv, ReadersOnTheirWay
<1> QED BY <1>1, <1>2, <1>3 DEF WakeInv

\* Steps that leave the readers alone.
LEMMA WakeSame ==
  ASSUME IInv, WakeInv, Held' = Held, Closed' = Closed,
         \A r \in Readers : pc'[r] = pc[r] /\ len'[r] = len[r],
         WritersSleep'
  PROVE  WakeInv'
<1>1. WokenReaders' = WokenReaders
  BY DEF WokenReaders
<1>2. ReadersWant'
  BY DEF WakeInv, ReadersWant
<1>3. ReadersOnTheirWay'
  BY <1>1 DEF WakeInv, ReadersOnTheirWay
<1> QED BY <1>2, <1>3 DEF WakeInv

LEMMA WriterWakes ==
  ASSUME SingleWriter, NoPeekers, FewReaders, IInv, IInv', WakeInv, NEW w \in Writers, Write(w)
  PROVE  WakeInv'
<1> USE ThreadsAssumption DEF Threads
<1>1. CASE WriteByte(w)
  <2>1. /\ pc[w] = "run" /\ Closed' = Closed /\ full' = full /\ len' = len
        /\ stored' = Plus(stored, 1) /\ seqStart' = seqStart
        /\ Signal(OnNotEmpty)
    BY <1>1 DEF WriteByte, SignalReader, Closed
  <2>2. OnNotEmpty = {r \in Readers : pc[r] = "wait"}
    BY DEF OnNotEmpty, NoPeekers
  <2>3. \A r \in Readers : pc[r] # "run"
    BY <2>1, Exclusion DEF IInv
  <2>4. Held \in Nat /\ Held' \in Nat /\ Held' <= Held + 1
    <3>1. seqStart \in SeqNums /\ stored \in SeqNums /\ seqStart' \in SeqNums /\ stored' \in SeqNums
      BY DEF IInv, TypeOK
    <3> QED BY <2>1, <3>1, SizeAssumption DEF Held, Minus, Plus, SeqNums
  <2>5. CASE OnNotEmpty = {}
    <3>1. pc' = pc
      BY <2>1, <2>5 DEF Signal
    <3> QED BY <2>1, <2>2, <2>3, <2>5, <3>1
            DEF WakeInv, WritersSleep, ReadersWant, ReadersOnTheirWay
  <2>6. CASE OnNotEmpty # {}
    <3>1. PICK r \in OnNotEmpty : pc' = [pc EXCEPT ![r] = "woken"]
      BY <2>1, <2>6 DEF Signal
    <3>2. /\ r \in Readers /\ pc[r] = "wait" /\ pc'[r] = "woken"
          /\ \A t \in Threads : t # r => pc'[t] = pc[t]
      BY <2>2, <3>1 DEF IInv, TypeOK
    <3>3. WritersSleep' /\ ReadersWant'
      BY <2>1, <3>2 DEF WakeInv, WritersSleep, ReadersWant
    <3>4. ASSUME ~Closed' PROVE Cardinality(WokenReaders') >= Held'
      <4>1. Cardinality(WokenReaders) >= Held
        BY <2>1, <2>3, <3>2, <3>4 DEF WakeInv, ReadersOnTheirWay
      <4>2. Cardinality(WokenReaders') = Cardinality(WokenReaders) + 1
        BY <3>2, WokenGrows
      <4> QED BY <2>4, <4>1, <4>2, WokenCount
    <3>5. \A u \in Readers : pc'[u] # "run"
      BY <2>3, <3>2
    <3> QED BY <3>3, <3>4, <3>5 DEF WakeInv, ReadersOnTheirWay
  <2> QED BY <2>5, <2>6
<1>2. CASE \/ WriteCall(w) \/ WriteLock(w) \/ WriteWouldBlock(w) \/ WriteBlock(w)
           \/ WriteWake(w) \/ WriteAbort(w) \/ WriteFinish(w)
  <2>1. /\ seqStart' = seqStart /\ stored' = stored /\ Closed' = Closed
        /\ pc'[w] = "wait" => full'
        /\ \A t \in Threads : t # w => pc'[t] = pc[t] /\ len'[t] = len[t]
    <3> USE DEF IInv, TypeOK, Closed
    <3>1. CASE WriteCall(w)
      BY <3>1 DEF WriteCall, Call, shared
    <3>2. CASE WriteLock(w)
      BY <3>2 DEF WriteLock
    <3>3. CASE WriteWouldBlock(w)
      BY <3>3 DEF WriteWouldBlock, ReturnHolding, Forget, shared
    <3>4. CASE WriteBlock(w)
      BY <3>4 DEF WriteBlock, Sleep
    <3>5. CASE WriteWake(w)
      BY <3>5 DEF WriteWake, Sleep, StillFull, locals
    <3>6. CASE WriteAbort(w)
      BY <3>6 DEF WriteAbort, Return, Forget, shared
    <3>7. CASE WriteFinish(w)
      BY <3>7 DEF WriteFinish, Return, Forget
    <3> QED BY <1>2, <3>1, <3>2, <3>3, <3>4, <3>5, <3>6, <3>7
  <2>2. Held' = Held
    BY <2>1 DEF Held, Minus
  <2>3. \A r \in Readers : pc'[r] = pc[r] /\ len'[r] = len[r]
    BY <2>1
  <2>4. WritersSleep'
    BY <2>1 DEF WritersSleep, SingleWriter
  <2> QED BY <2>1, <2>2, <2>3, <2>4, WakeSame
<1> QED BY <1>1, <1>2 DEF Write

\* A read that has the mutex and finds bytes.
LEMMA CopyStarts ==
  ASSUME SingleWriter, FewReaders, IInv, WakeInv, NEW r \in Readers,
         UNCHANGED <<shared, closing, stored>>, lock = NoThread,
         pc[r] \in {"lock", "woken"}, ~empty, StartCopy(r)
  PROVE  WakeInv'
<1> USE ThreadsAssumption DEF Threads
<1>1. /\ seqStart' = seqStart /\ stored' = stored /\ full' = full /\ Closed' = Closed
      /\ pc'[r] = "run" /\ len'[r] = MinOf(len[r], Count)
      /\ \A t \in Threads : t # r => pc'[t] = pc[t] /\ len'[t] = len[t]
  BY DEF StartCopy, shared, Closed, IInv, TypeOK
<1>2. \A t \in Threads : pc[t] # "run"
  BY Exclusion DEF IInv
<1>3. Held' = Held
  BY <1>1 DEF Held, Minus
<1>4. ASSUME ~Closed PROVE Count = Held /\ Held # 0
  <2>1. Unpublished = 0 /\ (Held = 0 => empty)
    BY <1>2, <1>4 DEF SingleWriter, IInv, WriterInv, RestInv, Active
  <2> QED BY <2>1, WindowTypes DEF IInv, WindowInv
<1>5. WritersSleep'
  BY <1>1 DEF WakeInv, WritersSleep
<1>6. len[r] > 0 /\ len[r] \in Nat /\ Held \in Nat /\ Count \in Nat
  BY WindowTypes DEF WakeInv, ReadersWant, IInv
<1>7. ReadersWant'
  <2>1. ~Closed => len'[r] > 0
    BY <1>1, <1>4, <1>6 DEF MinOf
  <2> QED BY <1>1, <1>2, <2>1 DEF WakeInv, ReadersWant
<1>8. ReadersOnTheirWay'
  <2> SUFFICES ASSUME NEW u \in Readers, pc'[u] = "wait", ~Closed'
               PROVE  Cardinality(WokenReaders') + len'[r] >= Held
    BY <1>1, <1>3 DEF ReadersOnTheirWay
  <2>1. pc[u] = "wait" /\ ~Closed
    BY <1>1
  <2>2. Cardinality(WokenReaders) >= Held
    BY <1>2, <2>1 DEF WakeInv, ReadersOnTheirWay
  <2>3. len'[r] \in Nat /\ len'[r] > 0
    BY <1>1, <1>4, <1>6, <2>1 DEF MinOf
  <2>4. CASE pc[r] = "woken"
    <3>1. Cardinality(WokenReaders') = Cardinality(WokenReaders) - 1
      BY <1>1, <2>4, WokenShrinks
    <3> QED BY <1>6, <2>2, <2>3, <3>1, WokenCount
  <2>5. CASE pc[r] = "lock"
    <3>1. WokenReaders' = WokenReaders
      BY <1>1, <2>5 DEF WokenReaders
    <3> QED BY <1>6, <2>2, <2>3, <3>1, WokenCount
  <2> QED BY <2>4, <2>5
<1> QED BY <1>5, <1>7, <1>8 DEF WakeInv

LEMMA ReaderWakes ==
  ASSUME SingleWriter, NoPeekers, FewReaders, ReadersWantBytes, IInv, IInv', WakeInv,
         NEW r \in Readers, Read(r)
  PROVE  WakeInv'
<1> USE ThreadsAssumption DEF Threads
<1>1. CASE ReadCall(r)
  <2>1. PICK n \in ReadLens : \E m \in ReadModes : Call(r, n, m)
    BY <1>1 DEF ReadCall
  <2>2. /\ seqStart' = seqStart /\ stored' = stored /\ full' = full /\ Closed' = Closed
        /\ pc[r] = "idle" /\ pc'[r] = "lock" /\ len'[r] = n
        /\ \A t \in Threads : t # r => pc'[t] = pc[t] /\ len'[t] = len[t]
    BY <2>1 DEF Call, shared, Closed, IInv, TypeOK
  <2>3. n > 0
    BY <2>1, SizeAssumption DEF ReadersWantBytes
  <2>4. WokenReaders' = WokenReaders /\ Held' = Held
    BY <2>2 DEF WokenReaders, Held, Minus
  <2> QED BY <2>2, <2>3, <2>4 DEF WakeInv, WritersSleep, ReadersWant, ReadersOnTheirWay
<1>2. CASE ReadLockBlocking(r)
  <2>1. CASE empty /\ Sleep(r) /\ UNCHANGED locals
    <3>1. /\ seqStart' = seqStart /\ stored' = stored /\ full' = full /\ Closed' = Closed
          /\ len' = len /\ pc[r] \in {"lock", "woken"} /\ pc'[r] = "wait" /\ lock = NoThread
          /\ \A t \in Threads : t # r => pc'[t] = pc[t]
      BY <1>2, <2>1 DEF ReadLockBlocking, Sleep, locals, shared, Closed, IInv, TypeOK
    <3>2. \A t \in Threads : pc[t] # "run"
      BY <3>1, Exclusion DEF IInv
    <3>3. WritersSleep' /\ ReadersWant'
      BY <3>1 DEF WakeInv, WritersSleep, ReadersWant
    <3>4. ~Closed => Held' = 0
      BY <2>1, <3>1 DEF IInv, FlagsInv, Held, Minus
    <3>5. Cardinality(WokenReaders') \in Nat
      <4>1. WokenReaders' \subseteq Readers
        BY DEF WokenReaders
      <4> QED BY <4>1, FS_Subset, FS_CardinalityType DEF FewReaders
    <3>6. ReadersOnTheirWay'
      BY <3>1, <3>2, <3>4, <3>5 DEF ReadersOnTheirWay
    <3> QED BY <3>3, <3>6 DEF WakeInv
  <2>2. CASE ~empty /\ Closed /\ ReturnHolding(r)
    <3>1. /\ Closed' /\ pc'[r] = "idle"
          /\ \A t \in Threads : t # r => pc'[t] = pc[t] /\ len'[t] = len[t]
      BY <1>2, <2>2 DEF ReadLockBlocking, ReturnHolding, Forget, Closed, IInv, TypeOK
    <3> QED BY <3>1 DEF WakeInv, WritersSleep, ReadersWant, ReadersOnTheirWay
  <2>3. CASE ~empty /\ ~Closed /\ StartCopy(r)
    BY <1>2, <2>3, CopyStarts DEF ReadLockBlocking
  <2> QED BY <1>2, <2>1, <2>2, <2>3 DEF ReadLockBlocking
<1>3. CASE ReadLockNonblocking(r)
  <2>1. CASE Return(r)
    <3>1. /\ seqStart' = seqStart /\ stored' = stored /\ full' = full /\ Closed' = Closed
          /\ pc[r] = "lock" /\ pc'[r] = "idle"
          /\ \A t \in Threads : t # r => pc'[t] = pc[t] /\ len'[t] = len[t]
      BY <1>3, <2>1 DEF ReadLockNonblocking, Return, Forget, shared, Closed, IInv, TypeOK
    <3>2. WokenReaders' = WokenReaders /\ Held' = Held
      BY <3>1 DEF WokenReaders, Held, Minus
    <3> QED BY <3>1, <3>2 DEF WakeInv, WritersSleep, ReadersWant, ReadersOnTheirWay
  <2>2. CASE ~empty /\ StartCopy(r)
    BY <1>3, <2>2, CopyStarts DEF ReadLockNonblocking
  <2> QED BY <1>3, <2>1, <2>2 DEF ReadLockNonblocking
<1>4. CASE CopyByte(r)
  <2>1. /\ seqStart' = seqStart /\ stored' = stored /\ Closed' = Closed /\ len' = len
        /\ Signal(OnNotFull)
    BY <1>4 DEF CopyByte, SignalWriter, Closed
  <2>2. OnNotFull \subseteq Writers /\ OnNotFull \subseteq Threads /\ \A t \in OnNotFull : pc[t] = "wait"
    BY DEF OnNotFull
  <2>3. \A r2 \in Readers : pc'[r2] = pc[r2]
    BY <2>1, <2>2, SignalEffect DEF IInv
  <2>4. \A w \in Writers : pc'[w] # "wait"
    <3>1. CASE OnNotFull = {}
      BY <2>1, <3>1 DEF Signal, OnNotFull
    <3>2. CASE OnNotFull # {}
      <4>1. PICK w \in OnNotFull : pc' = [pc EXCEPT ![w] = "woken"]
        BY <2>1, <3>2 DEF Signal
      <4>2. w \in Threads /\ pc'[w] = "woken" /\ \A v \in Writers : v = w
        BY <2>2, <4>1 DEF SingleWriter, IInv, TypeOK
      <4> QED BY <4>2
    <3> QED BY <3>1, <3>2
  <2>5. Held' = Held
    BY <2>1 DEF Held, Minus
  <2> QED BY <2>1, <2>3, <2>4, <2>5, WakeSame DEF WritersSleep
<1>5. CASE CopyAbort(r)
  <2>1. /\ Closed' /\ pc'[r] = "idle"
        /\ \A t \in Threads : t # r => pc'[t] = pc[t] /\ len'[t] = len[t]
    BY <1>5 DEF CopyAbort, Return, Forget, Closed, IInv, TypeOK
  <2> QED BY <2>1, <1>5 DEF WakeInv, WritersSleep, ReadersWant, ReadersOnTheirWay, CopyAbort, Closed
<1>6. CASE ReadFinish(r)
  <2>1. /\ pc[r] = "run" /\ pc'[r] = "idle" /\ full' = full /\ Closed' = Closed
        /\ seqStart' = Plus(seqStart, len[r]) /\ stored' = stored
        /\ \A t \in Threads : t # r => pc'[t] = pc[t] /\ len'[t] = len[t]
    BY <1>6 DEF ReadFinish, Return, Forget, Closed, IInv, TypeOK
  <2>2. \A t \in Threads : t # r => pc[t] # "run"
    BY <2>1, Exclusion DEF IInv
  <2>3. /\ Held \in Nat /\ len[r] \in Nat /\ len[r] <= Held
        /\ seqStart \in SeqNums /\ stored \in SeqNums
    BY <2>1, WindowTypes DEF IInv, ReaderInv, WindowInv, TypeOK
  <2>4. Held' = Held - len[r]
    BY <2>1, <2>3, SizeAssumption DEF Held, Minus, Plus, SeqNums
  <2>5. WokenReaders' = WokenReaders
    BY <2>1 DEF WokenReaders
  <2>6. WritersSleep' /\ ReadersWant'
    BY <2>1 DEF WakeInv, WritersSleep, ReadersWant
  <2>7. ReadersOnTheirWay'
    <3> SUFFICES ASSUME NEW u \in Readers, pc'[u] = "wait", ~Closed'
                 PROVE  (\A v \in Readers : pc'[v] # "run") /\ Cardinality(WokenReaders') >= Held'
      BY DEF ReadersOnTheirWay
    <3>1. pc[u] = "wait" /\ ~Closed
      BY <2>1
    <3>2. Cardinality(WokenReaders) + len[r] >= Held
      BY <2>1, <2>2, <3>1 DEF WakeInv, ReadersOnTheirWay
    <3> QED BY <2>1, <2>2, <2>3, <2>4, <2>5, <3>2, WokenCount
  <2> QED BY <2>6, <2>7 DEF WakeInv
<1> QED BY <1>1, <1>2, <1>3, <1>4, <1>5, <1>6 DEF Read, Copying

LEMMA OtherWakes ==
  ASSUME FewReaders, IInv, WakeInv,
         \/ \E t \in Threads : SpuriousWakeup(t)
         \/ Close \/ CloseSignalNotEmpty \/ CloseSignalNotFull
         \/ UNCHANGED vars
  PROVE  WakeInv'
<1>1. /\ seqStart' = seqStart /\ stored' = stored /\ len' = len /\ full' = full
      /\ Closed => Closed'
  BY DEF SpuriousWakeup, Close, CloseSignalNotEmpty, CloseSignalNotFull, vars, shared, locals, Closed
<1>2. Held' = Held
  BY <1>1 DEF Held, Minus
<1>3. \A t \in Threads : pc'[t] = pc[t] \/ (pc[t] = "wait" /\ pc'[t] = "woken")
  <2>1. ASSUME NEW t \in Threads, SpuriousWakeup(t)
        PROVE  \A u \in Threads : pc'[u] = pc[u] \/ (pc[u] = "wait" /\ pc'[u] = "woken")
    BY <2>1 DEF SpuriousWakeup, IInv, TypeOK
  <2>2. CASE CloseSignalNotEmpty
    <3>1. OnNotEmpty \subseteq Threads /\ (\A t \in OnNotEmpty : pc[t] = "wait") /\ Signal(OnNotEmpty)
      BY <2>2 DEF OnNotEmpty, Threads, CloseSignalNotEmpty
    <3> QED BY <3>1, SignalEffect DEF IInv
  <2>3. CASE CloseSignalNotFull
    <3>1. OnNotFull \subseteq Threads /\ (\A t \in OnNotFull : pc[t] = "wait") /\ Signal(OnNotFull)
      BY <2>3 DEF OnNotFull, Threads, CloseSignalNotFull
    <3> QED BY <3>1, SignalEffect DEF IInv
  <2>4. CASE Close \/ UNCHANGED vars
    BY <2>4 DEF Close, vars
  <2> QED BY <2>1, <2>2, <2>3, <2>4
<1> QED BY <1>1, <1>2, <1>3, WakeMore

\* A sleeping writer of an open buffer finds it full; a sleeping reader of an open buffer
\* with bytes has a woken one ahead of it.
THEOREM NoWakeupIsLost ==
  ASSUME SingleWriter, NoPeekers, FewReaders, ReadersWantBytes
  PROVE  Spec => []NoLostWakeup
<1>1. Init => WakeInv
  BY WakeInit
<1>2. IInv /\ IInv' /\ WakeInv /\ [Next]_vars => WakeInv'
  BY WriterWakes, ReaderWakes, OtherWakes DEF Next, NoPeekers
<1>3. Spec => []WakeInv
  BY <1>1, <1>2, Invariance, PTL DEF Spec
<1>4. ASSUME IInv, WakeInv PROVE NoLostWakeup
  <2>1. \A w \in Writers : pc[w] = "wait" /\ ~Closed => full
    BY <1>4 DEF WakeInv, WritersSleep
  <2>2. ASSUME OnNotEmpty # {}, ~empty, ~Closed, lock = NoThread
        PROVE  \E r \in Readers \cup Peekers : pc[r] = "woken"
    <3>1. \A t \in Threads : pc[t] # "run"
      BY <1>4, <2>2, Exclusion DEF IInv
    <3>2. Held # 0 /\ Held \in Nat
      BY <1>4, <2>2, <3>1, WindowTypes DEF SingleWriter, IInv, WriterInv, RestInv, Active, Threads
    <3>3. Cardinality(WokenReaders) >= Held
      BY <1>4, <2>2, <3>1 DEF WakeInv, ReadersOnTheirWay, OnNotEmpty, NoPeekers, Threads
    <3>4. WokenReaders # {}
      BY <3>2, <3>3, FS_EmptySet
    <3> QED BY <3>4 DEF WokenReaders
  <2> QED BY <2>1, <2>2 DEF NoLostWakeup
<1> QED BY <1>3, <1>4, Invariance, PTL

-----------------------------------------------------------------------------
(* The buffer implements ByteStream *)

\* The invariant says what the slots hold, so that the stream's queue depends on two
\* numbers only: that of its first byte, and how many there are.
Bytes(first, n) == [i \in 1 .. n |-> Plus(first, i - 1)]

Window ==
  /\ Unread = Bytes(seqStart, Held) /\ seqStart \in SeqNums /\ Held \in 0 .. MaxSize
  /\ stored = Plus(seqStart, Held) /\ stored \in SeqNums

LEMMA UnreadBytes == IInv => Window
<1> SUFFICES ASSUME IInv PROVE Window
  OBVIOUS
<1>1. seqStart \in SeqNums /\ stored \in SeqNums /\ start \in Slots
  BY DEF IInv, TypeOK
<1>2. Held \in 0 .. MaxSize /\ stored = Plus(seqStart, Held)
  BY <1>1, SizeAssumption DEF IInv, WindowInv, Held, Minus, Plus, SeqNums
<1>3. ASSUME NEW i \in 1 .. Held PROVE data[Slot(start + i - 1)] = Plus(seqStart, i - 1)
  <2>1. i - 1 \in 0 .. (MaxSize - 1) /\ i - 1 < Held /\ start + i - 1 = start + (i - 1)
    BY <1>1, <1>2, SizeAssumption DEF Slots
  <2> QED BY <2>1 DEF IInv, ContentInv
<1>4. Unread = Bytes(seqStart, Held)
  BY <1>3 DEF Unread, Bytes, Held
<1> QED BY <1>1, <1>2, <1>4 DEF Window

LEMMA BytesType ==
  ASSUME NEW first \in SeqNums, NEW n \in 0 .. MaxSize
  PROVE  Bytes(first, n) \in Seq(SeqNums) /\ Len(Bytes(first, n)) = n
<1>1. \A i \in 1 .. n : Plus(first, i - 1) \in SeqNums
  BY SizeAssumption DEF Plus, SeqNums
<1> QED BY <1>1, SizeAssumption DEF Bytes

\* One more byte at the end; some fewer at the front.
LEMMA BytesAppend ==
  ASSUME NEW first \in SeqNums, NEW n \in 0 .. MaxSize - 1
  PROVE  Bytes(first, n + 1) = Append(Bytes(first, n), Plus(first, n))
<1>1. n \in 0 .. MaxSize /\ n + 1 \in 0 .. MaxSize /\ Plus(first, n) \in SeqNums
  BY SizeAssumption DEF Plus, SeqNums
<1>2. /\ Bytes(first, n + 1) \in Seq(SeqNums) /\ Len(Bytes(first, n + 1)) = n + 1
      /\ Bytes(first, n) \in Seq(SeqNums) /\ Len(Bytes(first, n)) = n
  BY <1>1, BytesType
<1>3. Append(Bytes(first, n), Plus(first, n)) \in Seq(SeqNums)
      /\ Len(Append(Bytes(first, n), Plus(first, n))) = n + 1
  BY <1>1, <1>2
<1>4. ASSUME NEW i \in 1 .. n + 1
      PROVE  Bytes(first, n + 1)[i] = Append(Bytes(first, n), Plus(first, n))[i]
  <2>1. Bytes(first, n + 1)[i] = Plus(first, i - 1)
    BY DEF Bytes
  <2>2. n \in Nat
    BY <1>1, SizeAssumption
  <2>3. /\ Append(Bytes(first, n), Plus(first, n))[n + 1] = Plus(first, n)
        /\ \A m \in 1 .. n : Append(Bytes(first, n), Plus(first, n))[m] = Bytes(first, n)[m]
    BY <1>1, <1>2, AppendProperties
  <2>4. CASE i = n + 1
    <3>1. i - 1 = n
      BY <2>2, <2>4
    <3> QED BY <2>1, <2>3, <2>4, <3>1
  <2>5. CASE i \in 1 .. n
    <3>1. Append(Bytes(first, n), Plus(first, n))[i] = Bytes(first, n)[i]
      BY <2>3, <2>5
    <3>2. Bytes(first, n)[i] = Plus(first, i - 1)
      BY <2>5 DEF Bytes
    <3> QED BY <2>1, <3>1, <3>2
  <2>6. i = n + 1 \/ i \in 1 .. n
    BY <2>2
  <2> QED BY <2>4, <2>5, <2>6
<1> QED BY <1>2, <1>3, <1>4, SeqEqual

LEMMA BytesTake ==
  ASSUME NEW first \in SeqNums, NEW n \in 0 .. MaxSize, NEW m \in 0 .. n
  PROVE  Bytes(Plus(first, m), n - m) = SubSeq(Bytes(first, n), m + 1, Len(Bytes(first, n)))
<1>1. n - m \in 0 .. MaxSize /\ m \in Nat /\ n \in Nat /\ Plus(first, m) \in SeqNums
  BY SizeAssumption DEF Plus, SeqNums
<1>2. /\ Bytes(first, n) \in Seq(SeqNums) /\ Len(Bytes(first, n)) = n
      /\ Bytes(Plus(first, m), n - m) \in Seq(SeqNums) /\ Len(Bytes(Plus(first, m), n - m)) = n - m
  BY <1>1, BytesType
<1>3. /\ SubSeq(Bytes(first, n), m + 1, n) \in Seq(SeqNums)
      /\ Len(SubSeq(Bytes(first, n), m + 1, n)) = n - m
      /\ \A i \in 1 .. n - m : SubSeq(Bytes(first, n), m + 1, n)[i] = Bytes(first, n)[m + i]
  BY <1>1, <1>2, SubSeqProperties
<1>4. ASSUME NEW i \in 1 .. n - m
      PROVE  Bytes(Plus(first, m), n - m)[i] = Bytes(first, n)[m + i]
  <2>1. m + i \in 1 .. n /\ i - 1 \in Nat /\ m + (i - 1) = m + i - 1 /\ m + (i - 1) <= MaxSize
    BY <1>1, SizeAssumption
  <2>2. Plus(Plus(first, m), i - 1) = Plus(first, m + i - 1)
    BY <1>1, <2>1, PlusSum
  <2> QED BY <2>1, <2>2 DEF Bytes
<1> QED BY <1>2, <1>3, <1>4, SeqEqual

-----------------------------------------------------------------------------

\* A step that changes none of these changes nothing that a user sees.
LEMMA Stutters ==
  ASSUME UNCHANGED <<data, start, seqStart, stored>>, Closed' = Closed
  PROVE  UNCHANGED Stream!vars
<1>1. Unread' = Unread
  BY DEF Unread, Slot, Minus
<1> QED BY <1>1 DEF Stream!vars

LEMMA PutStep ==
  ASSUME SingleWriter, IInv, IInv', NEW w \in Writers, WriteByte(w)
  PROVE  Stream!Put
<1>1. /\ stored' = Plus(stored, 1) /\ seqStart' = seqStart /\ UNCHANGED closing /\ ~Closed
      /\ k[w] # start \/ empty
  BY DEF WriteByte, MayStore
<1>2. /\ Unread = Bytes(seqStart, Held) /\ seqStart \in SeqNums /\ Held \in 0 .. MaxSize
      /\ stored = Plus(seqStart, Held) /\ stored \in SeqNums
  BY UnreadBytes DEF Window
<1>3. Held < MaxSize
  <2>1. k[w] = Slot(start + Held) /\ (empty => Held = 0) /\ start \in Slots
    BY <1>1 DEF IInv, WriterInv, FlagsInv, TypeOK, WriteByte, Active
  <2>2. Slot(start + MaxSize) = start
    BY <1>2, <2>1, SizeAssumption DEF Slot, Slots
  <2> QED BY <1>1, <1>2, <2>1, <2>2, SizeAssumption
<1>4. Held' = Held + 1
  BY <1>1, <1>2, <1>3, SizeAssumption DEF Held, Minus, Plus, SeqNums
<1>5. Unread' = Bytes(seqStart, Held + 1)
  <2>1. Window'
    BY UnreadBytes, PTL
  <2> QED BY <1>1, <1>4, <2>1 DEF Window, Bytes
<1>6. Unread' = Append(Unread, stored)
  BY <1>2, <1>3, <1>5, BytesAppend, SizeAssumption
<1>7. Len(Unread) < MaxSize
  BY <1>2, <1>3, BytesType
<1>8. stored' = IF stored + 1 < SeqModulus THEN stored + 1 ELSE 0
  BY <1>1, <1>2, SizeAssumption DEF Plus, SeqNums
<1>9. ~Closed /\ Closed' = Closed
  BY <1>1 DEF Closed
<1> QED BY <1>6, <1>7, <1>8, <1>9 DEF Stream!Put

LEMMA TakeStep ==
  ASSUME IInv, IInv', NEW r \in Readers, ReadFinish(r)
  PROVE  [Stream!Next]_Stream!vars
<1>1. /\ seqStart' = Plus(seqStart, len[r]) /\ UNCHANGED <<data, seqEnd, closing, stored>>
      /\ start' = k[r] /\ pc[r] = "run" /\ j[r] = len[r]
  BY DEF ReadFinish
<1>2. /\ Unread = Bytes(seqStart, Held) /\ seqStart \in SeqNums /\ Held \in 0 .. MaxSize
      /\ stored = Plus(seqStart, Held) /\ stored \in SeqNums
  BY UnreadBytes DEF Window
<1>3. len[r] \in 0 .. Held
  BY <1>1, WindowTypes DEF IInv, ReaderInv, WindowInv, Threads
<1>4. Held' = Held - len[r]
  BY <1>1, <1>2, <1>3, SizeAssumption DEF Held, Minus, Plus, SeqNums
<1>5. Unread' = Bytes(Plus(seqStart, len[r]), Held - len[r])
  <2>1. Window'
    BY UnreadBytes, PTL
  <2> QED BY <1>1, <1>4, <2>1 DEF Window, Bytes
<1>6. Unread' = SubSeq(Unread, len[r] + 1, Len(Unread)) /\ Len(Unread) = Held
  BY <1>2, <1>3, <1>5, BytesTake, BytesType
<1>7. Closed' = Closed /\ stored' = stored
  BY <1>1 DEF Closed
<1>8. CASE len[r] = 0
  <2>1. Plus(seqStart, 0) = seqStart
    BY <1>2, SizeAssumption DEF Plus, SeqNums
  <2>2. Unread' = Unread
    BY <1>2, <1>5, <1>8, <2>1
  <2> QED BY <1>7, <2>2 DEF Stream!vars
<1>9. CASE len[r] # 0
  <2>1. Stream!Take(len[r])
    BY <1>6, <1>7 DEF Stream!Take
  <2>2. len[r] \in 1 .. Len(Unread)
    BY <1>2, <1>3, <1>6, <1>9
  <2> QED BY <2>1, <2>2 DEF Stream!Next
<1> QED BY <1>8, <1>9

LEMMA ShutStep ==
  ASSUME Close
  PROVE  Stream!Shut
<1>1. UNCHANGED <<data, start, seqStart, stored>> /\ Closed'
  BY DEF Close, shared, Closed
<1>2. Unread' = Unread
  BY <1>1 DEF Unread, Slot, Minus
<1> QED BY <1>1, <1>2 DEF Stream!Shut

\* A step of the buffer puts a byte, takes some, shuts the stream, or is not seen.
LEMMA StepImplements ==
  ASSUME SingleWriter, NoPeekers, IInv, IInv', [Next]_vars
  PROVE  [Stream!Next]_Stream!vars
<1>1. CASE \E w \in Writers : Write(w)
  <2>1. PICK w \in Writers : Write(w)
    BY <1>1
  <2>2. CASE WriteByte(w)
    BY <2>2, PutStep DEF Stream!Next
  <2>3. CASE WriteCall(w) \/ WriteLock(w) \/ WriteWouldBlock(w) \/ WriteBlock(w) \/ WriteWake(w)
               \/ WriteAbort(w) \/ WriteFinish(w)
    <3>1. UNCHANGED <<data, start, seqStart, stored, closing>>
      BY <2>3 DEF WriteCall, Call, WriteLock, WriteWouldBlock, WriteBlock, WriteWake, WriteAbort,
                  WriteFinish, shared
    <3> QED BY <3>1, Stutters DEF Closed
  <2> QED BY <2>1, <2>2, <2>3 DEF Write
<1>2. CASE \E r \in Readers : Read(r)
  <2>1. PICK r \in Readers : Read(r)
    BY <1>2
  <2>2. CASE ReadFinish(r)
    BY <2>2, TakeStep
  <2>3. CASE ReadCall(r) \/ Copying(r)
    <3>1. UNCHANGED <<data, start, seqStart, stored, closing>>
      BY <2>3 DEF ReadCall, Call, Copying, ReadLockBlocking, ReadLockNonblocking, CopyByte, CopyAbort,
                  shared
    <3> QED BY <3>1, Stutters DEF Closed
  <2> QED BY <2>1, <2>2, <2>3 DEF Read
<1>3. CASE Close
  BY <1>3, ShutStep DEF Stream!Next
<1>4. CASE \/ \E t \in Threads : SpuriousWakeup(t)
           \/ CloseSignalNotEmpty \/ CloseSignalNotFull \/ UNCHANGED vars
  <2>1. UNCHANGED <<data, start, seqStart, stored>> /\ Closed' = Closed
    BY <1>4 DEF SpuriousWakeup, CloseSignalNotEmpty, CloseSignalNotFull, vars, shared, Closed
  <2> QED BY <2>1, Stutters
<1> QED BY <1>1, <1>2, <1>3, <1>4 DEF Next, NoPeekers

LEMMA InitImplements ==
  ASSUME Init
  PROVE  Stream!Init
<1>1. Minus(stored, seqStart) = 0 /\ stored \in 0 .. (SeqModulus - 1)
  BY SizeAssumption DEF Init, Minus, SeqNums
<1>2. Unread = <<>>
  BY <1>1 DEF Unread
<1> QED BY <1>1, <1>2 DEF Init, Stream!Init, Closed

\* The ring buffer is the FIFO stream that buffer.h describes: each byte written enters behind
\* the unread ones, each read removes from the front, and none enters once it is closed.
THEOREM BufferIsStream ==
  ASSUME SingleWriter, NoPeekers
  PROVE  Spec => ImplementsByteStream
<1>1. Init => Stream!Init
  BY InitImplements
<1>2. IInv /\ IInv' /\ [Next]_vars => [Stream!Next]_Stream!vars
  BY StepImplements
<1> QED BY <1>1, <1>2, Invariance, PTL DEF Spec, ImplementsByteStream, Stream!Spec

=============================================================================
