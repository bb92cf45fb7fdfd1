----------------------------- MODULE Pipe_proofs -----------------------------
(***************************************************************************)
(* First the ring buffer of lib/fifo.c: it implements the bounded queue,   *)
(* for every length and every set of bytes.  The step from ring to queue   *)
(* is index arithmetic modulo the length, collected in two lemmas.         *)
(*                                                                         *)
(* Then the pipe for any number of tasks at its two ends, any length of    *)
(* its ring and any counts: a task blocks only for a reason, and nothing   *)
(* sent is read twice, out of order or, between one reader and one writer, *)
(* lost.                                                                   *)
(***************************************************************************)
EXTENDS Pipe, SequenceTheorems, FiniteSetTheorems, TLAPS

(* schedule() hands the CPU to one runnable task: it leaves the suspended  *)
(* tasks as they are, and afterwards exactly the task on the CPU is        *)
(* RUNNING.  The caller may have suspended itself in st.                   *)
LEMMA ScheduleLemma ==
    ASSUME NEW st \in [Tasks -> States], running \in Tasks,
           \A t \in Tasks : st[t] = "RUNNING" => t = running,
           st[Idle] \in {"READY", "RUNNING"},
           schedule(st)
    PROVE  /\ TaskTypeOK'
           /\ OneRunning'
           /\ IdleRunnable'
           /\ \A t \in Tasks : st[t] \in Suspended => state'[t] = st[t]
           /\ \A t \in Tasks : st[t] \notin Suspended => state'[t] \in {"READY", "RUNNING"}
<1>1. PICK n \in Candidates(st, running) :
          /\ state' = Dispatch(st, running, n)
          /\ running' = n
  BY DEF schedule
<1>2. n \in Tasks /\ st[n] \in {"READY", "RUNNING"}
  BY <1>1, IdleAssumption DEF Candidates
<1>3. \A t \in Tasks : state'[t] = IF t = n THEN "RUNNING"
                                   ELSE IF t = running /\ st[t] = "RUNNING" THEN "READY" ELSE st[t]
  BY <1>1 DEF Dispatch
<1>4. TaskTypeOK'
  BY <1>1, <1>2 DEF TaskTypeOK, Dispatch, States, Suspended
<1>5. OneRunning'
  BY <1>1, <1>3 DEF OneRunning
<1>6. IdleRunnable'
  BY <1>2, <1>3, IdleAssumption DEF IdleRunnable
<1>7. \A t \in Tasks : st[t] \in Suspended => state'[t] = st[t]
  BY <1>2, <1>3 DEF Suspended
<1>8. \A t \in Tasks : st[t] \notin Suspended => state'[t] \in {"READY", "RUNNING"}
  BY <1>3 DEF States, Suspended
<1> QED
  BY <1>4, <1>5, <1>6, <1>7, <1>8

TaskInv == TaskTypeOK /\ OneRunning /\ IdleRunnable


(* Remainders below twice the divisor.                                     *)
LEMMA WrapLemma ==
    \A n \in Nat \ {0} : \A x \in n .. 2 * n - 1 : x % n = x - n
OBVIOUS

(* fifo_next moves one cell on and wraps at the end of the ring.           *)
LEMMA NextLemma ==
    ASSUME NEW p \in Cells
    PROVE  /\ fifo_next(p) \in Cells
           /\ fifo_next(p) = IF p = Length - 1 THEN 0 ELSE p + 1
<1>1. CASE p = Length - 1
  <2>1. p + 1 \in Length .. 2 * Length - 1 /\ Length \in Nat \ {0}
    BY <1>1, FifoAssumption DEF Cells
  <2>2. (p + 1) % Length = (p + 1) - Length
    BY <2>1, WrapLemma, Zenon
  <2> QED
    BY <1>1, <2>2, FifoAssumption DEF fifo_next, Cells
<1>2. CASE p # Length - 1
  <2>1. p + 1 \in 0 .. Length - 1 /\ Length \in Nat \ {0}
    BY <1>2, FifoAssumption DEF Cells
  <2>2. (p + 1) % Length = p + 1
    BY <2>1
  <2> QED
    BY <1>2, <2>1, <2>2, FifoAssumption DEF fifo_next, Cells
<1> QED
  BY <1>1, <1>2

(* The cell of the i-th byte counted from tail.                            *)
LEMMA CellLemma ==
    ASSUME NEW t \in Cells, NEW i \in 1 .. Length
    PROVE  /\ (t + i - 1) % Length \in Cells
           /\ (t + i - 1) % Length = IF t + i - 1 < Length THEN t + i - 1 ELSE t + i - 1 - Length
<1>1. CASE t + i - 1 < Length
  <2>1. t + i - 1 \in 0 .. Length - 1 /\ Length \in Nat \ {0}
    BY <1>1, FifoAssumption DEF Cells
  <2>2. (t + i - 1) % Length = t + i - 1
    BY <2>1
  <2> QED
    BY <1>1, <2>1, <2>2 DEF Cells
<1>2. CASE ~(t + i - 1 < Length)
  <2>1. t + i - 1 \in Length .. 2 * Length - 1 /\ Length \in Nat \ {0}
    BY <1>2, FifoAssumption DEF Cells
  <2>2. (t + i - 1) % Length = (t + i - 1) - Length
    BY <2>1, WrapLemma, Zenon
  <2> QED
    BY <1>2, <2>1, <2>2, FifoAssumption DEF Cells
<1> QED
  BY <1>1, <1>2

(* head, tail and the cells stay in range.                                 *)
THEOREM FifoTypeOK == FifoSpec => []RingTypeOK
<1>1. FifoInit => RingTypeOK
  BY FifoAssumption DEF FifoInit, fifo_init, RingTypeOK, Cells
<1>2. RingTypeOK /\ [FifoNext]_fifoVars => RingTypeOK'
  <2> SUFFICES ASSUME RingTypeOK, [FifoNext]_fifoVars PROVE RingTypeOK'
    OBVIOUS
  <2>1. CASE UNCHANGED fifoVars
    BY <2>1 DEF RingTypeOK, fifoVars
  <2>2. CASE fifo_get
    <3>1. fifo_next(tail) \in Cells
      BY NextLemma DEF RingTypeOK
    <3> QED
      BY <2>2, <3>1 DEF RingTypeOK, fifo_get
  <2>3. ASSUME NEW b \in Bytes, fifo_put(b) PROVE RingTypeOK'
    <3>1. fifo_next(tail) \in Cells /\ fifo_next(head) \in Cells
      BY NextLemma DEF RingTypeOK
    <3> QED
      BY <2>3, <3>1 DEF RingTypeOK, fifo_put
  <2> QED
    BY <2>1, <2>2, <2>3 DEF FifoNext
<1> QED
  BY <1>1, <1>2, PTL DEF FifoSpec

(* The bytes stored between two positions of the ring form a sequence of   *)
(* fewer than Length bytes.                                                *)
LEMMA ContentLemma ==
    ASSUME NEW bf \in [Cells -> Bytes], NEW h \in Cells, NEW t \in Cells
    PROVE  /\ CountOf(h, t) \in 0 .. Length - 1
           /\ ContentOf(bf, h, t) \in Seq(Bytes)
           /\ Len(ContentOf(bf, h, t)) = CountOf(h, t)
           /\ \A i \in 1 .. CountOf(h, t) : ContentOf(bf, h, t)[i] = bf[(t + i - 1) % Length]
<1>1. CountOf(h, t) \in 0 .. Length - 1
  BY FifoAssumption DEF CountOf, Cells
<1>2. ASSUME NEW i \in 1 .. CountOf(h, t)
      PROVE  bf[(t + i - 1) % Length] \in Bytes
  <2>1. i \in 1 .. Length
    BY <1>1, FifoAssumption
  <2> QED
    BY <2>1, CellLemma
<1> DEFINE n == CountOf(h, t)
<1>3. n \in Nat /\ ContentOf(bf, h, t) \in [1 .. n -> Bytes]
  BY <1>1, <1>2, FifoAssumption DEF ContentOf
<1>4. ContentOf(bf, h, t) \in Seq(Bytes) /\ Len(ContentOf(bf, h, t)) = n
  <2> HIDE DEF n
  <2> QED
    BY <1>3
<1> QED
  BY <1>1, <1>4 DEF ContentOf

Count == CountOf(head, tail)

(* fifo_get takes the first byte of the queue.                             *)
LEMMA GetStep ==
    ASSUME RingTypeOK, RingTypeOK', fifo_get
    PROVE  Q!Get
<1>1. /\ head # tail /\ got' = buf[tail] /\ tail' = fifo_next(tail)
      /\ buf' = buf /\ head' = head
  BY DEF fifo_get, fifo_empty
<1>2. fifo_next(tail) = IF tail = Length - 1 THEN 0 ELSE tail + 1
  BY NextLemma DEF RingTypeOK
<1>3. /\ Count \in 1 .. Length - 1
      /\ Count' = Count - 1
  BY <1>1, <1>2, FifoAssumption DEF RingTypeOK, Count, CountOf, Cells
<1>4. /\ Content \in Seq(Bytes) /\ Len(Content) = Count
      /\ \A i \in 1 .. Count : Content[i] = buf[(tail + i - 1) % Length]
  BY ContentLemma DEF Content, Count, RingTypeOK
<1>5. /\ Content' \in Seq(Bytes) /\ Len(Content') = Count'
      /\ \A i \in 1 .. Count' : Content'[i] = buf'[(tail' + i - 1) % Length]
  BY ContentLemma DEF Content, Count, RingTypeOK
<1>6. Content # <<>>
  BY <1>3, <1>4
<1>7. Content[1] = buf[tail]
  <2>1. (tail + 1 - 1) % Length = tail
    BY CellLemma, FifoAssumption DEF RingTypeOK, Cells
  <2> QED
    BY <1>3, <1>4, <2>1
<1>8. Content' = Tail(Content)
  <2>1. /\ Tail(Content) \in Seq(Bytes)
        /\ Len(Tail(Content)) = Count - 1
        /\ \A i \in 1 .. Count - 1 : Tail(Content)[i] = Content[i + 1]
    BY <1>3, <1>4, <1>6, HeadTailProperties
  <2>2. ASSUME NEW i \in 1 .. Count - 1
        PROVE  Content'[i] = Tail(Content)[i]
    <3>1. i \in 1 .. Length /\ i + 1 \in 1 .. Length /\ i + 1 \in 1 .. Count /\ i \in 1 .. Count'
      BY <1>3, FifoAssumption
    <3>2. (tail' + i - 1) % Length = IF tail' + i - 1 < Length THEN tail' + i - 1 ELSE tail' + i - 1 - Length
      BY <3>1, CellLemma DEF RingTypeOK
    <3>3. (tail + (i + 1) - 1) % Length
             = IF tail + (i + 1) - 1 < Length THEN tail + (i + 1) - 1 ELSE tail + (i + 1) - 1 - Length
      BY <3>1, CellLemma DEF RingTypeOK
    <3>4. (tail' + i - 1) % Length = (tail + (i + 1) - 1) % Length
      <4> DEFINE c == (tail' + i - 1) % Length
                 d == (tail + (i + 1) - 1) % Length
      <4>1. /\ c = IF tail' + i - 1 < Length THEN tail' + i - 1 ELSE tail' + i - 1 - Length
            /\ d = IF tail + (i + 1) - 1 < Length THEN tail + (i + 1) - 1 ELSE tail + (i + 1) - 1 - Length
        BY <3>2, <3>3
      <4>2. tail \in 0 .. Length - 1 /\ tail' = IF tail = Length - 1 THEN 0 ELSE tail + 1
        BY <1>1, <1>2 DEF RingTypeOK, Cells
      <4> HIDE DEF c, d
      <4>3. c = d
        BY <3>1, <4>1, <4>2, FifoAssumption
      <4> QED
        BY <4>3 DEF c, d
    <3>5. Content'[i] = buf[(tail + (i + 1) - 1) % Length]
      BY <1>1, <1>5, <3>1, <3>4
    <3>6. Content[i + 1] = buf[(tail + (i + 1) - 1) % Length]
      BY <1>4, <3>1
    <3> QED
      BY <2>1, <3>5, <3>6
  <2>3. Len(Content') = Len(Tail(Content))
    BY <1>3, <1>5, <2>1
  <2>4. \A i \in 1 .. Len(Content') : Content'[i] = Tail(Content)[i]
    BY <1>3, <1>5, <2>2
  <2> QED
    BY <1>5, <2>1, <2>3, <2>4, SeqEqual
<1>9. got' = Head(Content)
  BY <1>1, <1>4, <1>6, <1>7
<1> QED
  BY <1>6, <1>8, <1>9 DEF Q!Get

(* fifo_put appends a byte, and drops the oldest one if the ring is full.  *)
LEMMA PutStep ==
    ASSUME RingTypeOK, RingTypeOK', NEW b \in Bytes, fifo_put(b)
    PROVE  Q!Put(b)
<1>1. /\ tail' = IF fifo_full THEN fifo_next(tail) ELSE tail
      /\ buf' = [buf EXCEPT ![head] = b]
      /\ head' = fifo_next(head)
      /\ got' = got
  BY DEF fifo_put
<1>2. /\ fifo_next(tail) = IF tail = Length - 1 THEN 0 ELSE tail + 1
      /\ fifo_next(head) = IF head = Length - 1 THEN 0 ELSE head + 1
  BY NextLemma DEF RingTypeOK
<1>3. /\ Count \in 0 .. Length - 1
      /\ Content \in Seq(Bytes) /\ Len(Content) = Count
      /\ \A i \in 1 .. Count : Content[i] = buf[(tail + i - 1) % Length]
  BY ContentLemma DEF Content, Count, RingTypeOK
<1>4. /\ Content' \in Seq(Bytes) /\ Len(Content') = Count'
      /\ \A i \in 1 .. Count' : Content'[i] = buf'[(tail' + i - 1) % Length]
  BY ContentLemma DEF Content, Count, RingTypeOK
<1>5. fifo_full <=> Count = Length - 1
  BY <1>2, FifoAssumption DEF fifo_full, RingTypeOK, Count, CountOf, Cells
<1>6. \A c \in Cells : buf'[c] = IF c = head THEN b ELSE buf[c]
  BY <1>1 DEF RingTypeOK
<1>7. CASE ~fifo_full
  <2>1. Count' = Count + 1 /\ Count < Length - 1 /\ tail' = tail
    BY <1>1, <1>2, <1>3, <1>5, <1>7, FifoAssumption DEF RingTypeOK, Count, CountOf, Cells
  <2>2. /\ Append(Content, b) \in Seq(Bytes)
        /\ Len(Append(Content, b)) = Count + 1
        /\ \A i \in 1 .. Count : Append(Content, b)[i] = Content[i]
        /\ Append(Content, b)[Count + 1] = b
    BY <1>3, AppendProperties
  <2>3. ASSUME NEW i \in 1 .. Count + 1
        PROVE  Content'[i] = Append(Content, b)[i]
    <3>1. i \in 1 .. Length /\ i \in 1 .. Count'
      BY <1>3, <2>1, FifoAssumption
    <3>2. /\ (tail + i - 1) % Length \in Cells
          /\ (tail + i - 1) % Length = IF tail + i - 1 < Length THEN tail + i - 1 ELSE tail + i - 1 - Length
      BY <3>1, CellLemma DEF RingTypeOK
    <3>3. (tail + i - 1) % Length = head <=> i = Count + 1
      <4> DEFINE c == (tail + i - 1) % Length
      <4>1. c = IF tail + i - 1 < Length THEN tail + i - 1 ELSE tail + i - 1 - Length
        BY <3>2
      <4> HIDE DEF c
      <4>2. c = head <=> i = Count + 1
        BY <2>1, <4>1, FifoAssumption DEF RingTypeOK, Count, CountOf, Cells
      <4> QED
        BY <4>2 DEF c
    <3>4. Content'[i] = buf'[(tail + i - 1) % Length]
      BY <1>4, <2>1, <3>1
    <3>5. CASE i = Count + 1
      BY <1>6, <2>2, <3>2, <3>3, <3>4, <3>5
    <3>6. CASE i # Count + 1
      <4>1. i \in 1 .. Count
        BY <1>3, <3>6
      <4> QED
        BY <1>3, <1>6, <2>2, <3>2, <3>3, <3>4, <3>6, <4>1
    <3> QED
      BY <3>5, <3>6
  <2>4. Len(Content') = Len(Append(Content, b))
    BY <1>4, <2>1, <2>2
  <2>5. \A i \in 1 .. Len(Content') : Content'[i] = Append(Content, b)[i]
    BY <1>4, <2>1, <2>3
  <2>6. Content' = Append(Content, b)
    BY <1>4, <2>2, <2>4, <2>5, SeqEqual
  <2>7. Len(Content) # Length - 1
    BY <1>3, <2>1, FifoAssumption
  <2> QED
    BY <1>1, <2>6, <2>7 DEF Q!Put
<1>8. CASE fifo_full
  <2>1. Count' = Count /\ Count = Length - 1 /\ tail' = fifo_next(tail) /\ fifo_next(head) = tail
    BY <1>1, <1>2, <1>3, <1>5, <1>8, FifoAssumption DEF RingTypeOK, Count, CountOf, Cells, fifo_full
  <2>2. Content # <<>>
    BY <1>3, <2>1, FifoAssumption
  <2>3. /\ Tail(Content) \in Seq(Bytes)
        /\ Len(Tail(Content)) = Count - 1
        /\ \A i \in 1 .. Count - 1 : Tail(Content)[i] = Content[i + 1]
    BY <1>3, <2>2, HeadTailProperties
  <2> DEFINE A == Append(Tail(Content), b)
  <2>4. /\ A \in Seq(Bytes)
        /\ Len(A) = Count
        /\ \A i \in 1 .. Count - 1 : A[i] = Content[i + 1]
        /\ A[Count] = b
    <3>1. /\ A \in Seq(Bytes)
          /\ Len(A) = Len(Tail(Content)) + 1
          /\ \A i \in 1 .. Len(Tail(Content)) : A[i] = Tail(Content)[i]
          /\ A[Len(Tail(Content)) + 1] = b
      BY <2>3, AppendProperties
    <3>2. Len(Tail(Content)) + 1 = Count
      BY <1>3, <2>3
    <3> HIDE DEF A
    <3> QED
      BY <2>3, <3>1, <3>2
  <2>5. ASSUME NEW i \in 1 .. Count
        PROVE  Content'[i] = A[i]
    <3> HIDE DEF A
    <3>1. i \in 1 .. Length /\ i \in 1 .. Count' /\ i + 1 \in 1 .. Length
      BY <1>3, <2>1, FifoAssumption
    <3>2. /\ (tail' + i - 1) % Length \in Cells
          /\ (tail' + i - 1) % Length = IF tail' + i - 1 < Length THEN tail' + i - 1 ELSE tail' + i - 1 - Length
      BY <3>1, CellLemma DEF RingTypeOK
    <3>3. (tail + (i + 1) - 1) % Length
             = IF tail + (i + 1) - 1 < Length THEN tail + (i + 1) - 1 ELSE tail + (i + 1) - 1 - Length
      BY <3>1, CellLemma DEF RingTypeOK
    <3> DEFINE c == (tail' + i - 1) % Length
               d == (tail + (i + 1) - 1) % Length
    <3>a. /\ c = IF tail' + i - 1 < Length THEN tail' + i - 1 ELSE tail' + i - 1 - Length
          /\ d = IF tail + (i + 1) - 1 < Length THEN tail + (i + 1) - 1 ELSE tail + (i + 1) - 1 - Length
      BY <3>2, <3>3
    <3>b. /\ tail \in 0 .. Length - 1 /\ tail' = IF tail = Length - 1 THEN 0 ELSE tail + 1
          /\ head \in 0 .. Length - 1 /\ tail = IF head = Length - 1 THEN 0 ELSE head + 1
          /\ Count = Length - 1
      BY <1>2, <2>1 DEF RingTypeOK, Cells
    <3>4. (tail' + i - 1) % Length = (tail + (i + 1) - 1) % Length
      <4> HIDE DEF c, d
      <4>1. c = d
        BY <3>1, <3>a, <3>b, FifoAssumption
      <4> QED
        BY <4>1 DEF c, d
    <3>5. (tail' + i - 1) % Length = head <=> i = Count
      <4> HIDE DEF c, d
      <4>1. c = head <=> i = Count
        BY <3>1, <3>a, <3>b, FifoAssumption
      <4> QED
        BY <4>1 DEF c
    <3>6. Content'[i] = buf'[(tail' + i - 1) % Length]
      BY <1>4, <3>1
    <3>7. CASE i = Count
      BY <1>6, <2>4, <3>2, <3>5, <3>6, <3>7
    <3>8. CASE i # Count
      <4>1. i \in 1 .. Count - 1 /\ i + 1 \in 1 .. Count
        BY <1>3, <3>8
      <4>2. Content[i + 1] = buf[(tail + (i + 1) - 1) % Length]
        BY <1>3, <4>1
      <4>3. Content'[i] = buf[(tail' + i - 1) % Length]
        BY <1>6, <3>2, <3>5, <3>6, <3>8
      <4> QED
        BY <2>4, <3>4, <4>1, <4>2, <4>3
    <3> QED
      BY <3>7, <3>8
  <2>6. Content' = A
    <3> HIDE DEF A
    <3>1. Len(Content') = Len(A) /\ \A i \in 1 .. Len(Content') : Content'[i] = A[i]
      BY <1>4, <2>1, <2>4, <2>5
    <3> QED
      BY <1>4, <2>4, <3>1, SeqEqual
  <2>7. Len(Content) = Length - 1
    BY <1>3, <2>1
  <2> QED
    BY <1>1, <2>6, <2>7 DEF Q!Put
<1> QED
  BY <1>7, <1>8

(* lib/fifo.c implements the bounded queue that drops its oldest byte, for *)
(* every length of the ring.                                               *)
THEOREM FifoImplementsQueue == FifoSpec => ImplementsQueue
<1>1. FifoInit => Q!Init
  <2> SUFFICES ASSUME FifoInit PROVE Q!Init
    OBVIOUS
  <2>1. RingTypeOK /\ Count = 0
    BY FifoAssumption DEF FifoInit, fifo_init, RingTypeOK, Cells, Count, CountOf
  <2>2. Content \in Seq(Bytes) /\ Len(Content) = 0
    BY <2>1, ContentLemma DEF Content, Count, RingTypeOK
  <2> QED
    BY <2>2, EmptySeq DEF Q!Init, FifoInit, fifo_init
<1>2. RingTypeOK /\ RingTypeOK' /\ [FifoNext]_fifoVars => [Q!Next]_<<Content, got>>
  <2> SUFFICES ASSUME RingTypeOK, RingTypeOK', [FifoNext]_fifoVars PROVE [Q!Next]_<<Content, got>>
    OBVIOUS
  <2>1. CASE UNCHANGED fifoVars
    BY <2>1 DEF fifoVars, Content
  <2>2. CASE fifo_get
    BY <2>2, GetStep DEF Q!Next
  <2>3. ASSUME NEW b \in Bytes, fifo_put(b) PROVE Q!Next
    BY <2>3, PutStep DEF Q!Next
  <2> QED
    BY <2>1, <2>2, <2>3 DEF FifoNext
<1> QED
  BY <1>1, <1>2, FifoTypeOK, PTL DEF FifoSpec, ImplementsQueue, Q!Spec

-----------------------------------------------------------------------------

PipeTypeOK ==
    /\ RingTypeOK
    /\ rxwaiter \in Tasks \cup {NoTask} /\ txwaiter \in Tasks \cup {NoTask}
    /\ pc \in [Tasks -> {"user", "read", "write", "rwait", "wwait"}]
    /\ left \in [Tasks -> Nat]
    /\ sent \in Nat /\ received \in Seq(Bytes)
    /\ panicked \in BOOLEAN

\* Who calls read has inherited the read end, who calls write the write end;
\* idle has neither.
Roles ==
    /\ readers \subseteq Tasks \ {Idle} /\ writers \subseteq Tasks \ {Idle}
    /\ \A t \in Tasks : /\ pc[t] \in {"read", "rwait"} => t \in readers
                        /\ pc[t] \in {"write", "wwait"} => t \in writers

\* A slot names a task that is blocked for it: waking clears the slot.
SlotsExact ==
    /\ rxwaiter # NoTask => state[rxwaiter] = "BLOCKED" /\ pc[rxwaiter] = "rwait"
    /\ txwaiter # NoTask => state[txwaiter] = "BLOCKED" /\ pc[txwaiter] = "wwait"

\* With one task at each end, what a task was woken for is still there when it
\* gets the CPU.
WokenFinds == OneEach => \A t \in Tasks : state[t] # "BLOCKED" =>
                             /\ pc[t] = "rwait" => ~fifo_empty
                             /\ pc[t] = "wwait" => ~fifo_full

\* What writes still have to send stays within the bound.
Bounded == /\ sent + Cardinality(Unsent) <= MaxBytes
           /\ \A t \in Tasks : pc[t] # "user" => left[t] > 0
           /\ \A t \in Tasks : pc[t] \in {"write", "wwait"} => left[t] <= MaxBytes

\* s increases, within 1 .. n.
Increases(s, n) == /\ \A i \in 1 .. Len(s) : s[i] \in 1 .. n
                   /\ \A i, j \in 1 .. Len(s) : i < j => s[i] < s[j]

\* s is 1, 2, ... n.
Complete(s, n) == Len(s) = n /\ \A i \in 1 .. Len(s) : s[i] = i

SeenExact == Increases(Seen, sent) /\ (OneEach => Complete(Seen, sent))

\* The inductive invariant.
PipeInv == /\ TaskInv /\ PipeTypeOK /\ Roles /\ SlotsExact /\ WaitersJustified
           /\ WokenFinds /\ Bounded /\ SeenExact /\ AssertionsHold

-----------------------------------------------------------------------------
(* A byte moved from the front of c to the end of r.                       *)
LEMMA TakeSeen ==
    ASSUME NEW S, NEW r \in Seq(S), NEW c \in Seq(S), c # <<>>
    PROVE  Append(r, Head(c)) \o Tail(c) = r \o c
<1> DEFINE a == Append(r, Head(c))
           d == Tail(c)
<1>1. Len(r) \in Nat /\ Len(c) \in Nat \ {0}
  BY LenProperties, EmptySeq
<1>2. Head(c) \in S /\ d \in Seq(S) /\ Len(d) = Len(c) - 1 /\ \A i \in 1 .. Len(d) : d[i] = c[i + 1]
  BY HeadTailProperties
<1>3. Head(c) = c[1]
  BY <1>1
<1>4. /\ a \in Seq(S) /\ Len(a) = Len(r) + 1
      /\ \A i \in 1 .. Len(r) : a[i] = r[i]
      /\ a[Len(r) + 1] = c[1]
  BY <1>2, <1>3, AppendProperties
<1> HIDE DEF a, d
<1>5. /\ a \o d \in Seq(S) /\ Len(a \o d) = Len(a) + Len(d)
      /\ \A i \in 1 .. Len(a) + Len(d) : (a \o d)[i] = IF i <= Len(a) THEN a[i] ELSE d[i - Len(a)]
  BY <1>2, <1>4, ConcatProperties
<1>6. /\ r \o c \in Seq(S) /\ Len(r \o c) = Len(r) + Len(c)
      /\ \A i \in 1 .. Len(r) + Len(c) : (r \o c)[i] = IF i <= Len(r) THEN r[i] ELSE c[i - Len(r)]
  BY ConcatProperties
<1>7. Len(a \o d) = Len(r \o c)
  BY <1>1, <1>2, <1>4, <1>5, <1>6
<1>8. ASSUME NEW i \in 1 .. Len(a \o d) PROVE (a \o d)[i] = (r \o c)[i]
  <2>1. i \in 1 .. Len(r) + Len(c) /\ i \in 1 .. Len(a) + Len(d)
    BY <1>5, <1>6, <1>7
  <2>2. CASE i <= Len(r)
    <3>1. (a \o d)[i] = a[i] /\ (r \o c)[i] = r[i]
      BY <1>1, <1>4, <1>5, <1>6, <2>1, <2>2
    <3> QED
      BY <1>1, <1>4, <2>1, <2>2, <3>1
  <2>3. CASE i = Len(r) + 1
    <3>1. (a \o d)[i] = a[i] /\ (r \o c)[i] = c[i - Len(r)] /\ i - Len(r) = 1
      BY <1>1, <1>4, <1>5, <1>6, <2>1, <2>3
    <3> QED
      BY <1>4, <2>3, <3>1
  <2>4. CASE i > Len(r) + 1
    <3>1. (a \o d)[i] = d[i - Len(a)] /\ (r \o c)[i] = c[i - Len(r)]
      BY <1>1, <1>4, <1>5, <1>6, <2>1, <2>4
    <3>2. i - Len(a) \in 1 .. Len(d) /\ (i - Len(a)) + 1 = i - Len(r)
      BY <1>1, <1>2, <1>4, <2>1, <2>4
    <3> QED
      BY <1>2, <3>1, <3>2
  <2> QED
    BY <1>1, <2>1, <2>2, <2>3, <2>4
<1>9. a \o d = r \o c
  BY <1>5, <1>6, <1>7, <1>8, SeqEqual
<1> QED
  BY <1>9 DEF a, d

(* A byte added to the end of c.                                           *)
LEMMA GiveSeen ==
    ASSUME NEW S, NEW r \in Seq(S), NEW c \in Seq(S), NEW x \in S
    PROVE  /\ Len(r \o Append(c, x)) = Len(r \o c) + 1
           /\ \A i \in 1 .. Len(r \o c) : (r \o Append(c, x))[i] = (r \o c)[i]
           /\ (r \o Append(c, x))[Len(r \o c) + 1] = x
<1> DEFINE d == Append(c, x)
<1>1. Len(r) \in Nat /\ Len(c) \in Nat
  BY LenProperties
<1>2. /\ d \in Seq(S) /\ Len(d) = Len(c) + 1
      /\ \A i \in 1 .. Len(c) : d[i] = c[i]
      /\ d[Len(c) + 1] = x
  BY AppendProperties
<1> HIDE DEF d
<1>3. /\ Len(r \o d) = Len(r) + Len(d)
      /\ \A i \in 1 .. Len(r) + Len(d) : (r \o d)[i] = IF i <= Len(r) THEN r[i] ELSE d[i - Len(r)]
  BY <1>2, ConcatProperties
<1>4. /\ Len(r \o c) = Len(r) + Len(c)
      /\ \A i \in 1 .. Len(r) + Len(c) : (r \o c)[i] = IF i <= Len(r) THEN r[i] ELSE c[i - Len(r)]
  BY ConcatProperties
<1>5. ASSUME NEW i \in 1 .. Len(r \o c) PROVE (r \o d)[i] = (r \o c)[i]
  <2>1. i \in 1 .. Len(r) + Len(c) /\ i \in 1 .. Len(r) + Len(d)
    BY <1>1, <1>2, <1>4
  <2>2. CASE i <= Len(r)
    BY <1>3, <1>4, <2>1, <2>2
  <2>3. CASE i > Len(r)
    <3>1. (r \o d)[i] = d[i - Len(r)] /\ (r \o c)[i] = c[i - Len(r)] /\ i - Len(r) \in 1 .. Len(c)
      BY <1>1, <1>3, <1>4, <2>1, <2>3
    <3> QED
      BY <1>2, <3>1
  <2> QED
    BY <1>1, <2>1, <2>2, <2>3
<1>6. (r \o d)[Len(r \o c) + 1] = x
  <2> DEFINE i == Len(r) + Len(c) + 1
  <2>1. i \in 1 .. Len(r) + Len(d) /\ i > Len(r) /\ i - Len(r) = Len(c) + 1
    BY <1>1, <1>2
  <2>2. (r \o d)[i] = d[i - Len(r)]
    <3> HIDE DEF i
    <3> QED
      BY <1>1, <1>3, <2>1
  <2> QED
    BY <1>2, <1>4, <2>1, <2>2
<1>7. Len(r \o d) = Len(r \o c) + 1
  BY <1>1, <1>2, <1>3, <1>4
<1> QED
  BY <1>5, <1>6, <1>7 DEF d

(* The first byte of c dropped: an entry of r \o c is left out.            *)
LEMMA DropSeen ==
    ASSUME NEW S, NEW r \in Seq(S), NEW c \in Seq(S), c # <<>>
    PROVE  /\ Len(r \o Tail(c)) = Len(r \o c) - 1
           /\ \A i \in 1 .. Len(r \o c) - 1 :
                (r \o Tail(c))[i] = IF i <= Len(r) THEN (r \o c)[i] ELSE (r \o c)[i + 1]
<1> DEFINE d == Tail(c)
<1>1. Len(r) \in Nat /\ Len(c) \in Nat \ {0}
  BY LenProperties, EmptySeq
<1>2. d \in Seq(S) /\ Len(d) = Len(c) - 1 /\ \A i \in 1 .. Len(d) : d[i] = c[i + 1]
  BY HeadTailProperties
<1> HIDE DEF d
<1>3. /\ Len(r \o d) = Len(r) + Len(d)
      /\ \A i \in 1 .. Len(r) + Len(d) : (r \o d)[i] = IF i <= Len(r) THEN r[i] ELSE d[i - Len(r)]
  BY <1>2, ConcatProperties
<1>4. /\ Len(r \o c) = Len(r) + Len(c)
      /\ \A i \in 1 .. Len(r) + Len(c) : (r \o c)[i] = IF i <= Len(r) THEN r[i] ELSE c[i - Len(r)]
  BY ConcatProperties
<1>5. ASSUME NEW i \in 1 .. Len(r \o c) - 1
      PROVE  (r \o d)[i] = IF i <= Len(r) THEN (r \o c)[i] ELSE (r \o c)[i + 1]
  <2>1. i \in 1 .. Len(r) + Len(d) /\ i \in 1 .. Len(r) + Len(c) /\ i + 1 \in 1 .. Len(r) + Len(c)
    BY <1>1, <1>2, <1>4
  <2>2. CASE i <= Len(r)
    BY <1>3, <1>4, <2>1, <2>2
  <2>3. CASE i > Len(r)
    <3>1. (r \o d)[i] = d[i - Len(r)] /\ i - Len(r) \in 1 .. Len(d)
      BY <1>1, <1>2, <1>3, <2>1, <2>3
    <3>2. (r \o c)[i + 1] = c[(i + 1) - Len(r)] /\ (i + 1) - Len(r) = (i - Len(r)) + 1
      BY <1>1, <1>4, <2>1, <2>3
    <3>3. (r \o d)[i] = (r \o c)[i + 1]
      BY <1>2, <3>1, <3>2
    <3>4. ~ (i <= Len(r))
      BY <1>1, <2>1, <2>3
    <3> QED
      BY <3>3, <3>4
  <2> QED
    BY <1>1, <2>1, <2>2, <2>3
<1>6. Len(r \o d) = Len(r \o c) - 1
  BY <1>1, <1>2, <1>3, <1>4
<1> QED
  BY <1>5, <1>6 DEF d

(* The next byte keeps an increasing sequence increasing, and a complete   *)
(* one complete.                                                           *)
LEMMA NextByte ==
    ASSUME NEW r \in Seq(Bytes), NEW c \in Seq(Bytes), NEW n \in Nat, n + 1 \in Bytes,
           Increases(r \o c, n)
    PROVE  /\ Increases(r \o Append(c, n + 1), n + 1)
           /\ Complete(r \o c, n) => Complete(r \o Append(c, n + 1), n + 1)
<1> DEFINE s == r \o c
           z == r \o Append(c, n + 1)
<1>1. s \in Seq(Bytes) /\ Len(s) \in Nat
  BY ConcatProperties, LenProperties
<1>2. /\ Len(z) = Len(s) + 1
      /\ \A i \in 1 .. Len(s) : z[i] = s[i]
      /\ z[Len(s) + 1] = n + 1
  BY GiveSeen
<1>3. /\ \A i \in 1 .. Len(s) : s[i] \in 1 .. n
      /\ \A i, j \in 1 .. Len(s) : i < j => s[i] < s[j]
  BY DEF Increases
<1> HIDE DEF s, z
<1>4. \A i \in 1 .. Len(z) : z[i] \in 1 .. n + 1
  BY <1>1, <1>2, <1>3
<1>5. ASSUME NEW i \in 1 .. Len(z), NEW j \in 1 .. Len(z), i < j PROVE z[i] < z[j]
  <2>1. i \in 1 .. Len(s) /\ z[i] = s[i] /\ s[i] \in 1 .. n
    BY <1>1, <1>2, <1>3, <1>5
  <2>2. CASE j = Len(s) + 1
    <3>1. z[j] = n + 1
      BY <1>2, <2>2
    <3> QED
      BY <2>1, <3>1
  <2>3. CASE j # Len(s) + 1
    <3>1. j \in 1 .. Len(s)
      BY <1>1, <1>2, <2>3
    <3> QED
      BY <1>2, <1>3, <1>5, <2>1, <3>1
  <2> QED
    BY <2>2, <2>3
<1>6. Complete(s, n) => Complete(z, n + 1)
  BY <1>1, <1>2 DEF Complete
<1> QED
  BY <1>4, <1>5, <1>6 DEF Increases, s, z

(* Leaving an entry out of an increasing sequence keeps it increasing.     *)
LEMMA LeaveOut ==
    ASSUME NEW r \in Seq(Bytes), NEW c \in Seq(Bytes), c # <<>>, NEW n \in Nat, Increases(r \o c, n)
    PROVE  Increases(r \o Tail(c), n)
<1> DEFINE s == r \o c
           z == r \o Tail(c)
<1>1. s \in Seq(Bytes) /\ Len(s) \in Nat /\ Len(r) \in Nat
  BY ConcatProperties, LenProperties
<1>2. /\ Len(z) = Len(s) - 1
      /\ \A i \in 1 .. Len(s) - 1 : z[i] = IF i <= Len(r) THEN s[i] ELSE s[i + 1]
  BY DropSeen
<1>3. /\ \A i \in 1 .. Len(s) : s[i] \in 1 .. n
      /\ \A i, j \in 1 .. Len(s) : i < j => s[i] < s[j]
  BY DEF Increases
<1> HIDE DEF s, z
<1>4. ASSUME NEW i \in 1 .. Len(z) PROVE z[i] \in 1 .. n
  BY <1>1, <1>2, <1>3
<1>5. ASSUME NEW i \in 1 .. Len(z), NEW j \in 1 .. Len(z), i < j PROVE z[i] < z[j]
  <2> DEFINE a == IF i <= Len(r) THEN i ELSE i + 1
             b == IF j <= Len(r) THEN j ELSE j + 1
  <2>1. a \in 1 .. Len(s) /\ b \in 1 .. Len(s) /\ a < b
    BY <1>1, <1>2, <1>5
  <2>2. z[i] = s[a] /\ z[j] = s[b]
    BY <1>2
  <2> HIDE DEF a, b
  <2> QED
    BY <1>3, <2>1, <2>2
<1> QED
  BY <1>4, <1>5 DEF Increases, z

-----------------------------------------------------------------------------
(* fifo_get, for its users.                                                *)
LEMMA GetFacts ==
    ASSUME RingTypeOK, fifo_get
    PROVE  /\ RingTypeOK' /\ ~fifo_full' /\ got' \in Bytes
           /\ Content \in Seq(Bytes) /\ Content # <<>>
           /\ got' = Head(Content) /\ Content' = Tail(Content)
<1>1. fifo_next(tail) \in Cells /\ fifo_next(head) # fifo_next(tail)
  <2>1. head \in Cells /\ tail \in Cells /\ head # tail
    BY DEF RingTypeOK, fifo_get, fifo_empty
  <2> QED
    BY <2>1, NextLemma, FifoAssumption DEF Cells
<1>2. RingTypeOK' /\ got' \in Bytes
  BY <1>1 DEF RingTypeOK, fifo_get
<1>3. ~fifo_full'
  BY <1>1 DEF fifo_full, fifo_get, fifo_next
<1>4. Content \in Seq(Bytes)
  BY ContentLemma DEF Content, RingTypeOK
<1> QED
  BY <1>2, <1>3, <1>4, GetStep DEF Q!Get

(* fifo_put, for its users.                                                *)
LEMMA PutFacts ==
    ASSUME RingTypeOK, NEW b \in Bytes, fifo_put(b)
    PROVE  /\ RingTypeOK' /\ ~fifo_empty' /\ (fifo_full => fifo_full')
           /\ Content \in Seq(Bytes)
           /\ fifo_full => Content # <<>> /\ Content' = Append(Tail(Content), b)
           /\ ~fifo_full => Content' = Append(Content, b)
<1>1. /\ head \in Cells /\ tail \in Cells
      /\ fifo_next(head) \in Cells /\ fifo_next(tail) \in Cells
      /\ fifo_next(head) = IF head = Length - 1 THEN 0 ELSE head + 1
      /\ fifo_next(tail) = IF tail = Length - 1 THEN 0 ELSE tail + 1
  BY NextLemma DEF RingTypeOK
<1>2. RingTypeOK'
  BY <1>1 DEF RingTypeOK, fifo_put
<1>3. fifo_full => fifo_full'
  BY DEF fifo_full, fifo_put, fifo_next
<1>4. ~fifo_empty'
  BY <1>1, FifoAssumption DEF fifo_empty, fifo_full, fifo_put, Cells
<1>5. Content \in Seq(Bytes) /\ Len(Content) = CountOf(head, tail)
  BY <1>1, ContentLemma DEF Content, RingTypeOK
<1>6. fifo_full <=> CountOf(head, tail) = Length - 1
  BY <1>1, FifoAssumption DEF fifo_full, CountOf, Cells
<1>7. fifo_full => Content # <<>>
  BY <1>5, <1>6, FifoAssumption
<1> QED
  BY <1>2, <1>3, <1>4, <1>5, <1>6, <1>7, PutStep DEF Q!Put

-----------------------------------------------------------------------------
(* The bytes that writes have to send are finitely many.                   *)
LEMMA UnsentFinite == IsFiniteSet(Unsent) /\ Cardinality(Unsent) \in Nat
<1>1. IsFiniteSet(Tasks) /\ IsFiniteSet(1 .. MaxBytes)
  BY PipeAssumption, FS_Interval
<1>2. IsFiniteSet(Tasks \X (1 .. MaxBytes))
  BY <1>1, FS_Product
<1>3. Unsent \in SUBSET (Tasks \X (1 .. MaxBytes))
  BY DEF Unsent
<1>4. IsFiniteSet(Unsent)
  BY <1>2, <1>3, FS_Subset
<1> QED
  BY <1>4, FS_CardinalityType

(* Only the steps of writes change it.                                     *)
LEMMA UnsentKept ==
    ASSUME pc \in [Tasks -> {"user", "read", "write", "rwait", "wwait"}],
           \A u \in Tasks : /\ pc'[u] \in {"write", "wwait"} <=> pc[u] \in {"write", "wwait"}
                            /\ pc[u] \in {"write", "wwait"} => left'[u] = left[u]
    PROVE  Unsent' = Unsent
<1>1. ASSUME NEW x \in Tasks \X (1 .. MaxBytes) PROVE x \in Unsent' <=> x \in Unsent
  <2>1. x[1] \in Tasks
    OBVIOUS
  <2> QED
    BY <2>1 DEF Unsent
<1> QED
  BY <1>1 DEF Unsent

(* A write that begins has n bytes to send.                                *)
LEMMA UnsentStart ==
    ASSUME NEW t \in Tasks, NEW n \in Nat, pc[t] = "user", n <= MaxBytes,
           pc \in [Tasks -> {"user", "read", "write", "rwait", "wwait"}], left \in [Tasks -> Nat],
           pc' = [pc EXCEPT ![t] = "write"], left' = [left EXCEPT ![t] = n]
    PROVE  Cardinality(Unsent') = Cardinality(Unsent) + n
<1> DEFINE N == {t} \X (1 .. n)
<1>1. MaxBytes \in Nat
  BY PipeAssumption
<1>2. Unsent' = Unsent \cup N
  <2>1. ASSUME NEW u \in Tasks, NEW i \in 1 .. MaxBytes
        PROVE  <<u, i>> \in Unsent' <=> <<u, i>> \in Unsent \cup N
    <3>1. CASE u = t
      <4>1. pc'[t] = "write" /\ left'[t] = n
        OBVIOUS
      <4>2. <<t, i>> \in Unsent' <=> i <= n
        BY <3>1, <4>1 DEF Unsent
      <4>3. <<t, i>> \notin Unsent
        BY DEF Unsent
      <4>4. <<t, i>> \in N <=> i <= n
        BY <1>1
      <4> HIDE DEF N
      <4> QED
        BY <3>1, <4>2, <4>3, <4>4
    <3>2. CASE u # t
      <4>1. pc'[u] = pc[u] /\ left'[u] = left[u]
        BY <3>2
      <4>2. <<u, i>> \in Unsent' <=> <<u, i>> \in Unsent
        BY <4>1 DEF Unsent
      <4>3. <<u, i>> \notin N
        BY <3>2
      <4> HIDE DEF N
      <4> QED
        BY <4>2, <4>3
    <3> QED
      BY <3>1, <3>2
  <2>2. N \subseteq Tasks \X (1 .. MaxBytes)
    BY <1>1
  <2>3. Unsent \subseteq Tasks \X (1 .. MaxBytes) /\ Unsent' \subseteq Tasks \X (1 .. MaxBytes)
    BY DEF Unsent
  <2> HIDE DEF N
  <2>4. ASSUME NEW x \in Tasks \X (1 .. MaxBytes) PROVE x \in Unsent' <=> x \in Unsent \cup N
    <3>1. PICK u \in Tasks, i \in 1 .. MaxBytes : x = <<u, i>>
      OBVIOUS
    <3> QED
      BY <2>1, <3>1
  <2> QED
    BY <2>2, <2>3, <2>4
<1>3. Unsent \cap N = {}
  BY DEF Unsent
<1>4. IsFiniteSet(N) /\ Cardinality(N) = n
  <2>1. IsFiniteSet({t}) /\ Cardinality({t}) = 1
    BY FS_Singleton
  <2>2. IsFiniteSet(1 .. n) /\ Cardinality(1 .. n) = n
    BY FS_Interval
  <2>3. IsFiniteSet(N) /\ Cardinality(N) = Cardinality({t}) * Cardinality(1 .. n)
    BY <2>1, <2>2, FS_Product
  <2> HIDE DEF N
  <2> QED
    BY <2>1, <2>2, <2>3
<1> HIDE DEF N
<1>5. Cardinality(Unsent \cup N) = Cardinality(Unsent) + n - Cardinality(Unsent \cap N)
  BY <1>4, UnsentFinite, FS_Union
<1>6. Cardinality(Unsent \cap N) = 0
  BY <1>3, FS_EmptySet
<1>7. Cardinality(Unsent \cup N) = Cardinality(Unsent) + n
  BY <1>5, <1>6, UnsentFinite
<1> QED
  BY <1>2, <1>7

(* A write that has sent a byte has one less to send.                      *)
LEMMA UnsentLess ==
    ASSUME NEW t \in Tasks, pc[t] \in {"write", "wwait"}, left[t] \in 1 .. MaxBytes,
           pc \in [Tasks -> {"user", "read", "write", "rwait", "wwait"}], left \in [Tasks -> Nat],
           Moved(t, "write")
    PROVE  Cardinality(Unsent') = Cardinality(Unsent) - 1 /\ Cardinality(Unsent) > 0
<1> DEFINE z == <<t, left[t]>>
<1>1. MaxBytes \in Nat
  BY PipeAssumption
<1>2. z \in Unsent
  BY DEF Unsent
<1>3. Unsent' = Unsent \ {z}
  <2>1. ASSUME NEW u \in Tasks, NEW i \in 1 .. MaxBytes
        PROVE  <<u, i>> \in Unsent' <=> <<u, i>> \in Unsent /\ <<u, i>> # z
    <3>1. CASE u = t
      <4>1. left'[t] = left[t] - 1 /\ pc'[t] = IF left[t] = 1 THEN "user" ELSE "write"
        BY DEF Moved
      <4>2. <<t, i>> \in Unsent' <=> i <= left[t] - 1
        BY <3>1, <4>1 DEF Unsent
      <4>3. <<t, i>> \in Unsent <=> i <= left[t]
        BY DEF Unsent
      <4>4. <<t, i>> # z <=> i # left[t]
        OBVIOUS
      <4> HIDE DEF z
      <4> QED
        BY <1>1, <3>1, <4>2, <4>3, <4>4
    <3>2. CASE u # t
      <4>1. pc'[u] = pc[u] /\ left'[u] = left[u]
        BY <3>2 DEF Moved
      <4>2. <<u, i>> \in Unsent' <=> <<u, i>> \in Unsent
        BY <4>1 DEF Unsent
      <4>3. <<u, i>> # z
        BY <3>2
      <4> HIDE DEF z
      <4> QED
        BY <4>2, <4>3
    <3> QED
      BY <3>1, <3>2
  <2>2. Unsent \subseteq Tasks \X (1 .. MaxBytes) /\ Unsent' \subseteq Tasks \X (1 .. MaxBytes)
    BY DEF Unsent
  <2> HIDE DEF z
  <2>3. ASSUME NEW x \in Tasks \X (1 .. MaxBytes) PROVE x \in Unsent' <=> x \in Unsent /\ x # z
    <3>1. PICK u \in Tasks, i \in 1 .. MaxBytes : x = <<u, i>>
      OBVIOUS
    <3> QED
      BY <2>1, <3>1
  <2> QED
    BY <2>2, <2>3
<1> HIDE DEF z
<1>4. Cardinality(Unsent \ {z}) = Cardinality(Unsent) - 1
  BY <1>2, UnsentFinite, FS_RemoveElement
<1>5. Cardinality(Unsent \ {z}) \in Nat
  BY UnsentFinite, FS_RemoveElement, FS_CardinalityType
<1> QED
  BY <1>3, <1>4, <1>5, UnsentFinite

-----------------------------------------------------------------------------
(* Steps that leave the ring and the transfers alone.                      *)
LEMMA KeepBytes ==
    ASSUME PipeInv, UNCHANGED <<fifoVars, ends, sent, received>>
    PROVE  RingTypeOK' /\ SeenExact' /\ (OneEach' <=> OneEach) /\ (fifo_empty' <=> fifo_empty)
           /\ (fifo_full' <=> fifo_full)
<1>1. UNCHANGED <<buf, head, tail, got, readers, writers, sent, received>>
  BY DEF fifoVars, ends
<1>2. RingTypeOK' /\ (fifo_empty' <=> fifo_empty) /\ (fifo_full' <=> fifo_full)
  BY <1>1 DEF PipeInv, PipeTypeOK, RingTypeOK, fifo_empty, fifo_full, fifo_next
<1>3. OneEach' <=> OneEach
  BY <1>1 DEF OneEach
<1>4. Seen' = Seen
  BY <1>1 DEF Seen, Content
<1> QED
  BY <1>1, <1>2, <1>3, <1>4 DEF PipeInv, SeenExact

(* An assertion fails: only with several tasks at an end.                  *)
LEMMA PanicLemma ==
    ASSUME PipeInv, ~OneEach, Panic
    PROVE  PipeInv'
<1>1. /\ panicked' = TRUE
      /\ UNCHANGED <<state, running, readers, writers, rxwaiter, txwaiter, pc, left>>
      /\ UNCHANGED <<fifoVars, ends, sent, received>>
  BY DEF Panic, taskVars, ends, slots
<1>2. RingTypeOK' /\ SeenExact' /\ ~OneEach' /\ (fifo_empty' <=> fifo_empty) /\ (fifo_full' <=> fifo_full)
  BY <1>1, KeepBytes
<1>3. TaskInv' /\ PipeTypeOK' /\ Roles' /\ SlotsExact'
  BY <1>1, <1>2 DEF PipeInv, TaskInv, TaskTypeOK, OneRunning, IdleRunnable, PipeTypeOK, Roles, SlotsExact
<1>4. WaitersJustified'
  BY <1>1, <1>2 DEF PipeInv, WaitersJustified
<1>5. WokenFinds' /\ AssertionsHold'
  BY <1>2 DEF WokenFinds, AssertionsHold
<1>6. Bounded'
  BY <1>1 DEF PipeInv, Bounded, Unsent
<1> QED
  BY <1>2, <1>3, <1>4, <1>5, <1>6 DEF PipeInv

(* read and write begin.                                                   *)
LEMMA StartLemma ==
    ASSUME PipeInv, NEW t \in Tasks, NEW n \in Counts, sys_read(t, n) \/ sys_write(t, n)
    PROVE  PipeInv'
<1>1. /\ t = running /\ pc[t] = "user" /\ ~panicked
      /\ left' = [left EXCEPT ![t] = n]
      /\ UNCHANGED <<state, running, readers, writers, rxwaiter, txwaiter, panicked>>
      /\ UNCHANGED <<fifoVars, ends, sent, received>>
      /\ \/ t \in readers /\ pc' = [pc EXCEPT ![t] = "read"]
         \/ /\ t \in writers /\ sent + Cardinality(Unsent) + n <= MaxBytes
            /\ pc' = [pc EXCEPT ![t] = "write"]
  BY DEF sys_read, sys_write, On, taskVars, ends, slots
<1>2. n \in Nat \ {0} /\ MaxBytes \in Nat
  BY PipeAssumption
<1>3. /\ RingTypeOK' /\ SeenExact' /\ (OneEach' <=> OneEach) /\ (fifo_empty' <=> fifo_empty)
      /\ (fifo_full' <=> fifo_full)
  BY <1>1, KeepBytes
<1>4. TaskInv' /\ PipeTypeOK'
  BY <1>1, <1>2, <1>3 DEF PipeInv, TaskInv, TaskTypeOK, OneRunning, IdleRunnable, PipeTypeOK
<1>5. Roles' /\ AssertionsHold'
  BY <1>1, <1>3 DEF PipeInv, PipeTypeOK, Roles, AssertionsHold
<1>6. SlotsExact'
  BY <1>1, PipeAssumption DEF PipeInv, PipeTypeOK, SlotsExact
<1>7. state[t] # "BLOCKED"
  BY <1>1 DEF PipeInv, TaskInv, OneRunning
<1>8. WaitersJustified'
  BY <1>1, <1>3, <1>7 DEF PipeInv, PipeTypeOK, WaitersJustified
<1>9. WokenFinds'
  BY <1>1, <1>3 DEF PipeInv, PipeTypeOK, WokenFinds
<1>10. Bounded'
  <2>1. CASE pc' = [pc EXCEPT ![t] = "read"]
    <3>1. Unsent' = Unsent
      BY <1>1, <2>1, UnsentKept DEF PipeInv, PipeTypeOK
    <3> QED
      BY <1>1, <1>2, <2>1, <3>1 DEF PipeInv, PipeTypeOK, Bounded
  <2>2. CASE /\ sent + Cardinality(Unsent) + n <= MaxBytes
             /\ pc' = [pc EXCEPT ![t] = "write"]
    <3>1. n <= MaxBytes
      BY <1>2, <2>2, UnsentFinite DEF PipeInv, PipeTypeOK
    <3>2. Cardinality(Unsent') = Cardinality(Unsent) + n
      BY <1>1, <1>2, <2>2, <3>1, UnsentStart DEF PipeInv, PipeTypeOK
    <3>3. sent' + Cardinality(Unsent') <= MaxBytes
      BY <1>1, <1>2, <2>2, <3>2, UnsentFinite DEF PipeInv, PipeTypeOK
    <3> QED
      BY <1>1, <1>2, <2>2, <3>1, <3>3 DEF PipeInv, PipeTypeOK, Bounded
  <2> QED
    BY <1>1, <2>1, <2>2
<1> QED
  BY <1>3, <1>4, <1>5, <1>6, <1>8, <1>9, <1>10 DEF PipeInv

(* The waiter in a slot is blocked, so waking it leaves the caller on the  *)
(* CPU.                                                                    *)
LEMMA NotifyLemma ==
    ASSUME PipeInv, NEW w \in {rxwaiter, txwaiter}, Notify(w)
    PROVE  /\ TaskInv' /\ running' = running
           /\ \A u \in Tasks : u # w => state'[u] = state[u]
           /\ w # NoTask => w \in Tasks /\ state'[w] = "READY"
<1>1. w \in Tasks \cup {NoTask} /\ (w # NoTask => state[w] = "BLOCKED" /\ w # Idle)
  BY IdleAssumption DEF PipeInv, PipeTypeOK, SlotsExact, TaskInv, IdleRunnable
<1>2. running' = running /\ state' = IF w = NoTask THEN state ELSE Unblock(state, {w})
  BY DEF Notify
<1>3. CASE w = NoTask
  BY <1>2, <1>3, PipeAssumption DEF PipeInv, TaskInv, TaskTypeOK, OneRunning, IdleRunnable
<1>4. CASE w # NoTask
  <2>1. state' = [u \in Tasks |-> IF u = w THEN "READY" ELSE state[u]]
    BY <1>2, <1>4 DEF Unblock
  <2>2. TaskTypeOK'
    BY <1>2, <2>1 DEF PipeInv, TaskInv, TaskTypeOK, States
  <2>3. OneRunning'
    BY <1>1, <1>2, <1>4, <2>1 DEF PipeInv, TaskInv, OneRunning
  <2>4. IdleRunnable'
    BY <1>1, <1>4, <2>1, IdleAssumption DEF PipeInv, TaskInv, IdleRunnable
  <2> QED
    BY <1>1, <1>2, <1>4, <2>1, <2>2, <2>3, <2>4 DEF TaskInv
<1> QED
  BY <1>3, <1>4

(* The reader takes a byte.  With one task at each end there is one.       *)
LEMMA TakeLemma ==
    ASSUME PipeInv, NEW t \in Tasks, t = running, ~panicked, take(t),
           pc[t] = "rwait" \/ (pc[t] = "read" /\ ~fifo_empty)
    PROVE  PipeInv'
<1>1. state[t] = "RUNNING"
  BY DEF PipeInv, TaskInv, OneRunning
<1>2. CASE fifo_empty /\ Panic
  <2>1. ~OneEach
    BY <1>1, <1>2 DEF PipeInv, WokenFinds
  <2> QED
    BY <1>2, <2>1, PanicLemma
<1>3. CASE fifo_get /\ Notify(txwaiter) /\ txwaiter' = NoTask /\ Moved(t, "read")
           /\ received' = Append(received, got') /\ UNCHANGED <<ends, rxwaiter, sent, panicked>>
  <2>1. /\ RingTypeOK' /\ ~fifo_full' /\ got' \in Bytes
        /\ Content \in Seq(Bytes) /\ Content # <<>>
        /\ got' = Head(Content) /\ Content' = Tail(Content)
    BY <1>3, GetFacts DEF PipeInv, PipeTypeOK
  <2>2. /\ TaskInv' /\ running' = running
        /\ \A u \in Tasks : u # txwaiter => state'[u] = state[u]
        /\ txwaiter # NoTask => txwaiter \in Tasks /\ state'[txwaiter] = "READY"
    BY <1>3, NotifyLemma
  <2>3. /\ left' = [left EXCEPT ![t] = @ - 1]
        /\ \E p \in {"user", "read"} : pc' = [pc EXCEPT ![t] = p] /\ (p = "read" => left[t] # 1)
    BY <1>3 DEF Moved
  <2>4. /\ UNCHANGED <<readers, writers, rxwaiter, sent, panicked>> /\ (OneEach' <=> OneEach)
        /\ t \in readers
    BY <1>3 DEF ends, OneEach, PipeInv, Roles
  <2>5. left[t] \in Nat \ {0}
    BY DEF PipeInv, PipeTypeOK, Bounded
  <2>6. PipeTypeOK'
    <3>1. received' \in Seq(Bytes)
      BY <1>3, <2>1, AppendProperties DEF PipeInv, PipeTypeOK
    <3> QED
      BY <1>3, <2>1, <2>3, <2>4, <2>5, <3>1 DEF PipeInv, PipeTypeOK
  <2>7. Roles'
    BY <2>3, <2>4 DEF PipeInv, PipeTypeOK, Roles
  <2>8. rxwaiter # t
    BY <1>1, PipeAssumption DEF PipeInv, SlotsExact
  <2>9. txwaiter # rxwaiter \/ rxwaiter = NoTask
    BY DEF PipeInv, SlotsExact
  <2>10. SlotsExact'
    BY <1>3, <2>2, <2>3, <2>4, <2>8, <2>9 DEF PipeInv, PipeTypeOK, SlotsExact
  <2>11. \A u \in Tasks : state'[u] # "BLOCKED"
    <3> SUFFICES ASSUME NEW u \in Tasks, state'[u] = "BLOCKED" PROVE FALSE
      OBVIOUS
    <3>1. u # txwaiter /\ state[u] = "BLOCKED"
      BY <2>2, PipeAssumption
    <3>2. fifo_empty
      BY <3>1 DEF PipeInv, WaitersJustified
    <3> QED
      BY <1>3, <3>2 DEF fifo_get
  <2>12. WaitersJustified'
    BY <2>11 DEF WaitersJustified
  <2>13. WokenFinds'
    <3> SUFFICES ASSUME OneEach, NEW u \in Tasks PROVE pc'[u] # "rwait"
      BY <2>1, <2>4 DEF WokenFinds
    <3>1. pc'[u] = "rwait" => u # t /\ pc[u] = "rwait"
      BY <2>3 DEF PipeInv, PipeTypeOK
    <3>2. pc[u] = "rwait" => u = t
      BY <2>4 DEF PipeInv, Roles, OneEach
    <3> QED
      BY <3>1, <3>2
  <2>14. Bounded'
    <3>1. Unsent' = Unsent
      BY <2>3, UnsentKept DEF PipeInv, PipeTypeOK
    <3>2. \A u \in Tasks : u # t => pc'[u] = pc[u] /\ left'[u] = left[u]
      BY <2>3 DEF PipeInv, PipeTypeOK
    <3>3. pc'[t] \in {"user", "read"} /\ (pc'[t] = "read" => left'[t] > 0)
      BY <2>3, <2>5 DEF PipeInv, PipeTypeOK
    <3> QED
      BY <2>4, <3>1, <3>2, <3>3 DEF PipeInv, Bounded
  <2>15. SeenExact'
    <3>1. Append(received, Head(Content)) \o Tail(Content) = received \o Content
      BY <2>1, TakeSeen DEF PipeInv, PipeTypeOK
    <3>2. Seen' = Seen
      BY <1>3, <2>1, <3>1 DEF Seen
    <3> QED
      BY <2>4, <3>2 DEF PipeInv, SeenExact
  <2>16. AssertionsHold'
    BY <2>4 DEF AssertionsHold
  <2> QED
    BY <2>2, <2>6, <2>7, <2>10, <2>12, <2>13, <2>14, <2>15, <2>16 DEF PipeInv
<1> QED
  BY <1>2, <1>3 DEF take

(* The writer gives a byte.  With one task at each end there is room.      *)
LEMMA GiveLemma ==
    ASSUME PipeInv, NEW t \in Tasks, t = running, ~panicked, give(t),
           pc[t] = "wwait" \/ (pc[t] = "write" /\ ~fifo_full)
    PROVE  PipeInv'
<1>1. state[t] = "RUNNING"
  BY DEF PipeInv, TaskInv, OneRunning
<1>2. /\ left' = [left EXCEPT ![t] = @ - 1]
      /\ \E p \in {"user", "write"} : pc' = [pc EXCEPT ![t] = p] /\ (p = "write" => left[t] # 1)
      /\ UNCHANGED <<readers, writers, txwaiter, received, panicked>>
      /\ sent' = sent + 1 /\ rxwaiter' = NoTask /\ fifo_put(sent + 1)
  BY DEF give, Moved, ends
<1>3. left[t] \in 1 .. MaxBytes /\ t \in writers /\ MaxBytes \in Nat /\ Bytes = 0 .. MaxBytes
  BY PipeAssumption DEF PipeInv, PipeTypeOK, Bounded, Roles
<1>4. Cardinality(Unsent') = Cardinality(Unsent) - 1 /\ Cardinality(Unsent) > 0
  BY <1>3, UnsentLess DEF give, PipeInv, PipeTypeOK
<1>5. sent \in Nat /\ sent + 1 \in Bytes /\ sent' + Cardinality(Unsent') <= MaxBytes
  BY <1>2, <1>3, <1>4, UnsentFinite DEF PipeInv, PipeTypeOK, Bounded
<1>6. /\ RingTypeOK' /\ ~fifo_empty' /\ (fifo_full => fifo_full')
      /\ Content \in Seq(Bytes)
      /\ fifo_full => Content # <<>> /\ Content' = Append(Tail(Content), sent + 1)
      /\ ~fifo_full => Content' = Append(Content, sent + 1)
  BY <1>2, <1>5, PutFacts DEF PipeInv, PipeTypeOK
<1>7. /\ TaskInv' /\ running' = running
      /\ \A u \in Tasks : u # rxwaiter => state'[u] = state[u]
      /\ rxwaiter # NoTask => rxwaiter \in Tasks /\ state'[rxwaiter] = "READY"
  BY NotifyLemma DEF give
<1>8. OneEach' <=> OneEach
  BY <1>2 DEF OneEach
<1>9. PipeTypeOK'
  BY <1>2, <1>3, <1>5, <1>6 DEF PipeInv, PipeTypeOK
<1>10. Roles'
  BY <1>2, <1>3 DEF PipeInv, PipeTypeOK, Roles
<1>11. (txwaiter # t) /\ (txwaiter # rxwaiter \/ txwaiter = NoTask)
  BY <1>1, PipeAssumption DEF PipeInv, SlotsExact
<1>12. SlotsExact'
  BY <1>2, <1>7, <1>11 DEF PipeInv, PipeTypeOK, SlotsExact
<1>13. WaitersJustified'
  <2> SUFFICES ASSUME NEW u \in Tasks, state'[u] = "BLOCKED"
               PROVE  pc'[u] = "wwait" /\ txwaiter' = u /\ fifo_full'
    BY DEF WaitersJustified
  <2>1. u # rxwaiter /\ state[u] = "BLOCKED" /\ u # t
    BY <1>1, <1>7, PipeAssumption
  <2>2. pc[u] = "wwait" /\ txwaiter = u /\ fifo_full
    BY <2>1 DEF PipeInv, WaitersJustified
  <2>3. pc'[u] = pc[u]
    BY <1>2, <2>1 DEF PipeInv, PipeTypeOK
  <2> QED
    BY <1>2, <1>6, <2>2, <2>3
<1>14. WokenFinds'
  <2> SUFFICES ASSUME OneEach, NEW u \in Tasks PROVE pc'[u] # "wwait"
    BY <1>6, <1>8 DEF WokenFinds
  <2>1. pc'[u] = "wwait" => u # t /\ pc[u] = "wwait"
    BY <1>2 DEF PipeInv, PipeTypeOK
  <2>2. pc[u] = "wwait" => u = t
    BY <1>3 DEF PipeInv, Roles, OneEach
  <2> QED
    BY <2>1, <2>2
<1>15. Bounded'
  <2>1. \A u \in Tasks : u # t => pc'[u] = pc[u] /\ left'[u] = left[u]
    BY <1>2 DEF PipeInv, PipeTypeOK
  <2>2. pc'[t] \in {"user", "write"} /\ (pc'[t] = "write" => left'[t] \in 1 .. MaxBytes)
    BY <1>2, <1>3 DEF PipeInv, PipeTypeOK
  <2> QED
    BY <1>3, <1>5, <2>1, <2>2 DEF PipeInv, Bounded
<1>16. SeenExact'
  <2>1. received \in Seq(Bytes) /\ Increases(received \o Content, sent)
        /\ (OneEach => Complete(received \o Content, sent))
    BY DEF PipeInv, PipeTypeOK, SeenExact, Seen
  <2>2. Seen' = received \o Content'
    BY <1>2 DEF Seen
  <2>3. CASE ~fifo_full
    <3>1. /\ Increases(received \o Append(Content, sent + 1), sent + 1)
          /\ Complete(received \o Content, sent) => Complete(received \o Append(Content, sent + 1), sent + 1)
      BY <1>5, <1>6, <2>1, NextByte
    <3> QED
      BY <1>2, <1>6, <1>8, <2>1, <2>2, <2>3, <3>1 DEF SeenExact
  <2>4. CASE fifo_full
    <3>1. ~OneEach
      BY <1>1, <2>4 DEF PipeInv, WokenFinds
    <3>2. Content # <<>> /\ Tail(Content) \in Seq(Bytes)
      BY <1>6, <2>4, HeadTailProperties
    <3>3. Increases(received \o Tail(Content), sent)
      BY <1>5, <1>6, <2>1, <3>2, LeaveOut
    <3>4. Increases(received \o Append(Tail(Content), sent + 1), sent + 1)
      BY <1>5, <2>1, <3>2, <3>3, NextByte
    <3> QED
      BY <1>2, <1>6, <1>8, <2>2, <2>4, <3>1, <3>4 DEF SeenExact
  <2> QED
    BY <2>3, <2>4
<1>17. AssertionsHold'
  BY <1>2 DEF AssertionsHold
<1> QED
  BY <1>7, <1>9, <1>10, <1>12, <1>13, <1>14, <1>15, <1>16, <1>17 DEF PipeInv

(* A task fills its slot and leaves the CPU: a reader with the pipe empty, *)
(* a writer with the pipe full.                                            *)
LEMMA BlockLemma ==
    ASSUME PipeInv, NEW t \in Tasks, t = running, ~panicked, NEW p, task_block(t, p),
           \/ /\ p = "rwait" /\ pc[t] = "read" /\ fifo_empty
              /\ rxwaiter = NoTask /\ rxwaiter' = t /\ txwaiter' = txwaiter
           \/ /\ p = "wwait" /\ pc[t] = "write" /\ fifo_full
              /\ txwaiter = NoTask /\ txwaiter' = t /\ rxwaiter' = rxwaiter
    PROVE  PipeInv'
<1> DEFINE st == Suspend(state, t, "BLOCKED")
<1>1. /\ pc' = [pc EXCEPT ![t] = p] /\ schedule(st)
      /\ UNCHANGED <<fifoVars, ends, sent, received>>
      /\ UNCHANGED <<readers, writers, left, panicked>>
  BY DEF task_block, ends
<1>2. /\ RingTypeOK' /\ SeenExact' /\ (OneEach' <=> OneEach) /\ (fifo_empty' <=> fifo_empty)
      /\ (fifo_full' <=> fifo_full)
  BY <1>1, KeepBytes
<1>3. t # Idle
  BY DEF PipeInv, Roles
<1>4. /\ st \in [Tasks -> States] /\ \A u \in Tasks : st[u] = "RUNNING" => u = running
      /\ st[Idle] \in {"READY", "RUNNING"} /\ running \in Tasks
      /\ st[t] = "BLOCKED" /\ \A u \in Tasks : u # t => st[u] = state[u]
  BY <1>3, IdleAssumption DEF Suspend, PipeInv, TaskInv, TaskTypeOK, OneRunning, IdleRunnable, States, Suspended
<1> HIDE DEF st
<1>5. TaskInv' /\ \A u \in Tasks : state'[u] = "BLOCKED" <=> st[u] = "BLOCKED"
  BY <1>1, <1>4, ScheduleLemma DEF TaskInv, Suspended
<1>6. /\ state'[t] = "BLOCKED" /\ pc'[t] = p
      /\ \A u \in Tasks : u # t => /\ pc'[u] = pc[u]
                                   /\ state'[u] = "BLOCKED" <=> state[u] = "BLOCKED"
  BY <1>1, <1>4, <1>5 DEF PipeInv, PipeTypeOK
<1>7. PipeTypeOK'
  BY <1>1, <1>2 DEF PipeInv, PipeTypeOK
<1>8. Roles' /\ AssertionsHold'
  BY <1>1, <1>2, <1>6 DEF PipeInv, Roles, AssertionsHold
<1>9. SlotsExact'
  BY <1>6 DEF PipeInv, PipeTypeOK, SlotsExact
<1>10. ~ (fifo_empty /\ fifo_full)
  BY NextLemma, FifoAssumption DEF PipeInv, PipeTypeOK, RingTypeOK, fifo_empty, fifo_full, Cells
<1>11. WaitersJustified'
  <2> SUFFICES ASSUME NEW u \in Tasks, state'[u] = "BLOCKED"
               PROVE  \/ pc'[u] = "rwait" /\ rxwaiter' = u /\ fifo_empty'
                      \/ pc'[u] = "wwait" /\ txwaiter' = u /\ fifo_full'
    BY DEF WaitersJustified
  <2>1. CASE u = t
    BY <1>2, <1>6, <2>1
  <2>2. CASE u # t
    <3>1. pc'[u] = pc[u] /\ state[u] = "BLOCKED"
      BY <1>6, <2>2
    <3>2. \/ pc[u] = "rwait" /\ rxwaiter = u /\ fifo_empty
          \/ pc[u] = "wwait" /\ txwaiter = u /\ fifo_full
      BY <3>1 DEF PipeInv, WaitersJustified
    <3> QED
      BY <1>2, <1>10, <3>1, <3>2, PipeAssumption
  <2> QED
    BY <2>1, <2>2
<1>12. WokenFinds'
  BY <1>2, <1>6 DEF PipeInv, WokenFinds
<1>13. Bounded'
  <2>1. Unsent' = Unsent
    BY <1>1, UnsentKept DEF PipeInv, PipeTypeOK
  <2> QED
    BY <1>1, <1>6, <2>1 DEF PipeInv, Bounded
<1> QED
  BY <1>2, <1>5, <1>7, <1>8, <1>9, <1>11, <1>12, <1>13 DEF PipeInv

(* The end of a time slice.                                                *)
LEMMA PreemptLemma ==
    ASSUME PipeInv, preempt
    PROVE  PipeInv'
<1>1. /\ schedule(state)
      /\ UNCHANGED <<fifoVars, ends, sent, received>>
      /\ UNCHANGED <<readers, writers, rxwaiter, txwaiter, pc, left, panicked>>
  BY DEF preempt, ends, slots
<1>2. /\ RingTypeOK' /\ SeenExact' /\ (OneEach' <=> OneEach) /\ (fifo_empty' <=> fifo_empty)
      /\ (fifo_full' <=> fifo_full)
  BY <1>1, KeepBytes
<1>3. TaskInv' /\ \A u \in Tasks : state'[u] = "BLOCKED" <=> state[u] = "BLOCKED"
  BY <1>1, ScheduleLemma DEF PipeInv, TaskInv, TaskTypeOK, OneRunning, IdleRunnable, Suspended
<1>4. PipeTypeOK' /\ Roles' /\ AssertionsHold'
  BY <1>1, <1>2 DEF PipeInv, PipeTypeOK, Roles, AssertionsHold
<1>5. SlotsExact'
  BY <1>1, <1>3, PipeAssumption DEF PipeInv, PipeTypeOK, SlotsExact
<1>6. WaitersJustified' /\ WokenFinds'
  BY <1>1, <1>2, <1>3 DEF PipeInv, WaitersJustified, WokenFinds
<1>7. Bounded'
  BY <1>1 DEF PipeInv, Bounded, Unsent
<1> QED
  BY <1>2, <1>3, <1>4, <1>5, <1>6, <1>7 DEF PipeInv

(* pipe_read and pipe_write: a task at the end it inherited finds its slot *)
(* free, unless it shares that end.                                        *)
LEMMA ReadWriteLemma ==
    ASSUME PipeInv, NEW t \in Tasks, pipe_read(t) \/ pipe_write(t)
    PROVE  PipeInv'
<1>1. t = running /\ ~panicked /\ state[t] = "RUNNING"
  BY DEF pipe_read, pipe_write, On, PipeInv, TaskInv, OneRunning
<1>2. CASE pc[t] = "read" /\ fifo_empty /\ rxwaiter # NoTask /\ Panic
  <2>1. rxwaiter \in readers /\ t \in readers /\ rxwaiter # t
    BY <1>1, <1>2 DEF PipeInv, PipeTypeOK, Roles, SlotsExact
  <2> QED
    BY <1>2, <2>1, PanicLemma DEF OneEach
<1>3. CASE pc[t] = "write" /\ fifo_full /\ txwaiter # NoTask /\ Panic
  <2>1. txwaiter \in writers /\ t \in writers /\ txwaiter # t
    BY <1>1, <1>3 DEF PipeInv, PipeTypeOK, Roles, SlotsExact
  <2> QED
    BY <1>3, <2>1, PanicLemma DEF OneEach
<1>4. CASE /\ pc[t] = "read" /\ fifo_empty /\ rxwaiter = NoTask /\ rxwaiter' = t
           /\ task_block(t, "rwait") /\ txwaiter' = txwaiter
  BY <1>1, <1>4, BlockLemma
<1>5. CASE /\ pc[t] = "write" /\ fifo_full /\ txwaiter = NoTask /\ txwaiter' = t
           /\ task_block(t, "wwait") /\ rxwaiter' = rxwaiter
  BY <1>1, <1>5, BlockLemma
<1>6. CASE (pc[t] = "rwait" \/ (pc[t] = "read" /\ ~fifo_empty)) /\ take(t)
  BY <1>1, <1>6, TakeLemma
<1>7. CASE (pc[t] = "wwait" \/ (pc[t] = "write" /\ ~fifo_full)) /\ give(t)
  BY <1>1, <1>7, GiveLemma
<1> QED
  BY <1>2, <1>3, <1>4, <1>5, <1>6, <1>7 DEF pipe_read, pipe_write, On

(* A pipe begins in its invariant.                                         *)
LEMMA PipeInit == Init => PipeInv
<1> SUFFICES ASSUME Init PROVE PipeInv
  OBVIOUS
<1>1. TaskInv
  BY IdleAssumption DEF Init, AllReady, TaskInv, TaskTypeOK, OneRunning, IdleRunnable, States
<1>2. PipeTypeOK
  <2>1. 0 \in Bytes /\ 0 \in Cells
    BY PipeAssumption, FifoAssumption DEF Cells
  <2>2. RingTypeOK
    BY <2>1 DEF Init, fifo_init, RingTypeOK
  <2>3. received \in Seq(Bytes)
    BY DEF Init
  <2> QED
    BY <2>2, <2>3 DEF Init, PipeTypeOK
<1>3. Roles
  BY PipeAssumption DEF Init, Roles
<1>4. SlotsExact /\ WokenFinds /\ AssertionsHold
  BY DEF Init, SlotsExact, WokenFinds, AssertionsHold
<1>5. WaitersJustified
  BY DEF Init, AllReady, WaitersJustified
<1>6. Bounded
  <2>1. Unsent = {}
    BY DEF Init, Unsent
  <2> QED
    BY <2>1, FS_EmptySet, PipeAssumption DEF Init, Bounded
<1>7. SeenExact
  <2>1. Content \in Seq(Bytes) /\ Len(Content) = CountOf(head, tail)
    BY <1>2, ContentLemma DEF Content, PipeTypeOK, RingTypeOK
  <2>2. CountOf(head, tail) = 0
    BY DEF Init, fifo_init, CountOf
  <2>3. Content = <<>>
    BY <2>1, <2>2, EmptySeq
  <2>4. Seen = <<>>
    BY <2>3 DEF Seen, Init
  <2> QED
    BY <2>4 DEF Init, SeenExact, Increases, Complete
<1> QED
  BY <1>1, <1>2, <1>3, <1>4, <1>5, <1>6, <1>7 DEF PipeInv

(* The inductive invariant holds of every state of the pipe.               *)
LEMMA PipeInvariant == Spec => []PipeInv
<1>1. Init => PipeInv
  BY PipeInit
<1>2. PipeInv /\ [Next]_vars => PipeInv'
  <2> SUFFICES ASSUME PipeInv, [Next]_vars PROVE PipeInv'
    OBVIOUS
  <2>1. CASE preempt
    BY <2>1, PreemptLemma
  <2>2. ASSUME NEW t \in Tasks, pipe_read(t) \/ pipe_write(t) PROVE PipeInv'
    BY <2>2, ReadWriteLemma
  <2>3. ASSUME NEW t \in Tasks, NEW n \in Counts, sys_read(t, n) \/ sys_write(t, n) PROVE PipeInv'
    BY <2>3, StartLemma
  <2>4. CASE UNCHANGED vars
    <3>1. /\ UNCHANGED <<fifoVars, ends, sent, received>>
          /\ UNCHANGED <<state, running, readers, writers, rxwaiter, txwaiter, pc, left, panicked>>
      BY <2>4 DEF vars, taskVars, ends, slots
    <3>2. /\ RingTypeOK' /\ SeenExact' /\ (OneEach' <=> OneEach) /\ (fifo_empty' <=> fifo_empty)
          /\ (fifo_full' <=> fifo_full)
      BY <3>1, KeepBytes
    <3>3. TaskInv' /\ PipeTypeOK' /\ Roles' /\ SlotsExact'
      BY <3>1, <3>2 DEF PipeInv, TaskInv, TaskTypeOK, OneRunning, IdleRunnable, PipeTypeOK, Roles, SlotsExact
    <3>4. WaitersJustified' /\ WokenFinds' /\ AssertionsHold'
      BY <3>1, <3>2 DEF PipeInv, WaitersJustified, WokenFinds, AssertionsHold
    <3>5. Bounded'
      BY <3>1 DEF PipeInv, Bounded, Unsent
    <3> QED
      BY <3>2, <3>3, <3>4, <3>5 DEF PipeInv
  <2> QED
    BY <2>1, <2>2, <2>3, <2>4 DEF Next
<1> QED
  BY <1>1, <1>2, PTL DEF Spec

(* pipe_read and pipe_write block a task only with the pipe empty or full  *)
(* and its name in its slot, so the two sides never wait for each other;   *)
(* and with one task at each end no assertion of pipe.c or fifo.c fails.   *)
THEOREM PipeWaits == Spec => [](WaitersJustified /\ AssertionsHold)
<1>1. PipeInv => WaitersJustified /\ AssertionsHold
  BY DEF PipeInv
<1> QED
  BY <1>1, PipeInvariant, PTL

(* Every byte written is read once and in order or is still in the ring    *)
(* between one reader and one writer; with more of them bytes may be       *)
(* missing, but none is repeated, invented or overtaken: for any length of *)
(* the ring and any counts.                                                *)
THEOREM PipeDelivers == Spec => []NothingLost
<1>1. PipeInv => NothingLost
  <2> SUFFICES ASSUME PipeInv PROVE NothingLost
    OBVIOUS
  <2>1. Seen \in Seq(Bytes)
    <3>1. Content \in Seq(Bytes)
      BY ContentLemma DEF Content, PipeInv, PipeTypeOK, RingTypeOK
    <3> QED
      BY <3>1, ConcatProperties DEF Seen, PipeInv, PipeTypeOK
  <2>2. ASSUME OneEach PROVE Seen = [n \in 1 .. sent |-> n]
    <3>1. Len(Seen) = sent /\ \A i \in 1 .. sent : Seen[i] = i
      BY <2>2 DEF PipeInv, SeenExact, Complete
    <3>2. Seen = [i \in 1 .. Len(Seen) |-> Seen[i]]
      BY <2>1
    <3> QED
      BY <3>1, <3>2
  <2>3. \A i, j \in 1 .. Len(Seen) : Seen[i] > 0 /\ (i < j => Seen[i] < Seen[j])
    BY DEF PipeInv, PipeTypeOK, SeenExact, Increases
  <2> QED
    BY <2>2, <2>3 DEF NothingLost
<1> QED
  BY <1>1, PipeInvariant, PTL

(* Whatever the tasks at its ends do, the ring of a pipe is used as the    *)
(* bounded queue: its bytes are in range and move only by a get or a put.  *)
THEOREM PipeImplementsQueue == Spec => ImplementsQueue
<1>1. Init => Q!Init
  <2> SUFFICES ASSUME Init PROVE Q!Init
    OBVIOUS
  <2>1. PipeInv
    BY PipeInit
  <2>2. Content \in Seq(Bytes) /\ Len(Content) = CountOf(head, tail)
    BY <2>1, ContentLemma DEF Content, PipeInv, PipeTypeOK, RingTypeOK
  <2>3. CountOf(head, tail) = 0
    BY DEF Init, fifo_init, CountOf
  <2> QED
    BY <2>2, <2>3, EmptySeq DEF Q!Init, Init, fifo_init
<1>2. PipeInv /\ PipeInv' /\ [Next]_vars => [Q!Next]_<<Content, got>>
  <2> SUFFICES ASSUME PipeInv, PipeInv', [Next]_vars PROVE [Q!Next]_<<Content, got>>
    OBVIOUS
  <2>1. RingTypeOK /\ RingTypeOK'
    BY DEF PipeInv, PipeTypeOK
  <2>2. CASE UNCHANGED fifoVars
    BY <2>2 DEF fifoVars, Content
  <2>3. CASE fifo_get
    BY <2>1, <2>3, GetStep DEF Q!Next
  <2>4. ASSUME NEW t \in Tasks, give(t) PROVE Q!Next
    <3>1. fifo_put(sent + 1) /\ sent' = sent + 1
      BY <2>4 DEF give
    <3>2. sent + 1 \in Bytes
      <4>1. sent' + Cardinality(Unsent') <= MaxBytes
        BY DEF PipeInv, Bounded
      <4>2. Cardinality(Unsent') \in Nat
        <5>1. IsFiniteSet(Tasks \X (1 .. MaxBytes))
          <6>1. IsFiniteSet(Tasks) /\ IsFiniteSet(1 .. MaxBytes)
            BY PipeAssumption, FS_Interval
          <6> QED
            BY <6>1, FS_Product
        <5>2. Unsent' \in SUBSET (Tasks \X (1 .. MaxBytes))
          BY DEF Unsent
        <5> QED
          BY <5>1, <5>2, FS_Subset, FS_CardinalityType
      <4> QED
        BY <3>1, <4>1, <4>2, PipeAssumption DEF PipeInv, PipeTypeOK
    <3> QED
      BY <2>1, <3>1, <3>2, PutStep DEF Q!Next
  <2> QED
    BY <2>2, <2>3, <2>4 DEF Next, vars, preempt, pipe_read, pipe_write, sys_read, sys_write, take,
                            task_block, Panic
<1> QED
  BY <1>1, <1>2, PipeInvariant, PTL DEF Spec, ImplementsQueue, Q!Spec
=============================================================================
