------------------------ MODULE HeQatPipeline_proofs ------------------------
(***************************************************************************)
(* Proofs about the way of the requests through HeQatOffload: the rings of *)
(* the outstanding buffers, the lists of the threads, the accelerator and  *)
(* back.  They hold for every number of callers, buffers, slots, instances *)
(* and requests, whatever fails, and rest on the invariant of              *)
(* HeQatOffload_proofs.                                                    *)
(***************************************************************************)
EXTENDS HeQatOffload_proofs

-----------------------------------------------------------------------------
(* The cursors of a ring.                                                  *)

LEMMA AdvanceValue ==
    ASSUME NEW s \in Slot, NEW n \in 0 .. BufferSize
    PROVE  Advance(s, n) = IF s + n < BufferSize THEN s + n ELSE s + n - BufferSize
<1>. USE OffloadAssumption
<1>1. s \in Nat /\ n \in Nat /\ s < BufferSize /\ n <= BufferSize
  BY DEF Slot
<1>2. CASE s + n < BufferSize
  BY <1>1, <1>2 DEF Advance
<1>3. CASE ~(s + n < BufferSize)
  BY <1>1, <1>3 DEF Advance
<1>. QED  BY <1>2, <1>3

LEMMA AdvanceFacts ==
    ASSUME NEW s \in Slot
    PROVE  /\ Advance(s, 0) = s
           /\ Advance(s, BufferSize) = s
           /\ \A n \in 0 .. BufferSize : Advance(s, n) \in Slot
           /\ \A k, l \in 0 .. BufferSize - 1 : Advance(s, k) = Advance(s, l) => k = l
           /\ \A t \in Slot : \E k \in 0 .. BufferSize - 1 : t = Advance(s, k)
<1>. USE OffloadAssumption
<1>1. s \in Nat /\ s < BufferSize /\ BufferSize \in Nat
  BY DEF Slot
<1>2. Advance(s, 0) = s /\ Advance(s, BufferSize) = s
  BY <1>1, AdvanceValue
<1>3. \A n \in 0 .. BufferSize : Advance(s, n) \in Slot
  BY <1>1, AdvanceInSlot
<1>4. \A k, l \in 0 .. BufferSize - 1 : Advance(s, k) = Advance(s, l) => k = l
  BY <1>1, AdvanceValue
<1>5. ASSUME NEW t \in Slot
      PROVE  \E k \in 0 .. BufferSize - 1 : t = Advance(s, k)
  <2>1. t \in Nat /\ t < BufferSize
    BY DEF Slot
  <2>2. CASE s <= t
    <3>1. t - s \in 0 .. BufferSize - 1 /\ Advance(s, t - s) = t
      BY <1>1, <2>1, <2>2, AdvanceValue
    <3>. QED  BY <3>1
  <2>3. CASE ~(s <= t)
    <3>1. /\ t - s + BufferSize \in 0 .. BufferSize - 1
          /\ Advance(s, t - s + BufferSize) = t
      BY <1>1, <2>1, <2>3, AdvanceValue
    <3>. QED  BY <3>1
  <2>. QED  BY <2>2, <2>3
<1>. QED  BY <1>2, <1>3, <1>4, <1>5

LEMMA AdvanceTwice ==
    ASSUME NEW s \in Slot, NEW a \in Nat, NEW b \in Nat, a + b <= BufferSize
    PROVE  Advance(Advance(s, a), b) = Advance(s, a + b)
<1>. USE OffloadAssumption
<1>1. /\ s \in Nat /\ s < BufferSize /\ BufferSize \in Nat
      /\ a \in 0 .. BufferSize /\ b \in 0 .. BufferSize /\ a + b \in 0 .. BufferSize
  BY DEF Slot
<1>. DEFINE t == Advance(s, a)
<1>2. t \in Slot
  BY <1>1, AdvanceFacts
<1>3. t \in Nat /\ t < BufferSize
  BY <1>1, <1>2 DEF Slot
<1>4. t = IF s + a < BufferSize THEN s + a ELSE s + a - BufferSize
  BY <1>1, AdvanceValue
<1>5. Advance(t, b) = IF t + b < BufferSize THEN t + b ELSE t + b - BufferSize
  BY <1>1, <1>2, AdvanceValue
<1>6. Advance(s, a + b)
        = IF s + (a + b) < BufferSize THEN s + (a + b) ELSE s + (a + b) - BufferSize
  BY <1>1, AdvanceValue
<1>. QED  BY <1>1, <1>3, <1>4, <1>5, <1>6

-----------------------------------------------------------------------------
(* The invariant.                                                          *)

\* The k-th slot of a buffer, counted from where the scheduler takes requests,
\* and from where the caller collects them.
QueueAt(b, k) == buffer[b].data[Advance(buffer[b].next_data_slot, k)]
SlotAt(b, k) == buffer[b].data[Advance(buffer[b].next_data_out, k)]

\* Whether a caller still submits, how many requests of its batch it has been
\* through by then, and how many of them it has collected.
Submitting(c) == pc[c] \in {"submit", "submit_wait"}
Limit(c) == IF Submitting(c) THEN j[c] ELSE batch_size[c]
Collected(c) == IF Submitting(c) THEN 0 ELSE j[c]

Own(c) == {c} \X (0 .. MaxBatch - 1)

\* The accelerator has the request, or its callback is running.
Flying(r) == \/ \E i \in Instance : <<i, r>> \in device
             \/ \E i \in Instance : callback[i] = r

\* A thread's list is empty where the code has dealt with it.
ListsEmpty ==
    /\ sched \notin {"forward", "forward_wait"} => pulled = <<>>
    /\ runner \in {"throttle", "read", "read_wait"} => to_offload = <<>>

\* The slots of a buffer hold requests of the caller it is reserved for, and those
\* the scheduler has not taken are in the order of their submission, behind all
\* the caller's requests that it has.
QueueOK(c) ==
    LET b == buffer_id[c]
    IN  /\ buffer[b].next_free_slot = Advance(buffer[b].next_data_slot, buffer[b].count)
        /\ \A s \in Slot : buffer[b].data[s] \in Own(c) \cup {NULL}
        /\ \A k \in 0 .. buffer[b].count - 1 :
              /\ QueueAt(b, k) # NULL
              /\ request_status[QueueAt(b, k)] = "SUCCESS"
              /\ ~Flying(QueueAt(b, k))
              /\ \A l \in 0 .. k - 1 : QueueAt(b, l)[2] < QueueAt(b, k)[2]
              /\ \A l \in DOMAIN Line : Line[l][1] = c => Line[l][2] < QueueAt(b, k)[2]

\* The slots that a releasing caller has been through are clear, and it gets round
\* the ring once at most.
ClearedOK(c) ==
    ~Submitting(c) => \A k \in 0 .. j[c] - 1 : k < BufferSize /\ SlotAt(buffer_id[c], k) = NULL

\* The n requests that a caller has stored are in the slots from next_data_out on,
\* except those that it has collected; the scheduler has taken the first of them.
Filled(c, n) ==
    LET b == buffer_id[c]
    IN  /\ buffer[b].count <= n - Collected(c)
        /\ buffer[b].next_data_slot = Advance(buffer[b].next_data_out, n - buffer[b].count)
        /\ \A k \in 0 .. BufferSize - 1 : SlotAt(b, k) # NULL <=> k \in Collected(c) .. n - 1
        /\ \A r \in Own(c) : request_status[r] # "FREED" =>
              \E k \in Collected(c) .. n - 1 : SlotAt(b, k) = r

\* So it is with a batch that fits into the buffer.
CollectOK(c) ==
    batch_size[c] <= BufferSize => \E n \in Collected(c) .. Limit(c) : Filled(c, n)

\* Only a caller with a buffer has requests, up to where it is in its batch.
StatusOK ==
    \A r \in Request : request_status[r] # "FREED" => r[1] \in Holders /\ r[2] < Limit(r[1])

\* The line holds live requests, those of a caller in the order of submission.
LineOK ==
    /\ Line \in Seq(Request)
    /\ \A l \in DOMAIN Line : request_status[Line[l]] = "SUCCESS" /\ ~Flying(Line[l])
    /\ \A k, l \in DOMAIN Line : k < l /\ Line[k][1] = Line[l][1] => Line[k][2] < Line[l][2]

\* A request with the accelerator is live, and there once.
FlightOK ==
    /\ \A r \in Request : Flying(r) => request_status[r] = "SUCCESS"
    /\ \A r \in Request, i \in Instance : <<i, r>> \in device =>
          \A h \in Instance : callback[h] # r /\ (<<h, r>> \in device => h = i)
    /\ \A i, h \in Instance : callback[i] # NULL /\ callback[i] = callback[h] => i = h

QueuedFor(c, r) == \E k \in 0 .. buffer[buffer_id[c]].count - 1 : QueueAt(buffer_id[c], k) = r

\* Unless responses get lost, a live request is somewhere.
FoundOK ==
    "response" \notin Faults =>
        \A r \in Request : request_status[r] = "SUCCESS" =>
            \/ Flying(r)
            \/ \E l \in DOMAIN Line : Line[l] = r
            \/ \E c \in Holders : QueuedFor(c, r)

HoldersOK == \A c \in Holders : QueueOK(c) /\ ClearedOK(c) /\ CollectOK(c)

PipelineInv ==
    /\ ListsEmpty
    /\ ChosenBufferHasData
    /\ FreeBufferClean
    /\ HoldersOK
    /\ StatusOK
    /\ LineOK
    /\ FlightOK
    /\ FoundOK

-----------------------------------------------------------------------------
(* The line.                                                               *)

\* Of the steps of the threads, Forward and Read move requests along the line,
\* CountRequest takes notice of what Offload did.
LEMMA LineKept ==
    ASSUME IInv, ListsEmpty, Pull \/ Scan \/ ForwardWaits \/ Forward \/ Throttle \/ ReadWaits
             \/ Read \/ CountRequest \/ OffloadRetry \/ SpuriousThread
    PROVE  Line' = Line
<1>. USE DEF Line, Unsent
<1>1. /\ pulled \in Seq(Pointer) /\ he_qat_buffer \in Seq(Pointer)
      /\ to_offload \in Seq(Pointer)
      /\ runner \in {"offload", "count"} => to_offload # <<>>
  BY DEF IInv, TypeOK, SchedulerTypeOK, RunnerTypeOK, ListsOK
<1>2. CASE Pull \/ Scan \/ ForwardWaits
  BY <1>2 DEF Pull, Scan, ForwardWaits, runnerVars
<1>3. CASE Throttle \/ ReadWaits \/ OffloadRetry
  BY <1>3 DEF Throttle, ReadWaits, OffloadRetry, schedVars
<1>4. CASE SpuriousThread
  BY <1>4 DEF SpuriousThread
<1>5. CASE CountRequest
  BY <1>5 DEF CountRequest, NextOffload, schedVars
<1>6. CASE Forward
  <2>1. Unsent' = Unsent /\ Unsent \in Seq(Pointer)
    <3>1. runner' = "count" <=> runner = "count"
      BY <1>6 DEF Forward, Resume
    <3>2. runner = "count" => Tail(to_offload) \in Seq(Pointer)
      BY <1>1, HeadTailProperties
    <3>. QED  BY <1>1, <1>6, <3>1, <3>2 DEF Forward
  <2>. DEFINE u == Unsent
  <2>2. /\ he_qat_buffer' = he_qat_buffer \o pulled
        /\ pulled' = <<>>
    BY <1>6 DEF Forward
  <2>3. (he_qat_buffer \o pulled) \in Seq(Pointer)
    BY <1>1, ConcatProperties
  <2>. HIDE DEF u, Unsent
  <2>4. Line' = (u \o (he_qat_buffer \o pulled)) \o <<>>
    BY <2>1, <2>2 DEF Line, u
  <2>5. (u \o (he_qat_buffer \o pulled)) \in Seq(Pointer)
    BY <2>1, <2>3, ConcatProperties DEF u
  <2>6. Line' = u \o (he_qat_buffer \o pulled)
    BY <2>4, <2>5, ConcatEmptySeq
  <2>7. Line = (u \o he_qat_buffer) \o pulled
    BY DEF Line, u
  <2>8. /\ u \in Seq(Pointer)
        /\ he_qat_buffer \in Seq(Pointer)
        /\ pulled \in Seq(Pointer)
    BY <1>1, <2>1 DEF u
  <2>9. (u \o he_qat_buffer) \o pulled = u \o (he_qat_buffer \o pulled)
    BY ONLY <2>8, ConcatAssociative
  <2>. QED  BY <2>6, <2>7, <2>9
<1>7. CASE Read
  <2>. DEFINE h == he_qat_buffer
              n == Smaller(Len(h), max_requests)
  <2>1. /\ runner = "read" /\ to_offload = <<>> /\ h # <<>>
        /\ max_requests \in Nat /\ max_requests > 0
    BY <1>7 DEF Read, ListsEmpty, IInv, TypeOK, RunnerTypeOK, ListsOK
  <2>2. Len(h) \in Nat \ {0}
    BY <1>1, <2>1, EmptySeq
  <2>3. n \in 1 .. Len(h)
    BY <2>1, <2>2 DEF Smaller
  <2>4. /\ to_offload' = SubSeq(h, 1, n)
        /\ he_qat_buffer' = SubSeq(h, n + 1, Len(h))
        /\ runner' = "offload" /\ pulled' = pulled
    BY <1>7, <2>3 DEF Read
  <2>. HIDE DEF n
  <2>5. SubSeq(h, 1, n) \o SubSeq(h, n + 1, Len(h)) = SubSeq(h, 1, Len(h))
    BY <1>1, <2>2, <2>3, ConcatAdjacentSubSeq
  <2>6. SubSeq(h, 1, Len(h)) = h
    BY <1>1, SubSeqFull
  <2>7. Line' = h \o pulled
    BY <2>4, <2>5, <2>6
  <2>8. <<>> \o h = h
    BY <1>1, ConcatEmptySeq
  <2>. QED  BY <2>1, <2>7, <2>8
<1>. QED  BY <1>2, <1>3, <1>4, <1>5, <1>6, <1>7

\* A caller or an answer does not move the line.
LEMMA LineApart ==
    ASSUME UNCHANGED <<runnerVars, he_qat_buffer, pulled>>
    PROVE  Line' = Line
BY DEF Line, Unsent, runnerVars

\* Offload and OffloadFails take the first request of the line.
LEMMA LineAdvances ==
    ASSUME IInv, Offload \/ OffloadFails
    PROVE  /\ Line # <<>> /\ Line \in Seq(Pointer)
           /\ Head(to_offload) = Line[1]
           /\ Line' = Tail(Line)
<1>. DEFINE t == to_offload
            rest == he_qat_buffer \o pulled
<1>1. /\ pulled \in Seq(Pointer) /\ he_qat_buffer \in Seq(Pointer)
      /\ t \in Seq(Pointer) /\ t # <<>>
      /\ runner = "offload"
  BY DEF IInv, TypeOK, SchedulerTypeOK, RunnerTypeOK, ListsOK, Offload, OffloadFails
<1>2. Unsent = t /\ Unsent' = Tail(t)
  BY <1>1 DEF Offload, OffloadFails, NextOffload, Unsent
<1>3. Tail(t) \in Seq(Pointer) /\ rest \in Seq(Pointer)
  BY <1>1, HeadTailProperties, ConcatProperties
<1>4. Line = t \o rest
  BY <1>1, <1>2, ConcatAssociative DEF Line
<1>5. Line' = Tail(t) \o rest
  <2>1. he_qat_buffer' = he_qat_buffer /\ pulled' = pulled
    BY DEF Offload, OffloadFails, schedVars
  <2>. QED  BY <1>1, <1>2, <1>3, <2>1, ConcatAssociative DEF Line
<1>. HIDE DEF rest
<1>6. /\ Len(t) \in Nat \ {0}
      /\ Len(rest) \in Nat
      /\ Len(Tail(t)) = Len(t) - 1
      /\ \A i \in 1 .. Len(t) - 1 : Tail(t)[i] = t[i + 1]
  BY <1>1, <1>3, EmptySeq, LenProperties, HeadTailProperties
<1>7. /\ Line \in Seq(Pointer) /\ Len(Line) = Len(t) + Len(rest)
      /\ \A i \in 1 .. Len(t) + Len(rest) :
            Line[i] = IF i <= Len(t) THEN t[i] ELSE rest[i - Len(t)]
  BY <1>1, <1>3, <1>4, ConcatProperties
<1>8. /\ Line' \in Seq(Pointer) /\ Len(Line') = Len(t) - 1 + Len(rest)
      /\ \A i \in 1 .. Len(t) - 1 + Len(rest) :
            Line'[i] = IF i <= Len(t) - 1 THEN Tail(t)[i] ELSE rest[i - (Len(t) - 1)]
  BY <1>3, <1>5, <1>6, ConcatProperties
<1>9. Line # <<>>
  BY <1>6, <1>7, EmptySeq
<1>10. /\ Tail(Line) \in Seq(Pointer) /\ Len(Tail(Line)) = Len(t) + Len(rest) - 1
       /\ \A i \in 1 .. Len(t) + Len(rest) - 1 : Tail(Line)[i] = Line[i + 1]
  BY <1>6, <1>7, <1>9, HeadTailProperties
<1>11. Line' = Tail(Line)
  <2>1. Len(Line') = Len(Tail(Line))
    BY <1>6, <1>8, <1>10
  <2>2. ASSUME NEW i \in 1 .. Len(Line')
        PROVE  Line'[i] = Tail(Line)[i]
    <3>1. /\ i \in Nat /\ i >= 1 /\ i <= Len(t) + Len(rest) - 1
          /\ Len(t) \in Nat \ {0} /\ Len(rest) \in Nat
      BY <1>6, <1>8
    <3>2. /\ i \in 1 .. Len(t) - 1 + Len(rest)
          /\ i + 1 \in 1 .. Len(t) + Len(rest)
          /\ i \in 1 .. Len(t) + Len(rest) - 1
      BY <3>1
    <3>3. Tail(Line)[i] = Line[i + 1]
      BY <1>10, <3>2
    <3>4. CASE i <= Len(t) - 1
      <4>1. i \in 1 .. Len(t) - 1 /\ i + 1 <= Len(t)
        BY <3>1, <3>4
      <4>. QED  BY <1>6, <1>7, <1>8, <3>2, <3>3, <3>4, <4>1
    <3>5. CASE ~(i <= Len(t) - 1)
      <4>1. ~(i + 1 <= Len(t)) /\ i - (Len(t) - 1) = (i + 1) - Len(t)
        BY <3>1, <3>5
      <4>. QED  BY <1>7, <1>8, <3>2, <3>3, <3>5, <4>1
    <3>. QED  BY <3>4, <3>5
  <2>. QED  BY <1>8, <1>10, <2>1, <2>2, SeqEqual
<1>12. Head(t) = t[1] /\ Line[1] = t[1]
  BY <1>1, <1>6, <1>7
<1>. QED  BY <1>7, <1>9, <1>11, <1>12

\* Extract puts what it takes from an outstanding buffer at the end.
LEMMA LineGrows ==
    ASSUME IInv, ListsEmpty, Extract, buffer[index].count > 0
    PROVE  LET n == buffer[index].count
           IN  /\ Line' \in Seq(Pointer) /\ Len(Line) \in Nat
               /\ Len(Line') = Len(Line) + n
               /\ \A l \in 1 .. Len(Line) : Line'[l] = Line[l]
               /\ \A k \in 0 .. n - 1 : Line'[Len(Line) + k + 1] = QueueAt(index, k)
<1>. DEFINE n == buffer[index].count
            new == Stored(index, n)
<1>1. /\ he_qat_buffer \in Seq(Pointer) /\ to_offload \in Seq(Pointer)
      /\ runner = "count" => to_offload # <<>>
      /\ index \in Buffer /\ buffer \in [Buffer -> RequestBuffer]
      /\ pulled = <<>>
  BY DEF IInv, TypeOK, SchedulerTypeOK, RunnerTypeOK, ListsOK, ListsEmpty, Extract
<1>2. n \in 1 .. BufferSize /\ Smaller(n, BufferSize) = n
  BY <1>1, OffloadAssumption DEF RequestBuffer, Smaller
<1>3. Unsent' = Unsent /\ Unsent \in Seq(Pointer)
  BY <1>1, HeadTailProperties DEF Extract, runnerVars, Unsent
<1>4. pulled' = new /\ he_qat_buffer' = he_qat_buffer
  BY <1>2 DEF Extract
<1>5. /\ new \in Seq(Pointer) /\ Len(new) = n
      /\ \A k \in 0 .. n - 1 : new[k + 1] = QueueAt(index, k)
  <2>1. n \in Nat /\ new \in Seq(Pointer)
    <3>1. n \in Nat
      BY <1>2, OffloadAssumption
    <3>. QED  BY <1>1, <3>1, StoredType
  <2>2. new = [k \in 1 .. n |-> QueueAt(index, k - 1)]
    BY DEF Stored, QueueAt
  <2>3. DOMAIN new = 1 .. n /\ Len(new) = n
    BY <2>1, <2>2, LenProperties
  <2>4. ASSUME NEW k \in 0 .. n - 1
        PROVE  new[k + 1] = QueueAt(index, k)
    <3>1. k + 1 \in 1 .. n /\ (k + 1) - 1 = k
      BY <2>1
    <3>. QED  BY <2>2, <3>1
  <2>. QED  BY <2>1, <2>3, <2>4
<1>. HIDE DEF new
<1>6. /\ (Unsent \o he_qat_buffer) \in Seq(Pointer)
      /\ Line = Unsent \o he_qat_buffer
  BY <1>1, <1>3, ConcatProperties, ConcatEmptySeq DEF Line
<1>7. Line' = Line \o new
  BY <1>3, <1>4, <1>6 DEF Line
<1>8. /\ Len(Line) \in Nat /\ Line' \in Seq(Pointer)
      /\ Len(Line') = Len(Line) + n
      /\ \A l \in 1 .. Len(Line) + n :
            Line'[l] = IF l <= Len(Line) THEN Line[l] ELSE new[l - Len(Line)]
  <2>1. Line \in Seq(Pointer) /\ Len(Line) \in Nat
    BY <1>6, LenProperties
  <2>2. /\ (Line \o new) \in Seq(Pointer)
        /\ Len(Line \o new) = Len(Line) + Len(new)
        /\ \A l \in 1 .. Len(Line) + Len(new) :
              (Line \o new)[l] = IF l <= Len(Line) THEN Line[l] ELSE new[l - Len(Line)]
    BY <1>5, <2>1, ConcatProperties
  <2>. QED  BY <1>5, <1>7, <2>1, <2>2
<1>9. ASSUME NEW l \in 1 .. Len(Line)
      PROVE  Line'[l] = Line[l]
  <2>1. n \in Nat
    BY <1>2, OffloadAssumption
  <2>2. l \in 1 .. Len(Line) + n /\ l <= Len(Line)
    BY <1>8, <2>1
  <2>. QED  BY <1>8, <2>2
<1>10. ASSUME NEW k \in 0 .. n - 1
       PROVE  Line'[Len(Line) + k + 1] = QueueAt(index, k)
  <2>1. /\ Len(Line) + k + 1 \in 1 .. Len(Line) + n
        /\ ~(Len(Line) + k + 1 <= Len(Line))
        /\ (Len(Line) + k + 1) - Len(Line) = k + 1
    BY <1>2, <1>8
  <2>. QED  BY <1>5, <1>8, <2>1
<1>. QED  BY <1>8, <1>9, <1>10

-----------------------------------------------------------------------------
(* Facts about a caller that holds a buffer.                               *)

LEMMA OwnFacts ==
    ASSUME NEW c \in Clients, NEW r \in Own(c)
    PROVE  r \in Request /\ r # NULL /\ r[1] = c /\ r[2] \in Nat /\ r = <<c, r[2]>>
BY NullAssumption DEF Own, Request

LEMMA RequestFacts ==
    ASSUME NEW r \in Request
    PROVE  r[1] \in Clients /\ r[2] \in Nat /\ r \in Own(r[1]) /\ r = <<r[1], r[2]>>
BY DEF Own, Request

LEMMA HolderFacts ==
    ASSUME IInv, NEW c \in Holders
    PROVE  LET b == buffer_id[c]
           IN  /\ c \in Clients /\ b \in Buffer /\ ~free_buffer[b] /\ ready_buffer[b]
               /\ buffer[b] \in RequestBuffer
               /\ buffer[b].count \in 0 .. BufferSize
               /\ buffer[b].next_free_slot \in Slot
               /\ buffer[b].next_data_slot \in Slot
               /\ buffer[b].next_data_out \in Slot
               /\ buffer[b].data \in [Slot -> Pointer]
               /\ j[c] \in Nat /\ batch_size[c] \in Nat
               /\ j[c] <= batch_size[c]
               /\ Limit(c) \in Nat /\ Collected(c) \in Nat
               /\ Limit(c) <= batch_size[c] /\ batch_size[c] <= MaxBatch
<1>1. c \in Clients
  BY DEF Holders
<1>2. buffer_id[c] \in Buffer /\ ~free_buffer[buffer_id[c]] /\ ready_buffer[buffer_id[c]]
  BY DEF IInv, BufferExclusive
<1>3. buffer[buffer_id[c]] \in RequestBuffer
  BY <1>2 DEF IInv, TypeOK
<1>4. j[c] \in Nat /\ batch_size[c] \in Nat /\ j[c] <= batch_size[c] /\ batch_size[c] <= MaxBatch
  BY <1>1, OffloadAssumption DEF IInv, TypeOK, ClientTypeOK, LoopsOK, Holders
<1>5. /\ Limit(c) \in Nat /\ Collected(c) \in Nat /\ Limit(c) <= batch_size[c]
  BY <1>4, OffloadAssumption DEF Limit, Collected
<1>. QED  BY <1>1, <1>2, <1>3, <1>4, <1>5 DEF RequestBuffer

\* The slots between the cursors belong to the ring.
LEMMA SlotFacts ==
    ASSUME IInv, NEW b \in Buffer
    PROVE  /\ \A k \in 0 .. BufferSize :
                 /\ Advance(buffer[b].next_data_slot, k) \in Slot
                 /\ Advance(buffer[b].next_data_out, k) \in Slot
                 /\ QueueAt(b, k) \in Pointer /\ SlotAt(b, k) \in Pointer
           /\ buffer[b].count \in 0 .. BufferSize
           /\ 0 .. buffer[b].count - 1 \subseteq 0 .. BufferSize
<1>1. buffer[b] \in RequestBuffer
  BY DEF IInv, TypeOK
<1>2. /\ buffer[b].next_data_slot \in Slot /\ buffer[b].next_data_out \in Slot
      /\ buffer[b].data \in [Slot -> Pointer] /\ buffer[b].count \in 0 .. BufferSize
  BY <1>1 DEF RequestBuffer
<1>3. \A k \in 0 .. BufferSize :
         /\ Advance(buffer[b].next_data_slot, k) \in Slot
         /\ Advance(buffer[b].next_data_out, k) \in Slot
  BY <1>2, AdvanceFacts
<1>4. \A k \in 0 .. BufferSize : QueueAt(b, k) \in Pointer /\ SlotAt(b, k) \in Pointer
  BY <1>2, <1>3 DEF QueueAt, SlotAt
<1>5. 0 .. buffer[b].count - 1 \subseteq 0 .. BufferSize
  BY <1>2, OffloadAssumption
<1>. QED  BY <1>2, <1>3, <1>4, <1>5


\* What is queued for a caller is its own, live, and not with the accelerator.
LEMMA QueuedFacts ==
    ASSUME IInv, NEW c \in Holders, QueueOK(c),
           NEW k \in 0 .. buffer[buffer_id[c]].count - 1
    PROVE  /\ QueueAt(buffer_id[c], k) \in Own(c)
           /\ QueueAt(buffer_id[c], k) \in Request
           /\ request_status[QueueAt(buffer_id[c], k)] = "SUCCESS"
           /\ ~Flying(QueueAt(buffer_id[c], k))
<1>. DEFINE b == buffer_id[c]
<1>1. c \in Clients /\ b \in Buffer
  BY HolderFacts
<1>2. Advance(buffer[b].next_data_slot, k) \in Slot
  BY <1>1, SlotFacts
<1>3. QueueAt(b, k) \in Own(c)
  BY <1>2 DEF QueueOK, QueueAt
<1>. QED  BY <1>1, <1>3, OwnFacts DEF QueueOK

\* Nothing happens to a caller's buffer when its slots and cursors stay the same,
\* the requests in its queue stay live and away from the accelerator, and none of
\* its requests comes into being or joins the line.
LEMMA HolderApart ==
    ASSUME IInv, NEW c \in Holders, QueueOK(c), ClearedOK(c), CollectOK(c),
           buffer_id'[c] = buffer_id[c],
           batch_size'[c] = batch_size[c],
           j'[c] = j[c],
           Submitting(c)' <=> Submitting(c),
           buffer'[buffer_id[c]] = buffer[buffer_id[c]],
           \A r \in Request : QueuedFor(c, r) =>
               request_status'[r] = request_status[r] /\ (Flying(r)' => Flying(r)),
           \A r \in Own(c) : request_status'[r] # "FREED" => request_status[r] # "FREED",
           \A l \in DOMAIN Line' :
               Line'[l][1] = c => \E k \in DOMAIN Line : Line'[l] = Line[k]
    PROVE  QueueOK(c)' /\ ClearedOK(c)' /\ CollectOK(c)'
<1>. DEFINE b == buffer_id[c]
<1>1. /\ b' = b
      /\ \A k : QueueAt(b, k)' = QueueAt(b, k)
      /\ \A k : SlotAt(b, k)' = SlotAt(b, k)
  BY DEF QueueAt, SlotAt
<1>2. ASSUME NEW k \in 0 .. buffer[b].count - 1
      PROVE  /\ request_status'[QueueAt(b, k)] = "SUCCESS"
             /\ ~Flying(QueueAt(b, k))'
  <2>1. QueueAt(b, k) \in Request /\ QueuedFor(c, QueueAt(b, k))
    BY QueuedFacts DEF QueuedFor
  <2>2. /\ request_status'[QueueAt(b, k)] = "SUCCESS"
        /\ \A r \in Request : r = QueueAt(b, k) => ~Flying(r)'
    BY <2>1, QueuedFacts
  <2>. DEFINE q == QueueAt(b, k)
  <2>3. q' = q
    BY <1>1
  <2>4. \A r \in Request : r = q => ~Flying(r)'
    BY <2>2
  <2>5. ~Flying(q)'
    BY <2>1, <2>3, <2>4 DEF Flying
  <2>. QED  BY <2>2, <2>5
<1>3. QueueOK(c)'
  BY <1>1, <1>2 DEF QueueOK
<1>4. ClearedOK(c)'
  BY <1>1 DEF ClearedOK
<1>5. CollectOK(c)'
  <2>1. Limit(c)' = Limit(c) /\ Collected(c)' = Collected(c)
    BY DEF Limit, Collected
  <2>2. ASSUME NEW n \in Collected(c) .. Limit(c), Filled(c, n)
        PROVE  Filled(c, n)'
    BY <1>1, <2>1, <2>2 DEF Filled
  <2>. QED  BY <2>1, <2>2 DEF CollectOK
<1>. QED  BY <1>3, <1>4, <1>5

\* A caller goes on as before, but for being woken.
Kept(c) ==
    /\ buffer_id'[c] = buffer_id[c]
    /\ batch_size'[c] = batch_size[c]
    /\ j'[c] = j[c]
    /\ Submitting(c)' <=> Submitting(c)

HoldersKept == Holders' = Holders /\ \A c \in Holders : Kept(c)

\* The steps of threads that leave the buffers, the line and the states of the
\* requests alone.
LEMMA QuietPipeline ==
    ASSUME IInv, PipelineInv, HoldersKept,
           UNCHANGED <<buffer, free_buffer, request_status>>, Line' = Line,
           \A r \in Request : Flying(r)' <=> Flying(r)
    PROVE  FreeBufferClean' /\ HoldersOK' /\ StatusOK' /\ LineOK' /\ FoundOK'
<1>1. FreeBufferClean'
  BY DEF PipelineInv, FreeBufferClean
<1>2. HoldersOK'
  <2>. SUFFICES ASSUME NEW c \in Holders
                PROVE  QueueOK(c)' /\ ClearedOK(c)' /\ CollectOK(c)'
    BY DEF HoldersOK, HoldersKept
  <2>1. QueueOK(c) /\ ClearedOK(c) /\ CollectOK(c)
    BY DEF PipelineInv, HoldersOK
  <2>. QED  BY <2>1, HolderApart DEF HoldersKept, Kept
<1>3. \A c \in Holders : Limit(c)' = Limit(c)
  BY DEF HoldersKept, Kept, Limit
<1>4. StatusOK'
  BY <1>3 DEF PipelineInv, StatusOK, HoldersKept
<1>5. LineOK'
  <2>1. \A l \in DOMAIN Line : Line[l] \in Request
    BY DEF PipelineInv, LineOK
  <2>. QED  BY <2>1 DEF PipelineInv, LineOK
<1>6. FoundOK'
  <2>1. ASSUME NEW c \in Holders, NEW r \in Request, QueuedFor(c, r)
        PROVE  QueuedFor(c, r)'
    BY <2>1 DEF QueuedFor, QueueAt, HoldersKept, Kept
  <2>. QED  BY <2>1 DEF PipelineInv, FoundOK, HoldersKept
<1>. QED  BY <1>1, <1>2, <1>4, <1>5, <1>6

-----------------------------------------------------------------------------
(* The accelerator.                                                        *)

LEMMA LineHead ==
    ASSUME IInv, LineOK, Offload \/ OffloadFails
    PROVE  /\ Head(to_offload) = Line[1] /\ 1 \in DOMAIN Line /\ Line[1] \in Request
           /\ Len(Line) \in Nat \ {0} /\ DOMAIN Line = 1 .. Len(Line)
           /\ request_status[Line[1]] = "SUCCESS" /\ ~Flying(Line[1])
           /\ Line' = Tail(Line) /\ Line' \in Seq(Request)
           /\ DOMAIN Line' = 1 .. Len(Line) - 1
           /\ \A l \in 1 .. Len(Line) - 1 : Line'[l] = Line[l + 1]
<1>1. /\ Line # <<>> /\ Line \in Seq(Request)
      /\ Head(to_offload) = Line[1] /\ Line' = Tail(Line)
  BY LineAdvances DEF LineOK
<1>2. Len(Line) \in Nat \ {0} /\ DOMAIN Line = 1 .. Len(Line)
  BY <1>1, EmptySeq, LenProperties
<1>3. /\ Line' \in Seq(Request) /\ Len(Line') = Len(Line) - 1
      /\ \A l \in 1 .. Len(Line') : Line'[l] = Line[l + 1]
  BY <1>1, HeadTailProperties
<1>4. DOMAIN Line' = 1 .. Len(Line')
  BY <1>3, LenProperties
<1>5. 1 \in DOMAIN Line /\ Line[1] \in Request
  BY <1>1, <1>2, ElementOfSeq
<1>. QED  BY <1>1, <1>2, <1>3, <1>4, <1>5 DEF LineOK

\* Offload hands the first request of the line to the next instance.
LEMMA OffloadFlies ==
    ASSUME IInv, PipelineInv, Offload
    PROVE  /\ FlightOK'
           /\ \A r \in Request : Flying(r)' <=> (Flying(r) \/ r = Line[1])
<1>1. /\ device' = device \cup {<<next_instance, Line[1]>>}
      /\ callback' = callback /\ request_status' = request_status
      /\ next_instance \in Instance /\ Line[1] \in Request
      /\ request_status[Line[1]] = "SUCCESS" /\ ~Flying(Line[1])
  BY LineHead DEF PipelineInv, Offload, requestVars, IInv, TypeOK, RunnerTypeOK
<1>2. \A r \in Request, i \in Instance :
         <<i, r>> \in device' <=> (<<i, r>> \in device \/ (i = next_instance /\ r = Line[1]))
  BY <1>1
<1>3. \A r \in Request : Flying(r)' <=> (Flying(r) \/ r = Line[1])
  BY <1>1, <1>2 DEF Flying
<1>4. FlightOK'
  BY <1>1, <1>2, <1>3 DEF PipelineInv, FlightOK, Flying
<1>. QED  BY <1>3, <1>4

\* The callback takes over from the accelerator.
LEMMA RespondFlies ==
    ASSUME IInv, PipelineInv, NEW i \in Instance, Respond(i)
    PROVE  /\ FlightOK'
           /\ \A r \in Request : Flying(r)' <=> Flying(r)
<1>1. PICK q \in Request : /\ <<i, q>> \in device
                           /\ device' = device \ {<<i, q>>}
                           /\ callback' = [callback EXCEPT ![i] = q]
  BY DEF Respond
<1>2. callback[i] = NULL /\ request_status' = request_status
  BY DEF Respond, requestVars
<1>3. callback'[i] = q /\ \A h \in Instance : h # i => callback'[h] = callback[h]
  BY <1>1 DEF IInv, TypeOK, DeviceTypeOK
<1>4. \A r \in Request, h \in Instance :
         <<h, r>> \in device' <=> (<<h, r>> \in device /\ ~(h = i /\ r = q))
  BY <1>1
<1>5. \A h \in Instance : callback[h] # q /\ (<<h, q>> \in device => h = i)
  BY <1>1 DEF PipelineInv, FlightOK
<1>6. \A r \in Request : Flying(r)' <=> Flying(r)
  BY <1>1, <1>2, <1>3, <1>4, NullAssumption DEF Flying
<1>7. FlightOK'
  <2>1. \A r \in Request : Flying(r)' => request_status'[r] = "SUCCESS"
    BY <1>2, <1>6 DEF PipelineInv, FlightOK
  <2>2. ASSUME NEW r \in Request, NEW h \in Instance, <<h, r>> \in device',
               NEW k \in Instance
        PROVE  callback'[k] # r /\ (<<k, r>> \in device' => k = h)
    <3>1. <<h, r>> \in device
      BY <1>4, <2>2
    <3>2. callback[k] # r /\ (<<k, r>> \in device => k = h)
      BY <2>2, <3>1 DEF PipelineInv, FlightOK
    <3>3. r # q
      BY <1>4, <1>5, <2>2
    <3>. QED  BY <1>3, <1>4, <2>2, <3>2, <3>3
  <2>3. ASSUME NEW h \in Instance, NEW k \in Instance,
               callback'[h] # NULL, callback'[h] = callback'[k]
        PROVE  h = k
    <3>1. \A m \in Instance : m # i => callback'[m] # q
      BY <1>3, <1>5
    <3>2. h = i <=> k = i
      BY <1>3, <2>3, <3>1
    <3>. QED  BY <1>3, <2>3, <3>2 DEF PipelineInv, FlightOK
  <2>. QED  BY <2>1, <2>2, <2>3 DEF FlightOK
<1>. QED  BY <1>6, <1>7

\* The end of the callback is the last that the threads see of a request.
LEMMA CompleteFlies ==
    ASSUME IInv, PipelineInv, NEW i \in Instance, Complete(i)
    PROVE  /\ callback[i] \in Request /\ Flying(callback[i])
           /\ request_status[callback[i]] = "SUCCESS"
           /\ \/ request_status' = [request_status EXCEPT ![callback[i]] = "READY"]
              \/ "response" \in Faults /\ request_status' = request_status
           /\ FlightOK'
           /\ \A r \in Request : Flying(r)' <=> (Flying(r) /\ r # callback[i])
<1>. DEFINE q == callback[i]
<1>1. /\ q \in Request /\ device' = device
      /\ callback' = [callback EXCEPT ![i] = NULL]
  BY DEF Complete, IInv, TypeOK, DeviceTypeOK, Pointer
<1>2. \/ request_status' = [request_status EXCEPT ![q] = "READY"]
      \/ "response" \in Faults /\ request_status' = request_status
  BY DEF Complete, requestVars
<1>3. Flying(q) /\ request_status[q] = "SUCCESS"
  BY <1>1 DEF Flying, PipelineInv, FlightOK
<1>4. callback'[i] = NULL /\ \A h \in Instance : h # i => callback'[h] = callback[h]
  BY <1>1 DEF IInv, TypeOK, DeviceTypeOK
<1>5. /\ \A h \in Instance : <<h, q>> \notin device
      /\ \A h \in Instance : callback[h] = q => h = i
  BY <1>1, NullAssumption DEF PipelineInv, FlightOK
<1>6. \A r \in Request : Flying(r)' <=> (Flying(r) /\ r # q)
  BY <1>1, <1>4, <1>5, NullAssumption DEF Flying
<1>7. FlightOK'
  <2>1. \A r \in Request : Flying(r)' => request_status'[r] = "SUCCESS"
    BY <1>1, <1>2, <1>6 DEF PipelineInv, FlightOK, IInv, TypeOK
  <2>2. ASSUME NEW r \in Request, NEW h \in Instance, <<h, r>> \in device',
               NEW k \in Instance
        PROVE  callback'[k] # r /\ (<<k, r>> \in device' => k = h)
    <3>1. callback[k] # r /\ (<<k, r>> \in device => k = h)
      BY <1>1, <2>2 DEF PipelineInv, FlightOK
    <3>. QED  BY <1>1, <1>4, <3>1, NullAssumption
  <2>3. ASSUME NEW h \in Instance, NEW k \in Instance,
               callback'[h] # NULL, callback'[h] = callback'[k]
        PROVE  h = k
    <3>1. callback[h] # NULL /\ callback[h] = callback[k]
      BY <1>4, <2>3
    <3>. QED  BY <2>3, <3>1 DEF PipelineInv, FlightOK
  <2>. QED  BY <2>1, <2>2, <2>3 DEF FlightOK
<1>. QED  BY <1>1, <1>2, <1>3, <1>6, <1>7

\* Every other step leaves the accelerator alone, and does not touch the state of
\* a request it has.
LEMMA OthersFly ==
    ASSUME IInv, PipelineInv, UNCHANGED <<device, callback>>,
           \A r \in Request : request_status[r] = "SUCCESS" /\ Flying(r)
                                 => request_status'[r] = "SUCCESS"
    PROVE  /\ FlightOK'
           /\ \A r \in Request : Flying(r)' <=> Flying(r)
BY DEF PipelineInv, FlightOK, Flying

-----------------------------------------------------------------------------
(* The steps that move no request in or out of a buffer or of the line.    *)

LEMMA WakingKeeps ==
    ASSUME ClientTypeOK, UNCHANGED <<buffer_id, batch_size, j>>,
           \/ \E W \in SUBSET At("submit_wait") : pc' \in Signal(pc, W, "submit")
           \/ \E W \in SUBSET At("release_wait") : pc' \in Signal(pc, W, "release")
    PROVE  HoldersKept
<1>1. CASE \E W \in SUBSET At("submit_wait") : pc' \in Signal(pc, W, "submit")
  <2>1. pc' = pc \/ \E w \in At("submit_wait") : pc' = [pc EXCEPT ![w] = "submit"]
    BY <1>1, SignalWakesOne
  <2>. QED  BY <2>1 DEF HoldersKept, Kept, Holders, Submitting, At, ClientTypeOK
<1>2. CASE \E W \in SUBSET At("release_wait") : pc' \in Signal(pc, W, "release")
  <2>1. pc' = pc \/ \E w \in At("release_wait") : pc' = [pc EXCEPT ![w] = "release"]
    BY <1>2, SignalWakesOne
  <2>. QED  BY <2>1 DEF HoldersKept, Kept, Holders, Submitting, At, ClientTypeOK
<1>. QED  BY <1>1, <1>2

LEMMA ClientQuiet ==
    ASSUME ClientTypeOK, NEW c \in Clients,
           \/ Call(c) \/ AcquireWaits(c) \/ SubmitWaits(c)
           \/ ReleaseWaits(c) \/ SpuriousClient(c)
    PROVE  HoldersKept
<1>. USE DEF HoldersKept, Kept, Holders, Submitting, ClientTypeOK
<1>1. CASE Call(c)
  BY <1>1 DEF Call
<1>2. CASE AcquireWaits(c)
  BY <1>2 DEF AcquireWaits
<1>3. CASE SubmitWaits(c)
  BY <1>3 DEF SubmitWaits
<1>4. CASE ReleaseWaits(c)
  BY <1>4 DEF ReleaseWaits
<1>5. CASE SpuriousClient(c)
  BY <1>5 DEF SpuriousClient
<1>. QED  BY <1>1, <1>2, <1>3, <1>4, <1>5

LEMMA SameClients ==
    ASSUME UNCHANGED clientVars
    PROVE  HoldersKept
BY DEF HoldersKept, Kept, Holders, Submitting, clientVars

LEMMA QuietSteps ==
    ASSUME IInv, PipelineInv,
           \/ UNCHANGED vars
           \/ \E c \in Clients : \/ Call(c) \/ AcquireWaits(c) \/ SubmitWaits(c)
                                 \/ ReleaseWaits(c) \/ SpuriousClient(c)
           \/ Pull \/ Scan \/ ForwardWaits \/ Forward \/ Throttle \/ ReadWaits
           \/ Read \/ CountRequest \/ OffloadRetry \/ SpuriousThread
           \/ \E i \in Instance : Respond(i)
    PROVE  FreeBufferClean' /\ HoldersOK' /\ StatusOK' /\ LineOK' /\ FlightOK' /\ FoundOK'
<1>. DEFINE quiet == UNCHANGED <<buffer, free_buffer, request_status>>
            apart == UNCHANGED <<device, callback>>
<1>1. CASE UNCHANGED vars
  <2>1. HoldersKept
    BY <1>1, SameClients DEF vars
  <2>2. Line' = Line
    BY <1>1, LineApart DEF vars, schedVars
  <2>3. quiet /\ apart
    BY <1>1 DEF vars, reservationVars, deviceVars, requestVars
  <2>. QED  BY <2>1, <2>2, <2>3, OthersFly, QuietPipeline
<1>2. ASSUME NEW c \in Clients,
             Call(c) \/ AcquireWaits(c) \/ SubmitWaits(c) \/ ReleaseWaits(c) \/ SpuriousClient(c)
      PROVE  FreeBufferClean' /\ HoldersOK' /\ StatusOK' /\ LineOK' /\ FlightOK' /\ FoundOK'
  <2>1. HoldersKept
    BY <1>2, ClientQuiet DEF IInv, TypeOK
  <2>2. UNCHANGED <<schedVars, runnerVars, he_qat_buffer>> /\ quiet /\ apart
    BY <1>2 DEF Call, AcquireWaits, SubmitWaits, ReleaseWaits, SpuriousClient,
         reservationVars, deviceVars, requestVars
  <2>3. Line' = Line
    BY <2>2, LineApart DEF schedVars
  <2>. QED  BY <2>1, <2>2, <2>3, OthersFly, QuietPipeline
<1>3. CASE Pull \/ Scan \/ ForwardWaits \/ Forward \/ Throttle \/ ReadWaits
           \/ Read \/ CountRequest \/ OffloadRetry \/ SpuriousThread
  <2>1. UNCHANGED clientVars /\ quiet /\ apart
    BY <1>3 DEF Pull, Scan, ForwardWaits, Forward, Throttle, ReadWaits, Read, CountRequest,
         OffloadRetry, SpuriousThread, reservationVars, deviceVars, requestVars
  <2>2. HoldersKept
    BY <2>1, SameClients
  <2>3. Line' = Line
    BY <1>3, LineKept DEF PipelineInv
  <2>. QED  BY <2>1, <2>2, <2>3, OthersFly, QuietPipeline
<1>4. ASSUME NEW i \in Instance, Respond(i)
      PROVE  FreeBufferClean' /\ HoldersOK' /\ StatusOK' /\ LineOK' /\ FlightOK' /\ FoundOK'
  <2>1. UNCHANGED <<clientVars, schedVars, runnerVars, he_qat_buffer>> /\ quiet
    BY <1>4 DEF Respond, reservationVars, requestVars
  <2>2. HoldersKept /\ Line' = Line
    BY <2>1, SameClients, LineApart DEF schedVars
  <2>3. FlightOK' /\ \A r \in Request : Flying(r)' <=> Flying(r)
    BY <1>4, RespondFlies
  <2>. QED  BY <2>1, <2>2, <2>3, QuietPipeline
<1>. QED  BY <1>1, <1>2, <1>3, <1>4

-----------------------------------------------------------------------------
(* The steps of the accelerator.                                           *)

\* One request, in no buffer's queue, moves on; the callers notice nothing.
LEMMA BuffersApart ==
    ASSUME IInv, PipelineInv, HoldersKept, UNCHANGED <<buffer, free_buffer>>,
           NEW q \in Request, request_status[q] = "SUCCESS",
           \/ request_status' = request_status
           \/ request_status' = [request_status EXCEPT ![q] = "READY"]
           \/ request_status' = [request_status EXCEPT ![q] = "FAIL"],
           \A c \in Holders : ~QueuedFor(c, q),
           \A r \in Request : r # q => (Flying(r)' => Flying(r)),
           \A l \in DOMAIN Line' : \E k \in DOMAIN Line : Line'[l] = Line[k]
    PROVE  /\ FreeBufferClean' /\ HoldersOK' /\ StatusOK'
           /\ \A r \in Request : r # q => request_status'[r] = request_status[r]
           /\ \A c \in Holders, r \in Request : QueuedFor(c, r) => QueuedFor(c, r)'
<1>1. FreeBufferClean'
  BY DEF PipelineInv, FreeBufferClean
<1>2. /\ \A r \in Request : r # q => request_status'[r] = request_status[r]
      /\ \A r \in Request : request_status'[r] # "FREED" => request_status[r] # "FREED"
  BY DEF IInv, TypeOK
<1>3. HoldersOK'
  <2>. SUFFICES ASSUME NEW c \in Holders
                PROVE  QueueOK(c)' /\ ClearedOK(c)' /\ CollectOK(c)'
    BY DEF HoldersOK, HoldersKept
  <2>1. QueueOK(c) /\ ClearedOK(c) /\ CollectOK(c)
    BY DEF PipelineInv, HoldersOK
  <2>2. \A r \in Request : QueuedFor(c, r) =>
           request_status'[r] = request_status[r] /\ (Flying(r)' => Flying(r))
    BY <1>2
  <2>3. \A r \in Own(c) : request_status'[r] # "FREED" => request_status[r] # "FREED"
    BY <1>2, HolderFacts, OwnFacts
  <2>. QED  BY <2>1, <2>2, <2>3, HolderApart DEF HoldersKept, Kept
<1>4. StatusOK'
  <2>1. \A c \in Holders : Limit(c)' = Limit(c)
    BY DEF HoldersKept, Kept, Limit
  <2>. QED  BY <1>2, <2>1 DEF PipelineInv, StatusOK, HoldersKept
<1>5. \A c \in Holders, r \in Request : QueuedFor(c, r) => QueuedFor(c, r)'
  BY DEF QueuedFor, QueueAt, HoldersKept, Kept
<1>. QED  BY <1>1, <1>2, <1>3, <1>4, <1>5

\* The head of the line is in no queue: those behind it are.
LEMMA HeadNotQueued ==
    ASSUME IInv, PipelineInv, NEW l \in DOMAIN Line, NEW c \in Holders
    PROVE  ~QueuedFor(c, Line[l])
<1>. SUFFICES ASSUME NEW k \in 0 .. buffer[buffer_id[c]].count - 1,
                     QueueAt(buffer_id[c], k) = Line[l]
              PROVE  FALSE
  BY DEF QueuedFor
<1>1. QueueOK(c)
  BY DEF PipelineInv, HoldersOK
<1>2. c \in Clients /\ QueueAt(buffer_id[c], k) \in Own(c)
  BY <1>1, HolderFacts, QueuedFacts
<1>3. Line[l][1] = c /\ Line[l][2] \in Nat
  BY <1>2, OwnFacts
<1>4. Line[l][2] < Line[l][2]
  BY <1>1, <1>3 DEF QueueOK
<1>. QED  BY <1>3, <1>4

LEMMA CompleteStep ==
    ASSUME IInv, PipelineInv, NEW i \in Instance, Complete(i)
    PROVE  FreeBufferClean' /\ HoldersOK' /\ StatusOK' /\ LineOK' /\ FlightOK' /\ FoundOK'
<1>. DEFINE q == callback[i]
<1>1. /\ q \in Request /\ Flying(q) /\ request_status[q] = "SUCCESS"
      /\ \/ request_status' = [request_status EXCEPT ![q] = "READY"]
         \/ "response" \in Faults /\ request_status' = request_status
      /\ FlightOK'
      /\ \A r \in Request : Flying(r)' <=> (Flying(r) /\ r # q)
  BY CompleteFlies
<1>2. HoldersKept
  <2>1. \E W \in SUBSET At("release_wait") : pc' \in Signal(pc, W, "release")
    BY DEF Complete
  <2>. QED  BY <2>1, WakingKeeps DEF Complete, IInv, TypeOK
<1>3. Line' = Line /\ UNCHANGED <<buffer, free_buffer>>
  BY LineApart DEF Complete, schedVars, reservationVars
<1>. HIDE DEF q
<1>4. \A c \in Holders : ~QueuedFor(c, q)
  BY <1>1, QueuedFacts DEF QueuedFor, PipelineInv, HoldersOK
<1>5. /\ FreeBufferClean' /\ HoldersOK' /\ StatusOK'
      /\ \A r \in Request : r # q => request_status'[r] = request_status[r]
      /\ \A c \in Holders, r \in Request : QueuedFor(c, r) => QueuedFor(c, r)'
  BY <1>1, <1>2, <1>3, <1>4, BuffersApart
<1>6. LineOK'
  <2>1. ASSUME NEW l \in DOMAIN Line
        PROVE  Line[l] \in Request /\ Line[l] # q /\ ~Flying(Line[l])
    BY <1>1 DEF PipelineInv, LineOK
  <2>2. ASSUME NEW l \in DOMAIN Line'
        PROVE  request_status'[Line'[l]] = "SUCCESS" /\ ~Flying(Line[l])'
    <3>1. request_status'[Line[l]] = "SUCCESS"
      BY <1>3, <1>5, <2>1 DEF PipelineInv, LineOK
    <3>. DEFINE p == Line[l]
    <3>2. \A r \in Request : r = p => ~Flying(r)'
      BY <1>1, <1>3, <2>1
    <3>3. p' = p /\ p \in Request
      BY <1>3, <2>1
    <3>4. ~Flying(p)'
      BY <3>2, <3>3 DEF Flying
    <3>. QED  BY <1>3, <3>1, <3>4
  <2>. QED  BY <1>3, <2>2 DEF PipelineInv, LineOK
<1>7. FoundOK'
  <2>. SUFFICES ASSUME "response" \notin Faults,
                       NEW r \in Request, request_status'[r] = "SUCCESS"
                PROVE  \/ Flying(r)'
                       \/ \E l \in DOMAIN Line' : Line'[l] = r
                       \/ \E c \in Holders' : QueuedFor(c, r)'
    BY DEF FoundOK
  <2>1. r # q /\ request_status[r] = "SUCCESS"
    BY <1>1, <1>5 DEF IInv, TypeOK
  <2>2. \/ Flying(r)
        \/ \E l \in DOMAIN Line : Line[l] = r
        \/ \E c \in Holders : QueuedFor(c, r)
    BY <2>1 DEF PipelineInv, FoundOK
  <2>. QED  BY <1>1, <1>2, <1>3, <1>5, <2>1, <2>2 DEF HoldersKept
<1>. QED  BY <1>1, <1>5, <1>6, <1>7

LEMMA OffloadStep ==
    ASSUME IInv, PipelineInv, Offload \/ OffloadFails
    PROVE  FreeBufferClean' /\ HoldersOK' /\ StatusOK' /\ LineOK' /\ FlightOK' /\ FoundOK'
<1>. DEFINE q == Line[1]
<1>1. /\ Head(to_offload) = q /\ 1 \in DOMAIN Line /\ q \in Request
      /\ Len(Line) \in Nat \ {0} /\ DOMAIN Line = 1 .. Len(Line)
      /\ request_status[q] = "SUCCESS" /\ ~Flying(q)
      /\ Line' \in Seq(Request)
      /\ DOMAIN Line' = 1 .. Len(Line) - 1
      /\ \A l \in 1 .. Len(Line) - 1 : Line'[l] = Line[l + 1]
  BY LineHead DEF PipelineInv
<1>2. HoldersKept /\ UNCHANGED <<buffer, free_buffer>>
  BY SameClients DEF Offload, OffloadFails, reservationVars
<1>3. /\ FlightOK'
      /\ \A r \in Request : r # q => (Flying(r)' <=> Flying(r))
      /\ \/ (\A r \in Request : r = q => Flying(r)') /\ request_status' = request_status
         \/ request_status' = [request_status EXCEPT ![q] = "FAIL"]
  <2>1. CASE Offload
    <3>1. FlightOK' /\ \A r \in Request : Flying(r)' <=> (Flying(r) \/ r = q)
      BY <2>1, OffloadFlies
    <3>. QED  BY <2>1, <3>1 DEF Offload, requestVars
  <2>2. CASE OffloadFails
    <3>1. request_status' = [request_status EXCEPT ![q] = "FAIL"] /\ UNCHANGED <<device, callback>>
      BY <1>1, <2>2 DEF OffloadFails, deviceVars
    <3>2. \A r \in Request : request_status[r] = "SUCCESS" /\ Flying(r)
                                => request_status'[r] = "SUCCESS"
      BY <1>1, <3>1 DEF IInv, TypeOK
    <3>. QED  BY <3>1, <3>2, OthersFly
  <2>. QED  BY <2>1, <2>2
<1>4. \A l \in DOMAIN Line' : l + 1 \in DOMAIN Line /\ Line'[l] = Line[l + 1] /\ Line[l + 1] # q
  <2>1. ASSUME NEW l \in DOMAIN Line'
        PROVE  l + 1 \in DOMAIN Line /\ Line'[l] = Line[l + 1] /\ 1 < l + 1
    BY <1>1
  <2>2. ASSUME NEW k \in DOMAIN Line, 1 < k, Line[k] = Line[1]
        PROVE  FALSE
    <3>1. Line[1][2] < Line[k][2]
      BY <1>1, <2>2 DEF PipelineInv, LineOK
    <3>2. Line[1][2] \in Nat
      BY <1>1, RequestFacts
    <3>. QED  BY <2>2, <3>1, <3>2
  <2>. QED  BY <2>1, <2>2
<1>. HIDE DEF q
<1>5. \A c \in Holders : ~QueuedFor(c, q)
  BY <1>1, HeadNotQueued DEF q
<1>6. /\ FreeBufferClean' /\ HoldersOK' /\ StatusOK'
      /\ \A r \in Request : r # q => request_status'[r] = request_status[r]
      /\ \A c \in Holders, r \in Request : QueuedFor(c, r) => QueuedFor(c, r)'
  BY <1>1, <1>2, <1>3, <1>4, <1>5, BuffersApart
<1>7. LineOK'
  <2>1. ASSUME NEW l \in DOMAIN Line'
        PROVE  request_status'[Line'[l]] = "SUCCESS" /\ ~Flying(Line[l])'
    <3>1. /\ l + 1 \in DOMAIN Line /\ Line'[l] = Line[l + 1] /\ Line[l + 1] # q
          /\ Line[l + 1] \in Request /\ request_status[Line[l + 1]] = "SUCCESS"
          /\ ~Flying(Line[l + 1])
      BY <1>4 DEF PipelineInv, LineOK
    <3>2. request_status'[Line'[l]] = "SUCCESS"
      BY <1>6, <3>1
    <3>. DEFINE p == Line[l]
    <3>3. \A r \in Request : r = p' => ~Flying(r)'
      BY <1>3, <3>1
    <3>4. ~Flying(p)'
      BY <3>1, <3>3 DEF Flying
    <3>. QED  BY <3>2, <3>4
  <2>2. ASSUME NEW k \in DOMAIN Line', NEW l \in DOMAIN Line', k < l, Line'[k][1] = Line'[l][1]
        PROVE  Line'[k][2] < Line'[l][2]
    <3>1. k + 1 < l + 1
      BY <1>1, <2>2
    <3>. QED  BY <1>4, <2>2, <3>1 DEF PipelineInv, LineOK
  <2>. QED  BY <1>1, <2>1, <2>2 DEF LineOK
<1>8. FoundOK'
  <2>. SUFFICES ASSUME "response" \notin Faults,
                       NEW r \in Request, request_status'[r] = "SUCCESS"
                PROVE  \/ Flying(r)'
                       \/ \E l \in DOMAIN Line' : Line'[l] = r
                       \/ \E c \in Holders' : QueuedFor(c, r)'
    BY DEF FoundOK
  <2>1. CASE r = q
    <3>1. request_status' # [request_status EXCEPT ![q] = "FAIL"]
      BY <1>1, <2>1 DEF IInv, TypeOK
    <3>. QED  BY <1>1, <1>3, <2>1, <3>1
  <2>2. CASE r # q
    <3>1. \/ Flying(r)
          \/ \E l \in DOMAIN Line : Line[l] = r
          \/ \E c \in Holders : QueuedFor(c, r)
      BY <1>6, <2>2 DEF PipelineInv, FoundOK
    <3>2. ASSUME NEW l \in DOMAIN Line, Line[l] = r
          PROVE  l - 1 \in DOMAIN Line' /\ Line'[l - 1] = r
      BY <1>1, <2>2, <3>2 DEF q
    <3>. QED  BY <1>2, <1>3, <1>6, <2>2, <3>1, <3>2 DEF HoldersKept
  <2>. QED  BY <2>1, <2>2
<1>. QED  BY <1>3, <1>6, <1>7, <1>8

-----------------------------------------------------------------------------
(* The scheduler takes what an outstanding buffer has.                     *)

LEMMA ExtractFacts ==
    ASSUME IInv, PipelineInv, Extract
    PROVE  LET n == buffer[index].count
           IN  /\ n \in 1 .. BufferSize
               /\ \E d \in Holders : buffer_id[d] = index
               /\ index \in Buffer /\ ~free_buffer[index]
               /\ sched = "extract" /\ sched' = "forward"
               /\ buffer' = [buffer EXCEPT ![index].count = 0,
                                           ![index].next_data_slot = Advance(@, n)]
               /\ HoldersKept
               /\ UNCHANGED <<device, callback, request_status, free_buffer, runner, to_offload>>
<1>. DEFINE n == buffer[index].count
<1>1. sched = "extract" /\ ready_buffer[index] /\ n > 0
  BY DEF Extract, PipelineInv, ChosenBufferHasData
<1>2. index \in Buffer /\ buffer[index] \in RequestBuffer
  BY DEF IInv, TypeOK, SchedulerTypeOK
<1>3. n \in 1 .. BufferSize /\ Smaller(n, BufferSize) = n /\ n - n = 0 /\ ~(n <= 0)
  BY <1>1, <1>2, OffloadAssumption DEF RequestBuffer, Smaller
<1>4. ~free_buffer[index] /\ \E d \in Holders : buffer_id[d] = index
  BY <1>1, <1>2 DEF IInv, BufferExclusive
<1>5. /\ buffer' = [buffer EXCEPT ![index].count = @ - n,
                                  ![index].next_data_slot = Advance(@, n)]
      /\ pc' \in Signal(pc, {c \in At("submit_wait") : buffer_id[c] = index}, "submit")
      /\ sched' = "forward"
  BY <1>3 DEF Extract
<1>6. HoldersKept
  <2>1. \E W \in SUBSET At("submit_wait") : pc' \in Signal(pc, W, "submit")
    BY <1>5
  <2>. QED  BY <2>1, WakingKeeps DEF Extract, IInv, TypeOK
<1>7. buffer' = [buffer EXCEPT ![index].count = 0, ![index].next_data_slot = Advance(@, n)]
  BY <1>3, <1>5
<1>8. UNCHANGED <<device, callback, request_status, free_buffer, runner, to_offload>>
  BY DEF Extract, deviceVars, requestVars, reservationVars, runnerVars
<1>. QED  BY <1>1, <1>2, <1>3, <1>4, <1>5, <1>6, <1>7, <1>8

\* What becomes of the buffer, and of its caller.
LEMMA ExtractHolder ==
    ASSUME IInv, PipelineInv, Extract, NEW d \in Holders, buffer_id[d] = index
    PROVE  QueueOK(d)' /\ ClearedOK(d)' /\ CollectOK(d)'
<1>. DEFINE n == buffer[index].count
<1>1. /\ n \in 1 .. BufferSize /\ HoldersKept /\ index \in Buffer
      /\ buffer' = [buffer EXCEPT ![index].count = 0,
                                  ![index].next_data_slot = Advance(@, n)]
      /\ request_status' = request_status
  BY ExtractFacts
<1>2. /\ buffer[index] \in RequestBuffer /\ buffer \in [Buffer -> RequestBuffer]
      /\ buffer[index].next_data_slot \in Slot /\ buffer[index].next_data_out \in Slot
      /\ Limit(d) \in Nat /\ Collected(d) \in Nat /\ Limit(d) <= batch_size[d]
      /\ batch_size[d] \in Nat
  BY HolderFacts DEF IInv, TypeOK
<1>3. /\ QueueOK(d) /\ ClearedOK(d) /\ CollectOK(d)
      /\ buffer_id'[d] = index /\ batch_size'[d] = batch_size[d] /\ j'[d] = j[d]
      /\ Submitting(d)' <=> Submitting(d)
  BY <1>1 DEF PipelineInv, HoldersOK, HoldersKept, Kept
<1>4. /\ buffer'[index].count = 0
      /\ buffer'[index].next_data_slot = Advance(buffer[index].next_data_slot, n)
      /\ buffer'[index].data = buffer[index].data
      /\ buffer'[index].next_free_slot = buffer[index].next_free_slot
      /\ buffer'[index].next_data_out = buffer[index].next_data_out
  BY <1>1, <1>2 DEF RequestBuffer
<1>. HIDE DEF n
<1>5. QueueOK(d)'
  <2>1. Advance(buffer[index].next_data_slot, n) \in Slot
    BY <1>1, <1>2, AdvanceFacts
  <2>2. buffer'[index].next_free_slot = Advance(buffer'[index].next_data_slot, 0)
    BY <1>3, <1>4, <2>1, AdvanceFacts DEF QueueOK, n
  <2>3. 0 .. buffer'[index].count - 1 = {}
    BY <1>4
  <2>. QED  BY <1>3, <1>4, <2>2, <2>3 DEF QueueOK
<1>6. \A k : SlotAt(buffer_id[d], k)' = SlotAt(buffer_id[d], k)
  BY <1>3, <1>4 DEF SlotAt
<1>7. ClearedOK(d)'
  BY <1>3, <1>6 DEF ClearedOK
<1>8. CollectOK(d)'
  <2>1. Limit(d)' = Limit(d) /\ Collected(d)' = Collected(d)
    BY <1>3 DEF Limit, Collected
  <2>. SUFFICES ASSUME batch_size[d] <= BufferSize,
                       NEW m \in Collected(d) .. Limit(d), Filled(d, m)
                PROVE  Filled(d, m)'
    BY <1>3, <2>1 DEF CollectOK
  <2>2. /\ n <= m - Collected(d) /\ m \in Nat /\ m <= BufferSize
        /\ buffer[index].next_data_slot = Advance(buffer[index].next_data_out, m - n)
    BY <1>2, OffloadAssumption DEF Filled, n
  <2>3. m - n \in Nat /\ n \in Nat /\ (m - n) + n = m
    BY <1>1, <1>2, <2>2
  <2>4. buffer'[index].next_data_slot = Advance(buffer[index].next_data_out, m)
    BY <1>2, <1>4, <2>2, <2>3, AdvanceTwice
  <2>5. m - 0 = m /\ 0 <= m - Collected(d)
    BY <1>2, <2>2
  <2>. QED  BY <1>1, <1>3, <1>4, <1>6, <2>1, <2>4, <2>5 DEF Filled
<1>. QED  BY <1>5, <1>7, <1>8

LEMMA ExtractStep ==
    ASSUME IInv, PipelineInv, Extract
    PROVE  FreeBufferClean' /\ HoldersOK' /\ StatusOK' /\ LineOK' /\ FlightOK' /\ FoundOK'
<1>. DEFINE n == buffer[index].count
            m == Len(Line)
<1>1. PICK d \in Holders : buffer_id[d] = index
  BY ExtractFacts
<1>2. /\ n \in 1 .. BufferSize /\ HoldersKept /\ index \in Buffer /\ ~free_buffer[index]
      /\ buffer' = [buffer EXCEPT ![index].count = 0,
                                  ![index].next_data_slot = Advance(@, n)]
      /\ UNCHANGED <<device, callback, request_status, free_buffer>>
  BY ExtractFacts
<1>3. /\ Line' \in Seq(Pointer) /\ m \in Nat /\ Len(Line') = m + n
      /\ \A l \in 1 .. m : Line'[l] = Line[l]
      /\ \A k \in 0 .. n - 1 : Line'[m + k + 1] = QueueAt(index, k)
  BY <1>2, LineGrows DEF PipelineInv
<1>4. QueueOK(d) /\ d \in Clients
  BY HolderFacts DEF PipelineInv, HoldersOK
<1>5. \A k \in 0 .. n - 1 : /\ QueueAt(index, k) \in Own(d)
                            /\ QueueAt(index, k) \in Request
                            /\ request_status[QueueAt(index, k)] = "SUCCESS"
                            /\ ~Flying(QueueAt(index, k))
  BY <1>1, <1>4, QueuedFacts
<1>6. Line \in Seq(Request) /\ DOMAIN Line = 1 .. m /\ DOMAIN Line' = 1 .. m + n
  BY <1>3, LenProperties DEF PipelineInv, LineOK
<1>7. \A b \in Buffer : b # index => buffer'[b] = buffer[b]
  BY <1>2 DEF IInv, TypeOK
<1>8. FreeBufferClean'
  <2>1. \A b \in Buffer : free_buffer'[b] => free_buffer[b] /\ buffer'[b] = buffer[b]
    BY <1>2, <1>7
  <2>2. FreeBufferClean
    BY DEF PipelineInv
  <2>. QED  BY <2>1, <2>2 DEF FreeBufferClean
<1>9. FlightOK' /\ \A r \in Request : Flying(r)' <=> Flying(r)
  BY <1>2, OthersFly
<1>. HIDE DEF n, m
\* The new elements of the line are those from m + 1 on.
<1>10. ASSUME NEW l \in DOMAIN Line', ~(l \in DOMAIN Line)
       PROVE  \E k \in 0 .. n - 1 : l = m + k + 1 /\ Line'[l] = QueueAt(index, k)
  <2>1. n \in Nat /\ m \in Nat /\ l \in 1 .. m + n /\ ~(l \in 1 .. m)
    BY <1>2, <1>3, <1>6, <1>10, OffloadAssumption DEF n
  <2>2. l - m - 1 \in 0 .. n - 1 /\ l = m + (l - m - 1) + 1
    BY <2>1
  <2>. QED  BY <1>3, <2>2
<1>11. HoldersOK'
  <2>. SUFFICES ASSUME NEW c \in Holders
                PROVE  QueueOK(c)' /\ ClearedOK(c)' /\ CollectOK(c)'
    BY <1>2 DEF HoldersOK, HoldersKept
  <2>1. CASE c = d
    BY <1>1, <2>1, ExtractHolder
  <2>2. CASE c # d
    <3>1. QueueOK(c) /\ ClearedOK(c) /\ CollectOK(c)
      BY DEF PipelineInv, HoldersOK
    <3>2. buffer'[buffer_id[c]] = buffer[buffer_id[c]]
      BY <1>1, <1>7, <2>2 DEF IInv, BufferExclusive
    <3>3. ASSUME NEW l \in DOMAIN Line', Line'[l][1] = c
          PROVE  \E k \in DOMAIN Line : Line'[l] = Line[k]
      <4>1. l \in DOMAIN Line
        BY <1>4, <1>5, <1>10, <2>2, <3>3, OwnFacts
      <4>. QED  BY <1>3, <1>6, <4>1
    <3>. QED  BY <1>2, <1>9, <3>1, <3>2, <3>3, HolderApart DEF HoldersKept, Kept
  <2>. QED  BY <2>1, <2>2
<1>12. StatusOK'
  <2>1. \A c \in Holders : Limit(c)' = Limit(c)
    BY <1>2 DEF HoldersKept, Kept, Limit
  <2>. QED  BY <1>2, <2>1 DEF PipelineInv, StatusOK, HoldersKept
<1>13. LineOK'
  <2>1. ASSUME NEW l \in DOMAIN Line'
        PROVE  /\ Line'[l] \in Request
               /\ request_status'[Line'[l]] = "SUCCESS"
               /\ \A r \in Request : r = Line'[l] => ~Flying(r)'
    <3>1. CASE l \in DOMAIN Line
      BY <1>2, <1>3, <1>6, <1>9, <3>1 DEF PipelineInv, LineOK
    <3>2. CASE ~(l \in DOMAIN Line)
      BY <1>2, <1>5, <1>9, <1>10, <3>2
    <3>. QED  BY <3>1, <3>2
  <2>2. Line' \in Seq(Request)
    <3>1. Line' \in [1 .. m + n -> Request]
      BY <1>3, <1>6, <2>1, LenProperties
    <3>. QED  BY <1>2, <1>3, <3>1, SeqDef DEF n
  <2>3. ASSUME NEW l \in DOMAIN Line'
        PROVE  ~Flying(Line[l])'
    BY <2>1 DEF Flying
  <2>4. ASSUME NEW k \in DOMAIN Line', NEW l \in DOMAIN Line', k < l, Line'[k][1] = Line'[l][1]
        PROVE  Line'[k][2] < Line'[l][2]
    <3>1. CASE k \in DOMAIN Line /\ l \in DOMAIN Line
      BY <1>3, <1>6, <2>4, <3>1 DEF PipelineInv, LineOK
    <3>2. CASE k \in DOMAIN Line /\ ~(l \in DOMAIN Line)
      <4>1. PICK x \in 0 .. n - 1 : Line'[l] = QueueAt(index, x)
        BY <1>10, <3>2
      <4>2. Line'[l][1] = d
        BY <1>4, <1>5, <4>1, OwnFacts
      <4>3. Line[k][1] = d /\ Line'[k] = Line[k]
        BY <1>3, <1>6, <2>4, <3>2, <4>2
      <4>. QED  BY <1>1, <1>4, <3>2, <4>1, <4>3 DEF QueueOK, n
    <3>3. CASE ~(k \in DOMAIN Line) /\ ~(l \in DOMAIN Line)
      <4>1. PICK x \in 0 .. n - 1 : k = m + x + 1 /\ Line'[k] = QueueAt(index, x)
        BY <1>10, <3>3
      <4>2. PICK y \in 0 .. n - 1 : l = m + y + 1 /\ Line'[l] = QueueAt(index, y)
        BY <1>10, <3>3
      <4>3. x \in 0 .. y - 1
        BY <1>2, <1>3, <2>4, <4>1, <4>2 DEF n
      <4>. QED  BY <1>1, <1>4, <4>1, <4>2, <4>3 DEF QueueOK, n
    <3>4. ~(~(k \in DOMAIN Line) /\ l \in DOMAIN Line)
      BY <1>2, <1>3, <1>6, <2>4 DEF n
    <3>. QED  BY <3>1, <3>2, <3>3, <3>4
  <2>. QED  BY <2>1, <2>2, <2>3, <2>4 DEF LineOK
<1>14. FoundOK'
  <2>. SUFFICES ASSUME "response" \notin Faults,
                       NEW r \in Request, request_status'[r] = "SUCCESS"
                PROVE  \/ Flying(r)'
                       \/ \E l \in DOMAIN Line' : Line'[l] = r
                       \/ \E c \in Holders' : QueuedFor(c, r)'
    BY DEF FoundOK
  <2>1. \/ Flying(r)
        \/ \E l \in DOMAIN Line : Line[l] = r
        \/ \E c \in Holders : QueuedFor(c, r)
    BY <1>2 DEF PipelineInv, FoundOK
  <2>2. ASSUME NEW l \in DOMAIN Line, Line[l] = r
        PROVE  l \in DOMAIN Line' /\ Line'[l] = r
    BY <1>2, <1>3, <1>6, <2>2 DEF n
  <2>3. ASSUME QueuedFor(d, r)
        PROVE  \E l \in DOMAIN Line' : Line'[l] = r
    <3>1. PICK k \in 0 .. n - 1 : QueueAt(index, k) = r
      BY <1>1, <2>3 DEF QueuedFor, n
    <3>2. m + k + 1 \in DOMAIN Line'
      BY <1>2, <1>3, <1>6 DEF n
    <3>. QED  BY <1>3, <3>1, <3>2
  <2>4. ASSUME NEW c \in Holders, c # d, QueuedFor(c, r)
        PROVE  c \in Holders' /\ QueuedFor(c, r)'
    <3>1. buffer'[buffer_id[c]] = buffer[buffer_id[c]]
      BY <1>1, <1>7, <2>4 DEF IInv, BufferExclusive
    <3>2. c \in Holders' /\ buffer_id'[c] = buffer_id[c]
      BY <1>2 DEF HoldersKept, Kept
    <3>. QED  BY <2>4, <3>1, <3>2 DEF QueuedFor, QueueAt
  <2>. QED  BY <1>9, <2>1, <2>2, <2>3, <2>4
<1>. QED  BY <1>8, <1>9, <1>11, <1>12, <1>13, <1>14

-----------------------------------------------------------------------------
(* A caller reserves a buffer, and submits its batch.                      *)

LEMMA AcquireFacts ==
    ASSUME IInv, PipelineInv, NEW c \in Clients, Acquire(c)
    PROVE  \E b \in Buffer :
              /\ free_buffer[b] /\ free_buffer' = [free_buffer EXCEPT ![b] = FALSE]
              /\ buffer_id'[c] = b /\ j'[c] = 0 /\ pc'[c] = "submit"
              /\ c \notin Holders /\ Holders' = Holders \cup {c}
              /\ \A d \in Holders : Kept(d)
<1>1. ClientTypeOK /\ ReservationTypeOK /\ BufferExclusive
  BY DEF IInv, TypeOK
<1>2. PICK b \in Buffer :
         /\ SelectsFree(b)
         /\ buffer_id' = [buffer_id EXCEPT ![c] = b]
         /\ free_buffer' = [free_buffer EXCEPT ![b] = FALSE]
  BY DEF Acquire
<1>3. free_buffer[b]
  <2>1. busy_count \in Nat /\ BufferCount \in Nat /\ ~(busy_count >= BufferCount)
    BY <1>1, OffloadAssumption DEF Acquire, AllBusy, ReservationTypeOK
  <2>2. busy_count < BufferCount
    BY <2>1
  <2>. QED  BY <1>1, <1>2, <2>2, SpareBuffer DEF SelectsFree
<1>4. pc[c] = "acquire" /\ pc' = [pc EXCEPT ![c] = "submit"] /\ j' = [j EXCEPT ![c] = 0]
      /\ batch_size' = batch_size
  BY DEF Acquire
<1>5. /\ buffer_id'[c] = b /\ j'[c] = 0 /\ pc'[c] = "submit"
      /\ c \notin Holders /\ Holders' = Holders \cup {c}
  BY <1>1, <1>2, <1>4 DEF ClientTypeOK, Holders
<1>6. \A d \in Holders : Kept(d)
  BY <1>1, <1>2, <1>4, <1>5 DEF ClientTypeOK, Holders, Kept, Submitting
<1>. QED  BY <1>2, <1>3, <1>5, <1>6

LEMMA AcquireStep ==
    ASSUME IInv, PipelineInv, NEW c \in Clients, Acquire(c)
    PROVE  FreeBufferClean' /\ HoldersOK' /\ StatusOK' /\ LineOK' /\ FlightOK' /\ FoundOK'
<1>1. PICK b \in Buffer :
         /\ free_buffer[b] /\ free_buffer' = [free_buffer EXCEPT ![b] = FALSE]
         /\ buffer_id'[c] = b /\ j'[c] = 0 /\ pc'[c] = "submit"
         /\ c \notin Holders /\ Holders' = Holders \cup {c}
         /\ \A d \in Holders : Kept(d)
  BY AcquireFacts
<1>2. UNCHANGED <<buffer, request_status, device, callback>> /\ Line' = Line
  BY LineApart DEF Acquire, deviceVars, requestVars
<1>3. FlightOK' /\ \A r \in Request : Flying(r)' <=> Flying(r)
  BY <1>2, OthersFly
<1>4. FreeBufferClean'
  BY <1>1, <1>2 DEF PipelineInv, FreeBufferClean, IInv, TypeOK, ReservationTypeOK
<1>5. /\ buffer[b].count = 0
      /\ \A s \in Slot : buffer[b].data[s] = NULL
      /\ buffer[b].next_free_slot = buffer[b].next_data_slot
      /\ buffer[b].next_data_slot = buffer[b].next_data_out
      /\ buffer[b].next_data_out \in Slot
  BY <1>1 DEF PipelineInv, FreeBufferClean, IInv, TypeOK, RequestBuffer
<1>6. Submitting(c)' /\ Limit(c)' = 0 /\ Collected(c)' = 0
  BY <1>1 DEF Submitting, Limit, Collected
<1>7. \A r \in Own(c) : request_status[r] = "FREED"
  BY <1>1, OwnFacts DEF PipelineInv, StatusOK
<1>8. QueueOK(c)'
  <2>1. buffer'[b].next_free_slot = Advance(buffer'[b].next_data_slot, 0)
    BY <1>2, <1>5, AdvanceFacts
  <2>2. 0 .. buffer'[b].count - 1 = {}
    BY <1>2, <1>5
  <2>. QED  BY <1>1, <1>2, <1>5, <2>1, <2>2 DEF QueueOK
<1>9. ClearedOK(c)'
  BY <1>6 DEF ClearedOK
<1>10. CollectOK(c)'
  <2>1. \A k \in 0 .. BufferSize - 1 : Advance(buffer[b].next_data_out, k) \in Slot
    BY <1>5, AdvanceFacts, OffloadAssumption
  <2>2. \A k \in 0 .. BufferSize - 1 : SlotAt(b, k) = NULL
    BY <1>5, <2>1 DEF SlotAt
  <2>3. \A k : SlotAt(buffer_id[c], k)' = SlotAt(b, k)
    BY <1>1, <1>2 DEF SlotAt
  <2>4. buffer[b].next_data_slot = Advance(buffer[b].next_data_out, 0)
    BY <1>5, AdvanceFacts
  <2>5. 0 .. 0 - 1 = {} /\ 0 - 0 = 0 /\ 0 \in 0 .. 0
    OBVIOUS
  <2>6. Filled(c, 0)'
    BY <1>1, <1>2, <1>5, <1>6, <1>7, <2>2, <2>3, <2>4, <2>5 DEF Filled
  <2>. QED  BY <1>6, <2>5, <2>6 DEF CollectOK
<1>11. HoldersOK'
  <2>. SUFFICES ASSUME NEW d \in Holders
                PROVE  QueueOK(d)' /\ ClearedOK(d)' /\ CollectOK(d)'
    BY <1>1, <1>8, <1>9, <1>10 DEF HoldersOK
  <2>1. QueueOK(d) /\ ClearedOK(d) /\ CollectOK(d)
    BY DEF PipelineInv, HoldersOK
  <2>. QED  BY <1>1, <1>2, <1>3, <2>1, HolderApart DEF Kept
<1>12. StatusOK'
  <2>1. \A d \in Holders : Limit(d)' = Limit(d)
    BY <1>1 DEF Kept, Limit
  <2>. QED  BY <1>1, <1>2, <2>1 DEF PipelineInv, StatusOK
<1>13. LineOK'
  <2>1. \A l \in DOMAIN Line : Line[l] \in Request
    BY DEF PipelineInv, LineOK
  <2>. QED  BY <1>2, <1>3, <2>1 DEF PipelineInv, LineOK
<1>14. FoundOK'
  <2>1. ASSUME NEW d \in Holders, NEW r \in Request, QueuedFor(d, r)
        PROVE  QueuedFor(d, r)'
    BY <1>1, <1>2, <2>1 DEF QueuedFor, QueueAt, Kept
  <2>. QED  BY <1>1, <1>2, <1>3, <2>1 DEF PipelineInv, FoundOK
<1>. QED  BY <1>3, <1>4, <1>11, <1>12, <1>13, <1>14

LEMMA NextRequestFacts ==
    ASSUME IInv, NEW c \in Clients, pc[c] = "submit", NextRequest(c),
           UNCHANGED <<buffer_id, batch_size>>
    PROVE  /\ c \in Holders /\ Holders' = Holders /\ j[c] \in 0 .. MaxBatch - 1
           /\ Limit(c) = j[c] /\ Limit(c)' = j[c] + 1 /\ j[c] + 1 <= batch_size[c]
           /\ Collected(c) = 0 /\ Collected(c)' = 0
           /\ ~Submitting(c)' => j'[c] = 0
           /\ \A d \in Holders : d # c => Kept(d)
<1>1. ClientTypeOK /\ c \in Holders
  BY DEF IInv, TypeOK, Holders
<1>2. j[c] \in Nat /\ batch_size[c] \in Nat /\ j[c] < batch_size[c] /\ batch_size[c] <= MaxBatch
  BY <1>1, OffloadAssumption DEF IInv, LoopsOK, ClientTypeOK
<1>3. /\ Holders' = Holders
      /\ \A d \in Holders : d # c => Kept(d)
  BY <1>1 DEF NextRequest, ClientTypeOK, Holders, Kept, Submitting
<1>4. \/ j'[c] = j[c] + 1 /\ pc'[c] = "submit"
      \/ j'[c] = 0 /\ pc'[c] = "release" /\ batch_size[c] = j[c] + 1
  BY <1>1, <1>2 DEF NextRequest, ClientTypeOK
<1>5. /\ Limit(c) = j[c] /\ Limit(c)' = j[c] + 1
      /\ Collected(c) = 0 /\ Collected(c)' = 0
      /\ ~Submitting(c)' => j'[c] = 0
  BY <1>4 DEF Limit, Collected, Submitting
<1>6. j[c] \in 0 .. MaxBatch - 1 /\ j[c] + 1 <= batch_size[c]
  BY <1>2, OffloadAssumption
<1>. QED  BY <1>1, <1>3, <1>5, <1>6

LEMMA SubmitFailsStep ==
    ASSUME IInv, PipelineInv, NEW c \in Clients, SubmitFails(c)
    PROVE  FreeBufferClean' /\ HoldersOK' /\ StatusOK' /\ LineOK' /\ FlightOK' /\ FoundOK'
<1>1. /\ c \in Holders /\ Holders' = Holders /\ j[c] \in 0 .. MaxBatch - 1
      /\ Limit(c) = j[c] /\ Limit(c)' = j[c] + 1 /\ j[c] + 1 <= batch_size[c]
      /\ Collected(c) = 0 /\ Collected(c)' = 0
      /\ ~Submitting(c)' => j'[c] = 0
      /\ \A d \in Holders : d # c => Kept(d)
  BY NextRequestFacts DEF SubmitFails
<1>2. /\ UNCHANGED <<buffer, free_buffer, request_status, device, callback, buffer_id, batch_size>>
      /\ Line' = Line
  BY LineApart DEF SubmitFails, deviceVars, reservationVars, schedVars
<1>3. FlightOK' /\ \A r \in Request : Flying(r)' <=> Flying(r)
  BY <1>2, OthersFly
<1>4. FreeBufferClean'
  BY <1>2 DEF PipelineInv, FreeBufferClean
<1>5. \A d \in Holders : QueueOK(d) /\ ClearedOK(d) /\ CollectOK(d)
  BY DEF PipelineInv, HoldersOK
<1>6. QueueOK(c)'
  <2>1. ASSUME NEW k \in 0 .. buffer[buffer_id[c]].count - 1
        PROVE  ~Flying(QueueAt(buffer_id[c], k))'
    <3>. DEFINE q == QueueAt(buffer_id[c], k)
    <3>1. q' = q
      BY <1>2 DEF QueueAt
    <3>2. ~Flying(q)
      BY <1>1, <1>5 DEF QueueOK
    <3>. QED  BY <1>2, <3>1, <3>2 DEF Flying
  <2>. QED  BY <1>1, <1>2, <1>5, <2>1 DEF QueueOK, QueueAt
<1>7. ClearedOK(c)'
  BY <1>1 DEF ClearedOK
<1>8. CollectOK(c)'
  <2>1. ASSUME NEW n \in 0 .. j[c], Filled(c, n)
        PROVE  Filled(c, n)' /\ n \in 0 .. j[c] + 1
    <3>1. n \in 0 .. j[c] + 1
      BY <1>1
    <3>. QED  BY <1>1, <1>2, <2>1, <3>1 DEF Filled, SlotAt
  <2>. QED  BY <1>1, <1>2, <1>5, <2>1 DEF CollectOK
<1>9. HoldersOK'
  <2>. SUFFICES ASSUME NEW d \in Holders, d # c
                PROVE  QueueOK(d)' /\ ClearedOK(d)' /\ CollectOK(d)'
    BY <1>1, <1>6, <1>7, <1>8 DEF HoldersOK
  <2>. QED  BY <1>1, <1>2, <1>3, <1>5, HolderApart DEF Kept
<1>10. StatusOK'
  <2>1. \A d \in Holders : d # c => Limit(d)' = Limit(d)
    BY <1>1 DEF Kept, Limit
  <2>2. ASSUME NEW r \in Request, request_status'[r] # "FREED"
        PROVE  r[1] \in Holders' /\ r[2] < Limit(r[1])'
    <3>1. r[1] \in Holders /\ r[2] < Limit(r[1]) /\ r[2] \in Nat
      BY <1>2, <2>2, RequestFacts DEF PipelineInv, StatusOK
    <3>2. CASE r[1] = c
      BY <1>1, <3>1, <3>2
    <3>3. CASE r[1] # c
      BY <1>1, <2>1, <3>1, <3>3
    <3>. QED  BY <3>2, <3>3
  <2>. QED  BY <2>2 DEF StatusOK
<1>11. LineOK'
  <2>1. \A l \in DOMAIN Line : Line[l] \in Request
    BY DEF PipelineInv, LineOK
  <2>. QED  BY <1>2, <1>3, <2>1 DEF PipelineInv, LineOK
<1>12. FoundOK'
  <2>1. ASSUME NEW d \in Holders, NEW r \in Request, QueuedFor(d, r)
        PROVE  QueuedFor(d, r)'
    BY <1>2, <2>1 DEF QueuedFor, QueueAt
  <2>. QED  BY <1>1, <1>2, <1>3, <2>1 DEF PipelineInv, FoundOK
<1>. QED  BY <1>3, <1>4, <1>9, <1>10, <1>11, <1>12

\* The memory of the request to submit is not in use, and goes to the slot behind
\* those that are queued.
LEMMA SubmitFacts ==
    ASSUME IInv, PipelineInv, NEW c \in Clients, Submit(c)
    PROVE  LET r == <<c, j[c]>>
               b == buffer_id[c]
           IN  /\ r \in Own(c) /\ r \in Request /\ request_status[r] = "FREED" /\ ~Flying(r)
               /\ \A l \in DOMAIN Line : Line[l] # r
               /\ \A d \in Holders : ~QueuedFor(d, r)
               /\ b \in Buffer /\ ~free_buffer[b]
               /\ buffer[b].count \in 0 .. BufferSize - 1
               /\ buffer'[b].data = [buffer[b].data EXCEPT ![buffer[b].next_free_slot] = r]
               /\ buffer'[b].next_free_slot = Advance(buffer[b].next_free_slot, 1)
               /\ buffer'[b].count = buffer[b].count + 1
               /\ buffer'[b].next_data_slot = buffer[b].next_data_slot
               /\ buffer'[b].next_data_out = buffer[b].next_data_out
               /\ \A x \in Buffer : x # b => buffer'[x] = buffer[x]
               /\ request_status'[r] = "SUCCESS"
               /\ \A q \in Request : q # r => request_status'[q] = request_status[q]
<1>. DEFINE r == <<c, j[c]>>
            b == buffer_id[c]
<1>1. c \in Holders /\ Limit(c) = j[c] /\ j[c] \in 0 .. MaxBatch - 1
  BY NextRequestFacts DEF Submit
<1>2. r \in Own(c) /\ r \in Request /\ r[1] = c /\ r[2] = j[c]
  BY <1>1 DEF Own, Request
<1>3. request_status[r] = "FREED"
  BY <1>1, <1>2 DEF PipelineInv, StatusOK
<1>4. ~Flying(r) /\ \A l \in DOMAIN Line : Line[l] # r
  BY <1>2, <1>3 DEF PipelineInv, FlightOK, LineOK
<1>5. \A d \in Holders : ~QueuedFor(d, r)
  BY <1>3, QueuedFacts DEF PipelineInv, HoldersOK, QueuedFor
<1>6. b \in Buffer /\ ~free_buffer[b] /\ buffer[b] \in RequestBuffer
  BY <1>1, HolderFacts
<1>7. buffer[b].count \in 0 .. BufferSize - 1
  BY <1>6, OffloadAssumption DEF Submit, RequestBuffer
<1>8. /\ buffer' = [buffer EXCEPT ![b].data[buffer[b].next_free_slot] = r,
                                  ![b].next_free_slot = Advance(@, 1),
                                  ![b].count = @ + 1]
      /\ request_status' = [request_status EXCEPT ![r] = "SUCCESS"]
  BY DEF Submit
<1>. HIDE DEF r
<1>9. /\ buffer'[b].data = [buffer[b].data EXCEPT ![buffer[b].next_free_slot] = r]
      /\ buffer'[b].next_free_slot = Advance(buffer[b].next_free_slot, 1)
      /\ buffer'[b].count = buffer[b].count + 1
      /\ buffer'[b].next_data_slot = buffer[b].next_data_slot
      /\ buffer'[b].next_data_out = buffer[b].next_data_out
      /\ \A x \in Buffer : x # b => buffer'[x] = buffer[x]
  BY <1>6, <1>8 DEF IInv, TypeOK, RequestBuffer
<1>10. /\ request_status'[r] = "SUCCESS"
       /\ \A q \in Request : q # r => request_status'[q] = request_status[q]
  BY <1>2, <1>8 DEF IInv, TypeOK
<1>. QED  BY <1>2, <1>3, <1>4, <1>5, <1>6, <1>7, <1>9, <1>10 DEF r

\* What becomes of the submitting caller.
LEMMA SubmitHolder ==
    ASSUME IInv, PipelineInv, NEW c \in Clients, Submit(c)
    PROVE  /\ QueueOK(c)' /\ ClearedOK(c)' /\ CollectOK(c)'
           /\ \A q \in Request : q = <<c, j[c]>> => QueuedFor(c, q)'
           /\ \A q \in Request : QueuedFor(c, q) => QueuedFor(c, q)'
<1>. DEFINE r == <<c, j[c]>>
            b == buffer_id[c]
            n == buffer[b].count
            slot == buffer[b].next_free_slot
<1>1. /\ c \in Holders /\ j[c] \in 0 .. MaxBatch - 1
      /\ Limit(c) = j[c] /\ Limit(c)' = j[c] + 1 /\ j[c] + 1 <= batch_size[c]
      /\ Collected(c) = 0 /\ Collected(c)' = 0
      /\ ~Submitting(c)' => j'[c] = 0
  BY NextRequestFacts DEF Submit
<1>2. /\ r \in Own(c) /\ r \in Request /\ request_status[r] = "FREED" /\ ~Flying(r)
      /\ b \in Buffer /\ n \in 0 .. BufferSize - 1
      /\ buffer'[b].data = [buffer[b].data EXCEPT ![slot] = r]
      /\ buffer'[b].next_free_slot = Advance(slot, 1)
      /\ buffer'[b].count = n + 1
      /\ buffer'[b].next_data_slot = buffer[b].next_data_slot
      /\ buffer'[b].next_data_out = buffer[b].next_data_out
      /\ request_status'[r] = "SUCCESS"
      /\ \A q \in Request : q # r => request_status'[q] = request_status[q]
  BY SubmitFacts
<1>3. buffer_id' = buffer_id /\ batch_size' = batch_size /\ Line' = Line
  BY LineApart DEF Submit, schedVars
<1>4. \A q \in Request : Flying(q)' <=> Flying(q)
  BY DEF Submit, deviceVars, Flying
<1>5. QueueOK(c) /\ ClearedOK(c) /\ CollectOK(c)
  BY <1>1 DEF PipelineInv, HoldersOK
<1>6. /\ buffer[b].next_data_slot \in Slot /\ buffer[b].next_data_out \in Slot
      /\ buffer[b].data \in [Slot -> Pointer] /\ slot \in Slot
      /\ batch_size[c] \in Nat /\ BufferSize \in Nat /\ n \in Nat /\ n + 1 <= BufferSize
  BY <1>1, <1>2, HolderFacts, OffloadAssumption
<1>7. slot = Advance(buffer[b].next_data_slot, n)
  BY <1>5 DEF QueueOK
<1>8. r[1] = c /\ r[2] = j[c] /\ r # NULL
  BY <1>2, OwnFacts
<1>. HIDE DEF r, n, slot
<1>9. \A k \in 0 .. n - 1 : QueueAt(b, k)' = QueueAt(b, k)
  <2>. SUFFICES ASSUME NEW k \in 0 .. n - 1
                PROVE  QueueAt(b, k)' = QueueAt(b, k)
    OBVIOUS
  <2>1. /\ k \in 0 .. BufferSize - 1 /\ n \in 0 .. BufferSize - 1 /\ k # n
        /\ k \in 0 .. BufferSize
    BY <1>6
  <2>2. /\ Advance(buffer[b].next_data_slot, k) # slot
        /\ Advance(buffer[b].next_data_slot, k) \in Slot
    BY <1>6, <1>7, <2>1, AdvanceFacts
  <2>. QED  BY <1>2, <1>3, <1>6, <2>2 DEF QueueAt
<1>10. \A k : k = n => QueueAt(b, k)' = r
  BY <1>2, <1>3, <1>6, <1>7 DEF QueueAt
<1>11. QueueOK(c)'
  <2>1. buffer'[b].next_free_slot = Advance(buffer'[b].next_data_slot, buffer'[b].count)
    BY <1>2, <1>6, <1>7, AdvanceTwice
  <2>2. \A s \in Slot : buffer'[b].data[s] \in Own(c) \cup {NULL}
    BY <1>2, <1>5, <1>6 DEF QueueOK
  <2>3. ASSUME NEW k \in 0 .. n
        PROVE  /\ QueueAt(b, k)' # NULL
               /\ request_status'[QueueAt(b, k)'] = "SUCCESS"
               /\ ~Flying(QueueAt(b, k))'
               /\ \A l \in 0 .. k - 1 : QueueAt(b, l)'[2] < QueueAt(b, k)'[2]
               /\ \A l \in DOMAIN Line : Line[l][1] = c => Line[l][2] < QueueAt(b, k)'[2]
    <3>1. CASE k = n
      <4>1. QueueAt(b, k)' = r
        BY <1>10, <3>1
      <4>2. ~Flying(QueueAt(b, k))'
        BY <1>2, <1>4, <4>1 DEF Flying
      <4>3. ASSUME NEW l \in 0 .. k - 1
            PROVE  QueueAt(b, l)'[2] < QueueAt(b, k)'[2]
        <5>1. l \in 0 .. n - 1 /\ QueueAt(b, l)' = QueueAt(b, l)
          BY <1>9, <3>1
        <5>2. QueueAt(b, l) \in Own(c) /\ QueueAt(b, l) \in Request
              /\ request_status[QueueAt(b, l)] = "SUCCESS"
          BY <1>1, <1>5, <5>1, QueuedFacts DEF n
        <5>3. QueueAt(b, l)[2] < j[c]
          BY <1>1, <5>2, OwnFacts DEF PipelineInv, StatusOK
        <5>. QED  BY <1>8, <4>1, <5>1, <5>3
      <4>4. ASSUME NEW l \in DOMAIN Line, Line[l][1] = c
            PROVE  Line[l][2] < QueueAt(b, k)'[2]
        <5>1. Line[l][2] < j[c]
          BY <1>1, <4>4 DEF PipelineInv, StatusOK, LineOK
        <5>. QED  BY <1>8, <4>1, <5>1
      <4>. QED  BY <1>2, <1>8, <4>1, <4>2, <4>3, <4>4
    <3>2. CASE k # n
      <4>1. k \in 0 .. n - 1
        BY <1>6, <3>2
      <4>2. QueueAt(b, k)' = QueueAt(b, k)
        BY <1>9, <4>1
      <4>3. QueueAt(b, k) \in Request /\ request_status[QueueAt(b, k)] = "SUCCESS"
            /\ ~Flying(QueueAt(b, k))
        BY <1>1, <1>5, <4>1, QueuedFacts DEF n
      <4>4. ~Flying(QueueAt(b, k))'
        BY <1>4, <4>2, <4>3 DEF Flying
      <4>5. request_status'[QueueAt(b, k)'] = "SUCCESS"
        BY <1>2, <4>2, <4>3
      <4>6. /\ QueueAt(b, k) # NULL
            /\ \A l \in 0 .. k - 1 : QueueAt(b, l)[2] < QueueAt(b, k)[2]
            /\ \A l \in DOMAIN Line : Line[l][1] = c => Line[l][2] < QueueAt(b, k)[2]
        BY <1>5, <4>1 DEF QueueOK, n
      <4>7. \A l \in 0 .. k - 1 : QueueAt(b, l)' = QueueAt(b, l)
        BY <1>6, <1>9, <4>1
      <4>. QED  BY <4>2, <4>4, <4>5, <4>6, <4>7
    <3>. QED  BY <3>1, <3>2
  <2>4. buffer'[b].count - 1 = n
    BY <1>2, <1>6
  <2>. QED  BY <1>3, <2>1, <2>2, <2>3, <2>4 DEF QueueOK
<1>12. ClearedOK(c)'
  BY <1>1 DEF ClearedOK
<1>13. CollectOK(c)'
  <2>. SUFFICES ASSUME batch_size[c] <= BufferSize, NEW m \in 0 .. j[c], Filled(c, m)
                PROVE  m + 1 \in 0 .. j[c] + 1 /\ \A x : x = m + 1 => Filled(c, x)'
    BY <1>1, <1>3, <1>5 DEF CollectOK
  <2>1. /\ m \in Nat /\ m + 1 \in 0 .. j[c] + 1
        /\ m \in 0 .. BufferSize - 1 /\ n <= m /\ m - n \in Nat /\ (m - n) + n = m
        /\ (m + 1) - (n + 1) = m - n /\ n + 1 <= (m + 1) - 0
        /\ (m + 1) - 1 = m
    BY <1>1, <1>6 DEF Filled, n
  <2>2. buffer[b].next_data_slot = Advance(buffer[b].next_data_out, m - n)
    BY DEF Filled, n
  <2>3. slot = Advance(buffer[b].next_data_out, m)
    BY <1>6, <1>7, <2>1, <2>2, AdvanceTwice
  <2>4. ASSUME NEW k \in 0 .. BufferSize - 1
        PROVE  SlotAt(b, k)' = IF k = m THEN r ELSE SlotAt(b, k)
    <3>1. Advance(buffer[b].next_data_out, k) \in Slot
      <4>1. k \in 0 .. BufferSize
        BY <1>6
      <4>. QED  BY <1>6, <4>1, AdvanceFacts
    <3>2. Advance(buffer[b].next_data_out, k) = slot <=> k = m
      BY <1>6, <2>1, <2>3, AdvanceFacts
    <3>. QED  BY <1>2, <1>3, <1>6, <3>1, <3>2 DEF SlotAt
  <2>5. \A k \in 0 .. BufferSize - 1 : SlotAt(b, k) # NULL <=> k \in 0 .. m - 1
    BY <1>1 DEF Filled
  <2>6. ASSUME NEW k \in 0 .. BufferSize - 1
        PROVE  SlotAt(b, k)' # NULL <=> k \in 0 .. m
    BY <1>8, <2>1, <2>4, <2>5
  <2>7. ASSUME NEW q \in Own(c), request_status'[q] # "FREED"
        PROVE  \E k \in 0 .. m : SlotAt(b, k)' = q
    <3>1. CASE q = r
      BY <2>1, <2>4, <3>1
    <3>2. CASE q # r
      <4>1. q \in Request /\ request_status[q] # "FREED"
        BY <1>1, <1>2, <2>7, <3>2, HolderFacts, OwnFacts
      <4>2. PICK k \in 0 .. m - 1 : SlotAt(b, k) = q
        BY <1>1, <4>1 DEF Filled
      <4>3. k \in 0 .. BufferSize - 1 /\ k # m /\ k \in 0 .. m
        BY <1>6, <2>1
      <4>. QED  BY <2>4, <4>2, <4>3
    <3>. QED  BY <3>1, <3>2
  <2>8. ASSUME NEW x, x = m + 1
        PROVE  Filled(c, x)'
    <3>1. /\ x - 1 = m /\ n + 1 <= x - 0 /\ x - (n + 1) = m - n
      BY <2>1, <2>8
    <3>. QED  BY <1>1, <1>2, <1>3, <2>2, <2>6, <2>7, <3>1 DEF Filled
  <2>. QED  BY <2>1, <2>8
<1>14. \A q \in Request : q = r => QueuedFor(c, q)'
  <2>1. \A k : k = n => k \in 0 .. buffer'[b].count - 1
    BY <1>2, <1>6
  <2>. QED  BY <1>3, <1>10, <2>1 DEF QueuedFor
<1>15. ASSUME NEW q \in Request, QueuedFor(c, q)
       PROVE  QueuedFor(c, q)'
  <2>1. PICK k \in 0 .. n - 1 : QueueAt(b, k) = q
    BY <1>15 DEF QueuedFor, n
  <2>2. k \in 0 .. buffer'[b].count - 1
    BY <1>2, <1>6
  <2>. QED  BY <1>3, <1>9, <2>1, <2>2 DEF QueuedFor
<1>. QED  BY <1>11, <1>12, <1>13, <1>14, <1>15 DEF r

LEMMA SubmitStep ==
    ASSUME IInv, PipelineInv, NEW c \in Clients, Submit(c)
    PROVE  FreeBufferClean' /\ HoldersOK' /\ StatusOK' /\ LineOK' /\ FlightOK' /\ FoundOK'
<1>. DEFINE r == <<c, j[c]>>
            b == buffer_id[c]
<1>1. /\ c \in Holders /\ Holders' = Holders
      /\ Limit(c) = j[c] /\ Limit(c)' = j[c] + 1 /\ j[c] \in 0 .. MaxBatch - 1
      /\ \A d \in Holders : d # c => Kept(d)
  BY NextRequestFacts DEF Submit
<1>2. /\ r \in Own(c) /\ r \in Request /\ request_status[r] = "FREED"
      /\ \A l \in DOMAIN Line : Line[l] # r
      /\ \A d \in Holders : ~QueuedFor(d, r)
      /\ b \in Buffer /\ ~free_buffer[b]
      /\ \A x \in Buffer : x # b => buffer'[x] = buffer[x]
      /\ request_status'[r] = "SUCCESS"
      /\ \A q \in Request : q # r => request_status'[q] = request_status[q]
  BY SubmitFacts
<1>3. /\ UNCHANGED <<device, callback, free_buffer, buffer_id, batch_size>>
      /\ Line' = Line
  BY LineApart DEF Submit, deviceVars, reservationVars, schedVars
<1>4. r[1] = c /\ r[2] = j[c]
  BY <1>2, OwnFacts
<1>5. QueueOK(c)' /\ ClearedOK(c)' /\ CollectOK(c)'
  BY SubmitHolder
<1>6. /\ \A q \in Request : q = r => QueuedFor(c, q)'
      /\ \A q \in Request : QueuedFor(c, q) => QueuedFor(c, q)'
  BY SubmitHolder
<1>. HIDE DEF r
<1>7. FlightOK' /\ \A q \in Request : Flying(q)' <=> Flying(q)
  BY <1>2, <1>3, OthersFly
<1>8. FreeBufferClean'
  <2>1. \A x \in Buffer : free_buffer'[x] => free_buffer[x] /\ buffer'[x] = buffer[x]
    BY <1>2, <1>3
  <2>2. FreeBufferClean
    BY DEF PipelineInv
  <2>. QED  BY <2>1, <2>2 DEF FreeBufferClean
<1>9. ASSUME NEW d \in Holders, d # c
      PROVE  /\ buffer'[buffer_id[d]] = buffer[buffer_id[d]]
             /\ \A q \in Own(d) : q \in Request /\ q # r
             /\ Limit(d)' = Limit(d)
  <2>1. buffer_id[d] \in Buffer /\ buffer_id[d] # b /\ d \in Clients
    BY <1>1, <1>9, HolderFacts DEF IInv, BufferExclusive
  <2>2. Limit(d)' = Limit(d)
    BY <1>1, <1>9 DEF Kept, Limit
  <2>3. \A q \in Own(d) : q \in Request /\ q # r
    BY <1>4, <1>9, <2>1, OwnFacts
  <2>. QED  BY <1>2, <2>1, <2>2, <2>3
<1>10. HoldersOK'
  <2>. SUFFICES ASSUME NEW d \in Holders, d # c
                PROVE  QueueOK(d)' /\ ClearedOK(d)' /\ CollectOK(d)'
    BY <1>1, <1>5 DEF HoldersOK
  <2>1. QueueOK(d) /\ ClearedOK(d) /\ CollectOK(d)
    BY DEF PipelineInv, HoldersOK
  <2>2. \A q \in Request : QueuedFor(d, q) =>
           request_status'[q] = request_status[q] /\ (Flying(q)' => Flying(q))
    BY <1>2, <1>7
  <2>3. \A q \in Own(d) : request_status'[q] # "FREED" => request_status[q] # "FREED"
    BY <1>2, <1>9
  <2>4. \A l \in DOMAIN Line' : \E k \in DOMAIN Line : Line'[l] = Line[k]
    BY <1>3
  <2>. QED  BY <1>1, <1>9, <2>1, <2>2, <2>3, <2>4, HolderApart DEF Kept
<1>11. StatusOK'
  <2>. SUFFICES ASSUME NEW q \in Request, request_status'[q] # "FREED"
                PROVE  q[1] \in Holders' /\ q[2] < Limit(q[1])'
    BY DEF StatusOK
  <2>1. CASE q = r
    BY <1>1, <1>4, <2>1
  <2>2. CASE q # r
    <3>1. q[1] \in Holders /\ q[2] < Limit(q[1]) /\ q[2] \in Nat
      BY <1>2, <2>2, RequestFacts DEF PipelineInv, StatusOK
    <3>2. CASE q[1] = c
      BY <1>1, <3>1, <3>2
    <3>3. CASE q[1] # c
      BY <1>1, <1>9, <3>1, <3>3
    <3>. QED  BY <3>2, <3>3
  <2>. QED  BY <2>1, <2>2
<1>12. LineOK'
  <2>1. \A l \in DOMAIN Line : Line[l] \in Request /\ Line[l] # r
    BY <1>2 DEF PipelineInv, LineOK
  <2>. QED  BY <1>2, <1>3, <1>7, <2>1 DEF PipelineInv, LineOK
<1>13. FoundOK'
  <2>. SUFFICES ASSUME "response" \notin Faults,
                       NEW q \in Request, request_status'[q] = "SUCCESS"
                PROVE  \/ Flying(q)'
                       \/ \E l \in DOMAIN Line' : Line'[l] = q
                       \/ \E d \in Holders' : QueuedFor(d, q)'
    BY DEF FoundOK
  <2>1. CASE q = r
    BY <1>1, <1>6, <2>1
  <2>2. CASE q # r
    <3>1. \/ Flying(q)
          \/ \E l \in DOMAIN Line : Line[l] = q
          \/ \E d \in Holders : QueuedFor(d, q)
      BY <1>2, <2>2 DEF PipelineInv, FoundOK
    <3>2. ASSUME NEW d \in Holders, d # c, QueuedFor(d, q)
          PROVE  QueuedFor(d, q)'
      BY <1>3, <1>9, <3>2 DEF QueuedFor, QueueAt
    <3>. QED  BY <1>1, <1>3, <1>6, <1>7, <3>1, <3>2
  <2>. QED  BY <2>1, <2>2
<1>. QED  BY <1>7, <1>8, <1>10, <1>11, <1>12, <1>13

-----------------------------------------------------------------------------
(* A caller collects its batch.                                            *)

\* The request that a caller collects has been answered, so nobody else holds it;
\* its slot is not one that the caller has been through already.
LEMMA CollectFacts ==
    ASSUME IInv, PipelineInv, NEW c \in Clients, ReleaseTask(c)
    PROVE  LET b == buffer_id[c]
           IN  /\ c \in Holders /\ ~Submitting(c) /\ b \in Buffer /\ ~free_buffer[b]
               /\ j[c] \in 0 .. BufferSize - 1
               /\ Task(c) = SlotAt(b, j[c]) /\ OutSlot(c) \in Slot
               /\ Task(c) \in Own(c) /\ Task(c) \in Request
               /\ request_status[Task(c)] = "READY"
               /\ request_status'[Task(c)] = "FREED"
               /\ \A q \in Request : q # Task(c) => request_status'[q] = request_status[q]
               /\ buffer'[b].data = [buffer[b].data EXCEPT ![OutSlot(c)] = NULL]
               /\ buffer'[b].next_free_slot = buffer[b].next_free_slot
               /\ buffer'[b].count = buffer[b].count
               /\ buffer'[b].next_data_slot = buffer[b].next_data_slot
               /\ buffer'[b].next_data_out = buffer[b].next_data_out
               /\ \A x \in Buffer : x # b => buffer'[x] = buffer[x]
<1>. DEFINE b == buffer_id[c]
            t == Task(c)
            slot == OutSlot(c)
<1>1. c \in Holders /\ ~Submitting(c)
  BY DEF ReleaseTask, Holders, Submitting
<1>2. /\ b \in Buffer /\ ~free_buffer[b] /\ buffer[b] \in RequestBuffer
      /\ buffer[b].next_data_out \in Slot /\ j[c] \in Nat
      /\ buffer[b].data \in [Slot -> Pointer]
  BY <1>1, HolderFacts
<1>3. slot = Advance(buffer[b].next_data_out, j[c]) /\ t = SlotAt(b, j[c])
  BY DEF OutSlot, Task, SlotAt
<1>4. slot \in Slot
  <2>1. buffer[b].next_data_out \in Nat
    BY <1>2 DEF Slot
  <2>. QED  BY <1>2, <1>3, <2>1, AdvanceInSlot
<1>5. QueueOK(c) /\ ClearedOK(c)
  BY <1>1 DEF PipelineInv, HoldersOK
<1>6. t # NULL /\ request_status[t] = "READY"
  BY DEF ReleaseTask, Ready
<1>7. t \in Own(c) /\ t \in Request
  BY <1>1, <1>4, <1>5, <1>6, OwnFacts DEF QueueOK, Task
<1>8. j[c] \in 0 .. BufferSize - 1
  <2>1. \A k \in 0 .. j[c] - 1 : k < BufferSize /\ SlotAt(b, k) = NULL
    BY <1>1, <1>5 DEF ClearedOK
  <2>2. j[c] <= BufferSize
    <3>1. CASE j[c] = 0
      BY <3>1, OffloadAssumption
    <3>2. CASE j[c] # 0
      <4>1. j[c] - 1 \in 0 .. j[c] - 1
        BY <1>2, <3>2
      <4>. QED  BY <1>2, <2>1, <4>1, OffloadAssumption
    <3>. QED  BY <3>1, <3>2
  <2>3. j[c] # BufferSize
    <3>. SUFFICES ASSUME j[c] = BufferSize
                  PROVE  FALSE
      OBVIOUS
    <3>1. SlotAt(b, 0) = NULL
      BY <2>1, OffloadAssumption
    <3>2. SlotAt(b, BufferSize) = SlotAt(b, 0)
      BY <1>2, AdvanceFacts DEF SlotAt
    <3>. QED  BY <1>3, <1>6, <3>1, <3>2
  <2>. QED  BY <1>2, <2>2, <2>3, OffloadAssumption
<1>9. /\ request_status' = [request_status EXCEPT ![t] = "FREED"]
      /\ buffer' = [buffer EXCEPT ![b].data[slot] = NULL]
  BY DEF ReleaseTask
<1>. HIDE DEF t, slot
<1>10. /\ request_status'[t] = "FREED"
       /\ \A q \in Request : q # t => request_status'[q] = request_status[q]
  BY <1>7, <1>9 DEF IInv, TypeOK
<1>11. /\ buffer'[b].data = [buffer[b].data EXCEPT ![slot] = NULL]
       /\ buffer'[b].next_free_slot = buffer[b].next_free_slot
       /\ buffer'[b].count = buffer[b].count
       /\ buffer'[b].next_data_slot = buffer[b].next_data_slot
       /\ buffer'[b].next_data_out = buffer[b].next_data_out
       /\ \A x \in Buffer : x # b => buffer'[x] = buffer[x]
  BY <1>2, <1>9 DEF IInv, TypeOK, RequestBuffer
<1>. QED  BY <1>1, <1>2, <1>3, <1>4, <1>6, <1>7, <1>8, <1>10, <1>11 DEF t, slot

LEMMA CollectHolder ==
    ASSUME IInv, PipelineInv, NEW c \in Clients, ReleaseTask(c)
    PROVE  /\ QueueOK(c)' /\ ClearedOK(c)' /\ CollectOK(c)'
           /\ \A q \in Request : QueuedFor(c, q) => QueuedFor(c, q)'
<1>. DEFINE b == buffer_id[c]
            t == Task(c)
            slot == OutSlot(c)
            i == j[c]
            n == buffer[b].count
<1>1. /\ c \in Holders /\ ~Submitting(c) /\ b \in Buffer
      /\ i \in 0 .. BufferSize - 1
      /\ t = SlotAt(b, i) /\ slot \in Slot
      /\ t \in Own(c) /\ t \in Request
      /\ request_status[t] = "READY"
      /\ request_status'[t] = "FREED"
      /\ \A q \in Request : q # t => request_status'[q] = request_status[q]
      /\ buffer'[b].data = [buffer[b].data EXCEPT ![slot] = NULL]
      /\ buffer'[b].next_free_slot = buffer[b].next_free_slot
      /\ buffer'[b].count = n
      /\ buffer'[b].next_data_slot = buffer[b].next_data_slot
      /\ buffer'[b].next_data_out = buffer[b].next_data_out
  BY CollectFacts
<1>2. /\ UNCHANGED <<buffer_id, batch_size, pc>> /\ j'[c] = i + 1 /\ i < batch_size[c]
      /\ Line' = Line
  BY LineApart DEF ReleaseTask, schedVars, IInv, TypeOK, ClientTypeOK
<1>3. \A q \in Request : Flying(q)' <=> Flying(q)
  BY DEF ReleaseTask, deviceVars, Flying
<1>4. QueueOK(c) /\ ClearedOK(c) /\ CollectOK(c)
  BY <1>1 DEF PipelineInv, HoldersOK
<1>5. /\ buffer[b].next_data_slot \in Slot /\ buffer[b].next_data_out \in Slot
      /\ buffer[b].data \in [Slot -> Pointer]
      /\ batch_size[c] \in Nat /\ n \in 0 .. BufferSize /\ i \in Nat /\ BufferSize \in Nat
  BY <1>1, HolderFacts, OffloadAssumption
<1>6. ~Submitting(c)' /\ Limit(c) = batch_size[c] /\ Limit(c)' = batch_size[c]
      /\ Collected(c) = i /\ Collected(c)' = i + 1
  BY <1>1, <1>2 DEF Limit, Collected, Submitting
<1>7. t # NULL /\ slot = Advance(buffer[b].next_data_out, i) /\ t = buffer[b].data[slot]
  BY <1>1, OwnFacts DEF OutSlot, Task
<1>. HIDE DEF t, slot, i, n
<1>8. ASSUME NEW k \in 0 .. n - 1
      PROVE  QueueAt(b, k)' = QueueAt(b, k) /\ QueueAt(b, k) # t
  <2>1. QueueAt(b, k) # t
    BY <1>1, <1>4, QueuedFacts DEF n
  <2>2. Advance(buffer[b].next_data_slot, k) \in Slot
    <3>1. k \in 0 .. BufferSize
      BY <1>5
    <3>. QED  BY <1>5, <3>1, AdvanceFacts
  <2>3. Advance(buffer[b].next_data_slot, k) # slot
    BY <1>7, <2>1 DEF QueueAt
  <2>. QED  BY <1>1, <1>2, <1>5, <2>1, <2>2, <2>3 DEF QueueAt
<1>9. ASSUME NEW k \in 0 .. BufferSize - 1
      PROVE  SlotAt(b, k)' = IF k = i THEN NULL ELSE SlotAt(b, k)
  <2>1. Advance(buffer[b].next_data_out, k) \in Slot
    <3>1. k \in 0 .. BufferSize
      BY <1>5
    <3>. QED  BY <1>5, <3>1, AdvanceFacts
  <2>2. Advance(buffer[b].next_data_out, k) = slot <=> k = i
    <3>1. Advance(buffer[b].next_data_out, k) = Advance(buffer[b].next_data_out, i) => k = i
      BY <1>1, <1>5, AdvanceFacts
    <3>. QED  BY <1>7, <3>1
  <2>. QED  BY <1>1, <1>2, <1>5, <2>1, <2>2 DEF SlotAt
<1>10. QueueOK(c)'
  <2>1. \A s \in Slot : buffer'[b].data[s] \in Own(c) \cup {NULL}
    BY <1>1, <1>4, <1>5 DEF QueueOK
  <2>2. ASSUME NEW k \in 0 .. n - 1
        PROVE  /\ QueueAt(b, k)' # NULL
               /\ request_status'[QueueAt(b, k)'] = "SUCCESS"
               /\ ~Flying(QueueAt(b, k))'
               /\ \A l \in 0 .. k - 1 : QueueAt(b, l)'[2] < QueueAt(b, k)'[2]
               /\ \A l \in DOMAIN Line : Line[l][1] = c => Line[l][2] < QueueAt(b, k)'[2]
    <3>1. QueueAt(b, k)' = QueueAt(b, k) /\ QueueAt(b, k) # t
      BY <1>8
    <3>2. /\ QueueAt(b, k) \in Request /\ request_status[QueueAt(b, k)] = "SUCCESS"
          /\ ~Flying(QueueAt(b, k))
      BY <1>1, <1>4, QueuedFacts DEF n
    <3>3. ~Flying(QueueAt(b, k))'
      BY <1>3, <3>1, <3>2 DEF Flying
    <3>4. request_status'[QueueAt(b, k)'] = "SUCCESS"
      BY <1>1, <3>1, <3>2
    <3>5. /\ QueueAt(b, k) # NULL
          /\ \A l \in 0 .. k - 1 : QueueAt(b, l)[2] < QueueAt(b, k)[2]
          /\ \A l \in DOMAIN Line : Line[l][1] = c => Line[l][2] < QueueAt(b, k)[2]
      BY <1>4 DEF QueueOK, n
    <3>6. \A l \in 0 .. k - 1 : QueueAt(b, l)' = QueueAt(b, l)
      BY <1>5, <1>8
    <3>. QED  BY <3>1, <3>3, <3>4, <3>5, <3>6
  <2>3. buffer'[b].next_free_slot = Advance(buffer'[b].next_data_slot, buffer'[b].count)
    BY <1>1, <1>4 DEF QueueOK, n
  <2>. QED  BY <1>1, <1>2, <2>1, <2>2, <2>3 DEF QueueOK
<1>11. ClearedOK(c)'
  <2>1. ASSUME NEW k \in 0 .. i
        PROVE  k < BufferSize /\ SlotAt(b, k)' = NULL
    <3>1. k \in 0 .. BufferSize - 1 /\ k < BufferSize
      BY <1>1, <1>5
    <3>2. k # i => SlotAt(b, k) = NULL
      <4>1. k # i => k \in 0 .. i - 1
        BY <1>5
      <4>. QED  BY <1>1, <1>4, <4>1 DEF ClearedOK, i
    <3>. QED  BY <1>9, <3>1, <3>2
  <2>2. j'[c] - 1 = i
    BY <1>2, <1>5
  <2>. QED  BY <1>2, <2>1, <2>2 DEF ClearedOK
<1>12. CollectOK(c)'
  <2>. SUFFICES ASSUME batch_size[c] <= BufferSize, NEW m \in i .. batch_size[c], Filled(c, m)
                PROVE  m \in i + 1 .. batch_size[c] /\ Filled(c, m)'
    BY <1>2, <1>4, <1>6 DEF CollectOK
  <2>1. /\ n <= m - i
        /\ buffer[b].next_data_slot = Advance(buffer[b].next_data_out, m - n)
        /\ \A k \in 0 .. BufferSize - 1 : SlotAt(b, k) # NULL <=> k \in i .. m - 1
        /\ \A r \in Own(c) : request_status[r] # "FREED" =>
              \E k \in i .. m - 1 : SlotAt(b, k) = r
    BY <1>6 DEF Filled, n
  <2>2. m \in Nat /\ i < m /\ m <= BufferSize
    BY <1>1, <1>5, <1>7, <2>1
  <2>3. n # m - i
    <3>. SUFFICES ASSUME n = m - i
                  PROVE  FALSE
      OBVIOUS
    <3>1. m - n = i /\ 0 \in 0 .. n - 1
      BY <1>5, <2>2
    <3>2. QueueAt(b, 0) = buffer[b].data[buffer[b].next_data_slot]
      BY <1>5, AdvanceFacts DEF QueueAt
    <3>3. QueueAt(b, 0) = t
      BY <1>7, <2>1, <3>1, <3>2
    <3>. QED  BY <1>8, <3>1, <3>3
  <2>4. n <= m - (i + 1) /\ m \in i + 1 .. batch_size[c]
    BY <1>5, <2>1, <2>2, <2>3
  <2>5. ASSUME NEW k \in 0 .. BufferSize - 1
        PROVE  SlotAt(b, k)' # NULL <=> k \in i + 1 .. m - 1
    <3>1. SlotAt(b, k) # NULL <=> k \in i .. m - 1
      BY <2>1
    <3>2. k \in i + 1 .. m - 1 <=> (k \in i .. m - 1 /\ k # i)
      BY <1>5, <2>2
    <3>. QED  BY <1>9, <3>1, <3>2
  <2>6. ASSUME NEW r \in Own(c), request_status'[r] # "FREED"
        PROVE  \E k \in i + 1 .. m - 1 : SlotAt(b, k)' = r
    <3>1. r \in Request /\ r # t
      BY <1>1, <2>6, OwnFacts
    <3>2. PICK k \in i .. m - 1 : SlotAt(b, k) = r
      BY <1>1, <2>1, <2>6, <3>1
    <3>3. k # i
      BY <1>1, <3>1, <3>2
    <3>4. k \in i + 1 .. m - 1 /\ k \in 0 .. BufferSize - 1
      BY <1>5, <2>2, <3>3
    <3>. QED  BY <1>9, <3>2, <3>3, <3>4
  <2>. QED  BY <1>1, <1>2, <1>6, <2>1, <2>4, <2>5, <2>6 DEF Filled
<1>13. ASSUME NEW q \in Request, QueuedFor(c, q)
       PROVE  QueuedFor(c, q)'
  <2>1. PICK k \in 0 .. n - 1 : QueueAt(b, k) = q
    BY <1>13 DEF QueuedFor, n
  <2>. QED  BY <1>1, <1>2, <1>8, <2>1 DEF QueuedFor
<1>. QED  BY <1>10, <1>11, <1>12, <1>13

LEMMA CollectStep ==
    ASSUME IInv, PipelineInv, NEW c \in Clients, ReleaseTask(c)
    PROVE  FreeBufferClean' /\ HoldersOK' /\ StatusOK' /\ LineOK' /\ FlightOK' /\ FoundOK'
<1>. DEFINE b == buffer_id[c]
            t == Task(c)
<1>1. /\ c \in Holders /\ ~Submitting(c) /\ b \in Buffer /\ ~free_buffer[b]
      /\ t \in Own(c) /\ t \in Request
      /\ request_status[t] = "READY"
      /\ request_status'[t] = "FREED"
      /\ \A q \in Request : q # t => request_status'[q] = request_status[q]
      /\ \A x \in Buffer : x # b => buffer'[x] = buffer[x]
  BY CollectFacts
<1>2. /\ UNCHANGED <<buffer_id, batch_size, pc, device, callback, free_buffer>>
      /\ Line' = Line /\ \A d \in Clients : d # c => j'[d] = j[d]
  BY LineApart DEF ReleaseTask, deviceVars, reservationVars, schedVars, IInv, TypeOK, ClientTypeOK
<1>3. Holders' = Holders /\ \A d \in Holders : d # c => Kept(d)
  BY <1>2 DEF Holders, Kept, Submitting
<1>4. QueueOK(c)' /\ ClearedOK(c)' /\ CollectOK(c)'
  BY CollectHolder
<1>5. \A q \in Request : QueuedFor(c, q) => QueuedFor(c, q)'
  BY CollectHolder
<1>. HIDE DEF t
<1>6. FlightOK' /\ \A q \in Request : Flying(q)' <=> Flying(q)
  BY <1>1, <1>2, OthersFly
<1>7. \A q \in Request : request_status'[q] # "FREED" => request_status'[q] = request_status[q]
  BY <1>1
<1>8. FreeBufferClean'
  <2>1. \A x \in Buffer : free_buffer'[x] => free_buffer[x] /\ buffer'[x] = buffer[x]
    BY <1>1, <1>2
  <2>2. FreeBufferClean
    BY DEF PipelineInv
  <2>. QED  BY <2>1, <2>2 DEF FreeBufferClean
<1>9. ASSUME NEW d \in Holders, d # c
      PROVE  /\ buffer'[buffer_id[d]] = buffer[buffer_id[d]]
             /\ \A q \in Own(d) : q \in Request /\ q # t
  <2>1. buffer_id[d] \in Buffer /\ buffer_id[d] # b /\ d \in Clients
    BY <1>1, <1>9, HolderFacts DEF IInv, BufferExclusive
  <2>2. \A q \in Own(d) : q \in Request /\ q # t
    BY <1>1, <1>9, <2>1, OwnFacts
  <2>. QED  BY <1>1, <2>1, <2>2
<1>10. HoldersOK'
  <2>. SUFFICES ASSUME NEW d \in Holders, d # c
                PROVE  QueueOK(d)' /\ ClearedOK(d)' /\ CollectOK(d)'
    BY <1>3, <1>4 DEF HoldersOK
  <2>1. QueueOK(d) /\ ClearedOK(d) /\ CollectOK(d)
    BY DEF PipelineInv, HoldersOK
  <2>2. ASSUME NEW q \in Request, QueuedFor(d, q)
        PROVE  request_status'[q] = request_status[q] /\ (Flying(q)' => Flying(q))
    <3>1. request_status[q] = "SUCCESS"
      BY <2>1, <2>2, QueuedFacts DEF QueuedFor
    <3>. QED  BY <1>1, <1>6, <3>1
  <2>3. \A q \in Own(d) : request_status'[q] # "FREED" => request_status[q] # "FREED"
    BY <1>1, <1>9
  <2>4. \A l \in DOMAIN Line' : \E k \in DOMAIN Line : Line'[l] = Line[k]
    BY <1>2
  <2>. QED  BY <1>3, <1>9, <2>1, <2>2, <2>3, <2>4, HolderApart DEF Kept
<1>11. StatusOK'
  <2>1. \A d \in Holders : Limit(d)' = Limit(d)
    BY <1>1, <1>2, <1>3 DEF Kept, Limit, Submitting
  <2>. QED  BY <1>3, <1>7, <2>1 DEF PipelineInv, StatusOK
<1>12. LineOK'
  <2>1. \A l \in DOMAIN Line : Line[l] \in Request /\ Line[l] # t
    BY <1>1 DEF PipelineInv, LineOK
  <2>. QED  BY <1>1, <1>2, <1>6, <2>1 DEF PipelineInv, LineOK
<1>13. FoundOK'
  <2>. SUFFICES ASSUME "response" \notin Faults,
                       NEW q \in Request, request_status'[q] = "SUCCESS"
                PROVE  \/ Flying(q)'
                       \/ \E l \in DOMAIN Line' : Line'[l] = q
                       \/ \E d \in Holders' : QueuedFor(d, q)'
    BY DEF FoundOK
  <2>1. \/ Flying(q)
        \/ \E l \in DOMAIN Line : Line[l] = q
        \/ \E d \in Holders : QueuedFor(d, q)
    BY <1>7 DEF PipelineInv, FoundOK
  <2>2. ASSUME NEW d \in Holders, d # c, QueuedFor(d, q)
        PROVE  QueuedFor(d, q)'
    BY <1>2, <1>9, <2>2 DEF QueuedFor, QueueAt
  <2>. QED  BY <1>2, <1>3, <1>5, <1>6, <2>1, <2>2
<1>. QED  BY <1>6, <1>8, <1>10, <1>11, <1>12, <1>13

-----------------------------------------------------------------------------
(* A caller gives its buffer back.                                         *)

\* It has collected its whole batch, each request from the slot it was stored in:
\* the ring is empty, and the cursors meet where the caller stopped.
LEMMA ReleasedBuffer ==
    ASSUME IInv, PipelineInv, NEW c \in Clients, ReleaseBuffer(c)
    PROVE  LET b == buffer_id[c]
           IN  /\ c \in Holders /\ b \in Buffer
               /\ buffer[b].count = 0
               /\ \A s \in Slot : buffer[b].data[s] = NULL
               /\ buffer[b].next_free_slot = buffer[b].next_data_slot
               /\ buffer[b].next_data_slot = OutSlot(c)
               /\ \A r \in Own(c) : request_status[r] = "FREED"
<1>. DEFINE b == buffer_id[c]
<1>1. c \in Holders /\ ~Submitting(c) /\ j[c] = batch_size[c]
  BY DEF ReleaseBuffer, Holders, Submitting
<1>2. Limit(c) = j[c] /\ Collected(c) = j[c]
  BY <1>1 DEF Limit, Collected
<1>3. /\ b \in Buffer /\ j[c] \in Nat
      /\ buffer[b].count \in 0 .. BufferSize /\ BufferSize \in Nat \ {0}
      /\ buffer[b].next_data_slot \in Slot /\ buffer[b].next_data_out \in Slot
  BY <1>1, HolderFacts, OffloadAssumption
<1>4. QueueOK(c) /\ ClearedOK(c) /\ CollectOK(c)
  BY <1>1 DEF PipelineInv, HoldersOK
<1>5. j[c] <= BufferSize
  <2>1. CASE j[c] = 0
    BY <1>3, <2>1
  <2>2. CASE j[c] # 0
    <3>1. j[c] - 1 \in 0 .. j[c] - 1
      BY <1>3, <2>2
    <3>2. j[c] - 1 < BufferSize
      BY <1>1, <1>4, <3>1 DEF ClearedOK
    <3>. QED  BY <1>3, <3>2
  <2>. QED  BY <2>1, <2>2
<1>6. Filled(c, j[c])
  <2>1. \A n \in j[c] .. j[c] : n = j[c]
    BY <1>3
  <2>. QED  BY <1>1, <1>2, <1>4, <1>5, <2>1 DEF CollectOK
<1>7. j[c] - j[c] = 0 /\ j[c] .. j[c] - 1 = {} /\ j[c] - 0 = j[c]
  BY <1>3
<1>8. buffer[b].count = 0
  <2>1. buffer[b].count <= j[c] - j[c]
    BY <1>2, <1>6 DEF Filled
  <2>. QED  BY <1>3, <1>7, <2>1
<1>9. buffer[b].next_data_slot = OutSlot(c)
  BY <1>6, <1>7, <1>8 DEF Filled, OutSlot
<1>10. buffer[b].next_free_slot = buffer[b].next_data_slot
  BY <1>3, <1>4, <1>8, AdvanceFacts DEF QueueOK
<1>11. ASSUME NEW s \in Slot
       PROVE  buffer[b].data[s] = NULL
  <2>1. PICK k \in 0 .. BufferSize - 1 : s = Advance(buffer[b].next_data_out, k)
    BY <1>3, AdvanceFacts
  <2>2. SlotAt(b, k) = NULL
    BY <1>2, <1>6, <1>7 DEF Filled
  <2>. QED  BY <2>1, <2>2 DEF SlotAt
<1>12. \A r \in Own(c) : request_status[r] = "FREED"
  BY <1>2, <1>6, <1>7 DEF Filled
<1>. QED  BY <1>1, <1>3, <1>8, <1>9, <1>10, <1>11, <1>12

LEMMA ReleaseStep ==
    ASSUME IInv, PipelineInv, NEW c \in Clients, ReleaseBuffer(c)
    PROVE  FreeBufferClean' /\ HoldersOK' /\ StatusOK' /\ LineOK' /\ FlightOK' /\ FoundOK'
<1>. DEFINE b == buffer_id[c]
<1>1. /\ c \in Holders /\ b \in Buffer
      /\ buffer[b].count = 0
      /\ \A s \in Slot : buffer[b].data[s] = NULL
      /\ buffer[b].next_free_slot = buffer[b].next_data_slot
      /\ buffer[b].next_data_slot = OutSlot(c)
      /\ \A r \in Own(c) : request_status[r] = "FREED"
  BY ReleasedBuffer
<1>2. /\ buffer' = [buffer EXCEPT ![b].next_data_out = OutSlot(c)]
      /\ free_buffer' = [free_buffer EXCEPT ![b] = TRUE]
      /\ UNCHANGED <<device, callback, request_status>>
      /\ Line' = Line
  BY LineApart DEF ReleaseBuffer, NextBatchOut, deviceVars, requestVars, schedVars
<1>3. ClientTypeOK /\ buffer \in [Buffer -> RequestBuffer] /\ free_buffer \in [Buffer -> BOOLEAN]
  BY DEF IInv, TypeOK, ReservationTypeOK
<1>4. Holders' = Holders \ {c} /\ \A d \in Holders : d # c => Kept(d)
  <2>1. /\ pc[c] = "release"
        /\ buffer_id' = [buffer_id EXCEPT ![c] = NULL]
        /\ batch_size' = [batch_size EXCEPT ![c] = 0]
        /\ j' = [j EXCEPT ![c] = 0]
    BY DEF ReleaseBuffer
  <2>2. pc' \in Signal([pc EXCEPT ![c] = "idle"], At("acquire_wait"), "acquire")
    BY DEF ReleaseBuffer, WaitingForBuffer
  <2>3. \/ pc' = [pc EXCEPT ![c] = "idle"]
        \/ \E w \in At("acquire_wait") : pc' = [[pc EXCEPT ![c] = "idle"] EXCEPT ![w] = "acquire"]
    BY <2>2, Zenon DEF Signal
  <2>4. CASE pc' = [pc EXCEPT ![c] = "idle"]
    BY <1>3, <2>1, <2>4 DEF ClientTypeOK, Holders, Kept, Submitting
  <2>5. CASE \E w \in At("acquire_wait") : pc' = [[pc EXCEPT ![c] = "idle"] EXCEPT ![w] = "acquire"]
    <3>1. PICK w \in At("acquire_wait") : pc' = [[pc EXCEPT ![c] = "idle"] EXCEPT ![w] = "acquire"]
      BY <2>5
    <3>2. w \in Clients /\ pc[w] = "acquire_wait" /\ w # c
      BY <2>1 DEF At
    <3>3. /\ pc'[c] = "idle" /\ pc'[w] = "acquire"
          /\ \A d \in Clients : d # c /\ d # w => pc'[d] = pc[d]
      BY <1>3, <3>1, <3>2 DEF ClientTypeOK
    <3>4. Holders' = Holders \ {c}
      BY <3>2, <3>3 DEF Holders
    <3>5. \A d \in Holders : d # c => Kept(d)
      BY <1>3, <2>1, <3>2, <3>3 DEF ClientTypeOK, Holders, Kept, Submitting
    <3>. QED  BY <3>4, <3>5
  <2>. QED  BY <2>3, <2>4, <2>5
<1>5. FlightOK' /\ \A q \in Request : Flying(q)' <=> Flying(q)
  BY <1>2, OthersFly
<1>6. \A x \in Buffer : x # b => buffer'[x] = buffer[x] /\ free_buffer'[x] = free_buffer[x]
  BY <1>2, <1>3
<1>7. FreeBufferClean'
  <2>1. FreeBufferClean
    BY DEF PipelineInv
  <2>2. /\ buffer'[b].count = 0
        /\ \A s \in Slot : buffer'[b].data[s] = NULL
        /\ buffer'[b].next_free_slot = buffer'[b].next_data_slot
        /\ buffer'[b].next_data_slot = buffer'[b].next_data_out
    BY <1>1, <1>2, <1>3 DEF RequestBuffer
  <2>. QED  BY <1>6, <2>1, <2>2 DEF FreeBufferClean
<1>8. HoldersOK'
  <2>. SUFFICES ASSUME NEW d \in Holders, d # c
                PROVE  QueueOK(d)' /\ ClearedOK(d)' /\ CollectOK(d)'
    BY <1>4 DEF HoldersOK
  <2>1. QueueOK(d) /\ ClearedOK(d) /\ CollectOK(d)
    BY DEF PipelineInv, HoldersOK
  <2>2. buffer'[buffer_id[d]] = buffer[buffer_id[d]]
    BY <1>1, <1>6 DEF IInv, BufferExclusive
  <2>3. \A l \in DOMAIN Line' : \E k \in DOMAIN Line : Line'[l] = Line[k]
    BY <1>2
  <2>. QED  BY <1>2, <1>4, <1>5, <2>1, <2>2, <2>3, HolderApart DEF Kept
<1>9. StatusOK'
  <2>1. \A d \in Holders : d # c => Limit(d)' = Limit(d)
    BY <1>4 DEF Kept, Limit
  <2>2. ASSUME NEW r \in Request, request_status'[r] # "FREED"
        PROVE  r[1] \in Holders' /\ r[2] < Limit(r[1])'
    <3>1. r[1] \in Holders /\ r[2] < Limit(r[1]) /\ r[1] # c
      BY <1>1, <1>2, <2>2, RequestFacts DEF PipelineInv, StatusOK
    <3>. QED  BY <1>4, <2>1, <3>1
  <2>. QED  BY <2>2 DEF StatusOK
<1>10. LineOK'
  <2>1. \A l \in DOMAIN Line : Line[l] \in Request
    BY DEF PipelineInv, LineOK
  <2>. QED  BY <1>2, <1>5, <2>1 DEF PipelineInv, LineOK
<1>11. FoundOK'
  <2>1. \A q \in Request : ~QueuedFor(c, q)
    BY <1>1 DEF QueuedFor
  <2>2. ASSUME NEW d \in Holders, d # c, NEW q \in Request, QueuedFor(d, q)
        PROVE  QueuedFor(d, q)'
    <3>1. buffer'[buffer_id[d]] = buffer[buffer_id[d]]
      BY <1>1, <1>6, <2>2 DEF IInv, BufferExclusive
    <3>. QED  BY <1>4, <2>2, <3>1 DEF QueuedFor, QueueAt, Kept
  <2>. QED  BY <1>2, <1>4, <1>5, <2>1, <2>2 DEF PipelineInv, FoundOK
<1>. QED  BY <1>5, <1>7, <1>8, <1>9, <1>10, <1>11

-----------------------------------------------------------------------------
(* The invariant, and what follows from it.                                *)

LEMMA ListsEmptyStep ==
    ASSUME IInv, PipelineInv, [Next]_vars
    PROVE  ListsEmpty'
<1>. USE DEF ListsEmpty
<1>1. ListsEmpty /\ ChosenBufferHasData
  BY DEF PipelineInv
<1>2. CASE UNCHANGED vars
  BY <1>1, <1>2 DEF vars, schedVars, runnerVars
<1>3. ASSUME NEW c \in Clients, Call(c) \/ ClientStep(c) \/ SpuriousClient(c)
      PROVE  ListsEmpty'
  <2>1. CASE Submit(c)
    BY <1>1, <2>1 DEF Submit, Resume, runnerVars
  <2>2. CASE Acquire(c)
    BY <1>1, <2>2 DEF Acquire, Resume, runnerVars
  <2>3. CASE ~Submit(c) /\ ~Acquire(c)
    <3>1. UNCHANGED <<schedVars, runnerVars>>
      BY <1>3, <2>3 DEF ClientStep, Call, AcquireWaits, SubmitWaits, SubmitFails,
           ReleaseWaits, ReleaseTask, ReleaseBuffer, SpuriousClient
    <3>. QED  BY <1>1, <3>1 DEF schedVars, runnerVars
  <2>. QED  BY <2>1, <2>2, <2>3
<1>4. CASE Pull \/ Scan \/ ForwardWaits
  BY <1>1, <1>4 DEF Pull, Scan, ForwardWaits, runnerVars
<1>5. CASE Extract
  BY <1>1, <1>5, ExtractFacts DEF Extract, runnerVars
<1>6. CASE Forward
  BY <1>1, <1>6 DEF Forward, Resume
<1>7. CASE Read
  <2>1. /\ max_requests \in Nat /\ max_requests > 0 /\ he_qat_buffer \in Seq(Pointer)
        /\ he_qat_buffer # <<>>
    BY <1>7 DEF Read, IInv, TypeOK, RunnerTypeOK, ListsOK
  <2>2. Len(he_qat_buffer) \in Nat \ {0}
    BY <2>1, EmptySeq
  <2>3. Smaller(Len(he_qat_buffer), max_requests) # 0
    BY <2>1, <2>2 DEF Smaller
  <2>. QED  BY <1>1, <1>7, <2>3 DEF Read, Resume
<1>8. CASE Throttle \/ ReadWaits \/ Offload \/ OffloadRetry
  BY <1>1, <1>8 DEF Throttle, ReadWaits, Offload, OffloadRetry, schedVars
<1>9. CASE CountRequest \/ OffloadFails
  BY <1>1, <1>9 DEF CountRequest, OffloadFails, NextOffload, schedVars
<1>10. ASSUME NEW i \in Instance, PollingStep(i)
       PROVE  ListsEmpty'
  BY <1>1, <1>10 DEF PollingStep, Respond, Complete, schedVars, runnerVars
<1>11. CASE SpuriousThread
  BY <1>1, <1>11 DEF SpuriousThread
<1>. QED
  BY <1>2, <1>3, <1>4, <1>5, <1>6, <1>7, <1>8, <1>9, <1>10, <1>11
     DEF Next, SchedulerStep, RunnerStep

LEMMA ChosenStep ==
    ASSUME IInv, PipelineInv, [Next]_vars
    PROVE  ChosenBufferHasData'
<1>. USE DEF ChosenBufferHasData
<1>1. ChosenBufferHasData /\ index \in Buffer /\ ready_buffer \in [Buffer -> BOOLEAN]
  BY DEF PipelineInv, IInv, TypeOK, SchedulerTypeOK, ReservationTypeOK
<1>2. CASE UNCHANGED vars
  BY <1>1, <1>2 DEF vars, schedVars, reservationVars
<1>3. ASSUME NEW c \in Clients, Acquire(c) PROVE ChosenBufferHasData'
  BY <1>1, <1>3 DEF Acquire, Resume
<1>4. ASSUME NEW c \in Clients, Submit(c) PROVE ChosenBufferHasData'
  <2>1. /\ index' = index /\ ready_buffer' = ready_buffer
        /\ sched' # "extract_wait"
        /\ sched' = "extract" => sched = "extract"
    BY <1>1, <1>4 DEF Submit, Resume, reservationVars
  <2>2. buffer[index].count > 0 => buffer'[index].count > 0
    <3>1. /\ buffer[buffer_id[c]].count \in 0 .. BufferSize - 1
          /\ buffer'[buffer_id[c]].count = buffer[buffer_id[c]].count + 1
          /\ \A x \in Buffer : x # buffer_id[c] => buffer'[x] = buffer[x]
      BY <1>4, SubmitFacts
    <3>2. buffer'[buffer_id[c]].count > 0
      BY <3>1, OffloadAssumption
    <3>. QED  BY <1>1, <3>1, <3>2
  <2>. QED  BY <1>1, <2>1, <2>2
<1>5. ASSUME NEW c \in Clients, ReleaseTask(c) PROVE ChosenBufferHasData'
  <2>1. /\ buffer'[buffer_id[c]].count = buffer[buffer_id[c]].count
        /\ \A x \in Buffer : x # buffer_id[c] => buffer'[x] = buffer[x]
    BY <1>5, CollectFacts
  <2>2. buffer'[index].count = buffer[index].count
    BY <1>1, <2>1
  <2>. QED  BY <1>1, <1>5, <2>2 DEF ReleaseTask, schedVars, reservationVars
<1>6. ASSUME NEW c \in Clients, ReleaseBuffer(c) PROVE ChosenBufferHasData'
  <2>1. sched = "extract" => index # buffer_id[c]
    BY <1>1, <1>6, ReleasedBuffer
  <2>2. index' = index /\ sched' = sched
    BY <1>6 DEF ReleaseBuffer, schedVars
  <2>3. index # buffer_id[c] => buffer'[index] = buffer[index] /\ ready_buffer'[index] = ready_buffer[index]
    BY <1>1, <1>6 DEF ReleaseBuffer, IInv, TypeOK
  <2>. QED  BY <1>1, <2>1, <2>2, <2>3
<1>7. ASSUME NEW c \in Clients,
             \/ Call(c) \/ AcquireWaits(c) \/ SubmitWaits(c) \/ SubmitFails(c)
             \/ ReleaseWaits(c) \/ SpuriousClient(c)
      PROVE  ChosenBufferHasData'
  BY <1>1, <1>7 DEF Call, AcquireWaits, SubmitWaits, SubmitFails, ReleaseWaits,
       SpuriousClient, schedVars, reservationVars
<1>8. CASE Pull
  BY <1>1, <1>8 DEF Pull
<1>9. CASE Scan
  <2>1. buffer[index].count \in Nat
    BY <1>1, OffloadAssumption DEF IInv, TypeOK, RequestBuffer
  <2>. QED  BY <1>1, <1>9, <2>1 DEF Scan, HasRequests, reservationVars
<1>10. CASE Extract
  BY <1>10, ExtractFacts
<1>11. CASE ForwardWaits \/ Forward
  BY <1>1, <1>11 DEF ForwardWaits, Forward
<1>12. CASE RunnerStep
  BY <1>1, <1>12 DEF RunnerStep, Throttle, ReadWaits, Read, Offload, CountRequest,
       OffloadFails, OffloadRetry, Resume, schedVars, reservationVars
<1>13. ASSUME NEW i \in Instance, PollingStep(i)
       PROVE  ChosenBufferHasData'
  BY <1>1, <1>13 DEF PollingStep, Respond, Complete, schedVars, reservationVars
<1>14. CASE SpuriousThread
  BY <1>1, <1>14 DEF SpuriousThread, reservationVars
<1>. QED
  BY <1>2, <1>3, <1>4, <1>5, <1>6, <1>7, <1>8, <1>9, <1>10, <1>11, <1>12, <1>13, <1>14
     DEF Next, ClientStep, SchedulerStep

LEMMA PipelineInit ==
    ASSUME Init
    PROVE  PipelineInv
<1>1. ListsEmpty /\ ChosenBufferHasData
  BY DEF Init, ListsEmpty, ChosenBufferHasData
<1>2. FreeBufferClean
  BY DEF Init, FreeBufferClean, EmptyBuffer
<1>3. Holders = {}
  BY DEF Init, Holders
<1>4. HoldersOK
  BY <1>3 DEF HoldersOK
<1>5. Line = <<>>
  <2>1. Line = (<<>> \o <<>>) \o <<>>
    BY DEF Init, Line, Unsent
  <2>2. <<>> \in Seq(Request)
    BY EmptySeq
  <2>. QED  BY <2>1, <2>2, ConcatEmptySeq
<1>6. LineOK
  BY <1>5, EmptySeq DEF LineOK
<1>7. \A r \in Request : request_status[r] = "FREED" /\ ~Flying(r)
  BY NullAssumption DEF Init, Flying
<1>8. StatusOK /\ FoundOK
  BY <1>7 DEF StatusOK, FoundOK
<1>9. FlightOK
  BY <1>7 DEF FlightOK, Init
<1>. QED  BY <1>1, <1>2, <1>4, <1>6, <1>8, <1>9 DEF PipelineInv

LEMMA PipelineStep ==
    ASSUME IInv, PipelineInv, [Next]_vars
    PROVE  PipelineInv'
<1>1. ListsEmpty' /\ ChosenBufferHasData'
  BY ListsEmptyStep, ChosenStep
<1>. DEFINE Rest == /\ FreeBufferClean' /\ HoldersOK' /\ StatusOK'
                    /\ LineOK' /\ FlightOK' /\ FoundOK'
<1>2. ASSUME UNCHANGED vars PROVE Rest
  BY <1>2, QuietSteps
<1>3. ASSUME NEW c \in Clients,
             Call(c) \/ AcquireWaits(c) \/ SubmitWaits(c) \/ ReleaseWaits(c) \/ SpuriousClient(c)
      PROVE  Rest
  BY <1>3, QuietSteps
<1>4. ASSUME NEW c \in Clients, Acquire(c) PROVE Rest
  BY <1>4, AcquireStep
<1>5. ASSUME NEW c \in Clients, Submit(c) PROVE Rest
  BY <1>5, SubmitStep
<1>6. ASSUME NEW c \in Clients, SubmitFails(c) PROVE Rest
  BY <1>6, SubmitFailsStep
<1>7. ASSUME NEW c \in Clients, ReleaseTask(c) PROVE Rest
  BY <1>7, CollectStep
<1>8. ASSUME NEW c \in Clients, ReleaseBuffer(c) PROVE Rest
  BY <1>8, ReleaseStep
<1>9. ASSUME Extract PROVE Rest
  BY <1>9, ExtractStep
<1>10. ASSUME Pull \/ Scan \/ ForwardWaits \/ Forward \/ Throttle \/ ReadWaits
              \/ Read \/ CountRequest \/ OffloadRetry \/ SpuriousThread
       PROVE  Rest
  BY <1>10, QuietSteps
<1>11. ASSUME Offload \/ OffloadFails PROVE Rest
  BY <1>11, OffloadStep
<1>12. ASSUME NEW i \in Instance, Respond(i) PROVE Rest
  BY <1>12, QuietSteps
<1>13. ASSUME NEW i \in Instance, Complete(i) PROVE Rest
  BY <1>13, CompleteStep
<1>. HIDE DEF Rest
<1>14. Rest
  BY <1>2, <1>3, <1>4, <1>5, <1>6, <1>7, <1>8, <1>9, <1>10, <1>11, <1>12, <1>13
     DEF Next, ClientStep, SchedulerStep, RunnerStep, PollingStep
<1>. QED  BY <1>1, <1>14 DEF PipelineInv, Rest

\* Requests keep their order and their place from submit_request to the callback,
\* whatever the threads' timing and whatever fails: the invariant that the
\* theorems below are taken from.
THEOREM PipelineInvariant == Spec => []PipelineInv
<1>1. Init => PipelineInv
  BY PipelineInit
<1>2. PipelineInv /\ IInv /\ [Next]_vars => PipelineInv'
  BY PipelineStep
<1>. QED  BY <1>1, <1>2, Invariant, PTL DEF Spec

\* schedule_requests never blocks on a buffer that it chose: between the test of
\* count without the buffer's mutex and the extraction under it, nobody takes the
\* requests away, for any number of callers and buffers.
THEOREM NeverWaitsForData == Spec => []ChosenBufferHasData
<1>1. PipelineInv => ChosenBufferHasData
  BY DEF PipelineInv
<1>. QED  BY <1>1, PipelineInvariant, PTL

\* release_bnModExp_buffer hands a buffer on only when it is empty and its cursors
\* have met, for any batch, even one in which allocations failed or that is larger
\* than the buffer.
THEOREM BufferComesBackClean == Spec => []FreeBufferClean
<1>1. PipelineInv => FreeBufferClean
  BY DEF PipelineInv
<1>. QED  BY <1>1, PipelineInvariant, PTL

-----------------------------------------------------------------------------
(* Where requests are.                                                     *)

\* The requests of an outstanding buffer belong to the caller that holds it.
LEMMA QueueFacts ==
    ASSUME IInv, PipelineInv, NEW b \in Buffer
    PROVE  /\ Queued(b) \in Seq(Pointer) /\ Len(Queued(b)) = buffer[b].count
           /\ DOMAIN Queued(b) = 1 .. buffer[b].count
           /\ \A k \in 1 .. buffer[b].count : Queued(b)[k] = QueueAt(b, k - 1)
           /\ buffer[b].count # 0 => \E c \in Holders : buffer_id[c] = b
<1>1. buffer[b].count \in Nat
  BY OffloadAssumption DEF IInv, TypeOK, RequestBuffer
<1>2. Queued(b) \in Seq(Pointer)
  BY <1>1, StoredType DEF IInv, TypeOK, Queued
<1>3. Queued(b) = [k \in 1 .. buffer[b].count |-> QueueAt(b, k - 1)]
  BY DEF Queued, Stored, QueueAt
<1>4. DOMAIN Queued(b) = 1 .. buffer[b].count /\ Len(Queued(b)) = buffer[b].count
  BY <1>1, <1>2, <1>3, LenProperties
<1>5. buffer[b].count # 0 => ~free_buffer[b]
  BY DEF PipelineInv, FreeBufferClean
<1>6. buffer[b].count # 0 => \E c \in Holders : buffer_id[c] = b
  BY <1>5 DEF IInv, BufferExclusive
<1>. QED  BY <1>2, <1>3, <1>4, <1>6

LEMMA PlacesFacts ==
    ASSUME IInv, PipelineInv, NEW r \in Request, NEW p \in Places(r)
    PROVE  /\ \/ /\ p = <<"queue", buffer_id[r[1]], p[3]>> /\ r[1] \in Holders
                 /\ p[3] - 1 \in 0 .. buffer[buffer_id[r[1]]].count - 1
                 /\ p[3] \in Nat /\ QueueAt(buffer_id[r[1]], p[3] - 1) = r
                 /\ ~Flying(r) /\ \A l \in DOMAIN Line : Line[l] # r
              \/ /\ p = <<"line", 0, p[3]>> /\ p[3] \in DOMAIN Line /\ Line[p[3]] = r
                 /\ ~Flying(r)
              \/ p = <<"device", p[2], 0>> /\ p[2] \in Instance /\ <<p[2], r>> \in device
              \/ p = <<"callback", p[2], 0>> /\ p[2] \in Instance /\ callback[p[2]] = r
           /\ request_status[r] = "SUCCESS"
<1>1. CASE /\ p \in {"queue"} \X Buffer \X (1 .. BufferSize)
           /\ p[3] <= buffer[p[2]].count /\ Queued(p[2])[p[3]] = r
  <2>1. p = <<"queue", p[2], p[3]>> /\ p[2] \in Buffer /\ p[3] \in 1 .. BufferSize
    BY <1>1
  <2>. DEFINE b == p[2]
              k == p[3]
  <2>2. b \in Buffer /\ k \in 1 .. BufferSize /\ k <= buffer[b].count /\ Queued(b)[k] = r
        /\ buffer[b].count \in 0 .. BufferSize
    BY <1>1, <2>1, SlotFacts
  <2>. HIDE DEF b, k
  <2>3. k \in 1 .. buffer[b].count /\ k - 1 \in 0 .. buffer[b].count - 1 /\ k \in Nat
        /\ buffer[b].count # 0
    BY <2>2, OffloadAssumption
  <2>4. PICK c \in Holders : buffer_id[c] = b
    BY <2>2, <2>3, QueueFacts
  <2>5. QueueAt(b, k - 1) = r
    BY <2>2, <2>3, QueueFacts
  <2>6. QueueOK(c) /\ c \in Clients
    BY HolderFacts DEF PipelineInv, HoldersOK
  <2>7. r \in Own(c) /\ request_status[r] = "SUCCESS" /\ ~Flying(r)
    BY <2>3, <2>4, <2>5, <2>6, QueuedFacts
  <2>8. r[1] = c
    BY <2>6, <2>7, OwnFacts
  <2>9. \A l \in DOMAIN Line : Line[l] # r
    BY <2>3, <2>4, <2>5, HeadNotQueued DEF QueuedFor
  <2>. QED  BY <2>1, <2>3, <2>4, <2>5, <2>7, <2>8, <2>9 DEF b, k
<1>2. CASE p \in {"line"} \X {0} \X DOMAIN Line /\ Line[p[3]] = r
  BY <1>2 DEF PipelineInv, LineOK
<1>3. CASE p \in {"device"} \X Instance \X {0} /\ <<p[2], r>> \in device
  BY <1>3 DEF PipelineInv, FlightOK, Flying
<1>4. CASE p \in {"callback"} \X Instance \X {0} /\ callback[p[2]] = r
  BY <1>4 DEF PipelineInv, FlightOK, Flying
<1>. QED  BY <1>1, <1>2, <1>3, <1>4 DEF Places

LEMMA OnePlace ==
    ASSUME IInv, PipelineInv, NEW r \in Request, NEW p \in Places(r), NEW q \in Places(r)
    PROVE  p = q
<1>. DEFINE c == r[1]
            InQueue(x) == /\ x = <<"queue", buffer_id[c], x[3]>> /\ c \in Holders
                          /\ x[3] - 1 \in 0 .. buffer[buffer_id[c]].count - 1
                          /\ x[3] \in Nat /\ QueueAt(buffer_id[c], x[3] - 1) = r
                          /\ ~Flying(r) /\ \A l \in DOMAIN Line : Line[l] # r
            InLine(x) == /\ x = <<"line", 0, x[3]>> /\ x[3] \in DOMAIN Line /\ Line[x[3]] = r
                         /\ ~Flying(r)
            OnDevice(x) == x = <<"device", x[2], 0>> /\ x[2] \in Instance /\ <<x[2], r>> \in device
            InCallback(x) == x = <<"callback", x[2], 0>> /\ x[2] \in Instance /\ callback[x[2]] = r
<1>1. /\ InQueue(p) \/ InLine(p) \/ OnDevice(p) \/ InCallback(p)
      /\ InQueue(q) \/ InLine(q) \/ OnDevice(q) \/ InCallback(q)
  BY PlacesFacts
<1>2. r[2] \in Nat /\ r # NULL
  BY RequestFacts, NullAssumption
<1>3. ASSUME InQueue(p), InQueue(q)
      PROVE  p = q
  <2>1. QueueOK(c)
    BY <1>3 DEF PipelineInv, HoldersOK
  <2>2. ASSUME NEW k \in 0 .. buffer[buffer_id[c]].count - 1, NEW l \in 0 .. k - 1,
               QueueAt(buffer_id[c], k) = r, QueueAt(buffer_id[c], l) = r
        PROVE  FALSE
    BY <1>2, <2>1, <2>2 DEF QueueOK
  <2>3. ~(p[3] - 1 \in 0 .. (q[3] - 1) - 1) /\ ~(q[3] - 1 \in 0 .. (p[3] - 1) - 1)
    BY <1>3, <2>2
  <2>4. p[3] \in Nat /\ q[3] \in Nat /\ p[3] - 1 >= 0 /\ q[3] - 1 >= 0
    <3>1. \A n : \A x \in Nat : x - 1 \in 0 .. n - 1 => x - 1 >= 0
      OBVIOUS
    <3>. QED  BY <1>3, <3>1
  <2>5. p[3] = q[3]
    BY <2>3, <2>4
  <2>. QED  BY <1>3, <2>5
<1>4. ASSUME InLine(p), InLine(q)
      PROVE  p = q
  <2>1. ~(p[3] < q[3]) /\ ~(q[3] < p[3])
    BY <1>2, <1>4 DEF PipelineInv, LineOK
  <2>2. p[3] \in Nat /\ q[3] \in Nat
    <3>1. DOMAIN Line = 1 .. Len(Line) /\ Len(Line) \in Nat
      BY LenProperties DEF PipelineInv, LineOK
    <3>. QED  BY <1>4, <3>1
  <2>3. p[3] = q[3]
    BY <2>1, <2>2
  <2>. QED  BY <1>4, <2>3
<1>5. ASSUME OnDevice(p) \/ InCallback(p), OnDevice(q) \/ InCallback(q)
      PROVE  p = q
  BY <1>2, <1>5 DEF PipelineInv, FlightOK
<1>6. (OnDevice(p) \/ InCallback(p) \/ OnDevice(q) \/ InCallback(q)) => Flying(r)
  BY DEF Flying
<1>7. ~(InQueue(p) /\ InLine(q)) /\ ~(InLine(p) /\ InQueue(q))
  OBVIOUS
<1>8. InQueue(p) \/ InQueue(q) \/ InLine(p) \/ InLine(q) => ~Flying(r)
  OBVIOUS
<1>. HIDE DEF InQueue, InLine, OnDevice, InCallback
<1>. QED  BY <1>1, <1>3, <1>4, <1>5, <1>6, <1>7, <1>8

\* A request is in one place of the pipeline at most: it is offloaded once and
\* answered once, and once the caller may free its memory no thread has a pointer
\* to it.  Unless responses get lost, a request that is not answered is still
\* somewhere.
THEOREM OnePlacePerRequest == Spec => []RequestInOnePlace
<1>1. IInv /\ PipelineInv => RequestInOnePlace
  <2>. SUFFICES ASSUME IInv, PipelineInv, NEW r \in Request
                PROVE  /\ \A p, q \in Places(r) : p = q
                       /\ request_status[r] # "SUCCESS" => Places(r) = {}
                       /\ request_status[r] = "SUCCESS" /\ "response" \notin Faults
                             => Places(r) # {}
    BY DEF RequestInOnePlace
  <2>1. \A p, q \in Places(r) : p = q
    BY OnePlace
  <2>2. \A p \in Places(r) : request_status[r] = "SUCCESS"
    BY PlacesFacts
  <2>3. ASSUME request_status[r] = "SUCCESS", "response" \notin Faults
        PROVE  \E p : p \in Places(r)
    <3>1. CASE \E i \in Instance : <<i, r>> \in device
      <4>1. PICK i \in Instance : <<i, r>> \in device
        BY <3>1
      <4>2. <<"device", i, 0>> \in Places(r)
        BY <4>1 DEF Places
      <4>. QED  BY <4>2
    <3>2. CASE \E i \in Instance : callback[i] = r
      <4>1. PICK i \in Instance : callback[i] = r
        BY <3>2
      <4>2. <<"callback", i, 0>> \in Places(r)
        BY <4>1 DEF Places
      <4>. QED  BY <4>2
    <3>3. CASE \E l \in DOMAIN Line : Line[l] = r
      <4>1. PICK l \in DOMAIN Line : Line[l] = r
        BY <3>3
      <4>2. <<"line", 0, l>> \in Places(r)
        BY <4>1 DEF Places
      <4>. QED  BY <4>2
    <3>4. CASE \E c \in Holders : QueuedFor(c, r)
      <4>1. PICK c \in Holders : QueuedFor(c, r)
        BY <3>4
      <4>. DEFINE b == buffer_id[c]
      <4>2. PICK k \in 0 .. buffer[b].count - 1 : QueueAt(b, k) = r
        BY <4>1 DEF QueuedFor
      <4>3. b \in Buffer /\ buffer[b].count \in 0 .. BufferSize
        BY HolderFacts
      <4>4. /\ k + 1 \in 1 .. BufferSize /\ k + 1 \in 1 .. buffer[b].count
            /\ k + 1 <= buffer[b].count /\ (k + 1) - 1 = k
        BY <4>3, OffloadAssumption
      <4>5. Queued(b)[k + 1] = r
        BY <4>2, <4>3, <4>4, QueueFacts
      <4>6. <<"queue", b, k + 1>> \in Places(r)
        BY <4>3, <4>4, <4>5 DEF Places
      <4>. QED  BY <4>6
    <3>. QED  BY <2>3, <3>1, <3>2, <3>3, <3>4 DEF PipelineInv, FoundOK, Flying
  <2>. QED  BY <2>1, <2>2, <2>3
<1>. QED  BY <1>1, Invariant, PipelineInvariant, PTL

\* The requests of a caller reach the accelerator in the order of its batch, for
\* any number of callers and sizes: the two rings and the three lists between
\* submit_request and cpaCyLnModExp preserve it.
THEOREM InOrder == Spec => []OffloadInOrder
<1>1. IInv /\ PipelineInv => OffloadInOrder
  <2>. SUFFICES ASSUME IInv, PipelineInv, NEW c \in Clients,
                       NEW k \in DOMAIN Pipeline(c), NEW l \in DOMAIN Pipeline(c), k < l,
                       Pipeline(c)[k][1] = c, Pipeline(c)[l][1] = c
                PROVE  Pipeline(c)[k][2] < Pipeline(c)[l][2]
    BY DEF OffloadInOrder
  <2>1. Line \in Seq(Request) /\ DOMAIN Line = 1 .. Len(Line) /\ Len(Line) \in Nat
    BY LenProperties DEF PipelineInv, LineOK
  <2>2. CASE c \notin Holders
    <3>1. Pipeline(c) = Line
      BY <2>1, <2>2, ConcatEmptySeq DEF Pipeline
    <3>. QED  BY <3>1 DEF PipelineInv, LineOK
  <2>3. CASE c \in Holders
    <3>. DEFINE b == buffer_id[c]
                n == buffer[b].count
                m == Len(Line)
    <3>1. b \in Buffer /\ n \in Nat /\ QueueOK(c)
      BY <2>3, HolderFacts, OffloadAssumption DEF PipelineInv, HoldersOK
    <3>2. /\ Queued(b) \in Seq(Pointer) /\ Len(Queued(b)) = n
          /\ \A x \in 1 .. n : Queued(b)[x] = QueueAt(b, x - 1)
      BY <3>1, QueueFacts
    <3>3. Pipeline(c) = Line \o Queued(b)
      BY <2>3 DEF Pipeline
    <3>4. Line \in Seq(Pointer)
      <4>1. Line \in [1 .. m -> Pointer]
        BY <2>1, LenProperties DEF Pointer
      <4>. QED  BY <2>1, <4>1, SeqDef
    <3>. DEFINE q == Queued(b)
    <3>. HIDE DEF n, m, q
    <3>5. /\ Pipeline(c) \in Seq(Pointer) /\ Len(Pipeline(c)) = m + n
          /\ \A x \in 1 .. m + n : Pipeline(c)[x] = IF x <= m THEN Line[x] ELSE q[x - m]
      <4>1. /\ q \in Seq(Pointer) /\ Len(q) = n /\ Pipeline(c) = Line \o q
        BY <3>2, <3>3 DEF q
      <4>2. /\ (Line \o q) \in Seq(Pointer)
            /\ Len(Line \o q) = Len(Line) + Len(q)
            /\ \A x \in 1 .. Len(Line) + Len(q) :
                  (Line \o q)[x] = IF x <= Len(Line) THEN Line[x] ELSE q[x - Len(Line)]
        BY <3>4, <4>1, ConcatProperties
      <4>. QED  BY <4>1, <4>2 DEF m
    <3>6. DOMAIN Pipeline(c) = 1 .. m + n /\ m \in Nat
      BY <2>1, <3>5, LenProperties DEF m
    <3>7. /\ \A x \in 1 .. m : Pipeline(c)[x] = Line[x]
          /\ \A x \in m + 1 .. m + n : Pipeline(c)[x] = QueueAt(b, (x - m) - 1)
      <4>1. ASSUME NEW x \in m + 1 .. m + n
            PROVE  Pipeline(c)[x] = QueueAt(b, (x - m) - 1)
        <5>1. x \in 1 .. m + n /\ ~(x <= m) /\ x - m \in 1 .. n
          BY <3>1, <3>6
        <5>. QED  BY <3>2, <3>5, <5>1 DEF q
      <4>. QED  BY <3>1, <3>5, <3>6, <4>1
    <3>8. CASE l <= m
      <4>1. k \in DOMAIN Line /\ l \in DOMAIN Line
        BY <2>1, <3>6, <3>8 DEF m
      <4>2. Pipeline(c)[k] = Line[k] /\ Pipeline(c)[l] = Line[l]
        BY <2>1, <3>7, <4>1 DEF m
      <4>. QED  BY <4>1, <4>2 DEF PipelineInv, LineOK
    <3>9. CASE ~(l <= m) /\ k <= m
      <4>1. l \in m + 1 .. m + n /\ (l - m) - 1 \in 0 .. n - 1
        BY <3>1, <3>6, <3>9
      <4>2. k \in DOMAIN Line /\ Pipeline(c)[k] = Line[k]
        BY <2>1, <3>6, <3>7, <3>9 DEF m
      <4>3. Pipeline(c)[l] = QueueAt(b, (l - m) - 1)
        BY <3>7, <4>1
      <4>. QED  BY <3>1, <4>1, <4>2, <4>3 DEF QueueOK, n
    <3>10. CASE ~(l <= m) /\ ~(k <= m)
      <4>1. /\ l \in m + 1 .. m + n /\ (l - m) - 1 \in 0 .. n - 1
            /\ k \in m + 1 .. m + n /\ (k - m) - 1 \in 0 .. ((l - m) - 1) - 1
        BY <3>1, <3>6, <3>10
      <4>2. /\ Pipeline(c)[l] = QueueAt(b, (l - m) - 1)
            /\ Pipeline(c)[k] = QueueAt(b, (k - m) - 1)
        BY <3>7, <4>1
      <4>. QED  BY <3>1, <4>1, <4>2 DEF QueueOK, n
    <3>. QED  BY <3>8, <3>9, <3>10
  <2>. QED  BY <2>2, <2>3
<1>. QED  BY <1>1, Invariant, PipelineInvariant, PTL

\* The slot that submit_request writes to is clear when the batch fits in the
\* buffer: no caller has more requests uncollected than there are slots.
LEMMA SubmitSlotClear ==
    ASSUME MaxBatch <= BufferSize, IInv, PipelineInv, NEW c \in Clients, Submit(c)
    PROVE  buffer[buffer_id[c]].data[buffer[buffer_id[c]].next_free_slot] = NULL
<1>. DEFINE b == buffer_id[c]
            n == buffer[b].count
<1>1. /\ c \in Holders /\ j[c] \in 0 .. MaxBatch - 1
      /\ Limit(c) = j[c] /\ Collected(c) = 0 /\ j[c] + 1 <= batch_size[c]
  BY NextRequestFacts DEF Submit
<1>2. /\ buffer[b].next_data_slot \in Slot /\ buffer[b].next_data_out \in Slot
      /\ n \in Nat /\ batch_size[c] \in Nat /\ batch_size[c] <= BufferSize
      /\ BufferSize \in Nat /\ MaxBatch \in Nat
  BY <1>1, HolderFacts, OffloadAssumption
<1>3. QueueOK(c) /\ CollectOK(c)
  BY <1>1 DEF PipelineInv, HoldersOK
<1>. HIDE DEF n
<1>4. PICK m \in 0 .. j[c] : Filled(c, m)
  BY <1>1, <1>2, <1>3 DEF CollectOK
<1>5. /\ m \in Nat /\ n <= m - 0 /\ m \in 0 .. BufferSize - 1
      /\ m - n \in Nat /\ (m - n) + n = m /\ ~(m \in 0 .. m - 1)
  BY <1>1, <1>2, <1>4 DEF Filled, n
<1>6. buffer[b].next_free_slot = Advance(buffer[b].next_data_out, m)
  <2>1. buffer[b].next_data_slot = Advance(buffer[b].next_data_out, m - n)
    BY <1>4 DEF Filled, n
  <2>2. buffer[b].next_free_slot = Advance(buffer[b].next_data_slot, n)
    BY <1>3 DEF QueueOK, n
  <2>. QED  BY <1>2, <1>5, <2>1, <2>2, AdvanceTwice
<1>7. SlotAt(b, m) = NULL
  BY <1>1, <1>4, <1>5 DEF Filled
<1>. QED  BY <1>6, <1>7 DEF SlotAt

\* submit_request never stores a request over one that is still to be collected,
\* although it looks only at count: for every buffer size, as long as a batch is no
\* larger than the buffer, which is how heQatBnModExp_MT slices the work.
THEOREM SlotKept ==
    ASSUME MaxBatch <= BufferSize
    PROVE  Spec => SlotNotOverwritten
<1>. DEFINE Keeps == \A b \in Buffer, s \in Slot :
                buffer[b].data[s] # NULL => buffer'[b].data[s] \in {buffer[b].data[s], NULL}
<1>1. IInv /\ PipelineInv /\ [Next]_vars => [Keeps]_vars
  <2>. SUFFICES ASSUME IInv, PipelineInv, Next
                PROVE  Keeps
    OBVIOUS
  <2>1. buffer \in [Buffer -> RequestBuffer]
    BY DEF IInv, TypeOK
  <2>2. ASSUME UNCHANGED buffer PROVE Keeps
    BY <2>2
  <2>3. ASSUME NEW c \in Clients, Submit(c) PROVE Keeps
    <3>1. /\ buffer_id[c] \in Buffer
          /\ buffer'[buffer_id[c]].data = [buffer[buffer_id[c]].data EXCEPT
                ![buffer[buffer_id[c]].next_free_slot] = <<c, j[c]>>]
          /\ \A x \in Buffer : x # buffer_id[c] => buffer'[x] = buffer[x]
      BY <2>3, SubmitFacts
    <3>2. buffer[buffer_id[c]].data \in [Slot -> Pointer]
      BY <2>1, <3>1 DEF RequestBuffer
    <3>3. buffer[buffer_id[c]].data[buffer[buffer_id[c]].next_free_slot] = NULL
      BY <2>3, SubmitSlotClear
    <3>4. \A s \in Slot : buffer[buffer_id[c]].data[s] # NULL =>
             buffer'[buffer_id[c]].data[s] = buffer[buffer_id[c]].data[s]
      BY <3>1, <3>2, <3>3
    <3>. QED  BY <3>1, <3>4
  <2>4. ASSUME NEW c \in Clients, ReleaseTask(c) PROVE Keeps
    <3>1. /\ buffer_id[c] \in Buffer
          /\ buffer'[buffer_id[c]].data = [buffer[buffer_id[c]].data EXCEPT ![OutSlot(c)] = NULL]
          /\ \A x \in Buffer : x # buffer_id[c] => buffer'[x] = buffer[x]
      BY <2>4, CollectFacts
    <3>2. buffer[buffer_id[c]].data \in [Slot -> Pointer]
      BY <2>1, <3>1 DEF RequestBuffer
    <3>3. \A s \in Slot : \/ buffer'[buffer_id[c]].data[s] = buffer[buffer_id[c]].data[s]
                          \/ buffer'[buffer_id[c]].data[s] = NULL
      BY <3>1, <3>2
    <3>. QED  BY <3>1, <3>3
  <2>5. ASSUME NEW c \in Clients, ReleaseBuffer(c) PROVE Keeps
    <3>1. \A b \in Buffer : buffer'[b].data = buffer[b].data
      BY <2>1, <2>5 DEF ReleaseBuffer, RequestBuffer
    <3>. QED  BY <3>1
  <2>6. ASSUME Extract PROVE Keeps
    <3>1. \A b \in Buffer : buffer'[b].data = buffer[b].data
      BY <2>1, <2>6, ExtractFacts DEF RequestBuffer
    <3>. QED  BY <3>1
  <2>7. \/ UNCHANGED buffer \/ Extract
        \/ \E c \in Clients : Submit(c) \/ ReleaseTask(c) \/ ReleaseBuffer(c)
    BY DEF Next, ClientStep, SchedulerStep, RunnerStep, PollingStep, Call, AcquireWaits, Acquire,
       SubmitWaits, SubmitFails, ReleaseWaits, SpuriousClient, Pull, Scan, ForwardWaits, Forward,
       Throttle, ReadWaits, Read, Offload, CountRequest, OffloadFails, OffloadRetry, Respond,
       Complete, SpuriousThread
  <2>. HIDE DEF Keeps
  <2>. QED  BY <2>2, <2>3, <2>4, <2>5, <2>6, <2>7
<1>2. [][Keeps]_vars => SlotNotOverwritten
  BY PTL DEF SlotNotOverwritten
<1>. QED  BY <1>1, <1>2, Invariant, PipelineInvariant, PTL DEF Spec

=============================================================================
