------------------------ MODULE HeQatOffload_proofs ------------------------
(***************************************************************************)
(* Proofs about HeQatOffload, for every number of callers, buffers, slots, *)
(* instances and requests, and whatever fails.                             *)
(***************************************************************************)
EXTENDS HeQatOffload, FiniteSetTheorems, SequenceTheorems, TLAPS

-----------------------------------------------------------------------------
(* Lemmas about the operators of the model.                                *)

\* A cursor that is moved on stays inside its ring.
LEMMA AdvanceInSlot ==
    ASSUME NEW slot \in Nat, NEW n \in Nat
    PROVE  Advance(slot, n) \in Slot
<1>1. (slot + n) % BufferSize \in 0 .. BufferSize - 1
  BY OffloadAssumption
<1>. QED  BY <1>1 DEF Advance, Slot

\* pthread_cond_signal changes the control state of one waiter at most.
LEMMA SignalWakesOne ==
    ASSUME NEW control, NEW W, NEW resumed, NEW new \in Signal(control, W, resumed)
    PROVE  new = control \/ \E w \in W : new = [control EXCEPT ![w] = resumed]
<1>1. CASE W = {}
  BY <1>1 DEF Signal
<1>2. CASE W # {}
  BY <1>2 DEF Signal
<1>. QED  BY <1>1, <1>2

\* Unsigned counters stay below their modulus.
LEMMA IncrementInRange ==
    ASSUME NEW n \in 0 .. CounterModulus - 1
    PROVE  Increment(n) \in 0 .. CounterModulus - 1
BY OffloadAssumption DEF Increment

-----------------------------------------------------------------------------
(* Reservation: one caller per buffer.                                     *)

LEMMA HoldersFinite ==
    /\ IsFiniteSet(Holders)
    /\ Cardinality(Holders) \in Nat
<1>1. Holders \in SUBSET Clients
  BY DEF Holders
<1>2. IsFiniteSet(Holders)
  BY <1>1, FS_Subset, OffloadAssumption
<1>. QED  BY <1>2, FS_CardinalityType

\* acquire_bnModExp_buffer finds a free buffer whenever busy_count allows it to
\* go on: were every buffer taken, there would be as many holders as buffers.
LEMMA SpareBuffer ==
    ASSUME BufferExclusive, busy_count < BufferCount
    PROVE  \E b \in Buffer : free_buffer[b]
<1>. SUFFICES ASSUME \A b \in Buffer : ~free_buffer[b]
              PROVE  FALSE
  OBVIOUS
<1>. DEFINE held == [c \in Holders |-> buffer_id[c]]
<1>1. held \in [Holders -> Buffer]
  BY DEF BufferExclusive
<1>2. \A b \in Buffer : \E c \in Holders : held[c] = b
  BY DEF BufferExclusive
<1>3. held \in Surjection(Holders, Buffer)
  BY <1>1, <1>2 DEF Surjection
<1>4. Cardinality(Buffer) <= Cardinality(Holders)
  BY <1>3, HoldersFinite, FS_Surjection
<1>5. Cardinality(Buffer) = BufferCount
  <2>1. /\ 0 \in Int
        /\ BufferCount - 1 \in Int
        /\ ~(0 > BufferCount - 1)
        /\ (BufferCount - 1) - 0 + 1 = BufferCount
    BY OffloadAssumption
  <2>. QED  BY <2>1, FS_Interval DEF Buffer
<1>6. busy_count = Cardinality(Holders)
  BY DEF BufferExclusive
<1>. QED  BY <1>4, <1>5, <1>6, HoldersFinite, OffloadAssumption

LEMMA SameHolders ==
    ASSUME BufferExclusive, Holders' = Holders, UNCHANGED <<buffer_id, reservationVars>>
    PROVE  BufferExclusive'
BY DEF BufferExclusive, reservationVars

LEMMA AcquireExclusive ==
    ASSUME ClientTypeOK, ReservationTypeOK, BufferExclusive,
           NEW c \in Clients, Acquire(c)
    PROVE  BufferExclusive'
<1>1. PICK b \in Buffer :
         /\ SelectsFree(b)
         /\ buffer_id' = [buffer_id EXCEPT ![c] = b]
         /\ free_buffer' = [free_buffer EXCEPT ![b] = FALSE]
         /\ ready_buffer' = [ready_buffer EXCEPT ![b] = TRUE]
  BY DEF Acquire
<1>2. free_buffer[b]
  <2>1. busy_count \in Nat /\ BufferCount \in Nat /\ ~(busy_count >= BufferCount)
    BY OffloadAssumption DEF Acquire, AllBusy, ReservationTypeOK
  <2>2. busy_count < BufferCount
    BY <2>1
  <2>. QED  BY <1>1, <2>2, SpareBuffer DEF SelectsFree
<1>3. c \notin Holders /\ Holders' = Holders \cup {c}
  BY DEF Holders, Acquire, ClientTypeOK
<1>4. \A d \in Holders : buffer_id'[d] = buffer_id[d] /\ buffer_id[d] # b
  BY <1>1, <1>2, <1>3 DEF BufferExclusive, ClientTypeOK, Holders
<1>5. buffer_id'[c] = b
  BY <1>1 DEF ClientTypeOK
<1>6. busy_count' = Cardinality(Holders')
  <2>1. Cardinality(Holders') = Cardinality(Holders) + 1
    BY <1>3, HoldersFinite, FS_AddElement
  <2>. QED  BY <2>1 DEF Acquire, BufferExclusive
<1>7. /\ \A x \in Buffer \ {b} : free_buffer'[x] = free_buffer[x] /\ ready_buffer'[x] = ready_buffer[x]
      /\ free_buffer'[b] = FALSE /\ ready_buffer'[b] = TRUE
  BY <1>1 DEF ReservationTypeOK
<1>8. \A d \in Holders' : buffer_id'[d] \in Buffer /\ ~free_buffer'[buffer_id'[d]]
  BY <1>3, <1>4, <1>5, <1>7 DEF BufferExclusive
<1>9. \A d, e \in Holders' : buffer_id'[d] = buffer_id'[e] => d = e
  BY <1>3, <1>4, <1>5 DEF BufferExclusive
<1>10. \A x \in Buffer : ~free_buffer'[x] => \E d \in Holders' : buffer_id'[d] = x
  BY <1>3, <1>4, <1>5, <1>7 DEF BufferExclusive
<1>11. \A x \in Buffer : ready_buffer'[x] = ~free_buffer'[x]
  BY <1>7 DEF BufferExclusive
<1>. QED  BY <1>6, <1>8, <1>9, <1>10, <1>11 DEF BufferExclusive

LEMMA ReleaseExclusive ==
    ASSUME ClientTypeOK, ReservationTypeOK, BufferExclusive,
           NEW c \in Clients, ReleaseBuffer(c)
    PROVE  BufferExclusive'
<1>. DEFINE b == buffer_id[c]
<1>1. c \in Holders /\ b \in Buffer
  BY DEF Holders, ReleaseBuffer, BufferExclusive
<1>2. Holders' = Holders \ {c}
  <2>1. \/ pc' = [pc EXCEPT ![c] = "idle"]
        \/ \E w \in At("acquire_wait") : pc' = [[pc EXCEPT ![c] = "idle"] EXCEPT ![w] = "acquire"]
    <3>1. pc' \in Signal([pc EXCEPT ![c] = "idle"], At("acquire_wait"), "acquire")
      BY DEF ReleaseBuffer, WaitingForBuffer
    <3>. QED  BY <3>1, Zenon DEF Signal
  <2>2. pc[c] = "release"
    BY DEF ReleaseBuffer
  <2>3. CASE pc' = [pc EXCEPT ![c] = "idle"]
    BY <2>2, <2>3 DEF Holders, ClientTypeOK
  <2>4. CASE \E w \in At("acquire_wait") : pc' = [[pc EXCEPT ![c] = "idle"] EXCEPT ![w] = "acquire"]
    BY <2>2, <2>4 DEF Holders, ClientTypeOK, At
  <2>. QED  BY <2>1, <2>3, <2>4
<1>3. \A d \in Holders \ {c} : buffer_id'[d] = buffer_id[d] /\ buffer_id[d] # b
  BY <1>1 DEF ReleaseBuffer, BufferExclusive, ClientTypeOK, Holders
<1>4. /\ \A x \in Buffer \ {b} : free_buffer'[x] = free_buffer[x] /\ ready_buffer'[x] = ready_buffer[x]
      /\ free_buffer'[b] = TRUE /\ ready_buffer'[b] = FALSE
  BY <1>1 DEF ReleaseBuffer, ReservationTypeOK
<1>5. busy_count' = Cardinality(Holders')
  <2>1. Cardinality(Holders') = Cardinality(Holders) - 1
    BY <1>1, <1>2, HoldersFinite, FS_RemoveElement
  <2>. QED  BY <2>1 DEF ReleaseBuffer, BufferExclusive
<1>6. \A d \in Holders' : buffer_id'[d] \in Buffer /\ ~free_buffer'[buffer_id'[d]]
  BY <1>2, <1>3, <1>4 DEF BufferExclusive
<1>7. \A d, e \in Holders' : buffer_id'[d] = buffer_id'[e] => d = e
  BY <1>2, <1>3 DEF BufferExclusive
<1>8. \A x \in Buffer : ~free_buffer'[x] => \E d \in Holders' : buffer_id'[d] = x
  BY <1>1, <1>2, <1>3, <1>4 DEF BufferExclusive
<1>9. \A x \in Buffer : ready_buffer'[x] = ~free_buffer'[x]
  BY <1>4 DEF BufferExclusive
<1>. QED  BY <1>5, <1>6, <1>7, <1>8, <1>9 DEF BufferExclusive

\* A signal to a caller that waits for a slot or for an answer leaves it holding
\* its buffer.
LEMMA HolderStaysHolder ==
    ASSUME ClientTypeOK,
           NEW W \in SUBSET At("submit_wait"), pc' \in Signal(pc, W, "submit")
    PROVE  Holders' = Holders
<1>1. pc' = pc \/ \E w \in W : pc' = [pc EXCEPT ![w] = "submit"]
  BY SignalWakesOne
<1>. QED  BY <1>1 DEF Holders, At, ClientTypeOK

LEMMA WaiterStaysHolder ==
    ASSUME ClientTypeOK,
           NEW W \in SUBSET At("release_wait"), pc' \in Signal(pc, W, "release")
    PROVE  Holders' = Holders
<1>1. pc' = pc \/ \E w \in W : pc' = [pc EXCEPT ![w] = "release"]
  BY SignalWakesOne
<1>. QED  BY <1>1 DEF Holders, At, ClientTypeOK

LEMMA ExclusiveStep ==
    ASSUME ClientTypeOK, ReservationTypeOK, BufferExclusive, [Next]_vars
    PROVE  BufferExclusive'
<1>1. CASE UNCHANGED vars
  BY <1>1, SameHolders DEF vars, clientVars, Holders
<1>2. ASSUME NEW c \in Clients, Call(c) PROVE BufferExclusive'
  BY <1>2, SameHolders DEF Call, Holders, ClientTypeOK
<1>3. ASSUME NEW c \in Clients, AcquireWaits(c) PROVE BufferExclusive'
  BY <1>3, SameHolders DEF AcquireWaits, Holders, ClientTypeOK
<1>4. ASSUME NEW c \in Clients, Acquire(c) PROVE BufferExclusive'
  BY <1>4, AcquireExclusive
<1>5. ASSUME NEW c \in Clients, SubmitWaits(c) PROVE BufferExclusive'
  BY <1>5, SameHolders DEF SubmitWaits, Holders, ClientTypeOK
<1>6. ASSUME NEW c \in Clients, Submit(c) PROVE BufferExclusive'
  BY <1>6, SameHolders DEF Submit, NextRequest, Holders, ClientTypeOK
<1>7. ASSUME NEW c \in Clients, SubmitFails(c) PROVE BufferExclusive'
  BY <1>7, SameHolders DEF SubmitFails, NextRequest, Holders, ClientTypeOK
<1>8. ASSUME NEW c \in Clients, ReleaseWaits(c) PROVE BufferExclusive'
  BY <1>8, SameHolders DEF ReleaseWaits, Holders, ClientTypeOK
<1>9. ASSUME NEW c \in Clients, ReleaseTask(c) PROVE BufferExclusive'
  BY <1>9, SameHolders DEF ReleaseTask, Holders
<1>10. ASSUME NEW c \in Clients, ReleaseBuffer(c) PROVE BufferExclusive'
  BY <1>10, ReleaseExclusive
<1>11. ASSUME NEW c \in Clients, SpuriousClient(c) PROVE BufferExclusive'
  BY <1>11, SameHolders DEF SpuriousClient, Holders, ClientTypeOK
<1>12. CASE Extract
  <2>1. pc' = pc \/ \E W \in SUBSET At("submit_wait") : pc' \in Signal(pc, W, "submit")
    BY <1>12 DEF Extract
  <2>2. Holders' = Holders
    BY <2>1, HolderStaysHolder DEF Holders
  <2>. QED  BY <1>12, <2>2, SameHolders DEF Extract
<1>13. CASE Pull \/ Scan \/ ForwardWaits \/ Forward
  BY <1>13, SameHolders DEF Pull, Scan, ForwardWaits, Forward, clientVars, Holders
<1>14. CASE RunnerStep
  BY <1>14, SameHolders DEF RunnerStep, Throttle, ReadWaits, Read, Offload,
       CountRequest, OffloadFails, OffloadRetry, clientVars, Holders
<1>15. ASSUME NEW i \in Instance, Respond(i) PROVE BufferExclusive'
  BY <1>15, SameHolders DEF Respond, clientVars, Holders
<1>16. ASSUME NEW i \in Instance, Complete(i) PROVE BufferExclusive'
  <2>1. \E W \in SUBSET At("release_wait") : pc' \in Signal(pc, W, "release")
    BY <1>16 DEF Complete
  <2>2. Holders' = Holders
    BY <2>1, WaiterStaysHolder
  <2>. QED  BY <1>16, <2>2, SameHolders DEF Complete
<1>17. CASE SpuriousThread
  BY <1>17, SameHolders DEF SpuriousThread, clientVars, Holders
<1>. QED
  BY <1>1, <1>2, <1>3, <1>4, <1>5, <1>6, <1>7, <1>8, <1>9, <1>10, <1>11, <1>12,
     <1>13, <1>14, <1>15, <1>16, <1>17
     DEF Next, ClientStep, SchedulerStep, PollingStep

-----------------------------------------------------------------------------
(* Types.                                                                  *)

LEMMA ClientTypeStep ==
    ASSUME ClientTypeOK, LoopsOK, [Next]_vars
    PROVE  ClientTypeOK' /\ LoopsOK'
<1>. USE OffloadAssumption
<1>1. CASE UNCHANGED vars
  BY <1>1 DEF vars, clientVars, ClientTypeOK, LoopsOK
<1>2. ASSUME NEW c \in Clients, Call(c) PROVE ClientTypeOK' /\ LoopsOK'
  BY <1>2 DEF Call, ClientTypeOK, LoopsOK
<1>3. ASSUME NEW c \in Clients, AcquireWaits(c) \/ SubmitWaits(c) \/ ReleaseWaits(c)
      PROVE  ClientTypeOK' /\ LoopsOK'
  BY <1>3 DEF AcquireWaits, SubmitWaits, ReleaseWaits, ClientTypeOK, LoopsOK
<1>4. ASSUME NEW c \in Clients, Acquire(c) PROVE ClientTypeOK' /\ LoopsOK'
  BY <1>4 DEF Acquire, ClientTypeOK, LoopsOK
<1>5. ASSUME NEW c \in Clients, Submit(c) \/ SubmitFails(c) PROVE ClientTypeOK' /\ LoopsOK'
  BY <1>5 DEF Submit, SubmitFails, NextRequest, ClientTypeOK, LoopsOK
<1>6. ASSUME NEW c \in Clients, ReleaseTask(c) PROVE ClientTypeOK' /\ LoopsOK'
  BY <1>6 DEF ReleaseTask, ClientTypeOK, LoopsOK
<1>7. ASSUME NEW c \in Clients, ReleaseBuffer(c) PROVE ClientTypeOK' /\ LoopsOK'
  <2>1. pc' \in Signal([pc EXCEPT ![c] = "idle"], At("acquire_wait"), "acquire")
    BY <1>7 DEF ReleaseBuffer, WaitingForBuffer
  <2>2. \/ pc' = [pc EXCEPT ![c] = "idle"]
        \/ \E w \in At("acquire_wait") : pc' = [[pc EXCEPT ![c] = "idle"] EXCEPT ![w] = "acquire"]
    BY <2>1, Zenon DEF Signal
  <2>. QED  BY <1>7, <2>2 DEF ReleaseBuffer, At, ClientTypeOK, LoopsOK
<1>8. ASSUME NEW c \in Clients, SpuriousClient(c) PROVE ClientTypeOK' /\ LoopsOK'
  BY <1>8 DEF SpuriousClient, ClientTypeOK, LoopsOK
<1>9. CASE Extract
  <2>1. pc' = pc \/ \E w \in At("submit_wait") : pc' = [pc EXCEPT ![w] = "submit"]
    BY <1>9, SignalWakesOne DEF Extract
  <2>. QED  BY <1>9, <2>1 DEF Extract, At, ClientTypeOK, LoopsOK
<1>10. ASSUME NEW i \in Instance, Complete(i) PROVE ClientTypeOK' /\ LoopsOK'
  <2>1. pc' = pc \/ \E w \in At("release_wait") : pc' = [pc EXCEPT ![w] = "release"]
    BY <1>10, SignalWakesOne DEF Complete
  <2>. QED  BY <1>10, <2>1 DEF Complete, At, ClientTypeOK, LoopsOK
<1>11. CASE Pull \/ Scan \/ ForwardWaits \/ Forward \/ RunnerStep \/ SpuriousThread
             \/ \E i \in Instance : Respond(i)
  BY <1>11 DEF Pull, Scan, ForwardWaits, Forward, RunnerStep, Throttle, ReadWaits,
       Read, Offload, CountRequest, OffloadFails, OffloadRetry, SpuriousThread,
       Respond, clientVars, ClientTypeOK, LoopsOK
<1>. QED
  BY <1>1, <1>2, <1>3, <1>4, <1>5, <1>6, <1>7, <1>8, <1>9, <1>10, <1>11
     DEF Next, ClientStep, SchedulerStep, PollingStep

LEMMA ReservationTypeStep ==
    ASSUME ClientTypeOK, ReservationTypeOK, BufferExclusive, [Next]_vars
    PROVE  ReservationTypeOK'
<1>1. ASSUME NEW c \in Clients, Acquire(c) PROVE ReservationTypeOK'
  <2>1. \A b \in Buffer : (b + 1) % BufferCount \in Buffer
    BY OffloadAssumption DEF Buffer
  <2>. QED  BY <1>1, <2>1 DEF Acquire, ReservationTypeOK
<1>2. ASSUME NEW c \in Clients, ReleaseBuffer(c) PROVE ReservationTypeOK'
  <2>1. busy_count = Cardinality(Holders) /\ c \in Holders /\ buffer_id[c] \in Buffer
    BY <1>2 DEF BufferExclusive, ReleaseBuffer, Holders
  <2>2. Cardinality(Holders) # 0
    BY <2>1, HoldersFinite, FS_EmptySet
  <2>. QED  BY <1>2, <2>1, <2>2 DEF ReleaseBuffer, ReservationTypeOK
<1>3. ASSUME UNCHANGED reservationVars PROVE ReservationTypeOK'
  BY <1>3 DEF reservationVars, ReservationTypeOK
<1>4. \/ \E c \in Clients : Acquire(c) \/ ReleaseBuffer(c)
      \/ UNCHANGED reservationVars
  BY DEF Next, vars, ClientStep, SchedulerStep, RunnerStep, PollingStep, Call,
     AcquireWaits, SubmitWaits, Submit, SubmitFails, ReleaseWaits, ReleaseTask, Pull,
     Scan, Extract, ForwardWaits, Forward, Throttle, ReadWaits, Read, Offload,
     CountRequest, OffloadFails, OffloadRetry, Respond, Complete, SpuriousClient,
     SpuriousThread
<1>. QED  BY <1>1, <1>2, <1>3, <1>4

LEMMA BufferTypeStep ==
    ASSUME ClientTypeOK, LoopsOK, BufferExclusive, SchedulerTypeOK,
           buffer \in [Buffer -> RequestBuffer], [Next]_vars
    PROVE  buffer' \in [Buffer -> RequestBuffer]
<1>. USE OffloadAssumption
<1>1. ASSUME NEW c \in Clients, Submit(c) PROVE buffer' \in [Buffer -> RequestBuffer]
  <2>1. buffer_id[c] \in Buffer
    BY <1>1 DEF Submit, Holders, BufferExclusive
  <2>2. <<c, j[c]>> \in Pointer
    BY <1>1 DEF Submit, LoopsOK, ClientTypeOK, Pointer, Request
  <2>3. Advance(buffer[buffer_id[c]].next_free_slot, 1) \in Slot
    <3>1. buffer[buffer_id[c]].next_free_slot \in Nat
      BY <2>1 DEF RequestBuffer, Slot
    <3>. QED  BY <3>1, AdvanceInSlot
  <2>. QED  BY <1>1, <2>1, <2>2, <2>3 DEF Submit, RequestBuffer
<1>2. ASSUME NEW c \in Clients, ReleaseTask(c) PROVE buffer' \in [Buffer -> RequestBuffer]
  BY <1>2 DEF ReleaseTask, RequestBuffer, Pointer
<1>3. ASSUME NEW c \in Clients, ReleaseBuffer(c) PROVE buffer' \in [Buffer -> RequestBuffer]
  <2>1. buffer_id[c] \in Buffer
    BY <1>3 DEF ReleaseBuffer, Holders, BufferExclusive
  <2>2. NextBatchOut(c) \in Slot
    <3>1. buffer[buffer_id[c]].next_data_out \in Nat /\ j[c] \in Nat
      BY <2>1 DEF RequestBuffer, Slot, ClientTypeOK
    <3>. QED  BY <3>1, AdvanceInSlot DEF NextBatchOut, OutSlot
  <2>. QED  BY <1>3, <2>1, <2>2 DEF ReleaseBuffer, RequestBuffer
<1>4. CASE Extract
  <2>. DEFINE n == Smaller(buffer[index].count, BufferSize)
  <2>1. n \in 0 .. BufferSize /\ buffer[index].count - n \in 0 .. BufferSize
    BY DEF Smaller, RequestBuffer, SchedulerTypeOK
  <2>2. Advance(buffer[index].next_data_slot, n) \in Slot
    <3>1. buffer[index].next_data_slot \in Nat
      BY DEF RequestBuffer, Slot, SchedulerTypeOK
    <3>. HIDE DEF n
    <3>. QED  BY <2>1, <3>1, AdvanceInSlot
  <2>3. \/ buffer' = buffer
        \/ buffer' = [buffer EXCEPT ![index].count = @ - n,
                                    ![index].next_data_slot = Advance(@, n)]
    BY <1>4 DEF Extract
  <2>. DEFINE taken == [buffer[index] EXCEPT !.count = @ - n, !.next_data_slot = Advance(@, n)]
  <2>. HIDE DEF n
  <2>4. buffer[index] \in RequestBuffer /\ index \in Buffer
    BY DEF SchedulerTypeOK
  <2>5. taken \in RequestBuffer
    BY <2>1, <2>2, <2>4 DEF RequestBuffer
  <2>6. buffer' = buffer \/ buffer' = [buffer EXCEPT ![index] = taken]
    BY <2>3, <2>4
  <2>. HIDE DEF taken
  <2>. QED  BY <2>4, <2>5, <2>6
<1>5. \/ \E c \in Clients : Submit(c) \/ ReleaseTask(c) \/ ReleaseBuffer(c)
      \/ Extract
      \/ UNCHANGED buffer
  BY DEF Next, vars, ClientStep, SchedulerStep, RunnerStep, PollingStep, Call,
     AcquireWaits, Acquire, SubmitWaits, SubmitFails, ReleaseWaits, Pull, Scan,
     ForwardWaits, Forward, Throttle, ReadWaits, Read, Offload, CountRequest,
     OffloadFails, OffloadRetry, Respond, Complete, SpuriousClient, SpuriousThread
<1>. QED  BY <1>1, <1>2, <1>3, <1>4, <1>5

\* What the scheduler takes from an outstanding buffer is a list of pointers.
LEMMA StoredType ==
    ASSUME buffer \in [Buffer -> RequestBuffer], NEW b \in Buffer, NEW n \in Nat
    PROVE  Stored(b, n) \in Seq(Pointer)
<1>1. \A k \in 1 .. n : Advance(buffer[b].next_data_slot, k - 1) \in Slot
  <2>. TAKE k \in 1 .. n
  <2>1. buffer[b].next_data_slot \in Nat /\ k - 1 \in Nat
    BY DEF RequestBuffer, Slot
  <2>. QED  BY <2>1, AdvanceInSlot
<1>2. \A k \in 1 .. n : buffer[b].data[Advance(buffer[b].next_data_slot, k - 1)] \in Pointer
  BY <1>1 DEF RequestBuffer
<1>3. Stored(b, n) \in [1 .. n -> Pointer]
  BY <1>2 DEF Stored
<1>. QED  BY <1>3, SeqDef

QueueTypeOK == he_qat_buffer \in Seq(Pointer) /\ Len(he_qat_buffer) <= BufferSize

\* read_request_list takes a prefix of the internal buffer and leaves the rest.
LEMMA ReadSplits ==
    ASSUME QueueTypeOK, he_qat_buffer # <<>>, NEW m \in Nat
    PROVE  LET n == Smaller(Len(he_qat_buffer), m)
               taken == SubSeq(he_qat_buffer, 1, n)
               left == SubSeq(he_qat_buffer, n + 1, Len(he_qat_buffer))
           IN  /\ n \in Nat /\ n <= m /\ (m > 0 => n > 0)
               /\ taken \in Seq(Pointer) /\ Len(taken) = n
               /\ left \in Seq(Pointer) /\ Len(left) <= Len(he_qat_buffer)
<1>. DEFINE n == Smaller(Len(he_qat_buffer), m)
<1>1. Len(he_qat_buffer) \in Nat \ {0}
  BY EmptySeq DEF QueueTypeOK
<1>2. n \in Nat /\ n <= m /\ n <= Len(he_qat_buffer) /\ (m > 0 => n > 0)
  BY <1>1 DEF Smaller
<1>3. \A i \in 1 .. Len(he_qat_buffer) : he_qat_buffer[i] \in Pointer
  BY ElementOfSeq DEF QueueTypeOK
<1>. HIDE DEF n
<1>4. /\ SubSeq(he_qat_buffer, 1, n) \in Seq(Pointer)
      /\ Len(SubSeq(he_qat_buffer, 1, n)) = n
  <2>1. \A i \in 1 .. n : he_qat_buffer[i] \in Pointer
    BY <1>1, <1>2, <1>3
  <2>2. /\ SubSeq(he_qat_buffer, 1, n) \in Seq(Pointer)
        /\ Len(SubSeq(he_qat_buffer, 1, n)) = IF 1 <= n THEN n - 1 + 1 ELSE 0
    BY <1>2, <2>1, SubSeqProperties
  <2>. QED  BY <1>2, <2>2
<1>5. /\ SubSeq(he_qat_buffer, n + 1, Len(he_qat_buffer)) \in Seq(Pointer)
      /\ Len(SubSeq(he_qat_buffer, n + 1, Len(he_qat_buffer))) <= Len(he_qat_buffer)
  <2>. DEFINE len == Len(he_qat_buffer)
  <2>1. \A i \in n + 1 .. len : he_qat_buffer[i] \in Pointer
    BY <1>1, <1>2, <1>3
  <2>2. n + 1 \in Int /\ len \in Int
    BY <1>1, <1>2
  <2>3. /\ SubSeq(he_qat_buffer, n + 1, len) \in Seq(Pointer)
        /\ Len(SubSeq(he_qat_buffer, n + 1, len)) = IF n + 1 <= len THEN len - (n + 1) + 1 ELSE 0
    BY <2>1, <2>2, SubSeqProperties
  <2>. QED  BY <1>1, <1>2, <2>3
<1>. QED  BY <1>2, <1>4, <1>5 DEF n

LEMMA SchedulerTypeStep ==
    ASSUME SchedulerTypeOK, QueueTypeOK, RunnerTypeOK, ReservationTypeOK,
           buffer \in [Buffer -> RequestBuffer], [Next]_vars
    PROVE  SchedulerTypeOK' /\ QueueTypeOK'
<1>. USE OffloadAssumption DEF QueueTypeOK
<1>1. ASSUME NEW c \in Clients, Acquire(c) \/ Submit(c) PROVE SchedulerTypeOK' /\ QueueTypeOK'
  BY <1>1 DEF Acquire, Submit, Resume, SchedulerTypeOK
<1>2. CASE Pull \/ Scan \/ ForwardWaits
  BY <1>2 DEF Pull, Scan, ForwardWaits, SchedulerTypeOK, Buffer
<1>3. CASE Extract
  <2>1. Smaller(buffer[index].count, BufferSize) \in Nat
    BY DEF Smaller, RequestBuffer, SchedulerTypeOK
  <2>2. Stored(index, Smaller(buffer[index].count, BufferSize)) \in Seq(Pointer)
    BY <2>1, StoredType DEF SchedulerTypeOK
  <2>. QED  BY <1>3, <2>2 DEF Extract, SchedulerTypeOK
<1>4. CASE Forward
  <2>1. /\ he_qat_buffer \o pulled \in Seq(Pointer)
        /\ Len(he_qat_buffer \o pulled) = Len(he_qat_buffer) + Len(pulled)
    BY ConcatProperties DEF SchedulerTypeOK
  <2>2. Len(pulled) \in Nat /\ Len(he_qat_buffer) \in Nat /\ (pulled = <<>> => Len(pulled) = 0)
    BY LenProperties, EmptySeq DEF SchedulerTypeOK
  <2>3. <<>> \in Seq(Pointer)
    BY EmptySeq
  <2>. QED  BY <1>4, <2>1, <2>2, <2>3 DEF Forward, ListFits, SchedulerTypeOK
<1>5. CASE Read
  <2>1. max_requests \in Nat /\ he_qat_buffer # <<>>
    BY <1>5 DEF Read, RunnerTypeOK
  <2>2. he_qat_buffer' \in Seq(Pointer) /\ Len(he_qat_buffer') <= Len(he_qat_buffer)
    BY <1>5, <2>1, ReadSplits DEF Read
  <2>3. Len(he_qat_buffer') \in Nat /\ Len(he_qat_buffer) \in Nat
    BY <2>2, LenProperties
  <2>. QED  BY <1>5, <2>2, <2>3 DEF Read, Resume, SchedulerTypeOK
<1>6. CASE SpuriousThread
  BY <1>6 DEF SpuriousThread, SchedulerTypeOK
<1>7. \/ \E c \in Clients : Acquire(c) \/ Submit(c)
      \/ Pull \/ Scan \/ ForwardWaits \/ Extract \/ Forward \/ Read \/ SpuriousThread
      \/ UNCHANGED <<schedVars, he_qat_buffer>>
  BY DEF Next, vars, ClientStep, SchedulerStep, RunnerStep, PollingStep, Call,
     AcquireWaits, SubmitWaits, SubmitFails, ReleaseWaits, ReleaseTask,
     ReleaseBuffer, Throttle, ReadWaits, Offload, CountRequest, OffloadFails,
     OffloadRetry, Respond, Complete, SpuriousClient
<1>8. CASE UNCHANGED <<schedVars, he_qat_buffer>>
  BY <1>8 DEF schedVars, SchedulerTypeOK
<1>. QED  BY <1>1, <1>2, <1>3, <1>4, <1>5, <1>6, <1>7, <1>8

\* The steps that the processing thread and its counters take part in.
LEMMA RunnerActions ==
    ASSUME [Next]_vars
    PROVE  \/ Forward \/ Throttle \/ ReadWaits \/ Read \/ Offload \/ CountRequest
           \/ OffloadFails \/ OffloadRetry \/ SpuriousThread
           \/ UNCHANGED runnerVars
BY DEF Next, vars, ClientStep, SchedulerStep, RunnerStep, PollingStep, Call,
   AcquireWaits, Acquire, SubmitWaits, Submit, SubmitFails, ReleaseWaits, ReleaseTask,
   ReleaseBuffer, Pull, Scan, Extract, ForwardWaits, Respond, Complete, SpuriousClient

LEMMA DeviceActions ==
    ASSUME [Next]_vars
    PROVE  \/ Offload \/ UNCHANGED deviceVars
           \/ \E i \in Instance : Respond(i) \/ Complete(i)
BY DEF Next, vars, ClientStep, SchedulerStep, RunnerStep, PollingStep, Call,
   AcquireWaits, Acquire, SubmitWaits, Submit, SubmitFails, ReleaseWaits, ReleaseTask,
   ReleaseBuffer, Pull, Scan, Extract, ForwardWaits, Forward, Throttle, ReadWaits, Read,
   CountRequest, OffloadFails, OffloadRetry, SpuriousClient, SpuriousThread

\* After one element of a list of pointers, a shorter list is left.
LEMMA TailShorter ==
    ASSUME RunnerTypeOK, to_offload # <<>>
    PROVE  /\ Head(to_offload) \in Pointer
           /\ Tail(to_offload) \in Seq(Pointer)
           /\ Len(to_offload) \in Nat \ {0}
           /\ Len(Tail(to_offload)) = Len(to_offload) - 1
           /\ Tail(to_offload) = <<>> => Len(to_offload) = 1
<1>1. to_offload \in Seq(Pointer)
  BY DEF RunnerTypeOK
<1>2. Head(to_offload) \in Pointer /\ Tail(to_offload) \in Seq(Pointer)
      /\ Len(Tail(to_offload)) = Len(to_offload) - 1
  BY <1>1, HeadTailProperties
<1>3. Len(to_offload) \in Nat \ {0} /\ Len(<<>>) = 0
  BY <1>1, EmptySeq
<1>. QED  BY <1>2, <1>3

\* The throttle lets at least one request through, and max_pending at most.
LEMMA AvailableBounds ==
    ASSUME RunnerTypeOK, DeviceTypeOK
    PROVE  /\ Difference(request_count, response_count) \in 0 .. CounterModulus - 1
           /\ Available \in 0 .. MaxPending
           /\ Unthrottled => Available > 0
           /\ Difference(request_count, response_count) <= MaxPending
                => Difference(request_count, response_count) + Available = MaxPending
BY OffloadAssumption DEF RunnerTypeOK, DeviceTypeOK, Available, Unthrottled, Difference, Smaller

LEMMA RunnerTypeStep ==
    ASSUME RunnerTypeOK, DeviceTypeOK, QueueTypeOK, ListsOK, [Next]_vars
    PROVE  RunnerTypeOK' /\ ListsOK'
<1>1. CASE Throttle
  BY <1>1, AvailableBounds DEF Throttle, RunnerTypeOK, ListsOK
<1>2. CASE Read
  <2>1. max_requests \in Nat \ {0} /\ he_qat_buffer # <<>>
    BY <1>2 DEF Read, RunnerTypeOK, ListsOK
  <2>. DEFINE n == Smaller(Len(he_qat_buffer), max_requests)
  <2>2. n \in Nat /\ n > 0 /\ to_offload' \in Seq(Pointer) /\ Len(to_offload') = n
    BY <1>2, <2>1, ReadSplits DEF Read
  <2>3. to_offload' # <<>>
    BY <2>2, EmptySeq
  <2>. QED  BY <1>2, <2>2, <2>3 DEF Read, RunnerTypeOK, ListsOK
<1>3. CASE CountRequest
  <2>1. to_offload # <<>>
    BY <1>3 DEF CountRequest, ListsOK
  <2>2. (next_instance + 1) % Instances \in Instance
    BY OffloadAssumption DEF Instance, RunnerTypeOK
  <2>. QED  BY <1>3, <2>1, <2>2, TailShorter, IncrementInRange
             DEF CountRequest, NextOffload, RunnerTypeOK, ListsOK
<1>4. CASE OffloadFails
  <2>1. to_offload # <<>>
    BY <1>4 DEF OffloadFails, ListsOK
  <2>. QED  BY <1>4, <2>1, TailShorter DEF OffloadFails, NextOffload, RunnerTypeOK, ListsOK
<1>5. CASE Forward \/ ReadWaits \/ Offload \/ OffloadRetry \/ SpuriousThread
  BY <1>5 DEF Forward, Resume, ReadWaits, Offload, OffloadRetry, SpuriousThread,
       RunnerTypeOK, ListsOK
<1>6. CASE UNCHANGED runnerVars
  BY <1>6 DEF runnerVars, RunnerTypeOK, ListsOK
<1>. QED  BY <1>1, <1>2, <1>3, <1>4, <1>5, <1>6, RunnerActions

LEMMA DeviceTypeStep ==
    ASSUME RunnerTypeOK, DeviceTypeOK, ListsOK, [Next]_vars
    PROVE  DeviceTypeOK'
<1>1. CASE Offload
  BY <1>1, TailShorter DEF Offload, ListsOK, RunnerTypeOK, DeviceTypeOK
<1>2. ASSUME NEW i \in Instance, Respond(i) PROVE DeviceTypeOK'
  BY <1>2, IncrementInRange DEF Respond, DeviceTypeOK, Pointer
<1>3. ASSUME NEW i \in Instance, Complete(i) PROVE DeviceTypeOK'
  BY <1>3 DEF Complete, DeviceTypeOK, Pointer
<1>4. CASE UNCHANGED deviceVars
  BY <1>4 DEF deviceVars, DeviceTypeOK
<1>. QED  BY <1>1, <1>2, <1>3, <1>4, DeviceActions

RequestTypeOK == /\ request_status \in [Request -> RequestStatus]
                 /\ op_output \in [Request -> BOOLEAN]

LEMMA RequestTypeStep ==
    ASSUME RequestTypeOK, [Next]_vars
    PROVE  RequestTypeOK'
<1>. USE DEF RequestTypeOK, RequestStatus
<1>1. ASSUME NEW c \in Clients, Submit(c) \/ SubmitFails(c) \/ ReleaseTask(c)
      PROVE  RequestTypeOK'
  BY <1>1 DEF Submit, SubmitFails, ReleaseTask
<1>2. CASE OffloadFails
  BY <1>2 DEF OffloadFails
<1>3. ASSUME NEW i \in Instance, Complete(i) PROVE RequestTypeOK'
  BY <1>3 DEF Complete, requestVars
<1>4. \/ \E c \in Clients : Submit(c) \/ SubmitFails(c) \/ ReleaseTask(c)
      \/ OffloadFails \/ \E i \in Instance : Complete(i)
      \/ UNCHANGED requestVars
  BY DEF Next, vars, ClientStep, SchedulerStep, RunnerStep, PollingStep, Call,
     AcquireWaits, Acquire, SubmitWaits, ReleaseWaits, ReleaseBuffer, Pull, Scan,
     Extract, ForwardWaits, Forward, Throttle, ReadWaits, Read, Offload, CountRequest,
     OffloadRetry, Respond, SpuriousClient, SpuriousThread
<1>. QED  BY <1>1, <1>2, <1>3, <1>4 DEF requestVars

-----------------------------------------------------------------------------
(* The throttle.                                                           *)

LEMMA DeviceFinite ==
    ASSUME DeviceTypeOK
    PROVE  IsFiniteSet(device) /\ Cardinality(device) \in Nat
<1>1. IsFiniteSet(Instance)
  BY FS_Interval, OffloadAssumption DEF Instance
<1>2. IsFiniteSet(Pointer)
  <2>1. IsFiniteSet(0 .. MaxBatch - 1)
    BY FS_Interval, OffloadAssumption
  <2>2. IsFiniteSet(Request)
    BY <2>1, FS_Product, OffloadAssumption DEF Request
  <2>. QED  BY <2>2, FS_AddElement DEF Pointer
<1>3. IsFiniteSet(Instance \X Pointer)
  BY <1>1, <1>2, FS_Product
<1>4. device \in SUBSET (Instance \X Pointer)
  BY DEF DeviceTypeOK
<1>. QED  BY <1>3, <1>4, FS_Subset, FS_CardinalityType

\* The two unsigned counters differ by one more, or one less, after a request or
\* a response, wherever they wrap around, while the difference stays in range.
LEMMA CounterSteps ==
    ASSUME NEW m \in 0 .. CounterModulus - 1, NEW n \in 0 .. CounterModulus - 1
    PROVE  /\ Difference(m, n) \in 0 .. CounterModulus - 1
           /\ Difference(m, n) + 1 < CounterModulus
                => Difference(Increment(m), n) = Difference(m, n) + 1
           /\ Difference(m, n) > 0
                => Difference(m, Increment(n)) = Difference(m, n) - 1
BY OffloadAssumption DEF Difference, Increment

LEMMA OwedInRange ==
    ASSUME RunnerTypeOK, DeviceTypeOK
    PROVE  Owed \in Nat
<1>1. /\ request_count \in 0 .. CounterModulus - 1
      /\ response_count \in 0 .. CounterModulus - 1
  BY DEF RunnerTypeOK, DeviceTypeOK
<1>2. Increment(request_count) \in 0 .. CounterModulus - 1
  BY <1>1, IncrementInRange
<1>3. /\ Difference(request_count, response_count) \in 0 .. CounterModulus - 1
      /\ Difference(Increment(request_count), response_count) \in 0 .. CounterModulus - 1
  BY <1>1, <1>2, CounterSteps
<1>. QED  BY <1>3 DEF Owed

\* What is owed and promised stays bounded when neither grows.
LEMMA BoundKept ==
    ASSUME NEW owed \in Nat, NEW promised \in Nat, NEW owed2 \in Nat, NEW promised2 \in Nat,
           owed + promised <= MaxPending, owed2 = owed, promised2 <= promised
    PROVE  owed2 + promised2 <= MaxPending
BY OffloadAssumption

LEMMA ThrottleStep ==
    ASSUME RunnerTypeOK, DeviceTypeOK, QueueTypeOK, ListsOK, ThrottleOK, [Next]_vars
    PROVE  ThrottleOK'
<1>. DEFINE apart == Difference(request_count, response_count)
<1>a. /\ request_count \in 0 .. CounterModulus - 1
      /\ response_count \in 0 .. CounterModulus - 1
      /\ max_requests \in Nat
      /\ MaxPending \in Nat
      /\ to_offload \in Seq(Pointer)
  BY OffloadAssumption DEF RunnerTypeOK, DeviceTypeOK
<1>b. Len(to_offload) \in Nat
  BY <1>a, LenProperties
<1>c. Cardinality(device) \in Nat /\ Owed \in Nat
  BY DeviceFinite, OwedInRange
<1>d. apart \in 0 .. CounterModulus - 1
  BY <1>a, CounterSteps
<1>0. /\ Cardinality(device) \in Nat /\ Owed \in Nat /\ apart \in Nat
      /\ max_requests \in Nat /\ Len(to_offload) \in Nat /\ MaxPending \in Nat
  BY <1>a, <1>b, <1>c, <1>d
<1>. HIDE DEF apart
<1>1. CASE Throttle
  <2>1. Owed = apart /\ Promised = 0 /\ Owed' = apart /\ Promised' = Available
    BY <1>1 DEF Throttle, Owed, Promised, deviceVars, apart
  <2>2. device' = device
    BY <1>1 DEF Throttle, deviceVars
  <2>3. apart <= MaxPending
    BY <1>0, <2>1 DEF ThrottleOK
  <2>4. apart + Available = MaxPending
    BY <2>3, AvailableBounds DEF apart
  <2>5. Cardinality(device) <= Owed /\ Owed + Promised <= MaxPending
    BY DEF ThrottleOK
  <2>6. Cardinality(device') <= Owed'
    BY <2>1, <2>2, <2>5
  <2>. QED  BY <1>0, <2>1, <2>4, <2>6 DEF ThrottleOK
<1>2. CASE Read
  <2>1. max_requests \in Nat \ {0} /\ he_qat_buffer # <<>> /\ runner = "read"
    BY <1>2 DEF Read, RunnerTypeOK, ListsOK
  <2>2. to_offload' \in Seq(Pointer) /\ Len(to_offload') \in Nat
        /\ Len(to_offload') <= max_requests /\ Len(to_offload') > 0
    <3>1. max_requests \in Nat
      BY <2>1
    <3>2. /\ Smaller(Len(he_qat_buffer), max_requests) \in Nat
          /\ Smaller(Len(he_qat_buffer), max_requests) <= max_requests
          /\ Smaller(Len(he_qat_buffer), max_requests) > 0
          /\ to_offload' \in Seq(Pointer)
          /\ Len(to_offload') = Smaller(Len(he_qat_buffer), max_requests)
      BY <1>2, <2>1, <3>1, ReadSplits DEF Read
    <3>. QED  BY <3>2
  <2>3. runner' \in {"offload", "throttle"} /\ UNCHANGED <<request_count, deviceVars>>
    BY <1>2 DEF Read
  <2>4. Owed' = Owed /\ Promised = max_requests /\ Promised' \in {0, Len(to_offload')}
        /\ device' = device
    BY <2>1, <2>3 DEF Owed, Promised, deviceVars
  <2>5. Cardinality(device) <= Owed /\ Owed + max_requests <= MaxPending
    BY <2>4 DEF ThrottleOK
  <2>6. Cardinality(device') <= Owed'
    BY <2>4, <2>5
  <2>7. Promised' \in Nat /\ Promised' <= max_requests
    BY <2>1, <2>2, <2>4
  <2>8. Owed' + Promised' <= MaxPending
    BY <1>0, <2>1, <2>4, <2>5, <2>7, BoundKept
  <2>. QED  BY <2>6, <2>8 DEF ThrottleOK
<1>3. CASE Offload
  <2>1. runner = "offload" /\ runner' = "count" /\ to_offload # <<>>
        /\ UNCHANGED <<request_count, response_count, to_offload>>
    BY <1>3 DEF Offload, ListsOK
  <2>2. Promised = Len(to_offload) /\ Promised' = Len(to_offload) - 1 /\ Len(to_offload) > 0
    BY <2>1, TailShorter DEF Promised
  <2>3. Owed = apart /\ Owed' = Difference(Increment(request_count), response_count)
    BY <2>1 DEF Owed, apart
  <2>4. apart + 1 < CounterModulus
    <3>1. apart + Len(to_offload) <= MaxPending
      BY <2>2, <2>3 DEF ThrottleOK
    <3>. QED  BY <1>0, <2>2, <3>1, OffloadAssumption
  <2>5. Owed' = Owed + 1
    BY <1>a, <2>3, <2>4, CounterSteps DEF apart
  <2>6. Cardinality(device') <= Cardinality(device) + 1 /\ Cardinality(device') \in Nat
    <3>1. device' = device \cup {<<next_instance, Head(to_offload)>>}
      BY <1>3 DEF Offload
    <3>2. \/ Cardinality(device') = Cardinality(device)
          \/ Cardinality(device') = Cardinality(device) + 1
      BY <3>1, DeviceFinite, FS_AddElement
    <3>. QED  BY <1>0, <3>2
  <2>. QED  BY <1>0, <2>2, <2>5, <2>6 DEF ThrottleOK
<1>4. CASE CountRequest
  <2>1. /\ runner = "count" /\ to_offload # <<>>
        /\ runner' = IF Tail(to_offload) = <<>> THEN "throttle" ELSE "offload"
        /\ to_offload' = Tail(to_offload)
        /\ request_count' = Increment(request_count)
        /\ response_count' = response_count /\ device' = device
    BY <1>4 DEF CountRequest, NextOffload, ListsOK, deviceVars
  <2>2. Owed' = Owed
    BY <2>1 DEF Owed
  <2>3. Promised = Len(to_offload) - 1
        /\ Promised' = IF Tail(to_offload) = <<>> THEN 0 ELSE Len(to_offload) - 1
    BY <2>1, TailShorter DEF Promised
  <2>4. Promised' <= Promised /\ Promised \in Nat /\ Promised' \in Nat
    BY <2>1, <2>3, TailShorter
  <2>5. Cardinality(device) <= Owed /\ Owed + Promised <= MaxPending
    BY DEF ThrottleOK
  <2>6. Cardinality(device') <= Owed'
    BY <2>1, <2>2, <2>5
  <2>7. Owed' + Promised' <= MaxPending
    BY <1>0, <2>2, <2>4, <2>5, BoundKept
  <2>. QED  BY <2>6, <2>7 DEF ThrottleOK
<1>5. CASE OffloadFails
  <2>1. /\ runner = "offload" /\ to_offload # <<>>
        /\ runner' = IF Tail(to_offload) = <<>> THEN "throttle" ELSE "offload"
        /\ to_offload' = Tail(to_offload)
        /\ request_count' = request_count
        /\ response_count' = response_count /\ device' = device
    BY <1>5 DEF OffloadFails, NextOffload, ListsOK, deviceVars
  <2>2. Owed' = Owed
    BY <2>1 DEF Owed
  <2>3. Promised = Len(to_offload)
        /\ Promised' = IF Tail(to_offload) = <<>> THEN 0 ELSE Len(to_offload) - 1
    BY <2>1, TailShorter DEF Promised
  <2>4. Promised' <= Promised /\ Promised \in Nat /\ Promised' \in Nat
    BY <2>1, <2>3, TailShorter
  <2>5. Cardinality(device) <= Owed /\ Owed + Promised <= MaxPending
    BY DEF ThrottleOK
  <2>6. Cardinality(device') <= Owed'
    BY <2>1, <2>2, <2>5
  <2>7. Owed' + Promised' <= MaxPending
    BY <1>0, <2>2, <2>4, <2>5, BoundKept
  <2>. QED  BY <2>6, <2>7 DEF ThrottleOK
<1>6. CASE OffloadRetry
  <2>1. Owed' = Owed /\ device' = device /\ Promised' = 0 /\ Promised = Len(to_offload)
    BY <1>6 DEF OffloadRetry, Owed, Promised, deviceVars
  <2>. QED  BY <1>0, <2>1 DEF ThrottleOK
<1>7. CASE Forward \/ ReadWaits \/ SpuriousThread
  <2>1. /\ UNCHANGED <<device, request_count, response_count, max_requests, to_offload>>
        /\ runner' = runner \/ {runner, runner'} \subseteq {"read", "read_wait"}
    BY <1>7 DEF Forward, ReadWaits, SpuriousThread, Resume, deviceVars
  <2>2. Owed' = Owed /\ Promised' = Promised /\ device' = device
    BY <2>1 DEF Owed, Promised
  <2>. QED  BY <2>2 DEF ThrottleOK
<1>8. ASSUME NEW i \in Instance, Respond(i) PROVE ThrottleOK'
  <2>1. PICK r : <<i, r>> \in device /\ device' = device \ {<<i, r>>}
    BY <1>8 DEF Respond
  <2>2. Cardinality(device') = Cardinality(device) - 1 /\ Cardinality(device) > 0
    <3>1. Cardinality(device') = Cardinality(device) - 1
      BY <2>1, DeviceFinite, FS_RemoveElement
    <3>2. Cardinality(device) # 0
      BY <2>1, DeviceFinite, FS_EmptySet
    <3>. QED  BY <1>0, <3>1, <3>2
  <2>3. UNCHANGED runnerVars /\ response_count' = Increment(response_count)
    BY <1>8 DEF Respond
  <2>4. Owed > 0
    BY <1>0, <2>2 DEF ThrottleOK
  <2>5. Owed' = Owed - 1
    <3>1. Increment(request_count) \in 0 .. CounterModulus - 1
      BY IncrementInRange DEF RunnerTypeOK
    <3>2. CASE runner = "count"
      <4>1. Owed = Difference(Increment(request_count), response_count)
            /\ Owed' = Difference(Increment(request_count), Increment(response_count))
        BY <2>3, <3>2 DEF Owed, runnerVars
      <4>. QED  BY <1>a, <2>4, <3>1, <4>1, CounterSteps
    <3>3. CASE runner # "count"
      <4>1. Owed = apart /\ Owed' = Difference(request_count, Increment(response_count))
        BY <2>3, <3>3 DEF Owed, runnerVars, apart
      <4>. QED  BY <1>a, <2>4, <4>1, CounterSteps DEF apart
    <3>. QED  BY <3>2, <3>3
  <2>6. Promised' = Promised
    BY <2>3 DEF Promised, runnerVars
  <2>7. Promised \in Int
    BY <1>0 DEF Promised
  <2>. QED  BY <1>0, <2>2, <2>5, <2>6, <2>7 DEF ThrottleOK
<1>9. ASSUME UNCHANGED <<runnerVars, device, response_count>> PROVE ThrottleOK'
  <2>1. Owed' = Owed /\ Promised' = Promised /\ device' = device
    BY <1>9 DEF Owed, Promised, runnerVars
  <2>. QED  BY <2>1 DEF ThrottleOK
<1>10. \/ \E i \in Instance : Respond(i)
       \/ Offload \/ UNCHANGED <<device, response_count>>
  BY DeviceActions DEF deviceVars, Complete
<1>. QED
  BY <1>1, <1>2, <1>3, <1>4, <1>5, <1>6, <1>7, <1>8, <1>9, <1>10, RunnerActions

-----------------------------------------------------------------------------
(* The wakeups on any_free_buffer.                                         *)

\* The callers on their way to a free buffer can be counted.
LEMMA ComersFinite ==
    /\ IsFiniteSet(At("acquire")) /\ Cardinality(At("acquire")) \in Nat
<1>1. At("acquire") \in SUBSET Clients
  BY DEF At
<1>. QED  BY <1>1, OffloadAssumption, FS_Subset, FS_CardinalityType

\* Nothing changes for them unless a caller moves in or out of "acquire" or
\* "acquire_wait".
LEMMA SameComers ==
    ASSUME NoLostFreeBuffer, busy_count' = busy_count,
           At("acquire")' = At("acquire"), At("acquire_wait")' = At("acquire_wait")
    PROVE  NoLostFreeBuffer'
BY DEF NoLostFreeBuffer

\* One caller more that is on its way.
LEMMA OneMoreComer ==
    ASSUME ClientTypeOK, NoLostFreeBuffer, busy_count \in Nat, busy_count' = busy_count,
           NEW c \in Clients, pc[c] \in {"idle", "acquire_wait"},
           pc' = [pc EXCEPT ![c] = "acquire"]
    PROVE  NoLostFreeBuffer'
<1>1. At("acquire")' = At("acquire") \cup {c} /\ c \notin At("acquire")
  BY DEF At, ClientTypeOK
<1>2. At("acquire_wait")' \subseteq At("acquire_wait")
  BY DEF At, ClientTypeOK
<1>3. /\ Cardinality(At("acquire")') = Cardinality(At("acquire")) + 1
      /\ Cardinality(At("acquire")) \in Nat
  BY <1>1, ComersFinite, FS_AddElement
<1>4. SUFFICES ASSUME At("acquire_wait")' # {}
               PROVE  busy_count' + Cardinality(At("acquire")') >= BufferCount
  BY DEF NoLostFreeBuffer
<1>5. busy_count + Cardinality(At("acquire")) >= BufferCount
  BY <1>2, <1>4 DEF NoLostFreeBuffer
<1>. QED  BY <1>3, <1>5, OffloadAssumption

LEMMA WakeupStep ==
    ASSUME ClientTypeOK, ReservationTypeOK, BufferExclusive, NoLostFreeBuffer, [Next]_vars
    PROVE  NoLostFreeBuffer'
<1>0. busy_count \in Nat /\ BufferCount \in Nat
  BY OffloadAssumption DEF ReservationTypeOK
<1>1. ASSUME NEW c \in Clients, Call(c) PROVE NoLostFreeBuffer'
  BY <1>0, <1>1, OneMoreComer DEF Call, reservationVars
<1>2. ASSUME NEW c \in Clients, AcquireWaits(c) PROVE NoLostFreeBuffer'
  <2>1. busy_count' = busy_count /\ busy_count >= BufferCount
    BY <1>2 DEF AcquireWaits, AllBusy, reservationVars
  <2>2. At("acquire")' \in SUBSET At("acquire")
    BY <1>2 DEF AcquireWaits, At, ClientTypeOK
  <2>3. Cardinality(At("acquire")') \in Nat
    BY <2>2, ComersFinite, FS_Subset, FS_CardinalityType
  <2>. QED  BY <1>0, <2>1, <2>3 DEF NoLostFreeBuffer
<1>3. ASSUME NEW c \in Clients, Acquire(c) PROVE NoLostFreeBuffer'
  <2>1. pc' = [pc EXCEPT ![c] = "submit"] /\ pc[c] = "acquire" /\ busy_count' = busy_count + 1
    BY <1>3 DEF Acquire
  <2>2. At("acquire")' = At("acquire") \ {c} /\ c \in At("acquire")
        /\ At("acquire_wait")' = At("acquire_wait")
    BY <2>1 DEF At, ClientTypeOK
  <2>3. Cardinality(At("acquire")') = Cardinality(At("acquire")) - 1
        /\ Cardinality(At("acquire")) \in Nat
    BY <2>2, ComersFinite, FS_RemoveElement
  <2>4. SUFFICES ASSUME At("acquire_wait")' # {}
                 PROVE  busy_count' + Cardinality(At("acquire")') >= BufferCount
    BY DEF NoLostFreeBuffer
  <2>5. busy_count + Cardinality(At("acquire")) >= BufferCount
    BY <2>2, <2>4 DEF NoLostFreeBuffer
  <2>. QED  BY <1>0, <2>1, <2>3, <2>5
<1>4. ASSUME NEW c \in Clients, ReleaseBuffer(c) PROVE NoLostFreeBuffer'
  <2>1. pc[c] = "release" /\ busy_count' = busy_count - 1
        /\ pc' \in Signal([pc EXCEPT ![c] = "idle"], At("acquire_wait"), "acquire")
    BY <1>4 DEF ReleaseBuffer, WaitingForBuffer
  <2>2. CASE At("acquire_wait") = {}
    <3>1. pc' = [pc EXCEPT ![c] = "idle"]
      BY <2>1, <2>2 DEF Signal
    <3>2. At("acquire_wait")' = {}
      BY <2>2, <3>1 DEF At, ClientTypeOK
    <3>. QED  BY <3>2 DEF NoLostFreeBuffer
  <2>3. CASE At("acquire_wait") # {}
    <3>1. \E w \in At("acquire_wait") :
             pc' = [[pc EXCEPT ![c] = "idle"] EXCEPT ![w] = "acquire"]
      BY <2>1, <2>3, Zenon DEF Signal
    <3>2. PICK w \in At("acquire_wait") :
             pc' = [[pc EXCEPT ![c] = "idle"] EXCEPT ![w] = "acquire"]
      BY <3>1
    <3>3. At("acquire")' = At("acquire") \cup {w} /\ w \notin At("acquire")
      BY <2>1, <3>2 DEF At, ClientTypeOK
    <3>4. /\ Cardinality(At("acquire")') = Cardinality(At("acquire")) + 1
          /\ Cardinality(At("acquire")) \in Nat
      BY <3>3, ComersFinite, FS_AddElement
    <3>5. busy_count + Cardinality(At("acquire")) >= BufferCount
      BY <2>3 DEF NoLostFreeBuffer
    <3>6. busy_count' + Cardinality(At("acquire")') >= BufferCount
      BY <1>0, <2>1, <3>4, <3>5
    <3>. QED  BY <3>6 DEF NoLostFreeBuffer
  <2>. QED  BY <2>2, <2>3
<1>5. ASSUME NEW c \in Clients, SpuriousClient(c) PROVE NoLostFreeBuffer'
  <2>0. busy_count' = busy_count
    BY <1>5 DEF SpuriousClient, reservationVars
  <2>1. CASE pc[c] = "acquire_wait"
    <3>1. pc' = [pc EXCEPT ![c] = "acquire"]
      BY <1>5, <2>1 DEF SpuriousClient
    <3>. QED  BY <1>0, <2>0, <2>1, <3>1, OneMoreComer
  <2>2. CASE pc[c] # "acquire_wait"
    <3>1. At("acquire")' = At("acquire") /\ At("acquire_wait")' = At("acquire_wait")
      BY <1>5, <2>2 DEF SpuriousClient, At, ClientTypeOK
    <3>. QED  BY <2>0, <3>1, SameComers
  <2>. QED  BY <2>1, <2>2
<1>6. ASSUME NEW c \in Clients,
             SubmitWaits(c) \/ Submit(c) \/ SubmitFails(c) \/ ReleaseWaits(c) \/ ReleaseTask(c)
      PROVE  NoLostFreeBuffer'
  <2>1. At("acquire")' = At("acquire") /\ At("acquire_wait")' = At("acquire_wait")
    BY <1>6 DEF SubmitWaits, Submit, SubmitFails, NextRequest, ReleaseWaits, ReleaseTask,
         At, ClientTypeOK
  <2>2. busy_count' = busy_count
    BY <1>6 DEF SubmitWaits, Submit, SubmitFails, ReleaseWaits, ReleaseTask, reservationVars
  <2>. QED  BY <2>1, <2>2, SameComers
<1>7. CASE Extract
  <2>1. pc' = pc \/ \E w \in At("submit_wait") : pc' = [pc EXCEPT ![w] = "submit"]
    <3>1. \/ pc' = pc
          \/ \E W \in SUBSET At("submit_wait") : pc' \in Signal(pc, W, "submit")
      BY <1>7 DEF Extract
    <3>. QED  BY <3>1, SignalWakesOne
  <2>2. At("acquire")' = At("acquire") /\ At("acquire_wait")' = At("acquire_wait")
    BY <2>1 DEF At, ClientTypeOK
  <2>3. busy_count' = busy_count
    BY <1>7 DEF Extract, reservationVars
  <2>. QED  BY <2>2, <2>3, SameComers
<1>8. ASSUME NEW i \in Instance, Complete(i) PROVE NoLostFreeBuffer'
  <2>1. pc' = pc \/ \E w \in At("release_wait") : pc' = [pc EXCEPT ![w] = "release"]
    <3>1. \E W \in SUBSET At("release_wait") : pc' \in Signal(pc, W, "release")
      BY <1>8 DEF Complete
    <3>. QED  BY <3>1, SignalWakesOne
  <2>2. At("acquire")' = At("acquire") /\ At("acquire_wait")' = At("acquire_wait")
    BY <2>1 DEF At, ClientTypeOK
  <2>3. busy_count' = busy_count
    BY <1>8 DEF Complete, reservationVars
  <2>. QED  BY <2>2, <2>3, SameComers
<1>9. ASSUME UNCHANGED <<pc, busy_count>> PROVE NoLostFreeBuffer'
  <2>1. At("acquire")' = At("acquire") /\ At("acquire_wait")' = At("acquire_wait")
    BY <1>9 DEF At
  <2>. QED  BY <1>9, <2>1, SameComers
<1>10. \/ \E c \in Clients : \/ Call(c) \/ ClientStep(c) \/ SpuriousClient(c)
       \/ Extract \/ \E i \in Instance : Complete(i)
       \/ UNCHANGED <<pc, busy_count>>
  BY DEF Next, vars, clientVars, reservationVars, SchedulerStep, RunnerStep, PollingStep,
     Pull, Scan, ForwardWaits, Forward, Throttle, ReadWaits, Read, Offload, CountRequest,
     OffloadFails, OffloadRetry, Respond, SpuriousThread
<1>. QED
  BY <1>1, <1>2, <1>3, <1>4, <1>5, <1>6, <1>7, <1>8, <1>9, <1>10 DEF ClientStep

-----------------------------------------------------------------------------
(* The inductive invariant, and the theorems.                              *)

LEMMA InitInv ==
    ASSUME Init
    PROVE  IInv
<1>1. 0 \in Slot /\ 0 \in Buffer /\ 0 \in Instance
  BY OffloadAssumption DEF Slot, Buffer, Instance
<1>. USE OffloadAssumption DEF Init
<1>2. EmptyBuffer \in RequestBuffer
  BY <1>1 DEF EmptyBuffer, RequestBuffer, Pointer
<1>3. <<>> \in Seq(Pointer) /\ Len(<<>>) = 0
  BY EmptySeq
<1>4. Holders = {}
  BY DEF Holders
<1>5. Cardinality({}) = 0
  BY FS_EmptySet
<1>6. ClientTypeOK
  BY DEF ClientTypeOK
<1>7. ReservationTypeOK /\ SchedulerTypeOK
  BY <1>1, <1>3 DEF ReservationTypeOK, SchedulerTypeOK
<1>8. RunnerTypeOK
  BY <1>1, <1>3 DEF RunnerTypeOK
<1>9. DeviceTypeOK
  BY <1>1 DEF DeviceTypeOK, Pointer
<1>10. buffer \in [Buffer -> RequestBuffer]
  BY <1>2
<1>11. request_status \in [Request -> RequestStatus] /\ op_output \in [Request -> BOOLEAN]
  BY DEF RequestStatus
<1>12. he_qat_buffer \in Seq(Pointer) /\ Len(he_qat_buffer) <= BufferSize
  BY <1>3
<1>13. TypeOK
  BY <1>6, <1>7, <1>8, <1>9, <1>10, <1>11, <1>12 DEF TypeOK
<1>14. LoopsOK /\ ListsOK
  BY DEF LoopsOK, ListsOK
<1>15. BufferExclusive
  BY <1>4, <1>5 DEF BufferExclusive
<1>16. ThrottleOK
  <2>1. Owed = 0 /\ Promised = 0 /\ Cardinality(device) = 0
    BY <1>5 DEF Owed, Promised, Difference
  <2>. QED  BY <2>1 DEF ThrottleOK
<1>17. NoLostFreeBuffer
  BY DEF NoLostFreeBuffer, At
<1>. QED  BY <1>13, <1>14, <1>15, <1>16, <1>17 DEF IInv

LEMMA InvStep ==
    ASSUME IInv, [Next]_vars
    PROVE  IInv'
<1>1. /\ ClientTypeOK /\ ReservationTypeOK /\ SchedulerTypeOK
      /\ RunnerTypeOK /\ DeviceTypeOK /\ QueueTypeOK /\ RequestTypeOK
      /\ buffer \in [Buffer -> RequestBuffer]
      /\ LoopsOK /\ ListsOK /\ BufferExclusive /\ ThrottleOK /\ NoLostFreeBuffer
  BY DEF IInv, TypeOK, QueueTypeOK, RequestTypeOK
<1>2. ClientTypeOK' /\ LoopsOK'
  BY <1>1, ClientTypeStep
<1>3. BufferExclusive' /\ ReservationTypeOK'
  BY <1>1, ExclusiveStep, ReservationTypeStep
<1>4. buffer' \in [Buffer -> RequestBuffer]
  BY <1>1, BufferTypeStep
<1>5. SchedulerTypeOK' /\ QueueTypeOK'
  BY <1>1, SchedulerTypeStep
<1>6. RunnerTypeOK' /\ ListsOK'
  BY <1>1, RunnerTypeStep
<1>7. DeviceTypeOK' /\ RequestTypeOK'
  BY <1>1, DeviceTypeStep, RequestTypeStep
<1>8. ThrottleOK' /\ NoLostFreeBuffer'
  BY <1>1, ThrottleStep, WakeupStep
<1>. QED
  BY <1>2, <1>3, <1>4, <1>5, <1>6, <1>7, <1>8 DEF IInv, TypeOK, QueueTypeOK, RequestTypeOK

\* The rings, the reservation, the loops, the lists, the throttle and the wakeups
\* keep their inductive invariant whatever the constants and the failures: what the
\* threads of the offload path rely on between two of their critical sections.
THEOREM Invariant == Spec => []IInv
<1>1. Init => IInv
  BY InitInv
<1>2. IInv /\ [Next]_vars => IInv'
  BY InvStep
<1>. QED  BY <1>1, <1>2, PTL DEF Spec

\* Whatever the number of threads, buffers and slots, and whatever fails, every
\* variable keeps its type: no cursor of a ring leaves it, no count passes the
\* capacity, and a caller only touches a buffer that it was given.
THEOREM TypeCorrect == Spec => []TypeOK
<1>1. IInv => TypeOK
  BY DEF IInv
<1>. QED  BY <1>1, Invariant, PTL

\* acquire_bnModExp_buffer and release_bnModExp_buffer never give a buffer to two
\* callers and never lose one, for any number of callers and buffers: a buffer
\* is marked as taken exactly when one caller holds it, and busy_count is the
\* number of them.
THEOREM OneCallerPerBuffer == Spec => []BufferExclusive
<1>1. IInv => BufferExclusive
  BY DEF IInv
<1>. QED  BY <1>1, Invariant, PTL

\* A caller that waits for a buffer has not missed its signal, for any number of
\* callers and buffers and with spurious wakeups: release_bnModExp_buffer may
\* signal once per release, and acquire_bnModExp_buffer never needs to.
THEOREM NoWakeupLost == Spec => []NoLostFreeBuffer
<1>1. IInv => NoLostFreeBuffer
  BY DEF IInv
<1>. QED  BY <1>1, Invariant, PTL

\* The throttle of start_instances keeps the accelerator at max_pending requests
\* at most, for every threshold, number of instances and counter width, although
\* what it read is stale when it is used and the counters wrap around.
THEOREM LoadBounded == Spec => []InFlightBounded
<1>1. IInv => InFlightBounded
  <2>. SUFFICES ASSUME IInv PROVE InFlightBounded
    OBVIOUS
  <2>1. RunnerTypeOK /\ DeviceTypeOK /\ ListsOK /\ ThrottleOK
    BY DEF IInv, TypeOK
  <2>2. Cardinality(device) \in Nat /\ Owed \in Nat /\ MaxPending \in Nat
    BY <2>1, DeviceFinite, OwedInRange, OffloadAssumption
  <2>3. Promised \in Nat
    <3>1. /\ max_requests \in Nat
          /\ to_offload \in Seq(Pointer)
          /\ runner \in {"offload", "count"} => to_offload # <<>>
      BY <2>1 DEF RunnerTypeOK, ListsOK
    <3>2. Len(to_offload) \in Nat
      BY <3>1, LenProperties
    <3>3. runner = "count" => Len(to_offload) - 1 \in Nat
      BY <3>1, TailShorter
    <3>. QED  BY <3>1, <3>2, <3>3 DEF Promised
  <2>. QED  BY <2>1, <2>2, <2>3 DEF ThrottleOK, InFlightBounded
<1>. QED  BY <1>1, Invariant, PTL

=============================================================================
