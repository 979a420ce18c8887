------------------------ MODULE HeQatBarrier_proofs ------------------------
(***************************************************************************)
(* What the barrier of the single-threaded interface promises for every    *)
(* size of the internal buffer, of a batch and of a call, whichever of the *)
(* two processing threads and of the two builds runs, and whatever fails.  *)
(*                                                                         *)
(* The invariant ties together what three parties keep apart: the slots    *)
(* between the cursor of the barrier and the next free slot, which are the *)
(* requests of the current slice that are not collected; the slots and the *)
(* list of the processing thread, whose requests nobody has freed; and the *)
(* number of requests ever accepted and answered.                          *)
(***************************************************************************)
EXTENDS HeQatBarrier, TLAPS, FiniteSetTheorems

-----------------------------------------------------------------------------
(* The invariant.                                                          *)

\* Slots on from slot, around the buffer.
Ahead(slot, k) == (slot + k) % BufferSize

\* What the processing thread will read, and what the barrier will look at.
NotRead(k) == he_qat_buffer.data[Ahead(he_qat_buffer.next_data_slot, k)]
Held(k) == he_qat_buffer.data[Ahead(block_at_index, k)]

\* The slices of a call, and the element it will submit next.
SliceTotal == Slices + (IF Residue > 0 THEN 1 ELSE 0)
Position == slice * Batch + (IF app = "submit" THEN element ELSE SliceSize)

\* The first request of the list has been accepted.
HeadAccepted == runner \in {"count", "completion", "lost"}
FirstWaiting == IF HeadAccepted THEN 2 ELSE 1
Waiting == Unread \cup {to_offload[k] : k \in FirstWaiting .. Len(to_offload)}

\* The variables, but for the size of the counters.
VariablesOK ==
    /\ {legacy, synchronous, skewed} \subseteq BOOLEAN
    /\ failures \in 0 .. MaxFailures
    /\ restarts \in 0 .. MaxRestarts
    /\ block_at_index \in Slot
    /\ he_qat_buffer \in [data : [Slot -> Pointer], count : 0 .. BufferSize,
                          next_free_slot : Slot, next_data_slot : Slot]
    /\ max_requests \in 0 .. MaxPending
    /\ retry \in 0 .. MaxRetry - 1
    /\ request_count \in Nat /\ response_count \in Nat
    /\ device \subseteq Request
    /\ callback \in [Request -> {"none", "counted", "post"}]
    /\ request_status \in [Request -> RequestStatus]
    /\ semaphore \in [Request -> {"none", "zero", "posted"}]
    /\ op_output \in [Request -> BOOLEAN]

\* The caller, between two slices of its work.
CallerOK ==
    /\ app \in {"idle", "submit", "barrier", "barrier_wait", "collect"}
    /\ call \in 0 .. MaxCalls
    /\ app = "idle" => worksize = 0 /\ slice = 0 /\ element = 0 /\ j = 0
    /\ app # "idle" =>
          /\ call > 0 /\ worksize \in WorkSizes
          /\ slice \in 0 .. SliceTotal - 1
          /\ element \in 0 .. SliceSize - 1
          /\ app # "submit" => element = 0
          /\ j \in 0 .. SliceSize
          /\ app \in {"barrier", "barrier_wait"} => j < SliceSize

\* The list of the processing thread, which it never reads without a request.
RunnerOK ==
    /\ runner \in {"throttle", "read", "offload", "count", "completion", "lost", "exited"}
    /\ runner = "read" => max_requests > 0
    /\ to_offload \in Seq(Request) /\ Len(to_offload) <= BufferSize
    /\ to_offload = <<>> <=> runner \in {"throttle", "read"}
    /\ ~synchronous => runner \notin {"completion", "lost"} /\ \A r \in Request : callback[r] # "post"

\* The requests that are not read are in the slots before the next free one, each
\* once, and none of them in the list.
UnreadOK ==
    /\ he_qat_buffer.next_free_slot = Ahead(he_qat_buffer.next_data_slot, he_qat_buffer.count)
    /\ \A k \in 0 .. he_qat_buffer.count - 1 : NotRead(k) # NULL
    /\ \A k, l \in 0 .. he_qat_buffer.count - 1 : k # l => NotRead(k) # NotRead(l)
    /\ \A k, l \in 1 .. Len(to_offload) : k # l => to_offload[k] # to_offload[l]
    /\ \A k \in 1 .. Len(to_offload), l \in 0 .. he_qat_buffer.count - 1 :
          to_offload[k] # NotRead(l)

\* Where a request is says what its status can be.
WaitingOK ==
    \A r \in Waiting : request_status[r] = "SUCCESS" /\ callback[r] = "none" /\ r \notin device

AcceptedOK ==
    /\ \A r \in device : request_status[r] = "SUCCESS" /\ callback[r] = "none"
    /\ \A r \in Request : callback[r] = "counted" => request_status[r] = "SUCCESS"
    /\ \A r \in Request : callback[r] = "post" => request_status[r] # "NEW"
    /\ HeadAccepted => request_status[Head(to_offload)] # "NEW"

\* What is ready, and what the barrier has freed, was delivered.
DeliveredOK == \A r \in Request : request_status[r] \in {"READY", "FREED"} => op_output[r]

\* What the caller has not come to is new.
NewOK ==
    \A r \in Request :
        r[1] > call \/ (app # "idle" /\ r[1] = call /\ r[2] >= Position) => request_status[r] = "NEW"

\* The synchronous build gives the accelerator the head of the list alone, and its
\* semaphore is not posted before its callback has published.
SynchronousOK ==
    synchronous =>
        \A r \in Request : r \in device \/ callback[r] = "counted" =>
            HeadAccepted /\ r = Head(to_offload) /\ semaphore[r] # "posted"

\* The n slots from the barrier's cursor on hold what is left of the slice, and
\* the others nothing.
TurnsLeft ==
    CASE app \in {"idle", "collect"} -> 0
      [] app = "submit" -> element
      [] OTHER -> SliceSize - j

WindowOf(n) ==
    /\ he_qat_buffer.next_free_slot = Ahead(block_at_index, n)
    /\ \A k \in 0 .. BufferSize - 1 : Held(k) = NULL <=> k >= n
    /\ he_qat_buffer.count <= n
    /\ n <= TurnsLeft
    /\ app # "idle" =>
          \A r \in SliceRequests :
              request_status[r] \in {"NEW", "FREED"} \/ \E k \in 0 .. n - 1 : Held(k) = r

WindowOK == ~skewed => \E n \in 0 .. BufferSize : WindowOf(n)

\* No more requests are counted than were taken from the buffer.
Taken == {r \in Request : request_status[r] # "NEW" /\ r \notin Waiting}
Counted == IF runner = "count" THEN Taken \ {Head(to_offload)} ELSE Taken
CountsOK ==
    /\ request_count <= Cardinality(Counted)
    /\ response_count <= Cardinality(Taken \ device)

BarrierInv ==
    /\ VariablesOK /\ CallerOK /\ RunnerOK
    /\ UnreadOK /\ WaitingOK /\ AcceptedOK /\ DeliveredOK /\ NewOK
    /\ SynchronousOK /\ WindowOK /\ CountsOK

-----------------------------------------------------------------------------
(* Facts about the constants, the buffer and the slices.                   *)

LEMMA Constants ==
    /\ BufferSize \in Nat \ {0} /\ BatchSize \in 1 .. BufferSize
    /\ MaxPending \in Nat \ {0} /\ MaxRetry \in Nat \ {0} /\ WorkSizes \subseteq Nat \ {0}
    /\ RestartThreshold \in 1 .. MaxPending
    /\ MaxCalls \in Nat /\ MaxFailures \in Nat /\ MaxRestarts \in Nat
    /\ MaxWork \in Nat \ {0} /\ \A w \in WorkSizes : w \in Nat \ {0} /\ w <= MaxWork
<1>1. PICK n \in WorkSizes : \A m \in WorkSizes : m <= n
  BY BarrierAssumption
<1>2. MaxWork \in WorkSizes /\ \A m \in WorkSizes : m <= MaxWork
  BY <1>1 DEF MaxWork
<1>. QED BY <1>2, BarrierAssumption

\* Around the buffer, in plain arithmetic.
LEMMA Around ==
    ASSUME NEW slot \in Slot, NEW k \in 0 .. BufferSize
    PROVE  /\ Ahead(slot, k) = IF slot + k < BufferSize THEN slot + k ELSE slot + k - BufferSize
           /\ Ahead(slot, k) \in Slot
           /\ FollowingSlot(slot) = Ahead(slot, 1)
<1>1. BufferSize \in Nat \ {0} /\ slot \in 0 .. BufferSize - 1
  BY Constants DEF Slot
<1>2. CASE slot + k < BufferSize
  <2>1. (slot + k) % BufferSize = slot + k
    BY <1>1, <1>2
  <2>. QED BY <1>1, <1>2, <2>1 DEF Ahead, FollowingSlot, Slot
<1>3. CASE slot + k >= BufferSize
  <2>. DEFINE m == slot + k - BufferSize
  <2>1. m \in 0 .. BufferSize - 1 /\ slot + k = m + BufferSize
    BY <1>1, <1>3
  <2>2. (m + BufferSize) % BufferSize = m
    BY <1>1, <2>1
  <2>. QED BY <1>1, <1>3, <2>1, <2>2 DEF Ahead, FollowingSlot, Slot
<1>. QED BY <1>1, <1>2, <1>3

\* Two places of the buffer are one slot only if they are as far ahead.
LEMMA AheadDiffers ==
    ASSUME NEW slot \in Slot, NEW k \in 0 .. BufferSize, NEW l \in 0 .. BufferSize,
           k < l, l - k < BufferSize
    PROVE  Ahead(slot, k) # Ahead(slot, l)
<1>1. BufferSize \in Nat \ {0} /\ slot \in 0 .. BufferSize - 1
  BY Constants DEF Slot
<1>2. /\ Ahead(slot, k) = IF slot + k < BufferSize THEN slot + k ELSE slot + k - BufferSize
      /\ Ahead(slot, l) = IF slot + l < BufferSize THEN slot + l ELSE slot + l - BufferSize
  BY Around
<1>. QED BY <1>1, <1>2

LEMMA AheadTwice ==
    ASSUME NEW slot \in Slot, NEW k \in 0 .. BufferSize, NEW l \in 0 .. BufferSize,
           k + l <= BufferSize
    PROVE  Ahead(Ahead(slot, k), l) = Ahead(slot, k + l)
<1>1. BufferSize \in Nat \ {0} /\ slot \in 0 .. BufferSize - 1
  BY Constants DEF Slot
<1>2. /\ Ahead(slot, k) = IF slot + k < BufferSize THEN slot + k ELSE slot + k - BufferSize
      /\ Ahead(slot, k) \in Slot
  BY Around
<1>3. k + l \in 0 .. BufferSize
  BY <1>1
<1>4. Ahead(slot, k + l) = IF slot + (k + l) < BufferSize THEN slot + (k + l)
                           ELSE slot + (k + l) - BufferSize
  BY <1>3, Around
<1>. DEFINE s == Ahead(slot, k)
<1>5. s \in Slot /\ s \in 0 .. BufferSize - 1
  BY <1>2 DEF Slot
<1>6. Ahead(s, l) = IF s + l < BufferSize THEN s + l ELSE s + l - BufferSize
  <2>. HIDE DEF s
  <2>. QED BY <1>5, Around
<1>. QED BY <1>1, <1>2, <1>4, <1>5, <1>6

LEMMA RequestsFinite ==
    /\ IsFiniteSet(Request)
    /\ Cardinality(Request) = MaxCalls * MaxWork
    /\ NULL \notin Request
<1>1. MaxCalls \in Nat /\ MaxWork \in Nat \ {0}
  BY Constants
<1>2. /\ IsFiniteSet(1 .. MaxCalls) /\ Cardinality(1 .. MaxCalls) = MaxCalls
      /\ IsFiniteSet(0 .. MaxWork - 1) /\ Cardinality(0 .. MaxWork - 1) = MaxWork
  BY <1>1, FS_Interval
<1>3. /\ IsFiniteSet((1 .. MaxCalls) \X (0 .. MaxWork - 1))
      /\ Cardinality((1 .. MaxCalls) \X (0 .. MaxWork - 1)) = MaxCalls * MaxWork
  <2>. DEFINE S == 1 .. MaxCalls
              T == 0 .. MaxWork - 1
  <2>1. IsFiniteSet(S) /\ IsFiniteSet(T) /\ Cardinality(S) = MaxCalls /\ Cardinality(T) = MaxWork
    BY <1>2
  <2>. HIDE DEF S, T
  <2>2. IsFiniteSet(S \X T) /\ Cardinality(S \X T) = MaxCalls * MaxWork
    BY <2>1, FS_Product
  <2>. QED BY <2>2 DEF S, T
<1>. QED BY <1>3, NullAssumption DEF Request

LEMMA Multiples ==
    ASSUME NEW x \in Int, NEW y \in Int, NEW b \in Nat
    PROVE  /\ x * b \in Int /\ (x + 1) * b = x * b + b /\ 0 * b = 0 /\ 1 * b = b
           /\ x <= y => x * b <= y * b
<1>1. x * b \in Int /\ (x + 1) * b = x * b + b /\ 0 * b = 0 /\ 1 * b = b
  OBVIOUS
<1>2. ASSUME x <= y PROVE x * b <= y * b
  <2>1. (y - x) * b >= 0
    BY <1>2
  <2>2. (y - x) * b = y * b - x * b
    OBVIOUS
  <2>. QED BY <2>1, <2>2
<1>. QED BY <1>1, <1>2

LEMMA WholeSlices ==
    ASSUME NEW a \in Nat, NEW b \in Nat \ {0}, a >= b
    PROVE  a \div b \in Nat \ {0}
<1>1. a \div b \in Nat /\ a % b \in 0 .. b - 1 /\ a = (b * (a \div b)) + (a % b)
  OBVIOUS
<1>2. CASE a \div b = 0
  BY <1>1, <1>2
<1>. QED BY <1>1, <1>2

\* A slice fits the buffer, lies within the work and is followed by the next one.
LEMMA SliceFacts ==
    ASSUME worksize \in WorkSizes, slice \in 0 .. SliceTotal - 1
    PROVE  /\ Batch \in 1 .. BatchSize /\ Slices \in Nat \ {0} /\ Residue \in Nat
           /\ SliceSize \in 1 .. BatchSize /\ slice \in Nat
           /\ slice * Batch \in Nat /\ slice * Batch + SliceSize <= worksize
           /\ worksize \in 1 .. MaxWork /\ SliceTotal \in 0 .. worksize
           /\ slice + 1 < SliceTotal => (slice + 1) * Batch = slice * Batch + SliceSize
<1>. DEFINE q == worksize \div BatchSize
            r == worksize % BatchSize
<1>1. worksize \in 1 .. MaxWork /\ worksize \in Nat \ {0} /\ BatchSize \in Nat \ {0} /\ BufferSize \in Nat
  BY Constants
<1>2. q \in Nat /\ r \in 0 .. BatchSize - 1 /\ worksize = q * BatchSize + r
  BY <1>1
<1>3. CASE worksize < BatchSize
  <2>1. Batch = worksize /\ Slices = 1 /\ Residue = 0
    BY <1>3 DEF Batch, Slices, Residue
  <2>2. SliceTotal = 1 /\ slice = 0
    BY <2>1 DEF SliceTotal
  <2>3. SliceSize = worksize
    BY <2>1, <2>2 DEF SliceSize
  <2>. QED BY <1>1, <1>3, <2>1, <2>2, <2>3
<1>4. CASE worksize >= BatchSize
  <2>1. Batch = BatchSize /\ Slices = q /\ Residue = r
    BY <1>1, <1>4 DEF Batch, Slices, Residue
  <2>. HIDE DEF q, r
  <2>2. q # 0
    BY <1>1, <1>2, <1>4
  <2>3. SliceTotal = q + (IF r > 0 THEN 1 ELSE 0)
    BY <2>1 DEF SliceTotal
  <2>4. slice \in Nat /\ slice <= q /\ (slice = q => r > 0)
    BY <1>2, <2>3
  <2>5. /\ slice * BatchSize \in Int /\ 0 <= slice * BatchSize
        /\ (slice + 1) * BatchSize = slice * BatchSize + BatchSize
        /\ slice + 1 <= q => (slice + 1) * BatchSize <= q * BatchSize
        /\ q <= q * BatchSize /\ q * BatchSize \in Int
    <3>1. 0 * BatchSize <= slice * BatchSize /\ slice + 1 \in Int
      BY <1>1, <2>4, Multiples
    <3>2. q * 1 <= q * BatchSize
      <4>1. q * (BatchSize - 1) >= 0
        BY <1>1, <1>2
      <4>2. q * (BatchSize - 1) = q * BatchSize - q
        BY <1>1, <1>2
      <4>3. q * BatchSize \in Int
        BY <1>1, <1>2
      <4>. QED BY <1>2, <4>1, <4>2, <4>3
    <3>. QED BY <1>1, <1>2, <2>4, <3>1, <3>2, Multiples
  <2>6. CASE slice < q
    <3>1. SliceSize = BatchSize
      BY <2>1, <2>6 DEF SliceSize
    <3>. QED BY <1>1, <1>2, <2>1, <2>2, <2>3, <2>4, <2>5, <2>6, <3>1
  <2>7. CASE slice = q
    <3>1. SliceSize = r
      BY <1>2, <2>1, <2>7 DEF SliceSize
    <3>. QED BY <1>1, <1>2, <2>1, <2>2, <2>3, <2>4, <2>5, <2>7, <3>1
  <2>. QED BY <1>2, <2>4, <2>6, <2>7
<1>. QED BY <1>1, <1>3, <1>4

LEMMA SliceRequestsAreRequests ==
    CallerOK /\ app # "idle" =>
        /\ SliceRequests \subseteq Request
        /\ \A r \in SliceRequests : r[1] = call /\ r[2] >= slice * Batch
<1>. SUFFICES ASSUME CallerOK, app # "idle"
              PROVE  /\ SliceRequests \subseteq Request
                     /\ \A r \in SliceRequests : r[1] = call /\ r[2] >= slice * Batch
  OBVIOUS
<1>1. /\ worksize \in 1 .. MaxWork /\ SliceSize \in 1 .. BatchSize
      /\ slice * Batch \in Nat /\ slice * Batch + SliceSize <= worksize
      /\ BatchSize \in Nat
  BY SliceFacts, Constants DEF CallerOK
<1>2. call \in 1 .. MaxCalls /\ MaxCalls \in Nat /\ MaxWork \in Nat
  BY Constants DEF CallerOK
<1>3. ASSUME NEW k \in 0 .. SliceSize - 1
      PROVE  slice * Batch + k \in 0 .. MaxWork - 1 /\ slice * Batch + k >= slice * Batch
  BY <1>1, <1>2
<1>. QED BY <1>2, <1>3 DEF SliceRequests, Request

\* The same of the state that a step leads to.
LEMMA SliceFactsThen ==
    (worksize \in WorkSizes /\ slice \in 0 .. SliceTotal - 1 =>
        SliceSize \in 1 .. BatchSize /\ slice * Batch \in Nat)'
<1>1. worksize \in WorkSizes /\ slice \in 0 .. SliceTotal - 1 =>
        SliceSize \in 1 .. BatchSize /\ slice * Batch \in Nat
  BY SliceFacts
<1>. QED BY <1>1, PTL

LEMMA SliceRequestsThen ==
    (CallerOK /\ app # "idle" =>
        /\ SliceRequests \subseteq Request
        /\ \A r \in SliceRequests : r[1] = call /\ r[2] >= slice * Batch)'
BY SliceRequestsAreRequests, PTL

-----------------------------------------------------------------------------
(* The beginning, and what a step leaves alone.                            *)

LEMMA InitInv == Init => BarrierInv
<1>. SUFFICES ASSUME Init PROVE BarrierInv
  OBVIOUS
<1>. USE Constants
<1>1. /\ he_qat_buffer = EmptyBuffer /\ block_at_index = 0 /\ 0 \in Slot /\ Ahead(0, 0) = 0
      /\ he_qat_buffer.count = 0 /\ he_qat_buffer.next_free_slot = 0 /\ he_qat_buffer.next_data_slot = 0
      /\ he_qat_buffer.data = [s \in Slot |-> NULL]
  <2>1. 0 \in Slot
    BY DEF Slot
  <2>. QED BY <2>1, Around DEF Init, EmptyBuffer
<1>2. VariablesOK
  <2>1. EmptyBuffer \in [data : [Slot -> Pointer], count : 0 .. BufferSize,
                         next_free_slot : Slot, next_data_slot : Slot]
    BY <1>1 DEF EmptyBuffer, Pointer
  <2>. QED BY <1>1, <2>1 DEF Init, VariablesOK, RequestStatus
<1>3. CallerOK /\ RunnerOK
  BY DEF Init, CallerOK, RunnerOK
<1>4. UnreadOK
  BY <1>1 DEF Init, UnreadOK
<1>5. Waiting = {}
  BY <1>1 DEF Init, Waiting, Unread, FirstWaiting, HeadAccepted
<1>6. WaitingOK /\ AcceptedOK /\ DeliveredOK /\ NewOK /\ SynchronousOK
  BY <1>5 DEF Init, WaitingOK, AcceptedOK, DeliveredOK, NewOK, SynchronousOK, HeadAccepted
<1>7. WindowOK
  <2>1. \A k \in 0 .. BufferSize - 1 : Held(k) = NULL
    <3>. SUFFICES ASSUME NEW k \in 0 .. BufferSize - 1 PROVE Held(k) = NULL
      OBVIOUS
    <3>1. Ahead(block_at_index, k) \in Slot
      BY <1>1, Around
    <3>. QED BY <1>1, <3>1 DEF Held
  <2>2. WindowOf(0)
    BY <1>1, <2>1 DEF Init, WindowOf, TurnsLeft
  <2>. QED BY <2>2 DEF WindowOK
<1>8. CountsOK
  <2>1. Taken = {}
    BY DEF Init, Taken
  <2>2. Counted = {} /\ Taken \ device = {}
    BY <2>1 DEF Init, Counted
  <2>3. Cardinality(Counted) = 0 /\ Cardinality(Taken \ device) = 0
    BY <2>2, FS_EmptySet
  <2>4. request_count = 0 /\ response_count = 0
    BY DEF Init
  <2>. QED BY <2>3, <2>4 DEF CountsOK
<1>. QED BY <1>2, <1>3, <1>4, <1>6, <1>7, <1>8 DEF BarrierInv

LEMMA SliceFrame ==
    ASSUME UNCHANGED <<worksize, slice>>
    PROVE  Batch' = Batch /\ Slices' = Slices /\ Residue' = Residue /\ SliceSize' = SliceSize
           /\ SliceTotal' = SliceTotal
BY DEF Batch, Slices, Residue, SliceSize, SliceTotal

LEMMA CallerFrame ==
    ASSUME CallerOK, UNCHANGED <<call, worksize, slice, element, j>>,
           app' = app \/ {app, app'} \subseteq {"barrier", "barrier_wait"}
    PROVE  CallerOK' /\ Position' = Position /\ (app' = "idle" <=> app = "idle")
BY SliceFrame DEF CallerOK, Position

LEMMA WaitingFrame ==
    ASSUME UNCHANGED <<he_qat_buffer, runner, to_offload>>
    PROVE  Unread' = Unread /\ Waiting' = Waiting
BY DEF Unread, Waiting, FirstWaiting, HeadAccepted

\* A window stays one while the slots do.
LEMMA WindowFrame ==
    ASSUME CallerOK, WindowOK,
           UNCHANGED <<skewed, block_at_index, call, worksize, slice, element, j>>,
           he_qat_buffer'.data = he_qat_buffer.data,
           he_qat_buffer'.next_free_slot = he_qat_buffer.next_free_slot,
           he_qat_buffer'.count \in Nat, he_qat_buffer.count \in Nat,
           he_qat_buffer'.count <= he_qat_buffer.count,
           app' = app \/ {app, app'} \subseteq {"barrier", "barrier_wait"},
           \A r \in Request :
               request_status[r] \in {"NEW", "FREED"} => request_status'[r] = request_status[r]
    PROVE  WindowOK'
<1>. SUFFICES ASSUME ~skewed PROVE \E n \in 0 .. BufferSize : WindowOf(n)'
  BY DEF WindowOK
<1>1. PICK n \in 0 .. BufferSize : WindowOf(n)
  BY DEF WindowOK
<1>2. TurnsLeft' = TurnsLeft /\ SliceRequests' = SliceRequests
  BY SliceFrame DEF TurnsLeft, SliceRequests
<1>3. \A k \in 0 .. BufferSize : Held(k)' = Held(k)
  BY DEF Held
<1>4. WindowOf(n)'
  <2>1. he_qat_buffer'.next_free_slot = Ahead(block_at_index, n)
        /\ he_qat_buffer'.count <= n /\ n <= TurnsLeft'
    BY <1>1, <1>2 DEF WindowOf
  <2>2. app' # "idle" => app # "idle"
    OBVIOUS
  <2>3. app # "idle" => \A r \in SliceRequests :
              request_status'[r] \in {"NEW", "FREED"} \/ \E k \in 0 .. n - 1 : Held(k) = r
    BY <1>1, SliceRequestsAreRequests DEF WindowOf
  <2>4. \A k \in 0 .. BufferSize - 1 : Held(k)' = NULL <=> k >= n
    BY <1>1, <1>3, Constants DEF WindowOf
  <2>5. \A r \in SliceRequests : (\E k \in 0 .. n - 1 : Held(k) = r) => \E k \in 0 .. n - 1 : Held(k)' = r
    BY <1>3, Constants
  <2>6. app' # "idle" => \A r \in SliceRequests' :
              request_status'[r] \in {"NEW", "FREED"} \/ \E k \in 0 .. n - 1 : Held(k)' = r
    BY <1>2, <2>2, <2>3, <2>5
  <2>. QED BY <2>1, <2>4, <2>6 DEF WindowOf
<1>. QED BY <1>4

LEMMA TakenFinite == IsFiniteSet(Taken) /\ IsFiniteSet(Counted) /\ IsFiniteSet(Taken \ device)
<1>1. Taken \in SUBSET Request /\ Counted \in SUBSET Request /\ Taken \ device \in SUBSET Request
  BY DEF Taken, Counted
<1>. QED BY <1>1, RequestsFinite, FS_Subset

LEMMA CountsFrame ==
    ASSUME VariablesOK, CountsOK, UNCHANGED <<request_count, response_count>>,
           Counted \subseteq Counted', Taken \ device \subseteq (Taken \ device)'
    PROVE  CountsOK'
<1>1. IsFiniteSet(Counted') /\ IsFiniteSet((Taken \ device)')
  <2>1. Counted' \in SUBSET Request /\ (Taken \ device)' \in SUBSET Request
    BY DEF Taken, Counted
  <2>. QED BY <2>1, RequestsFinite, FS_Subset
<1>2. Cardinality(Counted) <= Cardinality(Counted')
      /\ Cardinality(Taken \ device) <= Cardinality((Taken \ device)')
  BY <1>1, FS_Subset
<1>3. /\ Cardinality(Counted) \in Nat /\ Cardinality(Counted') \in Nat
      /\ Cardinality(Taken \ device) \in Nat /\ Cardinality((Taken \ device)') \in Nat
  BY <1>1, TakenFinite, FS_CardinalityType
<1>. QED BY <1>2, <1>3 DEF CountsOK, VariablesOK

\* When no request gets a status for the first time and none is accepted.
LEMMA CountsSame ==
    ASSUME VariablesOK, CountsOK, UNCHANGED <<request_count, response_count, runner, to_offload, device>>,
           Waiting' = Waiting,
           \A r \in Request : request_status[r] # "NEW" => request_status'[r] # "NEW"
    PROVE  CountsOK'
<1>1. Taken \subseteq Taken'
  BY DEF Taken
<1>. QED BY <1>1, CountsFrame DEF Counted

\* The processing thread, the accelerator and the requests are as they were.
LEMMA AppFrame ==
    ASSUME BarrierInv, UNCHANGED <<unfailing, he_qat_buffer, runnerVars, deviceVars, requestVars>>,
           failures' \in 0 .. MaxFailures, block_at_index' \in Slot
    PROVE  /\ VariablesOK' /\ RunnerOK' /\ UnreadOK' /\ WaitingOK' /\ AcceptedOK' /\ DeliveredOK'
           /\ SynchronousOK' /\ CountsOK'
<1>. USE DEF BarrierInv, unfailing, runnerVars, deviceVars, requestVars
<1>1. VariablesOK'
  BY DEF VariablesOK
<1>2. RunnerOK' /\ UnreadOK' /\ DeliveredOK'
  BY DEF RunnerOK, UnreadOK, NotRead, DeliveredOK
<1>3. WaitingOK' /\ AcceptedOK' /\ SynchronousOK'
  BY WaitingFrame DEF WaitingOK, AcceptedOK, SynchronousOK, HeadAccepted
<1>4. CountsOK'
  BY WaitingFrame, CountsSame
<1>. QED BY <1>1, <1>2, <1>3, <1>4

-----------------------------------------------------------------------------
(* The caller.                                                             *)

\* A window without slots suits every turn, and a slice that is not begun.
LEMMA EmptyWindow ==
    ASSUME VariablesOK, ~skewed => WindowOf(0), NewOK', CallerOK',
           UNCHANGED <<skewed, block_at_index, he_qat_buffer, request_status>>,
           app' # "idle" =>
              (UNCHANGED <<call, worksize, slice>> /\ app # "idle")
              \/ \A r \in SliceRequests' : request_status[r] = "NEW"
    PROVE  WindowOK'
<1>. SUFFICES ASSUME ~skewed PROVE WindowOf(0)'
  BY Constants DEF WindowOK
<1>1. \A k : Held(k)' = Held(k)
  BY DEF Held
<1>2. 0 <= TurnsLeft'
  BY SliceFactsThen, Constants DEF TurnsLeft, CallerOK
<1>3. UNCHANGED <<call, worksize, slice>> => SliceRequests' = SliceRequests
  BY SliceFrame DEF SliceRequests
<1>4. app' # "idle" => \A r \in SliceRequests' : request_status'[r] \in {"NEW", "FREED"}
  <2>1. CASE \A r \in SliceRequests' : request_status[r] = "NEW"
    BY <2>1
  <2>2. CASE UNCHANGED <<call, worksize, slice>> /\ app # "idle"
    BY <1>3, <2>2 DEF WindowOf
  <2>. QED BY <2>1, <2>2
<1>. QED BY <1>1, <1>2, <1>4 DEF WindowOf

LEMMA CallStep ==
    ASSUME BarrierInv, Call PROVE BarrierInv'
<1>. USE DEF Call
<1>1. /\ VariablesOK' /\ RunnerOK' /\ UnreadOK' /\ WaitingOK' /\ AcceptedOK' /\ DeliveredOK'
      /\ SynchronousOK' /\ CountsOK'
  BY AppFrame DEF BarrierInv, VariablesOK, buildVars, unfailing
<1>2. CallerOK'
  <2>1. worksize' \in Nat \ {0} /\ BatchSize \in Nat \ {0} /\ slice' = 0
    BY Constants
  <2>. DEFINE q == worksize' \div BatchSize
  <2>2. worksize' >= BatchSize => q \in Nat \ {0}
    BY <2>1, WholeSlices
  <2>3. Slices' = (IF worksize' < BatchSize THEN 1 ELSE q)
        /\ Batch' = (IF worksize' < BatchSize THEN worksize' ELSE BatchSize)
    BY DEF Slices, Batch
  <2>. HIDE DEF Call, q
  <2>a. Slices' \in Nat \ {0} /\ Batch' \in Nat \ {0}
    BY <2>1, <2>2, <2>3
  <2>4. SliceTotal' \in Nat \ {0} /\ SliceSize' = Batch'
    <3>1. SliceTotal' = Slices' + (IF Residue' > 0 THEN 1 ELSE 0)
      BY DEF SliceTotal
    <3>2. SliceSize' = IF slice' < Slices' THEN Batch' ELSE Residue'
      BY DEF SliceSize
    <3>3. SliceSize' = Batch'
      BY <2>1, <2>a, <3>2
    <3>4. PICK n \in Nat \ {0} : Slices' = n
      BY <2>a
    <3>5. SliceTotal' \in Nat \ {0}
      BY <3>1, <3>4
    <3>. QED BY <3>3, <3>5
  <2>5. call' \in 1 .. MaxCalls /\ j = 0
    BY Constants DEF BarrierInv, CallerOK, Call
  <2>6. app' = "submit" /\ worksize' \in WorkSizes /\ slice' = 0 /\ element' = 0 /\ j' = 0
    BY <2>5 DEF Call
  <2>7. 0 \in 0 .. SliceTotal' - 1 /\ 0 \in 0 .. SliceSize' - 1 /\ 0 \in 0 .. SliceSize'
    <3>1. \A n \in Nat \ {0} : 0 \in 0 .. n - 1 /\ 0 \in 0 .. n
      OBVIOUS
    <3>2. SliceTotal' \in Nat \ {0} /\ SliceSize' \in Nat \ {0}
      BY <2>a, <2>4
    <3>. QED BY <3>1, <3>2
  <2>8. call' > 0 /\ call' \in 0 .. MaxCalls
    BY <2>5, Constants
  <2>. QED BY <2>6, <2>7, <2>8 DEF CallerOK
<1>3. NewOK'
  <2>1. ASSUME NEW r \in Request, r[1] >= call' PROVE r[1] > call
    BY <2>1, Constants DEF BarrierInv, CallerOK, Request
  <2>2. \A r \in Request : r[1] > call' \/ r[1] = call' => r[1] >= call'
    BY Constants DEF BarrierInv, CallerOK, Request
  <2>. QED BY <2>1, <2>2 DEF BarrierInv, NewOK, requestVars
<1>4. WindowOK'
  <2>1. ~skewed => WindowOf(0)
    <3>1. \A n \in 0 .. BufferSize : WindowOf(n) => n = 0
      BY Constants DEF WindowOf, TurnsLeft
    <3>. QED BY <3>1 DEF BarrierInv, WindowOK
  <2>2. \A r \in SliceRequests' : request_status[r] = "NEW"
    <3>1. \A r \in SliceRequests' : r \in Request /\ r[1] = call'
      BY <1>2, SliceRequestsThen
    <3>2. call' > call
      BY DEF BarrierInv, CallerOK
    <3>. QED BY <3>1, <3>2 DEF BarrierInv, NewOK
  <2>. QED BY <1>2, <1>3, <2>1, <2>2, EmptyWindow DEF BarrierInv, buildVars, requestVars
<1>. QED BY <1>1, <1>2, <1>3, <1>4 DEF BarrierInv

\* What NextElement leads to.
LEMMA NextElementFacts ==
    ASSUME CallerOK, app = "submit", NextElement, UNCHANGED <<call, worksize, slice>>
    PROVE  /\ CallerOK'
           /\ Position = slice * Batch + element /\ Position' = Position + 1
           /\ Position \in 0 .. MaxWork - 1
           /\ TurnsLeft = element /\ TurnsLeft' = element + 1 /\ element \in 0 .. BufferSize - 1
<1>. DEFINE p == slice * Batch
<1>1. /\ SliceSize \in 1 .. BatchSize /\ p \in Nat /\ p + SliceSize <= worksize
      /\ worksize \in 1 .. MaxWork /\ BatchSize \in 1 .. BufferSize
  BY SliceFacts, Constants DEF CallerOK
<1>2. SliceSize' = SliceSize /\ SliceTotal' = SliceTotal /\ Batch' = Batch /\ slice' = slice
  BY SliceFrame
<1>3. element \in 0 .. SliceSize - 1
  BY DEF CallerOK
<1>. HIDE DEF p
<1>4. Position = p + element
  BY DEF Position, p
<1>5. Position' = p + (IF app' = "submit" THEN element' ELSE SliceSize)
  BY <1>2 DEF Position, p
<1>6. CASE element + 1 < SliceSize
  <2>1. element' = element + 1 /\ app' = "submit" /\ j' = j
    BY <1>6 DEF NextElement
  <2>2. CallerOK'
    BY <1>1, <1>2, <1>3, <1>6, <2>1 DEF CallerOK
  <2>. QED BY <1>1, <1>3, <1>4, <1>5, <2>1, <2>2, Constants DEF TurnsLeft, p
<1>7. CASE ~(element + 1 < SliceSize)
  <2>1. element' = 0 /\ app' = "barrier" /\ j' = 0 /\ SliceSize = element + 1
    BY <1>1, <1>3, <1>7 DEF NextElement
  <2>2. CallerOK'
    BY <1>1, <1>2, <1>3, <1>7, <2>1 DEF CallerOK
  <2>3. TurnsLeft = element /\ TurnsLeft' = SliceSize
    BY <1>1, <1>2, <2>1 DEF TurnsLeft
  <2>. QED BY <1>1, <1>3, <1>4, <1>5, <2>1, <2>2, <2>3, Constants DEF p
<1>. QED BY <1>6, <1>7

LEMMA SubmitFailsStep ==
    ASSUME BarrierInv, SubmitFails PROVE BarrierInv'
<1>. USE DEF SubmitFails
<1>1. /\ VariablesOK' /\ RunnerOK' /\ UnreadOK' /\ WaitingOK' /\ AcceptedOK' /\ DeliveredOK'
      /\ SynchronousOK' /\ CountsOK'
  <2>1. failures' \in 0 .. MaxFailures
    BY Constants DEF Failure, BarrierInv, VariablesOK
  <2>. QED BY <2>1, AppFrame DEF BarrierInv, VariablesOK
<1>2. /\ CallerOK' /\ Position' = Position + 1 /\ Position \in Nat
      /\ TurnsLeft = element /\ TurnsLeft' = element + 1 /\ element \in Nat
  BY NextElementFacts, Constants DEF BarrierInv
<1>3. NewOK'
  <2>1. \A r \in Request : r[2] \in Int
    BY Constants DEF Request
  <2>. QED BY <1>2, <2>1 DEF BarrierInv, NewOK, requestVars
<1>4. WindowOK'
  <2>. SUFFICES ASSUME ~skewed PROVE \E n \in 0 .. BufferSize : WindowOf(n)'
    BY DEF WindowOK, unfailing
  <2>1. PICK n \in 0 .. BufferSize : WindowOf(n)
    BY DEF BarrierInv, WindowOK
  <2>2. SliceRequests' = SliceRequests /\ \A k : Held(k)' = Held(k)
    BY SliceFrame DEF SliceRequests, Held
  <2>3. n <= TurnsLeft'
    BY <1>2, <2>1, Constants DEF WindowOf
  <2>. QED BY <2>1, <2>2, <2>3 DEF WindowOf, requestVars
<1>. QED BY <1>1, <1>2, <1>3, <1>4 DEF BarrierInv

\* A turn of the barrier's loop.
LEMMA TurnFacts ==
    ASSUME CallerOK, app = "barrier", NextTurn, UNCHANGED <<call, worksize, slice, element>>
    PROVE  /\ CallerOK' /\ Position' = Position /\ app' # "idle"
           /\ TurnsLeft \in Nat \ {0} /\ TurnsLeft' = TurnsLeft - 1
<1>1. SliceSize \in Nat /\ SliceSize' = SliceSize /\ SliceTotal' = SliceTotal /\ Batch' = Batch
  BY SliceFacts, SliceFrame, Constants DEF CallerOK
<1>2. j \in 0 .. SliceSize /\ j < SliceSize /\ TurnsLeft = SliceSize - j
  BY DEF CallerOK, TurnsLeft
<1>3. j' = j + 1
  BY DEF NextTurn
<1>4. CASE j + 1 < SliceSize
  <2>1. app' = "barrier"
    BY <1>4 DEF NextTurn
  <2>2. TurnsLeft' = SliceSize - (j + 1)
    BY <1>1, <1>3, <2>1 DEF TurnsLeft
  <2>3. CallerOK'
    BY <1>1, <1>2, <1>3, <1>4, <2>1 DEF CallerOK
  <2>. QED BY <1>1, <1>2, <2>1, <2>2, <2>3 DEF Position
<1>5. CASE ~(j + 1 < SliceSize)
  <2>1. app' = "collect" /\ j + 1 = SliceSize
    BY <1>1, <1>2, <1>5 DEF NextTurn
  <2>2. TurnsLeft' = 0
    BY <2>1 DEF TurnsLeft
  <2>3. CallerOK'
    BY <1>1, <1>2, <1>3, <2>1 DEF CallerOK
  <2>. QED BY <1>1, <1>2, <2>1, <2>2, <2>3 DEF Position
<1>. QED BY <1>4, <1>5

\* What the caller has not come to stays new when it does not submit.
LEMMA NewFrame ==
    ASSUME NewOK, call' = call, app # "idle" \/ app' = "idle", Position' = Position,
           \A r \in Request : request_status[r] = "NEW" => request_status'[r] = "NEW"
    PROVE  NewOK'
BY DEF NewOK

LEMMA TaskIsHeld ==
    ASSUME VariablesOK PROVE Held(0) = Task /\ block_at_index \in Slot /\ Ahead(block_at_index, 0) = block_at_index
<1>1. block_at_index \in Slot
  BY DEF VariablesOK
<1>2. Ahead(block_at_index, 0) = block_at_index
  BY <1>1, Around, Constants DEF Slot
<1>. QED BY <1>1, <1>2 DEF Held, Task

LEMMA SkipNullStep ==
    ASSUME BarrierInv, SkipNull PROVE BarrierInv'
<1>. USE DEF SkipNull
<1>1. /\ VariablesOK' /\ RunnerOK' /\ UnreadOK' /\ WaitingOK' /\ AcceptedOK' /\ DeliveredOK'
      /\ SynchronousOK' /\ CountsOK'
  <2>1. failures' \in 0 .. MaxFailures /\ block_at_index' \in Slot
    BY DEF BarrierInv, VariablesOK, AfterNull, buildVars
  <2>. QED BY <2>1, AppFrame DEF buildVars, unfailing
<1>2. CallerOK' /\ Position' = Position /\ app' # "idle"
  BY TurnFacts DEF BarrierInv
<1>3. NewOK'
  BY <1>2, NewFrame DEF BarrierInv, requestVars
<1>4. WindowOK'
  <2>1. ~skewed => WindowOf(0)
    <3>1. \A n \in 0 .. BufferSize : WindowOf(n) => n = 0
      BY Constants, TaskIsHeld DEF BarrierInv, WindowOf
    <3>. QED BY <3>1 DEF BarrierInv, WindowOK
  <2>2. UNCHANGED <<skewed, block_at_index, he_qat_buffer, request_status, call, worksize, slice>>
    BY DEF buildVars, requestVars, AfterNull
  <2>. QED BY <1>2, <1>3, <2>1, <2>2, EmptyWindow DEF BarrierInv
<1>. QED BY <1>1, <1>2, <1>3, <1>4 DEF BarrierInv

LEMMA BarrierWaitsStep ==
    ASSUME BarrierInv, BarrierWaits PROVE BarrierInv'
<1>. USE DEF BarrierWaits
<1>1. /\ VariablesOK' /\ RunnerOK' /\ UnreadOK' /\ WaitingOK' /\ AcceptedOK' /\ DeliveredOK'
      /\ SynchronousOK' /\ CountsOK'
  <2>1. failures' \in 0 .. MaxFailures /\ block_at_index' \in Slot
    BY DEF BarrierInv, VariablesOK, buildVars
  <2>. QED BY <2>1, AppFrame DEF buildVars, unfailing
<1>2. CallerOK' /\ Position' = Position /\ app # "idle"
  BY CallerFrame DEF BarrierInv
<1>3. NewOK'
  BY <1>2, NewFrame DEF BarrierInv, requestVars
<1>4. WindowOK'
  BY WindowFrame DEF BarrierInv, VariablesOK, buildVars, requestVars
<1>. QED BY <1>1, <1>2, <1>3, <1>4 DEF BarrierInv

LEMMA CollectStep ==
    ASSUME BarrierInv, Collect PROVE BarrierInv'
<1>. USE DEF Collect
<1>1. /\ VariablesOK' /\ RunnerOK' /\ UnreadOK' /\ WaitingOK' /\ AcceptedOK' /\ DeliveredOK'
      /\ SynchronousOK' /\ CountsOK'
  <2>1. failures' \in 0 .. MaxFailures /\ block_at_index' \in Slot
    BY DEF BarrierInv, VariablesOK, buildVars
  <2>. QED BY <2>1, AppFrame DEF buildVars, unfailing
<1>. DEFINE next == slice + 1 < SliceTotal
<1>2. /\ j' = 0 /\ element' = 0 /\ call' = call
      /\ next => slice' = slice + 1 /\ app' = "submit" /\ worksize' = worksize
      /\ ~next => slice' = 0 /\ app' = "idle" /\ worksize' = 0
  BY DEF SliceTotal, BarrierInv, CallerOK
<1>3. /\ slice \in Nat /\ call > 0 /\ worksize \in WorkSizes
      /\ slice \in 0 .. SliceTotal - 1 /\ SliceTotal \in Nat /\ call \in 0 .. MaxCalls
      /\ Slices \in Nat \ {0} /\ Residue \in Nat /\ Batch \in Nat \ {0}
      /\ next => (slice + 1) * Batch = slice * Batch + SliceSize
  BY SliceFacts, Constants DEF BarrierInv, CallerOK
<1>4. next => Batch' = Batch /\ Slices' = Slices /\ Residue' = Residue /\ SliceTotal' = SliceTotal
  BY <1>2 DEF Batch, Slices, Residue, SliceTotal
<1>. HIDE DEF Collect
<1>5. next => SliceSize' \in Nat \ {0}
  <2>1. ASSUME next PROVE (IF slice + 1 < Slices THEN Batch ELSE Residue) \in Nat \ {0}
    BY <1>3, <2>1 DEF SliceTotal
  <2>2. next => SliceSize' = IF slice + 1 < Slices THEN Batch ELSE Residue
    BY <1>2, <1>4 DEF SliceSize
  <2>. QED BY <2>1, <2>2
<1>6. CallerOK'
  <2>1. CASE ~next
    BY <1>2, <1>3, <2>1 DEF CallerOK
  <2>2. CASE next
    <3>1. slice + 1 \in 0 .. SliceTotal - 1
      BY <1>3, <2>2
    <3>2. \A n \in Nat \ {0} : 0 \in 0 .. n - 1 /\ 0 \in 0 .. n
      OBVIOUS
    <3>. QED BY <1>2, <1>3, <1>4, <1>5, <2>2, <3>1, <3>2 DEF CallerOK
  <2>. QED BY <2>1, <2>2
<1>7. NewOK'
  <2>1. app = "collect" /\ request_status' = request_status
    BY DEF Collect, requestVars
  <2>2. Position = slice * Batch + SliceSize
    BY <2>1 DEF Position
  <2>3. next => Position' = Position
    <3>1. next => Position' = (slice + 1) * Batch + 0
      BY <1>2, <1>4 DEF Position
    <3>2. next => (slice + 1) * Batch \in Int
      BY <1>3
    <3>. QED BY <1>3, <2>2, <3>1, <3>2
  <2>. QED BY <1>2, <2>1, <2>3 DEF BarrierInv, NewOK
<1>8. WindowOK'
  <2>1. ~skewed => WindowOf(0)
    <3>1. \A n \in 0 .. BufferSize : WindowOf(n) => n = 0
      BY Constants DEF WindowOf, TurnsLeft, Collect
    <3>. QED BY <3>1 DEF BarrierInv, WindowOK
  <2>2. UNCHANGED <<skewed, block_at_index, he_qat_buffer, request_status>>
    BY DEF Collect, buildVars, requestVars
  <2>3. app' # "idle" => \A r \in SliceRequests' : request_status[r] = "NEW"
    <3>. SUFFICES ASSUME app' # "idle", NEW r \in SliceRequests' PROVE request_status[r] = "NEW"
      OBVIOUS
    <3>1. next
      BY <1>2
    <3>2. r \in Request /\ r[1] = call' /\ r[2] >= slice' * Batch'
      BY <1>6, SliceRequestsThen
    <3>3. Position' = slice' * Batch' /\ r[2] >= Position'
      <4>1. slice' * Batch' \in Int
        BY <1>2, <1>3, <1>4, <3>1
      <4>2. Position' = slice' * Batch' + 0
        BY <1>2, <3>1 DEF Position
      <4>3. \A z \in Int : z + 0 = z
        OBVIOUS
      <4>. QED BY <3>2, <4>1, <4>2, <4>3
    <3>. QED BY <1>7, <2>2, <3>2, <3>3 DEF NewOK
  <2>. QED BY <1>6, <1>7, <2>1, <2>2, <2>3, EmptyWindow DEF BarrierInv
<1>. QED BY <1>1, <1>6, <1>7, <1>8 DEF BarrierInv

LEMMA NotReadIsWaiting ==
    ASSUME VariablesOK, NEW k \in 0 .. he_qat_buffer.count - 1
    PROVE  NotRead(k) \in Waiting
<1>1. NotRead(k) \in Unread
  BY DEF NotRead, Unread, Ahead
<1>. QED BY <1>1 DEF Waiting

LEMMA WaitingAreRequests ==
    ASSUME VariablesOK, RunnerOK, UnreadOK
    PROVE  Waiting \subseteq Request
<1>1. \A k \in 0 .. he_qat_buffer.count - 1 : NotRead(k) \in Request
  <2>1. \A k \in 0 .. he_qat_buffer.count - 1 : Ahead(he_qat_buffer.next_data_slot, k) \in Slot
    BY Around, Constants DEF VariablesOK
  <2>. QED BY <2>1 DEF NotRead, VariablesOK, UnreadOK, Pointer
<1>2. \A k \in FirstWaiting .. Len(to_offload) : to_offload[k] \in Request
  BY DEF FirstWaiting, RunnerOK
<1>3. Unread = {NotRead(k) : k \in 0 .. he_qat_buffer.count - 1}
  BY DEF Unread, NotRead, Ahead
<1>. QED BY <1>1, <1>2, <1>3 DEF Waiting

\* Two slots that many ahead of which is the same one are one.
LEMMA AheadInjective ==
    ASSUME NEW s \in Slot, NEW t \in Slot, NEW k \in 0 .. BufferSize, Ahead(s, k) = Ahead(t, k)
    PROVE  s = t
<1>1. ASSUME NEW x \in 0 .. BufferSize - 1, NEW y \in 0 .. BufferSize - 1, NEW z \in 0 .. BufferSize,
             Ahead(x, z) = Ahead(y, z)
      PROVE  x = y
  <2>1. /\ Ahead(x, z) = IF x + z < BufferSize THEN x + z ELSE x + z - BufferSize
        /\ Ahead(y, z) = IF y + z < BufferSize THEN y + z ELSE y + z - BufferSize
    BY Around DEF Slot
  <2>2. BufferSize \in Nat \ {0}
    BY Constants
  <2>3. (IF x + z < BufferSize THEN x + z ELSE x + z - BufferSize)
           = (IF y + z < BufferSize THEN y + z ELSE y + z - BufferSize)
    BY <1>1, <2>1
  <2>. QED BY <2>2, <2>3
<1>. QED BY <1>1 DEF Slot

LEMMA FreeTaskWindow ==
    ASSUME BarrierInv, FreeTask, NEW n \in 0 .. BufferSize, WindowOf(n)
    PROVE  n > 0 /\ WindowOf(n - 1)'
<1>. USE DEF FreeTask
<1>1. /\ BufferSize \in Nat \ {0} /\ block_at_index \in Slot /\ he_qat_buffer.next_data_slot \in Slot
      /\ he_qat_buffer.count \in 0 .. BufferSize /\ Held(0) = Task /\ 0 \in 0 .. BufferSize - 1
      /\ Ahead(block_at_index, 0) = block_at_index
  BY Constants, TaskIsHeld DEF BarrierInv, VariablesOK
<1>2. n > 0
  BY <1>1 DEF WindowOf
<1>3. /\ he_qat_buffer'.data = [he_qat_buffer.data EXCEPT ![block_at_index] = NULL]
      /\ he_qat_buffer'.count = he_qat_buffer.count
      /\ he_qat_buffer'.next_free_slot = he_qat_buffer.next_free_slot
      /\ block_at_index' = Ahead(block_at_index, 1)
  BY <1>1, Around DEF BarrierInv, VariablesOK
<1>4. \A k \in 0 .. BufferSize - 1 :
          Ahead(block_at_index', k) = Ahead(block_at_index, k + 1) /\ Ahead(block_at_index, k + 1) \in Slot
  <2>. TAKE k \in 0 .. BufferSize - 1
  <2>1. 1 + k \in 0 .. BufferSize /\ k + 1 = 1 + k /\ k \in 0 .. BufferSize /\ 1 \in 0 .. BufferSize
    BY <1>1
  <2>2. Ahead(Ahead(block_at_index, 1), k) = Ahead(block_at_index, 1 + k)
    BY <1>1, <2>1, AheadTwice
  <2>3. Ahead(block_at_index, 1 + k) \in Slot
    BY <1>1, <2>1, Around
  <2>. QED BY <1>3, <2>1, <2>2, <2>3
<1>5. \A k \in 0 .. BufferSize - 2 : Held(k)' = Held(k + 1)
  <2>. TAKE k \in 0 .. BufferSize - 2
  <2>1. Ahead(block_at_index, k + 1) # block_at_index
    <3>1. 0 \in 0 .. BufferSize /\ k + 1 \in 0 .. BufferSize /\ 0 < k + 1 /\ k + 1 - 0 < BufferSize
      BY <1>1
    <3>. QED BY <1>1, <3>1, AheadDiffers
  <2>2. k \in 0 .. BufferSize - 1
    BY <1>1
  <2>. QED BY <1>3, <1>4, <2>1, <2>2 DEF Held, BarrierInv, VariablesOK
<1>6. Held(BufferSize - 1)' = NULL
  <2>1. Ahead(block_at_index, BufferSize) = block_at_index
    BY <1>1, Around DEF Slot
  <2>2. Ahead(block_at_index', BufferSize - 1) = block_at_index
    <3>1. BufferSize - 1 \in 0 .. BufferSize - 1 /\ (BufferSize - 1) + 1 = BufferSize
      BY <1>1
    <3>. QED BY <1>4, <2>1, <3>1
  <2>. QED BY <1>1, <1>3, <2>2 DEF Held, BarrierInv, VariablesOK
<1>7. he_qat_buffer'.next_free_slot = Ahead(block_at_index', n - 1)
  <2>1. n - 1 \in 0 .. BufferSize - 1 /\ (n - 1) + 1 = n
    BY <1>1, <1>2
  <2>. QED BY <1>3, <1>4, <2>1 DEF WindowOf
<1>8. \A k \in 0 .. BufferSize - 1 : Held(k)' = NULL <=> k >= n - 1
  <2>. SUFFICES ASSUME NEW k \in 0 .. BufferSize - 1 PROVE Held(k)' = NULL <=> k >= n - 1
    OBVIOUS
  <2>1. CASE k = BufferSize - 1
    BY <1>1, <1>2, <1>6, <2>1
  <2>2. CASE k # BufferSize - 1
    <3>1. k \in 0 .. BufferSize - 2 /\ k + 1 \in 0 .. BufferSize - 1
      BY <1>1, <2>2
    <3>2. Held(k + 1) = NULL <=> k + 1 >= n
      BY <3>1 DEF WindowOf
    <3>. QED BY <1>1, <1>5, <3>1, <3>2
  <2>. QED BY <2>1, <2>2
<1>9. he_qat_buffer'.count <= n - 1
  <2>1. ASSUME he_qat_buffer.count = n PROVE FALSE
    <3>1. Ahead(block_at_index, n) = Ahead(he_qat_buffer.next_data_slot, n)
      BY <2>1 DEF WindowOf, BarrierInv, UnreadOK
    <3>2. block_at_index = he_qat_buffer.next_data_slot
      BY <1>1, <3>1, AheadInjective
    <3>3. NotRead(0) = Task /\ NotRead(0) \in Waiting
      BY <1>1, <1>2, <2>1, <3>2, NotReadIsWaiting DEF NotRead, Held, BarrierInv
    <3>. QED BY <3>3 DEF BarrierInv, WaitingOK, Ready
  <2>. QED BY <1>1, <1>3, <2>1 DEF WindowOf
<1>10. /\ TurnsLeft \in Nat \ {0} /\ TurnsLeft' = TurnsLeft - 1 /\ app # "idle" /\ app' # "idle"
  BY TurnFacts DEF BarrierInv
<1>11. \A r \in SliceRequests' :
          request_status'[r] \in {"NEW", "FREED"} \/ \E k \in 0 .. (n - 1) - 1 : Held(k)' = r
  <2>. SUFFICES ASSUME NEW r \in SliceRequests
                PROVE  request_status'[r] \in {"NEW", "FREED"}
                       \/ \E k \in 0 .. (n - 1) - 1 : Held(k)' = r
    BY SliceFrame DEF SliceRequests
  <2>1. r \in Request
    BY <1>10, SliceRequestsAreRequests DEF BarrierInv
  <2>2. CASE r = Task
    BY <2>1, <2>2 DEF BarrierInv, VariablesOK
  <2>3. CASE r # Task /\ request_status[r] \in {"NEW", "FREED"}
    BY <2>1, <2>3 DEF BarrierInv, VariablesOK
  <2>4. CASE r # Task /\ request_status[r] \notin {"NEW", "FREED"}
    <3>1. PICK k \in 0 .. n - 1 : Held(k) = r
      BY <1>10, <2>4 DEF WindowOf
    <3>2. k # 0
      BY <1>1, <2>4, <3>1
    <3>3. k - 1 \in 0 .. (n - 1) - 1 /\ k - 1 \in 0 .. BufferSize - 2 /\ (k - 1) + 1 = k
      BY <1>1, <1>2, <3>2
    <3>. QED BY <1>5, <3>1, <3>3
  <2>. QED BY <2>2, <2>3, <2>4
<1>12. n - 1 <= TurnsLeft'
  BY <1>10 DEF WindowOf
<1>. QED BY <1>2, <1>7, <1>8, <1>9, <1>11, <1>12 DEF WindowOf

LEMMA FreeTaskStep ==
    ASSUME BarrierInv, FreeTask PROVE BarrierInv'
<1>. USE DEF FreeTask
<1>1. /\ CallerOK' /\ Position' = Position /\ app # "idle" /\ app' # "idle"
  BY TurnFacts DEF BarrierInv
<1>2. Task \in Request /\ request_status[Task] = "READY" /\ block_at_index \in Slot
  BY DEF BarrierInv, VariablesOK, Task, Pointer, Ready
<1>3. request_status' = [request_status EXCEPT ![Task] = "FREED"]
      /\ \A r \in Request : r # Task => request_status'[r] = request_status[r]
      /\ request_status'[Task] = "FREED"
  BY <1>2 DEF BarrierInv, VariablesOK
<1>4. /\ he_qat_buffer'.data = [he_qat_buffer.data EXCEPT ![block_at_index] = NULL]
      /\ he_qat_buffer'.count = he_qat_buffer.count
      /\ he_qat_buffer'.next_free_slot = he_qat_buffer.next_free_slot
      /\ he_qat_buffer'.next_data_slot = he_qat_buffer.next_data_slot
      /\ he_qat_buffer' \in [data : [Slot -> Pointer], count : 0 .. BufferSize,
                             next_free_slot : Slot, next_data_slot : Slot]
  <2>1. NULL \in Pointer
    BY DEF Pointer
  <2>. QED BY <2>1 DEF BarrierInv, VariablesOK
<1>5. VariablesOK'
  <2>1. FollowingSlot(block_at_index) \in Slot
    BY <1>2, Around, Constants
  <2>. QED BY <1>3, <1>4, <2>1 DEF BarrierInv, VariablesOK, RequestStatus, buildVars, runnerVars, deviceVars
<1>6. \A k \in 0 .. he_qat_buffer.count - 1 : NotRead(k)' = NotRead(k)
  <2>. TAKE k \in 0 .. he_qat_buffer.count - 1
  <2>1. NotRead(k) # Task
    BY <1>2, NotReadIsWaiting DEF BarrierInv, WaitingOK
  <2>2. Ahead(he_qat_buffer.next_data_slot, k) # block_at_index
    BY <2>1 DEF NotRead, Task
  <2>3. Ahead(he_qat_buffer.next_data_slot, k) \in Slot
    BY Around, Constants DEF BarrierInv, VariablesOK
  <2>. QED BY <1>4, <2>2, <2>3 DEF NotRead, BarrierInv, VariablesOK
<1>7. UnreadOK' /\ RunnerOK'
  BY <1>4, <1>6 DEF BarrierInv, UnreadOK, RunnerOK, runnerVars, deviceVars, buildVars
<1>8. Waiting' = Waiting
  <2>1. Unread = {NotRead(k) : k \in 0 .. he_qat_buffer.count - 1}
        /\ Unread' = {NotRead(k)' : k \in 0 .. he_qat_buffer'.count - 1}
    BY DEF Unread, NotRead, Ahead
  <2>2. Unread' = Unread
    BY <1>4, <1>6, <2>1
  <2>. QED BY <2>2 DEF Waiting, FirstWaiting, HeadAccepted, runnerVars
<1>9. WaitingOK'
  <2>1. \A r \in Waiting : r # Task /\ r \in Request
    BY <1>2, WaitingAreRequests DEF BarrierInv, WaitingOK
  <2>. QED BY <1>3, <1>8, <2>1 DEF BarrierInv, WaitingOK, deviceVars
<1>10. AcceptedOK' /\ DeliveredOK' /\ SynchronousOK'
  <2>1. device \subseteq Request /\ (HeadAccepted => Head(to_offload) \in Request)
    BY DEF BarrierInv, VariablesOK, RunnerOK, HeadAccepted
  <2>. QED BY <1>2, <1>3, <2>1 DEF BarrierInv, AcceptedOK, DeliveredOK, SynchronousOK, HeadAccepted,
                                   runnerVars, deviceVars, buildVars
<1>11. NewOK'
  BY <1>1, <1>2, <1>3, NewFrame DEF BarrierInv
<1>12. WindowOK'
  <2>. SUFFICES ASSUME ~skewed PROVE \E n \in 0 .. BufferSize : WindowOf(n)'
    BY DEF WindowOK, buildVars
  <2>1. PICK n \in 0 .. BufferSize : WindowOf(n)
    BY DEF BarrierInv, WindowOK
  <2>2. n - 1 \in 0 .. BufferSize /\ WindowOf(n - 1)'
    BY <2>1, FreeTaskWindow, Constants
  <2>. QED BY <2>2
<1>13. CountsOK'
  BY <1>3, <1>8, CountsSame DEF BarrierInv, runnerVars, deviceVars
<1>. QED BY <1>1, <1>5, <1>7, <1>9, <1>10, <1>11, <1>12, <1>13 DEF BarrierInv

LEMMA SubmitStep ==
    ASSUME BarrierInv, Submit PROVE BarrierInv'
<1>. DEFINE r == <<call, Position>>
            free == he_qat_buffer.next_free_slot
<1>0. PICK count : count = he_qat_buffer.count
  OBVIOUS
<1>1. /\ CallerOK' /\ Position' = Position + 1 /\ app # "idle" /\ app' # "idle"
      /\ Position \in 0 .. MaxWork - 1 /\ Position = slice * Batch + element
      /\ TurnsLeft = element /\ TurnsLeft' = element + 1 /\ element \in 0 .. BufferSize - 1
  <2>1. app = "submit" /\ NextElement /\ UNCHANGED <<call, worksize, slice>>
    BY DEF Submit
  <2>2. app' # "idle"
    BY <2>1 DEF NextElement
  <2>. QED BY <2>1, <2>2, NextElementFacts DEF BarrierInv
<1>2. r \in Request /\ request_status[r] = "NEW" /\ r \in Pointer /\ r # NULL
  <2>1. call \in 1 .. MaxCalls
    BY <1>1, Constants DEF BarrierInv, CallerOK
  <2>2. r \in Request
    BY <1>1, <2>1 DEF Request
  <2>3. r[1] = call /\ r[2] >= Position
    BY <1>1, Constants
  <2>. QED BY <1>1, <2>2, <2>3, RequestsFinite DEF BarrierInv, NewOK, Pointer
<1>3. /\ count \in 0 .. BufferSize - 1 /\ BufferSize \in Nat \ {0}
      /\ free \in Slot /\ he_qat_buffer.next_data_slot \in Slot
      /\ free = Ahead(he_qat_buffer.next_data_slot, count)
      /\ FollowingSlot(free) = Ahead(free, 1) /\ FollowingSlot(free) \in Slot
  <2>1. BufferSize \in Nat \ {0} /\ count < BufferSize /\ count \in 0 .. BufferSize /\ free \in Slot
    BY <1>0, Constants DEF BarrierInv, VariablesOK, Submit
  <2>2. 1 \in 0 .. BufferSize
    BY <2>1
  <2>. QED BY <1>0, <2>1, <2>2, Around DEF BarrierInv, VariablesOK, UnreadOK
<1>4. /\ he_qat_buffer'.data = [he_qat_buffer.data EXCEPT ![free] = r]
      /\ he_qat_buffer'.count = count + 1
      /\ he_qat_buffer'.next_free_slot = Ahead(free, 1)
      /\ he_qat_buffer'.next_data_slot = he_qat_buffer.next_data_slot
      /\ he_qat_buffer' \in [data : [Slot -> Pointer], count : 0 .. BufferSize,
                             next_free_slot : Slot, next_data_slot : Slot]
  <2>1. he_qat_buffer' = [he_qat_buffer EXCEPT !.data[free] = r, !.next_free_slot = FollowingSlot(@),
                                               !.count = @ + 1]
    BY <1>1 DEF Submit
  <2>2. count + 1 \in 0 .. BufferSize
    BY <1>3
  <2>. HIDE DEF r
  <2>. QED BY <1>0, <1>2, <1>3, <2>1, <2>2 DEF BarrierInv, VariablesOK
<1>5. /\ request_status' = [request_status EXCEPT ![r] = "SUCCESS"]
      /\ UNCHANGED <<buildVars, block_at_index, runnerVars, deviceVars, semaphore, op_output, call>>
      /\ UNCHANGED <<worksize, slice>>
  BY <1>1 DEF Submit
<1>6. /\ \A x \in Request : x # r => request_status'[x] = request_status[x]
      /\ request_status'[r] = "SUCCESS"
  BY <1>2, <1>5 DEF BarrierInv, VariablesOK
<1>. HIDE DEF r
<1>7. VariablesOK'
  <2>1. request_status' \in [Request -> RequestStatus]
    BY <1>5 DEF BarrierInv, VariablesOK, RequestStatus
  <2>. QED BY <1>4, <1>5, <2>1 DEF BarrierInv, VariablesOK, buildVars, runnerVars, deviceVars
<1>8. RunnerOK'
  BY <1>5 DEF BarrierInv, RunnerOK, runnerVars, deviceVars, buildVars
<1>9. (\A k \in 0 .. count - 1 : NotRead(k)' = NotRead(k)) /\ NotRead(count)' = r
  <2>1. NotRead(count)' = r
    BY <1>3, <1>4 DEF NotRead, BarrierInv, VariablesOK
  <2>2. ASSUME NEW k \in 0 .. count - 1 PROVE NotRead(k)' = NotRead(k)
    <3>1. k \in 0 .. BufferSize /\ count \in 0 .. BufferSize /\ k < count /\ count - k < BufferSize
      BY <1>3
    <3>2. Ahead(he_qat_buffer.next_data_slot, k) # free
      BY <1>3, <3>1, AheadDiffers
    <3>3. Ahead(he_qat_buffer.next_data_slot, k) \in Slot
      BY <1>3, <3>1, Around
    <3>. QED BY <1>4, <3>2, <3>3 DEF NotRead, BarrierInv, VariablesOK
  <2>. QED BY <2>1, <2>2
<1>10. \A k \in 0 .. count : k # count => k \in 0 .. count - 1
  BY <1>3
<1>11. /\ \A k \in 0 .. count - 1 : NotRead(k) # r
       /\ \A k \in 1 .. Len(to_offload) : to_offload[k] # r
  <2>1. \A k \in 0 .. count - 1 : NotRead(k) # r
    BY <1>0, <1>2, NotReadIsWaiting DEF BarrierInv, WaitingOK
  <2>2. ASSUME NEW k \in 1 .. Len(to_offload) PROVE to_offload[k] # r
    <3>1. CASE k \in FirstWaiting .. Len(to_offload)
      BY <1>2, <3>1 DEF BarrierInv, WaitingOK, Waiting
    <3>2. CASE k \notin FirstWaiting .. Len(to_offload)
      <4>1. HeadAccepted /\ k = 1
        BY <3>2 DEF FirstWaiting, BarrierInv, RunnerOK
      <4>2. Head(to_offload) = to_offload[1]
        BY DEF BarrierInv, RunnerOK
      <4>. QED BY <1>2, <4>1, <4>2 DEF BarrierInv, AcceptedOK
    <3>. QED BY <3>1, <3>2
  <2>. QED BY <2>1, <2>2
<1>12. UnreadOK'
  <2>1. to_offload' = to_offload
    BY <1>5 DEF runnerVars
  <2>2. he_qat_buffer'.next_free_slot = Ahead(he_qat_buffer'.next_data_slot, he_qat_buffer'.count)
    <3>1. count \in 0 .. BufferSize /\ 1 \in 0 .. BufferSize /\ count + 1 <= BufferSize
      BY <1>3
    <3>. QED BY <1>3, <1>4, <3>1, AheadTwice
  <2>3. \A k \in 0 .. count : NotRead(k)' # NULL
    BY <1>0, <1>2, <1>9, <1>10 DEF BarrierInv, UnreadOK
  <2>4. \A k, l \in 0 .. count : k # l => NotRead(k)' # NotRead(l)'
    BY <1>0, <1>9, <1>10, <1>11 DEF BarrierInv, UnreadOK
  <2>5. \A k \in 1 .. Len(to_offload), l \in 0 .. count : to_offload[k] # NotRead(l)'
    BY <1>0, <1>9, <1>10, <1>11 DEF BarrierInv, UnreadOK
  <2>6. he_qat_buffer'.count - 1 = count
    BY <1>3, <1>4
  <2>. QED BY <2>1, <2>2, <2>3, <2>4, <2>5, <2>6 DEF BarrierInv, UnreadOK
<1>13. Waiting' = Waiting \cup {r}
  <2>1. Unread = {NotRead(k) : k \in 0 .. count - 1}
        /\ Unread' = {NotRead(k)' : k \in 0 .. he_qat_buffer'.count - 1}
    BY <1>0 DEF Unread, NotRead, Ahead
  <2>2. he_qat_buffer'.count - 1 = count /\ count \in 0 .. count /\ \A k \in 0 .. count - 1 : k \in 0 .. count
    BY <1>3, <1>4
  <2>3. Unread' = Unread \cup {r}
    BY <1>9, <1>10, <2>1, <2>2
  <2>4. FirstWaiting' = FirstWaiting /\ to_offload' = to_offload
    BY <1>5 DEF FirstWaiting, HeadAccepted, runnerVars
  <2>. QED BY <2>3, <2>4 DEF Waiting
<1>14. WaitingOK'
  <2>1. r \notin device /\ callback[r] = "none"
    BY <1>2 DEF BarrierInv, AcceptedOK, VariablesOK
  <2>2. \A x \in Waiting : x \in Request /\ x # r
    BY <1>2, WaitingAreRequests DEF BarrierInv, WaitingOK
  <2>. QED BY <1>5, <1>6, <1>13, <2>1, <2>2 DEF BarrierInv, WaitingOK, deviceVars
<1>15. AcceptedOK' /\ DeliveredOK' /\ SynchronousOK'
  <2>1. device \subseteq Request /\ (HeadAccepted => Head(to_offload) \in Request)
    BY DEF BarrierInv, VariablesOK, RunnerOK, HeadAccepted
  <2>. QED BY <1>2, <1>5, <1>6, <2>1 DEF BarrierInv, AcceptedOK, DeliveredOK, SynchronousOK,
                                         HeadAccepted, runnerVars, deviceVars, buildVars
<1>16. NewOK'
  <2>1. call' = call /\ call \in Nat
    BY <1>5, Constants DEF BarrierInv, CallerOK
  <2>2. ASSUME NEW x \in Request, x[1] > call \/ (x[1] = call /\ x[2] >= Position + 1)
        PROVE  x # r /\ request_status[x] = "NEW"
    <3>1. x[2] \in Int /\ x[1] \in Int /\ Position \in Int
      BY <1>1, Constants DEF Request
    <3>2. r[1] = call /\ r[2] = Position
      BY DEF r
    <3>3. x # r
      BY <2>1, <2>2, <3>1, <3>2
    <3>4. x[1] > call \/ (x[1] = call /\ x[2] >= Position)
      BY <2>2, <3>1
    <3>. QED BY <1>1, <3>3, <3>4 DEF BarrierInv, NewOK
  <2>. QED BY <1>1, <1>6, <2>1, <2>2 DEF NewOK
<1>17. WindowOK'
  <2>. SUFFICES ASSUME ~skewed PROVE \E n \in 0 .. BufferSize : WindowOf(n)'
    BY <1>5 DEF WindowOK, buildVars
  <2>1. PICK n \in 0 .. BufferSize : WindowOf(n)
    BY DEF BarrierInv, WindowOK
  <2>2. n \in 0 .. BufferSize - 1 /\ n <= element /\ n + 1 \in 0 .. BufferSize /\ count <= n
    BY <1>0, <1>1, <1>3, <2>1 DEF WindowOf
  <2>3. block_at_index \in Slot /\ block_at_index' = block_at_index /\ free = Ahead(block_at_index, n)
    BY <1>5, <2>1 DEF BarrierInv, VariablesOK, WindowOf
  <2>4. Held(n)' = r
    BY <1>3, <1>4, <2>3 DEF Held, BarrierInv, VariablesOK
  <2>5. ASSUME NEW k \in 0 .. BufferSize - 1, k # n PROVE Held(k)' = Held(k)
    <3>1. k \in 0 .. BufferSize /\ n \in 0 .. BufferSize
          /\ (k < n \/ n < k) /\ n - k < BufferSize /\ k - n < BufferSize
      BY <1>3, <2>2, <2>5
    <3>2. Ahead(block_at_index, k) # free
      BY <2>3, <3>1, AheadDiffers
    <3>3. Ahead(block_at_index, k) \in Slot
      BY <2>3, <3>1, Around
    <3>. QED BY <1>4, <2>3, <3>2, <3>3 DEF Held, BarrierInv, VariablesOK
  <2>6. he_qat_buffer'.next_free_slot = Ahead(block_at_index', n + 1)
    <3>1. n \in 0 .. BufferSize /\ 1 \in 0 .. BufferSize /\ n + 1 <= BufferSize
      BY <1>3, <2>2
    <3>. QED BY <1>4, <2>3, <3>1, AheadTwice
  <2>7. \A k \in 0 .. BufferSize - 1 : Held(k)' = NULL <=> k >= n + 1
    <3>. TAKE k \in 0 .. BufferSize - 1
    <3>1. k # n => (k >= n + 1 <=> k >= n)
      BY <1>3, <2>2
    <3>2. ~(n >= n + 1)
      BY <2>2
    <3>. QED BY <1>2, <2>1, <2>4, <2>5, <3>1, <3>2 DEF WindowOf
  <2>8. he_qat_buffer'.count <= n + 1 /\ n + 1 <= TurnsLeft'
    BY <1>1, <1>3, <1>4, <2>2
  <2>9. \A x \in SliceRequests' :
            request_status'[x] \in {"NEW", "FREED"} \/ \E k \in 0 .. (n + 1) - 1 : Held(k)' = x
    <3>. SUFFICES ASSUME NEW x \in SliceRequests
                  PROVE  request_status'[x] \in {"NEW", "FREED"} \/ \E k \in 0 .. (n + 1) - 1 : Held(k)' = x
      BY <1>5, SliceFrame DEF SliceRequests
    <3>0. n \in 0 .. (n + 1) - 1 /\ \A k \in 0 .. n - 1 : k \in 0 .. (n + 1) - 1 /\ k \in 0 .. BufferSize - 1 /\ k # n
      BY <1>3, <2>2
    <3>1. CASE x = r
      BY <2>4, <3>0, <3>1
    <3>2. CASE x # r
      <4>1. x \in Request
        BY <1>1, SliceRequestsAreRequests DEF BarrierInv
      <4>2. request_status[x] \in {"NEW", "FREED"} \/ \E k \in 0 .. n - 1 : Held(k) = x
        BY <1>1, <2>1 DEF WindowOf
      <4>. QED BY <1>6, <2>5, <3>0, <3>2, <4>1, <4>2
    <3>. QED BY <3>1, <3>2
  <2>10. WindowOf(n + 1)'
    BY <2>6, <2>7, <2>8, <2>9 DEF WindowOf
  <2>. QED BY <2>2, <2>10
<1>18. CountsOK'
  <2>1. Taken \subseteq Taken'
    BY <1>2, <1>6, <1>13 DEF Taken
  <2>2. UNCHANGED <<request_count, response_count, runner, to_offload, device>>
    BY <1>5 DEF runnerVars, deviceVars
  <2>. QED BY <2>1, <2>2, CountsFrame DEF BarrierInv, Counted
<1>. QED BY <1>1, <1>7, <1>8, <1>12, <1>14, <1>15, <1>16, <1>17, <1>18 DEF BarrierInv

-----------------------------------------------------------------------------
(* The processing thread.                                                  *)

\* The caller is where it was, or was woken, and the slots hold what they held.
LEMMA OtherFrame ==
    ASSUME BarrierInv,
           UNCHANGED <<skewed, call, worksize, slice, element, j, block_at_index>>,
           app' = app \/ {app, app'} \subseteq {"barrier", "barrier_wait"},
           he_qat_buffer'.data = he_qat_buffer.data,
           he_qat_buffer'.next_free_slot = he_qat_buffer.next_free_slot,
           he_qat_buffer'.count \in Nat, he_qat_buffer'.count <= he_qat_buffer.count,
           \A r \in Request :
               request_status[r] \in {"NEW", "FREED"} => request_status'[r] = request_status[r]
    PROVE  CallerOK' /\ NewOK' /\ WindowOK'
<1>1. CallerOK' /\ Position' = Position /\ (app' = "idle" <=> app = "idle")
  BY CallerFrame DEF BarrierInv
<1>2. NewOK'
  BY <1>1, NewFrame DEF BarrierInv
<1>3. he_qat_buffer.count \in Nat
  BY Constants DEF BarrierInv, VariablesOK
<1>4. WindowOK'
  BY <1>3, WindowFrame DEF BarrierInv
<1>. QED BY <1>1, <1>2, <1>4

LEMMA ThrottleStep ==
    ASSUME BarrierInv, Throttle PROVE BarrierInv'
<1>. USE DEF Throttle
<1>1. CallerOK' /\ NewOK' /\ WindowOK'
  <2>1. he_qat_buffer.count \in Nat /\ he_qat_buffer.count <= he_qat_buffer.count
    BY Constants DEF BarrierInv, VariablesOK
  <2>. QED BY <2>1, OtherFrame DEF buildVars, appVars, requestVars
<1>2. Available \in 1 .. MaxPending
  <2>1. request_count - response_count \in Int /\ MaxPending \in Nat /\ RestartThreshold \in 1 .. MaxPending
    BY Constants DEF BarrierInv, VariablesOK
  <2>. QED BY <2>1 DEF Available
<1>3. VariablesOK'
  <2>1. max_requests' \in 0 .. MaxPending
    BY <1>2, Constants
  <2>. QED BY <2>1 DEF BarrierInv, VariablesOK, buildVars, appVars, deviceVars, requestVars
<1>4. RunnerOK'
  <2>1. max_requests' > 0
    BY <1>2
  <2>. QED BY <2>1 DEF BarrierInv, RunnerOK, buildVars, deviceVars
<1>5. Unread' = Unread /\ Waiting' = Waiting /\ HeadAccepted' = HeadAccepted
  BY DEF Unread, Waiting, FirstWaiting, HeadAccepted
<1>6. UnreadOK' /\ WaitingOK' /\ AcceptedOK' /\ DeliveredOK' /\ SynchronousOK'
  BY <1>5 DEF BarrierInv, UnreadOK, NotRead, WaitingOK, AcceptedOK, DeliveredOK, SynchronousOK,
              HeadAccepted, buildVars, deviceVars, requestVars
<1>7. CountsOK'
  <2>1. Taken \subseteq Taken' /\ Counted = Taken /\ Counted' = Taken'
    BY <1>5 DEF Taken, Counted, requestVars
  <2>. QED BY <2>1, CountsFrame DEF BarrierInv, deviceVars
<1>. QED BY <1>1, <1>3, <1>4, <1>6, <1>7 DEF BarrierInv

\* What read_request_list moves from the buffer to the list.
LEMMA ReadStep ==
    ASSUME BarrierInv, Read PROVE BarrierInv'
<1>0. PICK count, first, n :
          /\ count = he_qat_buffer.count /\ first = he_qat_buffer.next_data_slot
          /\ n = IF count < max_requests THEN count ELSE max_requests
  OBVIOUS
<1>1. /\ runner = "read" /\ count > 0
      /\ to_offload' = [k \in 1 .. n |-> he_qat_buffer.data[(first + k - 1) % BufferSize]]
      /\ he_qat_buffer' = [he_qat_buffer EXCEPT !.next_data_slot = (first + n) % BufferSize,
                                                !.count = @ - n]
      /\ runner' = "offload" /\ max_requests' = 0 /\ retry' = 0
      /\ UNCHANGED <<buildVars, appVars, request_count, deviceVars, requestVars>>
  BY <1>0 DEF Read
<1>2. /\ BufferSize \in Nat \ {0} /\ count \in 0 .. BufferSize /\ first \in Slot
      /\ max_requests \in Nat \ {0} /\ MaxPending \in Nat /\ MaxRetry \in Nat \ {0}
  BY <1>0, <1>1, Constants DEF BarrierInv, VariablesOK, RunnerOK
<1>3. n \in 1 .. count /\ n \in 0 .. BufferSize /\ count - n \in 0 .. BufferSize
  BY <1>0, <1>1, <1>2
<1>4. Ahead(first, n) \in Slot
  BY <1>2, <1>3, Around
<1>5. /\ he_qat_buffer'.data = he_qat_buffer.data
      /\ he_qat_buffer'.next_free_slot = he_qat_buffer.next_free_slot
      /\ he_qat_buffer'.next_data_slot = Ahead(first, n)
      /\ he_qat_buffer'.count = count - n
      /\ he_qat_buffer' \in [data : [Slot -> Pointer], count : 0 .. BufferSize,
                             next_free_slot : Slot, next_data_slot : Slot]
  <2>1. he_qat_buffer' = [he_qat_buffer EXCEPT !.next_data_slot = Ahead(first, n), !.count = count - n]
    BY <1>0, <1>1 DEF Ahead, BarrierInv, VariablesOK
  <2>. QED BY <1>3, <1>4, <2>1 DEF BarrierInv, VariablesOK
<1>6. /\ Len(to_offload') = n /\ to_offload' \in Seq(Request) /\ to_offload' # <<>>
      /\ \A k \in 1 .. n : to_offload'[k] = NotRead(k - 1) /\ k - 1 \in 0 .. count - 1
  <2>1. ASSUME NEW k \in 1 .. n
        PROVE  /\ he_qat_buffer.data[(first + k - 1) % BufferSize] = NotRead(k - 1)
               /\ k - 1 \in 0 .. count - 1 /\ NotRead(k - 1) \in Request
    <3>1. k - 1 \in 0 .. count - 1
      BY <1>2, <1>3
    <3>2. first + k - 1 = first + (k - 1)
      <4>1. first \in Int
        BY <1>2 DEF Slot
      <4>. QED BY <1>3, <4>1
    <3>3. NotRead(k - 1) \in Waiting
      BY <1>0, <3>1, NotReadIsWaiting DEF BarrierInv
    <3>. QED BY <1>0, <3>1, <3>2, <3>3, WaitingAreRequests DEF NotRead, Ahead, BarrierInv
  <2>2. to_offload' = [k \in 1 .. n |-> NotRead(k - 1)]
    BY <1>1, <2>1
  <2>3. n \in Nat \ {0}
    BY <1>3, <1>2
  <2>. QED BY <2>1, <2>2, <2>3
<1>7. \A k \in 0 .. count - n - 1 : NotRead(k)' = NotRead(n + k) /\ n + k \in 0 .. count - 1
  <2>. TAKE k \in 0 .. count - n - 1
  <2>1. k \in 0 .. BufferSize /\ n + k <= BufferSize /\ n + k \in 0 .. count - 1
    BY <1>2, <1>3
  <2>2. Ahead(Ahead(first, n), k) = Ahead(first, n + k)
    BY <1>2, <1>3, <2>1, AheadTwice
  <2>. QED BY <1>0, <1>5, <2>1, <2>2 DEF NotRead
<1>8. he_qat_buffer'.count - 1 = count - n - 1 /\ to_offload = <<>> /\ Len(to_offload) = 0
  BY <1>1, <1>5 DEF BarrierInv, RunnerOK
<1>9. VariablesOK'
  BY <1>1, <1>2, <1>5 DEF BarrierInv, VariablesOK, buildVars, appVars, deviceVars, requestVars
<1>10. CallerOK' /\ NewOK' /\ WindowOK'
  <2>1. he_qat_buffer'.count \in Nat /\ he_qat_buffer'.count <= he_qat_buffer.count
    BY <1>0, <1>2, <1>3, <1>5
  <2>. QED BY <1>1, <1>5, <2>1, OtherFrame DEF buildVars, appVars, requestVars
<1>11. RunnerOK'
  BY <1>1, <1>2, <1>3, <1>6 DEF BarrierInv, RunnerOK, buildVars, deviceVars
<1>12. UnreadOK'
  <2>1. he_qat_buffer'.next_free_slot = Ahead(he_qat_buffer'.next_data_slot, he_qat_buffer'.count)
    <3>1. n + (count - n) = count /\ count <= BufferSize
      BY <1>2, <1>3
    <3>2. Ahead(Ahead(first, n), count - n) = Ahead(first, count)
      BY <1>2, <1>3, <3>1, AheadTwice
    <3>. QED BY <1>0, <1>5, <3>2 DEF BarrierInv, UnreadOK
  <2>2. \A k \in 0 .. count - n - 1 : NotRead(k)' # NULL
    BY <1>0, <1>7 DEF BarrierInv, UnreadOK
  <2>3. \A k, l \in 0 .. count - n - 1 : k # l => NotRead(k)' # NotRead(l)'
    <3>. TAKE k \in 0 .. count - n - 1, l \in 0 .. count - n - 1
    <3>1. k # l => n + k # n + l
      BY <1>2, <1>3
    <3>. QED BY <1>0, <1>7, <3>1 DEF BarrierInv, UnreadOK
  <2>4. \A k, l \in 1 .. n : k # l => to_offload'[k] # to_offload'[l]
    <3>. TAKE k \in 1 .. n, l \in 1 .. n
    <3>1. k # l => k - 1 # l - 1
      BY <1>3
    <3>. QED BY <1>0, <1>6, <3>1 DEF BarrierInv, UnreadOK
  <2>5. \A k \in 1 .. n, l \in 0 .. count - n - 1 : to_offload'[k] # NotRead(l)'
    <3>. TAKE k \in 1 .. n, l \in 0 .. count - n - 1
    <3>1. k - 1 # n + l
      BY <1>2, <1>3
    <3>. QED BY <1>0, <1>6, <1>7, <3>1 DEF BarrierInv, UnreadOK
  <2>. QED BY <1>6, <1>8, <2>1, <2>2, <2>3, <2>4, <2>5 DEF UnreadOK
<1>13. Waiting' = Waiting
  <2>1. Unread = {NotRead(k) : k \in 0 .. count - 1}
        /\ Unread' = {NotRead(k)' : k \in 0 .. he_qat_buffer'.count - 1}
    BY <1>0 DEF Unread, NotRead, Ahead
  <2>2. Waiting = {NotRead(k) : k \in 0 .. count - 1}
    <3>1. FirstWaiting = 1 /\ 1 .. 0 = {}
      BY <1>1 DEF FirstWaiting, HeadAccepted
    <3>. QED BY <1>8, <2>1, <3>1 DEF Waiting
  <2>3. Waiting' = {NotRead(n + k) : k \in 0 .. count - n - 1} \cup {NotRead(k - 1) : k \in 1 .. n}
    <3>1. FirstWaiting' = 1
      BY <1>1 DEF FirstWaiting, HeadAccepted
    <3>2. Unread' = {NotRead(n + k) : k \in 0 .. count - n - 1}
      BY <1>7, <1>8, <2>1
    <3>3. Waiting' = Unread' \cup {to_offload'[k] : k \in 1 .. n}
      BY <1>6, <3>1 DEF Waiting
    <3>. QED BY <1>6, <3>2, <3>3
  <2>4. ASSUME NEW k \in 0 .. count - 1
        PROVE  (\E l \in 0 .. count - n - 1 : k = n + l) \/ (\E l \in 1 .. n : k = l - 1)
    <3>1. CASE k < n
      <4>1. k + 1 \in 1 .. n /\ k = (k + 1) - 1
        BY <1>3, <3>1
      <4>. QED BY <4>1
    <3>2. CASE k >= n
      <4>1. k - n \in 0 .. count - n - 1 /\ k = n + (k - n)
        BY <1>2, <1>3, <3>2
      <4>. QED BY <4>1
    <3>. QED BY <1>3, <3>1, <3>2
  <2>5. /\ \A l \in 0 .. count - n - 1 : n + l \in 0 .. count - 1
        /\ \A l \in 1 .. n : l - 1 \in 0 .. count - 1
    BY <1>6, <1>7
  <2>. QED BY <2>2, <2>3, <2>4, <2>5
<1>14. ~HeadAccepted /\ ~HeadAccepted'
  BY <1>1 DEF HeadAccepted
<1>15. WaitingOK' /\ AcceptedOK' /\ DeliveredOK' /\ SynchronousOK'
  BY <1>1, <1>13, <1>14 DEF BarrierInv, WaitingOK, AcceptedOK, DeliveredOK, SynchronousOK, buildVars,
                            deviceVars, requestVars
<1>16. CountsOK'
  <2>1. Taken \subseteq Taken' /\ Counted = Taken /\ Counted' = Taken'
    BY <1>1, <1>13 DEF Taken, Counted, requestVars
  <2>. QED BY <1>1, <2>1, CountsFrame DEF BarrierInv, deviceVars
<1>. QED BY <1>9, <1>10, <1>11, <1>12, <1>15, <1>16 DEF BarrierInv

\* The head of the list, and what is behind it.
LEMMA HeadFacts ==
    ASSUME BarrierInv, to_offload # <<>>
    PROVE  /\ Head(to_offload) \in Request /\ Head(to_offload) = to_offload[1]
           /\ Len(to_offload) \in Nat \ {0}
           /\ HeadAccepted => Head(to_offload) \notin Waiting
           /\ ~HeadAccepted => Head(to_offload) \in Waiting
           /\ Waiting \subseteq Request
<1>1. /\ Head(to_offload) \in Request /\ Head(to_offload) = to_offload[1]
      /\ Len(to_offload) \in Nat \ {0}
  BY DEF BarrierInv, RunnerOK
<1>2. HeadAccepted => Head(to_offload) \notin Waiting
  <2>1. \A k \in 2 .. Len(to_offload) : to_offload[k] # to_offload[1]
    <3>. TAKE k \in 2 .. Len(to_offload)
    <3>1. k \in 1 .. Len(to_offload) /\ 1 \in 1 .. Len(to_offload) /\ k # 1
      BY <1>1
    <3>. QED BY <3>1 DEF BarrierInv, UnreadOK
  <2>2. \A k \in 0 .. he_qat_buffer.count - 1 : NotRead(k) # to_offload[1]
    <3>1. 1 \in 1 .. Len(to_offload)
      BY <1>1
    <3>. QED BY <3>1 DEF BarrierInv, UnreadOK
  <2>3. Unread = {NotRead(k) : k \in 0 .. he_qat_buffer.count - 1}
    BY DEF Unread, NotRead, Ahead
  <2>. QED BY <1>1, <2>1, <2>2, <2>3 DEF Waiting, FirstWaiting
<1>3. ~HeadAccepted => Head(to_offload) \in Waiting
  <2>1. 1 \in 1 .. Len(to_offload)
    BY <1>1
  <2>. QED BY <1>1, <2>1 DEF Waiting, FirstWaiting
<1>. QED BY <1>1, <1>2, <1>3, WaitingAreRequests DEF BarrierInv

\* NextOffload drops the head.
LEMMA NextOffloadFacts ==
    ASSUME BarrierInv, to_offload # <<>>, NextOffload, he_qat_buffer' = he_qat_buffer,
           UNCHANGED <<synchronous, callback>>
    PROVE  /\ RunnerOK' /\ UnreadOK' /\ ~HeadAccepted' /\ retry' \in 0 .. MaxRetry - 1
           /\ runner' # "count"
           /\ Waiting' = Waiting \ {Head(to_offload)}
           /\ Head(to_offload) \notin Waiting'
<1>. DEFINE n == Len(to_offload)
            tail == Tail(to_offload)
<1>1. /\ to_offload' = tail /\ retry' = 0
      /\ runner' = IF tail = <<>> THEN "throttle" ELSE "offload"
  BY DEF NextOffload
<1>2. /\ n \in Nat \ {0} /\ n <= BufferSize /\ tail \in Seq(Request) /\ Len(tail) = n - 1
      /\ \A k \in 1 .. n - 1 : tail[k] = to_offload[k + 1] /\ k + 1 \in 1 .. n
      /\ BufferSize \in Nat
  BY Constants DEF BarrierInv, RunnerOK
<1>. HIDE DEF n, tail
<1>3. RunnerOK'
  <2>1. tail = <<>> <=> runner' \in {"throttle", "read"}
    BY <1>1
  <2>2. runner' \in {"throttle", "offload"}
    BY <1>1
  <2>3. Len(tail) <= BufferSize
    BY <1>2
  <2>. QED BY <1>1, <1>2, <2>1, <2>2, <2>3 DEF BarrierInv, RunnerOK
<1>4. \A k : NotRead(k)' = NotRead(k)
  BY DEF NotRead
<1>5. UnreadOK'
  <2>1. \A k, l \in 1 .. n - 1 : k # l => tail[k] # tail[l]
    <3>. TAKE k \in 1 .. n - 1, l \in 1 .. n - 1
    <3>1. k # l => k + 1 # l + 1
      BY <1>2
    <3>. QED BY <1>2, <3>1 DEF BarrierInv, UnreadOK, n
  <2>2. \A k \in 1 .. n - 1, l \in 0 .. he_qat_buffer.count - 1 : tail[k] # NotRead(l)
    BY <1>2 DEF BarrierInv, UnreadOK, n
  <2>. QED BY <1>1, <1>2, <1>4, <2>1, <2>2 DEF BarrierInv, UnreadOK
<1>6. ~HeadAccepted' /\ FirstWaiting' = 1 /\ retry' \in 0 .. MaxRetry - 1 /\ runner' # "count"
  BY <1>1, Constants DEF HeadAccepted, FirstWaiting
<1>7. Waiting' = Waiting \ {Head(to_offload)} /\ Head(to_offload) \notin Waiting'
  <2>1. Unread' = Unread /\ Unread = {NotRead(k) : k \in 0 .. he_qat_buffer.count - 1}
    BY DEF Unread, NotRead, Ahead
  <2>2. Waiting' = Unread \cup {tail[k] : k \in 1 .. n - 1}
    BY <1>1, <1>2, <1>6, <2>1 DEF Waiting
  <2>3. {tail[k] : k \in 1 .. n - 1} = {to_offload[k] : k \in 2 .. n}
    <3>1. \A k \in 2 .. n : k - 1 \in 1 .. n - 1 /\ tail[k - 1] = to_offload[k]
      <4>. TAKE k \in 2 .. n
      <4>1. k - 1 \in 1 .. n - 1 /\ (k - 1) + 1 = k
        BY <1>2
      <4>. QED BY <1>2, <4>1
    <3>2. \A k \in 1 .. n - 1 : k + 1 \in 2 .. n /\ tail[k] = to_offload[k + 1]
      BY <1>2
    <3>. QED BY <3>1, <3>2
  <2>4. /\ \A k \in 2 .. n : to_offload[k] # to_offload[1]
        /\ \A k \in 0 .. he_qat_buffer.count - 1 : NotRead(k) # to_offload[1]
    <3>1. 1 \in 1 .. n /\ \A k \in 2 .. n : k \in 1 .. n /\ k # 1
      BY <1>2
    <3>. QED BY <3>1 DEF BarrierInv, UnreadOK, n
  <2>5. Head(to_offload) = to_offload[1]
    BY DEF BarrierInv, RunnerOK
  <2>6. {to_offload[k] : k \in 1 .. n} = {to_offload[k] : k \in 2 .. n} \cup {to_offload[1]}
    <3>1. \A k \in 1 .. n : k = 1 \/ k \in 2 .. n
      BY <1>2
    <3>2. 1 \in 1 .. n /\ \A k \in 2 .. n : k \in 1 .. n
      BY <1>2
    <3>. QED BY <3>1, <3>2
  <2>7. Waiting = Unread \cup {to_offload[k] : k \in 2 .. n}
        \/ Waiting = Unread \cup {to_offload[k] : k \in 1 .. n}
    BY DEF Waiting, FirstWaiting, n
  <2>. DEFINE rest == {to_offload[k] : k \in 2 .. n}
  <2>8. Waiting' = Unread \cup rest /\ Head(to_offload) \notin Unread \cup rest
    BY <2>1, <2>2, <2>3, <2>4, <2>5
  <2>9. Waiting = Unread \cup rest \/ Waiting = Unread \cup rest \cup {Head(to_offload)}
    BY <2>5, <2>6, <2>7
  <2>. HIDE DEF rest
  <2>. QED BY <2>8, <2>9
<1>. QED BY <1>3, <1>5, <1>6, <1>7

LEMMA OffloadStep ==
    ASSUME BarrierInv, Offload PROVE BarrierInv'
<1>. DEFINE r == Head(to_offload)
<1>1. /\ runner = "offload" /\ device' = device \cup {r} /\ runner' = "count"
      /\ semaphore' = IF synchronous THEN [semaphore EXCEPT ![r] = "zero"] ELSE semaphore
      /\ UNCHANGED <<buildVars, appVars, he_qat_buffer, max_requests, to_offload, retry,
                     request_count, response_count, callback, request_status, op_output>>
  BY DEF Offload
<1>2. /\ r \in Request /\ r = to_offload[1] /\ r \in Waiting /\ ~HeadAccepted /\ HeadAccepted'
      /\ Waiting \subseteq Request /\ Len(to_offload) \in Nat \ {0}
  BY <1>1, HeadFacts DEF BarrierInv, RunnerOK, HeadAccepted
<1>3. request_status[r] = "SUCCESS" /\ callback[r] = "none" /\ r \notin device
  BY <1>2 DEF BarrierInv, WaitingOK
<1>4. Head(to_offload)' = r
  BY <1>1
<1>. HIDE DEF r
<1>5. VariablesOK'
  BY <1>1, <1>2 DEF BarrierInv, VariablesOK, buildVars, appVars
<1>6. CallerOK' /\ NewOK' /\ WindowOK'
  <2>1. he_qat_buffer.count \in Nat /\ he_qat_buffer.count <= he_qat_buffer.count
    BY Constants DEF BarrierInv, VariablesOK
  <2>. QED BY <1>1, <2>1, OtherFrame DEF buildVars, appVars
<1>7. RunnerOK' /\ UnreadOK' /\ DeliveredOK'
  BY <1>1 DEF BarrierInv, RunnerOK, UnreadOK, NotRead, DeliveredOK, buildVars
<1>8. Waiting' \subseteq Waiting /\ r \notin Waiting' /\ Waiting \subseteq Waiting' \cup {r}
  <2>1. Unread' = Unread /\ Unread = {NotRead(k) : k \in 0 .. he_qat_buffer.count - 1}
    BY <1>1 DEF Unread, NotRead, Ahead
  <2>2. FirstWaiting = 1 /\ FirstWaiting' = 2
    BY <1>2 DEF FirstWaiting
  <2>3. \A k \in 2 .. Len(to_offload) : k \in 1 .. Len(to_offload) /\ k # 1
    BY <1>2
  <2>4. 1 \in 1 .. Len(to_offload) /\ \A k \in 1 .. Len(to_offload) : k = 1 \/ k \in 2 .. Len(to_offload)
    BY <1>2
  <2>. QED BY <1>1, <1>2, <2>1, <2>2, <2>3, <2>4 DEF Waiting, BarrierInv, UnreadOK
<1>9. WaitingOK'
  BY <1>1, <1>8 DEF BarrierInv, WaitingOK
<1>10. AcceptedOK'
  BY <1>1, <1>3, <1>4 DEF BarrierInv, AcceptedOK
<1>11. SynchronousOK'
  <2>1. synchronous => semaphore'[r] = "zero"
    BY <1>1, <1>2 DEF BarrierInv, VariablesOK
  <2>2. synchronous => \A x \in Request : x \notin device /\ callback[x] # "counted"
    BY <1>2 DEF BarrierInv, SynchronousOK
  <2>. QED BY <1>1, <1>2, <1>4, <2>1, <2>2 DEF SynchronousOK, buildVars
<1>12. CountsOK'
  <2>1. Counted \subseteq Counted' /\ Taken \ device \subseteq (Taken \ device)'
    BY <1>1, <1>2, <1>4, <1>8 DEF Taken, Counted
  <2>. QED BY <1>1, <2>1, CountsFrame DEF BarrierInv
<1>. QED BY <1>5, <1>6, <1>7, <1>9, <1>10, <1>11, <1>12 DEF BarrierInv

\* A set with one more element counts one more.
LEMMA OneMore ==
    ASSUME NEW S \in SUBSET Request, NEW T \in SUBSET Request, NEW x \in T, S \subseteq T, x \notin S,
           NEW n \in Nat, n <= Cardinality(S)
    PROVE  n + 1 <= Cardinality(T)
<1>1. IsFiniteSet(S) /\ IsFiniteSet(T) /\ S \cup {x} \in SUBSET T
  BY RequestsFinite, FS_Subset
<1>2. Cardinality(S \cup {x}) = Cardinality(S) + 1 /\ Cardinality(S \cup {x}) <= Cardinality(T)
      /\ Cardinality(S) \in Nat /\ Cardinality(T) \in Nat
  BY <1>1, FS_AddElement, FS_Subset, FS_CardinalityType
<1>. QED BY <1>2

LEMMA CountStep ==
    ASSUME BarrierInv, Count PROVE BarrierInv'
<1>1. /\ runner = "count" /\ request_count' = request_count + 1
      /\ (synchronous /\ runner' = "completion" /\ UNCHANGED <<to_offload, retry>>)
         \/ (~synchronous /\ NextOffload)
      /\ UNCHANGED <<buildVars, appVars, he_qat_buffer, max_requests, deviceVars, requestVars>>
  BY DEF Count
<1>. DEFINE r == Head(to_offload)
<1>2. /\ to_offload # <<>> /\ HeadAccepted /\ r \in Request /\ r \notin Waiting
      /\ request_status[r] # "NEW"
  BY <1>1, HeadFacts DEF BarrierInv, RunnerOK, HeadAccepted, AcceptedOK
<1>3. CallerOK' /\ NewOK' /\ WindowOK'
  <2>1. he_qat_buffer.count \in Nat /\ he_qat_buffer.count <= he_qat_buffer.count
    BY Constants DEF BarrierInv, VariablesOK
  <2>. QED BY <1>1, <2>1, OtherFrame DEF buildVars, appVars, requestVars
<1>4. /\ RunnerOK' /\ UnreadOK' /\ Waiting' = Waiting /\ retry' \in 0 .. MaxRetry - 1
      /\ runner' # "count"
      /\ synchronous => runner' = "completion" /\ to_offload' = to_offload
      /\ ~synchronous => ~HeadAccepted'
  <2>1. CASE synchronous
    <3>1. Unread' = Unread /\ FirstWaiting' = FirstWaiting
      BY <1>1, <2>1 DEF Unread, FirstWaiting, HeadAccepted
    <3>. QED BY <1>1, <1>2, <2>1, <3>1 DEF BarrierInv, RunnerOK, UnreadOK, NotRead, VariablesOK, Waiting,
                                        buildVars, deviceVars
  <2>2. CASE ~synchronous
    <3>1. Waiting \ {r} = Waiting
      BY <1>2
    <3>. QED BY <1>1, <1>2, <2>2, <3>1, NextOffloadFacts DEF buildVars, deviceVars
  <2>. QED BY <2>1, <2>2
<1>. HIDE DEF r
<1>5. VariablesOK'
  <2>1. request_count' \in Nat
    BY <1>1 DEF BarrierInv, VariablesOK
  <2>. QED BY <1>1, <1>4, <2>1 DEF BarrierInv, VariablesOK, buildVars, appVars, deviceVars, requestVars
<1>6. WaitingOK' /\ DeliveredOK'
  BY <1>1, <1>4 DEF BarrierInv, WaitingOK, DeliveredOK, deviceVars, requestVars
<1>7. AcceptedOK' /\ SynchronousOK'
  <2>1. HeadAccepted' => to_offload' = to_offload /\ synchronous
    BY <1>4
  <2>2. synchronous => HeadAccepted'
    BY <1>4 DEF HeadAccepted
  <2>. QED BY <1>1, <1>2, <1>4, <2>1, <2>2 DEF BarrierInv, AcceptedOK, SynchronousOK, r, buildVars,
                                             deviceVars, requestVars
<1>8. CountsOK'
  <2>1. /\ Taken' = Taken /\ Counted' = Taken /\ Counted = Taken \ {r} /\ r \in Taken
        /\ (Taken \ device)' = Taken \ device
    BY <1>1, <1>2, <1>4 DEF Taken, Counted, r, requestVars, deviceVars
  <2>2. Counted \in SUBSET Request /\ Taken \in SUBSET Request
    BY DEF Counted, Taken
  <2>3. request_count + 1 <= Cardinality(Taken)
    BY <2>1, <2>2, OneMore DEF BarrierInv, CountsOK, VariablesOK
  <2>. QED BY <1>1, <2>1, <2>3 DEF BarrierInv, CountsOK, deviceVars
<1>. QED BY <1>3, <1>4, <1>5, <1>6, <1>7, <1>8 DEF BarrierInv

\* The thread goes on to the next request, and nobody else has this one.
LEMMA GoOn ==
    ASSUME BarrierInv, runner \in {"completion", "offload"}, NextOffload, VariablesOK',
           synchronous => \A r \in Request : r \notin device /\ callback[r] # "counted",
           UNCHANGED <<legacy, synchronous, skewed, appVars, he_qat_buffer, request_count, deviceVars, op_output>>,
           \A r \in Request : r # Head(to_offload) => request_status'[r] = request_status[r],
           LET r == Head(to_offload)
           IN  request_status'[r] = request_status[r]
               \/ (runner = "offload" /\ request_status'[r] = "FAIL")
    PROVE  BarrierInv'
<1>. DEFINE r == Head(to_offload)
<1>1. /\ to_offload # <<>> /\ r \in Request /\ Waiting \subseteq Request
      /\ runner = "offload" => r \in Waiting
      /\ runner = "completion" => r \notin Waiting
  BY HeadFacts DEF BarrierInv, RunnerOK, HeadAccepted
<1>2. /\ RunnerOK' /\ UnreadOK' /\ ~HeadAccepted' /\ runner' # "count"
      /\ Waiting' = Waiting \ {r}
  BY <1>1, NextOffloadFacts DEF deviceVars
<1>3. runner = "offload" => request_status[r] = "SUCCESS" /\ r \notin device /\ callback[r] = "none"
  BY <1>1 DEF BarrierInv, WaitingOK
<1>. HIDE DEF r
<1>4. /\ \A x \in Request : x # r => request_status'[x] = request_status[x]
      /\ request_status'[r] = request_status[r]
         \/ (runner = "offload" /\ request_status'[r] = "FAIL")
  BY DEF r
<1>5. CallerOK' /\ NewOK' /\ WindowOK'
  <2>1. he_qat_buffer.count \in Nat /\ he_qat_buffer.count <= he_qat_buffer.count
    BY Constants DEF BarrierInv, VariablesOK
  <2>2. \A x \in Request : request_status[x] \in {"NEW", "FREED"} => request_status'[x] = request_status[x]
    BY <1>3, <1>4
  <2>. QED BY <2>1, <2>2, OtherFrame DEF appVars
<1>6. WaitingOK'
  BY <1>1, <1>2, <1>4 DEF BarrierInv, WaitingOK, deviceVars
<1>7. AcceptedOK' /\ DeliveredOK' /\ SynchronousOK'
  <2>1. device \subseteq Request
    BY DEF BarrierInv, VariablesOK
  <2>. QED BY <1>1, <1>2, <1>3, <1>4, <2>1 DEF BarrierInv, AcceptedOK, DeliveredOK, SynchronousOK, deviceVars
<1>8. CountsOK'
  <2>1. Taken \subseteq Taken'
    BY <1>2, <1>3, <1>4 DEF Taken
  <2>2. Counted = Taken /\ Counted' = Taken'
    BY <1>2 DEF Counted
  <2>. QED BY <2>1, <2>2, CountsFrame DEF BarrierInv, deviceVars
<1>. QED BY <1>2, <1>5, <1>6, <1>7, <1>8 DEF BarrierInv

LEMMA WaitCompletionStep ==
    ASSUME BarrierInv, WaitCompletion PROVE BarrierInv'
<1>. DEFINE r == Head(to_offload)
<1>1. /\ runner = "completion" /\ semaphore[r] = "posted" /\ semaphore' = [semaphore EXCEPT ![r] = "none"]
      /\ NextOffload
      /\ UNCHANGED <<buildVars, appVars, he_qat_buffer, max_requests, request_count,
                     deviceVars, request_status, op_output>>
  BY DEF WaitCompletion, Completed
<1>2. to_offload # <<>> /\ HeadAccepted
  BY <1>1 DEF BarrierInv, RunnerOK, HeadAccepted
<1>3. VariablesOK'
  <2>1. retry' \in 0 .. MaxRetry - 1
    BY <1>1, Constants DEF NextOffload
  <2>2. semaphore' \in [Request -> {"none", "zero", "posted"}]
    BY <1>1 DEF BarrierInv, VariablesOK
  <2>. HIDE DEF r
  <2>. QED BY <1>1, <2>1, <2>2 DEF BarrierInv, VariablesOK, buildVars, appVars, deviceVars
<1>4. synchronous => \A x \in Request : x \notin device /\ callback[x] # "counted"
  BY <1>1 DEF BarrierInv, SynchronousOK
<1>. QED BY <1>1, <1>3, <1>4, GoOn DEF buildVars

LEMMA WaitFreedStep ==
    ASSUME BarrierInv, WaitFreed PROVE BarrierInv'
<1>. DEFINE r == Head(to_offload)
<1>1. /\ runner = "completion" /\ request_status[r] = "FREED"
      /\ NextOffload \/ (runner' = "lost" /\ UNCHANGED <<to_offload, retry>>)
      /\ UNCHANGED <<buildVars, appVars, he_qat_buffer, max_requests, request_count, deviceVars, requestVars>>
  BY DEF WaitFreed
<1>2. to_offload # <<>> /\ HeadAccepted /\ synchronous
  BY <1>1 DEF BarrierInv, RunnerOK, HeadAccepted
<1>3. synchronous => \A x \in Request : x \notin device /\ callback[x] # "counted"
  BY <1>1 DEF BarrierInv, SynchronousOK, AcceptedOK
<1>4. CASE NextOffload
  <2>1. VariablesOK'
    <3>1. retry' \in 0 .. MaxRetry - 1
      BY <1>4, Constants DEF NextOffload
    <3>. QED BY <1>1, <3>1 DEF BarrierInv, VariablesOK, buildVars, appVars, deviceVars, requestVars
  <2>. QED BY <1>1, <1>3, <1>4, <2>1, GoOn DEF buildVars, requestVars
<1>5. CASE runner' = "lost" /\ UNCHANGED <<to_offload, retry>>
  <2>1. VariablesOK' /\ RunnerOK' /\ UnreadOK'
    BY <1>1, <1>2, <1>5 DEF BarrierInv, VariablesOK, RunnerOK, UnreadOK, NotRead, buildVars, appVars,
                            deviceVars, requestVars
  <2>2. HeadAccepted' /\ Waiting' = Waiting
    BY <1>1, <1>2, <1>5 DEF HeadAccepted, Waiting, FirstWaiting, Unread
  <2>3. CallerOK' /\ NewOK' /\ WindowOK'
    <3>1. he_qat_buffer.count \in Nat /\ he_qat_buffer.count <= he_qat_buffer.count
      BY Constants DEF BarrierInv, VariablesOK
    <3>. QED BY <1>1, <3>1, OtherFrame DEF buildVars, appVars, requestVars
  <2>4. WaitingOK' /\ AcceptedOK' /\ DeliveredOK' /\ SynchronousOK'
    BY <1>1, <1>2, <1>3, <1>5, <2>2 DEF BarrierInv, WaitingOK, AcceptedOK, DeliveredOK, SynchronousOK,
                                   buildVars, deviceVars, requestVars
  <2>5. CountsOK'
    <3>1. Taken' = Taken /\ Counted = Taken /\ Counted' = Taken'
      BY <1>1, <1>5, <2>2 DEF Taken, Counted, requestVars
    <3>. QED BY <1>1, <3>1, CountsFrame DEF BarrierInv, deviceVars
  <2>. QED BY <2>1, <2>3, <2>4, <2>5 DEF BarrierInv
<1>. QED BY <1>1, <1>4, <1>5

LEMMA OffloadFailsStep ==
    ASSUME BarrierInv, OffloadFails PROVE BarrierInv'
<1>. DEFINE r == Head(to_offload)
<1>1. /\ runner = "offload" /\ request_status' = [request_status EXCEPT ![r] = "FAIL"]
      /\ failures < MaxFailures /\ failures' = failures + 1
      /\ NextOffload
      /\ UNCHANGED <<unfailing, appVars, he_qat_buffer, max_requests, request_count, deviceVars,
                     semaphore, op_output>>
  BY DEF OffloadFails, Failure
<1>2. to_offload # <<>> /\ ~HeadAccepted /\ r \in Request
  BY <1>1, HeadFacts DEF BarrierInv, RunnerOK, HeadAccepted
<1>3. VariablesOK'
  <2>1. retry' \in 0 .. MaxRetry - 1 /\ failures' \in 0 .. MaxFailures
    BY <1>1, Constants DEF NextOffload, BarrierInv, VariablesOK
  <2>2. request_status' \in [Request -> RequestStatus]
    BY <1>1 DEF BarrierInv, VariablesOK, RequestStatus
  <2>. HIDE DEF r
  <2>. QED BY <1>1, <2>1, <2>2 DEF BarrierInv, VariablesOK, unfailing, appVars, deviceVars
<1>4. synchronous => \A x \in Request : x \notin device /\ callback[x] # "counted"
  BY <1>2 DEF BarrierInv, SynchronousOK
<1>5. /\ \A x \in Request : x # r => request_status'[x] = request_status[x]
      /\ request_status'[r] = "FAIL"
  BY <1>1, <1>2 DEF BarrierInv, VariablesOK
<1>. QED BY <1>1, <1>3, <1>4, <1>5, GoOn DEF unfailing

\* Another attempt, or the end of the thread.
LEMMA AttemptStep ==
    ASSUME BarrierInv, Retry \/ RetryExits PROVE BarrierInv'
<1>1. /\ runner = "offload" /\ runner' \in {"offload", "exited"}
      /\ retry' \in 0 .. MaxRetry - 1 /\ failures' \in 0 .. MaxFailures
      /\ UNCHANGED <<unfailing, appVars, he_qat_buffer, max_requests, to_offload, request_count,
                     deviceVars, requestVars>>
  <2>1. retry + 1 < MaxRetry => retry + 1 \in 0 .. MaxRetry - 1
    BY Constants DEF BarrierInv, VariablesOK
  <2>2. failures < MaxFailures => failures + 1 \in 0 .. MaxFailures
    BY Constants DEF BarrierInv, VariablesOK
  <2>. QED BY <2>1, <2>2 DEF Retry, RetryExits, MayRetry, Failure, buildVars, unfailing, BarrierInv, VariablesOK
<1>2. VariablesOK' /\ RunnerOK' /\ UnreadOK'
  BY <1>1 DEF BarrierInv, VariablesOK, RunnerOK, UnreadOK, NotRead, unfailing, appVars, deviceVars, requestVars
<1>3. ~HeadAccepted /\ ~HeadAccepted' /\ Waiting' = Waiting
  BY <1>1 DEF HeadAccepted, Waiting, FirstWaiting, Unread
<1>4. CallerOK' /\ NewOK' /\ WindowOK'
  <2>1. he_qat_buffer.count \in Nat /\ he_qat_buffer.count <= he_qat_buffer.count
    BY Constants DEF BarrierInv, VariablesOK
  <2>. QED BY <1>1, <2>1, OtherFrame DEF unfailing, appVars, requestVars
<1>5. WaitingOK' /\ AcceptedOK' /\ DeliveredOK' /\ SynchronousOK'
  BY <1>1, <1>3 DEF BarrierInv, WaitingOK, AcceptedOK, DeliveredOK, SynchronousOK,
                    unfailing, deviceVars, requestVars
<1>6. CountsOK'
  <2>1. Taken' = Taken /\ Counted = Taken /\ Counted' = Taken'
    BY <1>1, <1>3 DEF Taken, Counted, requestVars
  <2>. QED BY <1>1, <2>1, CountsFrame DEF BarrierInv, deviceVars
<1>. QED BY <1>2, <1>4, <1>5, <1>6 DEF BarrierInv

-----------------------------------------------------------------------------
(* The callbacks, and the context.                                         *)

LEMMA RespondStep ==
    ASSUME BarrierInv, NEW r \in Request, Respond(r) PROVE BarrierInv'
<1>1. /\ r \in device /\ device' = device \ {r} /\ callback' = [callback EXCEPT ![r] = "counted"]
      /\ response_count' = response_count + 1
      /\ UNCHANGED <<buildVars, appVars, he_qat_buffer, runnerVars, requestVars>>
  BY DEF Respond
<1>2. request_status[r] = "SUCCESS" /\ r \notin Waiting
  BY <1>1 DEF BarrierInv, AcceptedOK, WaitingOK
<1>3. /\ callback'[r] = "counted" /\ \A x \in Request : x # r => callback'[x] = callback[x]
  BY <1>1 DEF BarrierInv, VariablesOK
<1>4. VariablesOK' /\ RunnerOK' /\ UnreadOK'
  BY <1>1 DEF BarrierInv, VariablesOK, RunnerOK, UnreadOK, NotRead, buildVars, appVars, runnerVars, requestVars
<1>5. CallerOK' /\ NewOK' /\ WindowOK'
  <2>1. he_qat_buffer.count \in Nat /\ he_qat_buffer.count <= he_qat_buffer.count
    BY Constants DEF BarrierInv, VariablesOK
  <2>. QED BY <1>1, <2>1, OtherFrame DEF buildVars, appVars, requestVars
<1>6. Waiting' = Waiting /\ HeadAccepted' = HeadAccepted /\ Waiting \subseteq Request
  BY <1>1, WaitingFrame, WaitingAreRequests DEF HeadAccepted, runnerVars, BarrierInv
<1>7. WaitingOK' /\ AcceptedOK' /\ DeliveredOK' /\ SynchronousOK'
  <2>1. device \subseteq Request
    BY DEF BarrierInv, VariablesOK
  <2>. QED BY <1>1, <1>2, <1>3, <1>6, <2>1 DEF BarrierInv, WaitingOK, AcceptedOK, DeliveredOK,
                                             SynchronousOK, buildVars, runnerVars, requestVars
<1>8. CountsOK'
  <2>1. Taken' = Taken /\ Counted' = Counted /\ r \in Taken
    BY <1>1, <1>2, <1>6 DEF Taken, Counted, runnerVars, requestVars
  <2>2. /\ Taken \ device \in SUBSET Request /\ (Taken \ device)' \in SUBSET Request
        /\ r \in (Taken \ device)' /\ r \notin Taken \ device
        /\ Taken \ device \subseteq (Taken \ device)'
    BY <1>1, <2>1 DEF Taken
  <2>3. response_count + 1 <= Cardinality((Taken \ device)')
    BY <2>2, OneMore DEF BarrierInv, CountsOK, VariablesOK
  <2>. QED BY <1>1, <2>1, <2>3 DEF BarrierInv, CountsOK, runnerVars
<1>. QED BY <1>4, <1>5, <1>7, <1>8 DEF BarrierInv

LEMMA PublishStep ==
    ASSUME BarrierInv, NEW r \in Request, Publish(r) PROVE BarrierInv'
<1>1. /\ callback[r] = "counted"
      /\ \/ request_status' = [request_status EXCEPT ![r] = "READY"]
            /\ op_output' = [op_output EXCEPT ![r] = TRUE] /\ failures' = failures
         \/ /\ failures' \in 0 .. MaxFailures /\ op_output' = op_output
            /\ \E s \in {"FAIL", request_status[r]} : request_status' = [request_status EXCEPT ![r] = s]
      /\ app' = Signalled(r)
      /\ callback' = [callback EXCEPT ![r] = IF synchronous THEN "post" ELSE "none"]
      /\ UNCHANGED <<unfailing, call, worksize, slice, element, j, block_at_index, he_qat_buffer,
                     runnerVars, device, response_count, semaphore>>
  BY Constants DEF Publish, Failure, BarrierInv, VariablesOK
<1>2. request_status[r] = "SUCCESS" /\ r \notin Waiting /\ r \notin device
  BY <1>1 DEF BarrierInv, AcceptedOK, WaitingOK
<1>3. /\ callback'[r] \in {"none", "post"} /\ (~synchronous => callback'[r] = "none")
      /\ \A x \in Request : x # r => callback'[x] = callback[x]
      /\ callback' \in [Request -> {"none", "counted", "post"}]
  BY <1>1 DEF BarrierInv, VariablesOK
<1>4. /\ request_status'[r] \in {"SUCCESS", "READY", "FAIL"}
      /\ request_status'[r] = "READY" => op_output'[r]
      /\ \A x \in Request : x # r => request_status'[x] = request_status[x] /\ op_output'[x] = op_output[x]
      /\ request_status' \in [Request -> RequestStatus] /\ op_output' \in [Request -> BOOLEAN]
      /\ failures' \in 0 .. MaxFailures
  BY <1>1, <1>2 DEF BarrierInv, VariablesOK, RequestStatus
<1>5. VariablesOK' /\ RunnerOK' /\ UnreadOK'
  <2>1. VariablesOK'
    BY <1>1, <1>3, <1>4 DEF BarrierInv, VariablesOK, unfailing, runnerVars
  <2>2. RunnerOK' /\ UnreadOK'
    BY <1>1, <1>3 DEF BarrierInv, RunnerOK, UnreadOK, NotRead, unfailing, runnerVars
  <2>. QED BY <2>1, <2>2
<1>6. CallerOK' /\ NewOK' /\ WindowOK'
  <2>1. he_qat_buffer.count \in Nat /\ he_qat_buffer.count <= he_qat_buffer.count
    BY Constants DEF BarrierInv, VariablesOK
  <2>2. app' = app \/ {app, app'} \subseteq {"barrier", "barrier_wait"}
    BY <1>1 DEF Signalled
  <2>3. \A x \in Request : request_status[x] \in {"NEW", "FREED"} => request_status'[x] = request_status[x]
    BY <1>2, <1>4
  <2>. QED BY <1>1, <2>1, <2>2, <2>3, OtherFrame DEF unfailing
<1>7. Waiting' = Waiting /\ HeadAccepted' = HeadAccepted /\ Waiting \subseteq Request
  BY <1>1, WaitingFrame, WaitingAreRequests DEF HeadAccepted, runnerVars, BarrierInv
<1>8. WaitingOK' /\ AcceptedOK' /\ DeliveredOK' /\ SynchronousOK'
  <2>1. device \subseteq Request /\ (HeadAccepted => Head(to_offload) \in Request)
    BY DEF BarrierInv, VariablesOK, RunnerOK, HeadAccepted
  <2>2. WaitingOK' /\ DeliveredOK' /\ AcceptedOK'
    BY <1>1, <1>2, <1>3, <1>4, <1>7, <2>1 DEF BarrierInv, WaitingOK, AcceptedOK, DeliveredOK, runnerVars
  <2>3. SynchronousOK'
    BY <1>1, <1>3, <1>7 DEF BarrierInv, SynchronousOK, unfailing, runnerVars
  <2>. QED BY <2>2, <2>3
<1>9. CountsOK'
  <2>1. \A x \in Request : request_status[x] # "NEW" => request_status'[x] # "NEW"
    BY <1>4
  <2>. QED BY <1>1, <1>7, <2>1, CountsSame DEF BarrierInv, runnerVars
<1>. QED BY <1>5, <1>6, <1>8, <1>9 DEF BarrierInv

LEMMA PostStep ==
    ASSUME BarrierInv, NEW r \in Request, Post(r) PROVE BarrierInv'
<1>1. /\ callback[r] = "post" /\ callback' = [callback EXCEPT ![r] = "none"]
      /\ semaphore' = semaphore
         \/ semaphore' = [semaphore EXCEPT ![r] = IF @ = "zero" THEN "posted" ELSE @]
      /\ UNCHANGED <<buildVars, appVars, he_qat_buffer, runnerVars, device, response_count,
                     request_status, op_output>>
  BY DEF Post
<1>2. r \notin device
  BY <1>1 DEF BarrierInv, AcceptedOK
<1>3. /\ callback'[r] = "none" /\ \A x \in Request : x # r => callback'[x] = callback[x] /\ semaphore'[x] = semaphore[x]
      /\ callback' \in [Request -> {"none", "counted", "post"}]
      /\ semaphore' \in [Request -> {"none", "zero", "posted"}]
  BY <1>1 DEF BarrierInv, VariablesOK
<1>4. VariablesOK' /\ RunnerOK' /\ UnreadOK'
  BY <1>1, <1>3 DEF BarrierInv, VariablesOK, RunnerOK, UnreadOK, NotRead, buildVars, appVars, runnerVars
<1>5. CallerOK' /\ NewOK' /\ WindowOK'
  <2>1. he_qat_buffer.count \in Nat /\ he_qat_buffer.count <= he_qat_buffer.count
    BY Constants DEF BarrierInv, VariablesOK
  <2>. QED BY <1>1, <2>1, OtherFrame DEF buildVars, appVars
<1>6. Waiting' = Waiting /\ HeadAccepted' = HeadAccepted /\ Waiting \subseteq Request
  BY <1>1, WaitingFrame, WaitingAreRequests DEF HeadAccepted, runnerVars, BarrierInv
<1>7. WaitingOK' /\ AcceptedOK' /\ DeliveredOK' /\ SynchronousOK'
  <2>1. device \subseteq Request
    BY DEF BarrierInv, VariablesOK
  <2>. QED BY <1>1, <1>2, <1>3, <1>6, <2>1 DEF BarrierInv, WaitingOK, AcceptedOK, DeliveredOK,
                                             SynchronousOK, buildVars, runnerVars
<1>8. CountsOK'
  BY <1>1, <1>6, CountsSame DEF BarrierInv, runnerVars
<1>. QED BY <1>4, <1>5, <1>7, <1>8 DEF BarrierInv

\* The buffer starts anew; the cursor stays, and skewed says whether that matters.
LEMMA RestartStep ==
    ASSUME BarrierInv, Restart PROVE BarrierInv'
<1>1. /\ app = "idle" /\ runner \in {"throttle", "read"} /\ he_qat_buffer.count = 0
      /\ restarts' \in 0 .. MaxRestarts /\ skewed' = (skewed \/ block_at_index # 0)
      /\ he_qat_buffer' = EmptyBuffer /\ runner' = "throttle"
      /\ UNCHANGED <<legacy, synchronous, failures, appVars, max_requests, to_offload, retry,
                     request_count, deviceVars, requestVars>>
  BY Constants DEF Restart, Quiescent, BarrierInv, VariablesOK
<1>2. /\ 0 \in Slot /\ Ahead(0, 0) = 0 /\ BufferSize \in Nat \ {0}
      /\ he_qat_buffer'.count = 0 /\ he_qat_buffer'.next_free_slot = 0 /\ he_qat_buffer'.next_data_slot = 0
      /\ he_qat_buffer'.data = [s \in Slot |-> NULL]
      /\ he_qat_buffer' \in [data : [Slot -> Pointer], count : 0 .. BufferSize,
                             next_free_slot : Slot, next_data_slot : Slot]
  <2>1. 0 \in Slot /\ BufferSize \in Nat \ {0}
    BY Constants DEF Slot
  <2>2. Ahead(0, 0) = 0
    BY <2>1, Around
  <2>. QED BY <1>1, <2>1, <2>2 DEF EmptyBuffer, Pointer
<1>3. VariablesOK'
  BY <1>1, <1>2 DEF BarrierInv, VariablesOK, appVars, deviceVars, requestVars
<1>4. CallerOK' /\ NewOK'
  <2>1. CallerOK' /\ Position' = Position /\ app' = app
    BY <1>1, CallerFrame DEF BarrierInv, appVars
  <2>. QED BY <1>1, <2>1, NewFrame DEF BarrierInv, appVars, requestVars
<1>5. to_offload = <<>> /\ to_offload' = <<>> /\ Len(to_offload) = 0
  BY <1>1 DEF BarrierInv, RunnerOK
<1>6. RunnerOK' /\ UnreadOK'
  BY <1>1, <1>2, <1>5 DEF BarrierInv, RunnerOK, UnreadOK, deviceVars
<1>7. Waiting = {} /\ Waiting' = {} /\ ~HeadAccepted /\ ~HeadAccepted'
  <2>1. ~HeadAccepted /\ ~HeadAccepted' /\ FirstWaiting = 1 /\ FirstWaiting' = 1
    BY <1>1 DEF HeadAccepted, FirstWaiting
  <2>. QED BY <1>1, <1>2, <1>5, <2>1 DEF Waiting, Unread
<1>8. WaitingOK' /\ AcceptedOK' /\ DeliveredOK' /\ SynchronousOK'
  BY <1>1, <1>7 DEF BarrierInv, WaitingOK, AcceptedOK, DeliveredOK, SynchronousOK, deviceVars, requestVars
<1>9. WindowOK'
  <2>. SUFFICES ASSUME ~skewed' PROVE WindowOf(0)'
    BY <1>2 DEF WindowOK
  <2>1. block_at_index' = 0 /\ app' = "idle"
    BY <1>1 DEF appVars
  <2>2. \A k \in 0 .. BufferSize - 1 : Held(k)' = NULL
    <3>. SUFFICES ASSUME NEW k \in 0 .. BufferSize - 1 PROVE Held(k)' = NULL
      OBVIOUS
    <3>1. Ahead(block_at_index', k) \in Slot
      BY <1>2, <2>1, Around
    <3>. QED BY <1>2, <3>1 DEF Held
  <2>3. TurnsLeft' = 0
    BY <2>1 DEF TurnsLeft
  <2>4. \A k \in 0 .. BufferSize - 1 : k >= 0
    OBVIOUS
  <2>. QED BY <1>2, <2>1, <2>2, <2>3, <2>4 DEF WindowOf
<1>10. CountsOK'
  <2>1. Taken' = Taken /\ Counted = Taken /\ Counted' = Taken'
    BY <1>1, <1>7 DEF Taken, Counted, requestVars
  <2>. QED BY <1>1, <2>1, CountsFrame DEF BarrierInv, deviceVars
<1>. QED BY <1>3, <1>4, <1>6, <1>8, <1>9, <1>10 DEF BarrierInv

-----------------------------------------------------------------------------
(* The theorems.                                                           *)

LEMMA NextInv == BarrierInv /\ [Next]_vars => BarrierInv'
<1>. SUFFICES ASSUME BarrierInv, [Next]_vars PROVE BarrierInv'
  OBVIOUS
<1>1. CASE Call
  BY <1>1, CallStep
<1>2. CASE AppStep
  BY <1>2, SubmitStep, SubmitFailsStep, SkipNullStep, BarrierWaitsStep, FreeTaskStep, CollectStep DEF AppStep
<1>3. CASE RunnerStep
  BY <1>3, ThrottleStep, ReadStep, OffloadStep, CountStep, WaitCompletionStep, WaitFreedStep, AttemptStep,
     OffloadFailsStep DEF RunnerStep
<1>4. CASE PollingStep
  BY <1>4, RespondStep, PublishStep, PostStep DEF PollingStep
<1>5. CASE Restart
  BY <1>5, RestartStep
<1>6. CASE UNCHANGED vars
  <2>1. UNCHANGED <<unfailing, he_qat_buffer, runnerVars, deviceVars, requestVars>>
        /\ UNCHANGED appVars /\ failures' = failures
    BY <1>6 DEF vars, buildVars, unfailing
  <2>2. /\ VariablesOK' /\ RunnerOK' /\ UnreadOK' /\ WaitingOK' /\ AcceptedOK' /\ DeliveredOK'
        /\ SynchronousOK' /\ CountsOK'
    <3>1. failures' \in 0 .. MaxFailures /\ block_at_index' \in Slot
      BY <2>1 DEF BarrierInv, VariablesOK, appVars
    <3>. QED BY <2>1, <3>1, AppFrame
  <2>3. CallerOK' /\ NewOK' /\ WindowOK'
    <3>1. he_qat_buffer.count \in Nat /\ he_qat_buffer.count <= he_qat_buffer.count
      BY Constants DEF BarrierInv, VariablesOK
    <3>. QED BY <2>1, <3>1, OtherFrame DEF unfailing, appVars, requestVars
  <2>. QED BY <2>2, <2>3 DEF BarrierInv
<1>. QED BY <1>1, <1>2, <1>3, <1>4, <1>5, <1>6 DEF Next

\* The slots, the list of the processing thread, the requests and the counters of
\* the single-threaded interface always agree, in both builds, with either
\* processing thread, and after failures and restarts.
THEOREM BarrierInvariant == Spec => []BarrierInv
BY InitInv, NextInv, PTL DEF Spec

\* Every variable keeps its type: the cursors stay in the buffer, the list is no
\* longer than it, and no more requests are counted as sent or answered
\* (ctrl.c:529, cb.c:42) than the caller submitted.
THEOREM BarrierTypeCorrect == Spec => []BarrierTypeOK
<1>1. BarrierInv => BarrierTypeOK
  <2>. SUFFICES ASSUME BarrierInv PROVE BarrierTypeOK
    OBVIOUS
  <2>1. {worksize, slice, element, j} \subseteq 0 .. MaxWork
    <3>1. CASE app = "idle"
      BY <3>1, Constants DEF BarrierInv, CallerOK
    <3>2. CASE app # "idle"
      <4>1. /\ worksize \in 1 .. MaxWork /\ SliceTotal \in 0 .. worksize /\ SliceSize \in 1 .. BatchSize
            /\ slice * Batch \in Nat /\ slice * Batch + SliceSize <= worksize
        BY <3>2, SliceFacts DEF BarrierInv, CallerOK
      <4>2. slice \in 0 .. SliceTotal - 1 /\ element \in 0 .. SliceSize - 1 /\ j \in 0 .. SliceSize
        BY <3>2 DEF BarrierInv, CallerOK
      <4>3. SliceSize \in 0 .. MaxWork
        BY <4>1, Constants
      <4>4. worksize \in 0 .. MaxWork /\ slice \in 0 .. MaxWork
        BY <4>1, <4>2, Constants
      <4>5. element \in 0 .. MaxWork /\ j \in 0 .. MaxWork
        BY <4>2, <4>3, Constants
      <4>. QED BY <4>4, <4>5
    <3>. QED BY <3>1, <3>2
  <2>2. {request_count, response_count} \subseteq 0 .. MaxCalls * MaxWork
    <3>1. Counted \in SUBSET Request /\ Taken \ device \in SUBSET Request
      BY DEF Counted, Taken
    <3>2. /\ Cardinality(Counted) <= MaxCalls * MaxWork /\ Cardinality(Taken \ device) <= MaxCalls * MaxWork
          /\ Cardinality(Counted) \in Nat /\ Cardinality(Taken \ device) \in Nat
          /\ MaxCalls * MaxWork \in Nat
      BY <3>1, RequestsFinite, FS_Subset, FS_CardinalityType
    <3>. QED BY <3>2 DEF BarrierInv, VariablesOK, CountsOK
  <2>. QED BY <2>1, <2>2 DEF BarrierInv, VariablesOK, CallerOK, RunnerOK, BarrierTypeOK
<1>. QED BY <1>1, BarrierInvariant, PTL

\* Before the barrier returns, every request of the batch that was allocated has
\* delivered its result and is freed (getBnModExpRequest, bnops.c:254-302),
\* although the cursor, the slots and the slices of the caller follow rules of
\* their own.
THEOREM BarrierWaitsForAll == Spec => []BarrierCovers
<1>1. BarrierInv => BarrierCovers
  <2>. SUFFICES ASSUME BarrierInv, app = "collect", ~skewed, NEW r \in SliceRequests
                PROVE  request_status[r] = "NEW" \/ (request_status[r] = "FREED" /\ op_output[r])
    BY DEF BarrierCovers
  <2>1. PICK n \in 0 .. BufferSize : WindowOf(n)
    BY DEF BarrierInv, WindowOK
  <2>2. n <= 0
    BY <2>1 DEF WindowOf, TurnsLeft
  <2>3. 0 .. n - 1 = {}
    BY <2>2
  <2>4. r \in Request
    BY SliceRequestsAreRequests DEF BarrierInv
  <2>. QED BY <2>1, <2>3, <2>4 DEF WindowOf, BarrierInv, DeliveredOK
<1>. QED BY <1>1, BarrierInvariant, PTL

LEMMA AheadReaches ==
    ASSUME NEW b \in Slot, NEW s \in Slot
    PROVE  \E k \in 0 .. BufferSize - 1 : Ahead(b, k) = s
<1>1. ASSUME NEW x \in 0 .. BufferSize - 1, NEW y \in 0 .. BufferSize - 1
      PROVE  \E k \in 0 .. BufferSize - 1 : Ahead(x, k) = y
  <2>1. BufferSize \in Nat \ {0}
    BY Constants
  <2>2. \A k \in 0 .. BufferSize - 1 :
            Ahead(x, k) = IF x + k < BufferSize THEN x + k ELSE x + k - BufferSize
    BY <2>1, Around DEF Slot
  <2>3. CASE y >= x
    <3>1. y - x \in 0 .. BufferSize - 1 /\ x + (y - x) = y /\ y < BufferSize
      BY <2>1, <2>3
    <3>2. Ahead(x, y - x) = y
      BY <2>2, <3>1
    <3>. QED BY <3>1, <3>2
  <2>4. CASE y < x
    <3>. DEFINE k == y - x + BufferSize
    <3>1. k \in 0 .. BufferSize - 1 /\ x + k - BufferSize = y /\ ~(x + k < BufferSize)
      BY <2>1, <2>4
    <3>. HIDE DEF k
    <3>2. Ahead(x, k) = y
      BY <2>2, <3>1
    <3>. QED BY <3>1, <3>2
  <2>. QED BY <2>3, <2>4
<1>. QED BY <1>1 DEF Slot

\* Between two batches the static cursor of the barrier is where submit_request
\* stores next, and no slot holds a pointer (bnops.c:263, ctrl.c:81), whatever
\* requests could not be allocated or submitted.
THEOREM CursorsAgree == Spec => []CursorsMeet
<1>1. BarrierInv => CursorsMeet
  <2>. SUFFICES ASSUME BarrierInv, app \in {"idle", "collect"}, ~skewed
                PROVE  /\ block_at_index = he_qat_buffer.next_free_slot
                       /\ he_qat_buffer.data = [s \in Slot |-> NULL]
                       /\ he_qat_buffer.count = 0
    BY DEF CursorsMeet
  <2>1. PICK n \in 0 .. BufferSize : WindowOf(n)
    BY DEF BarrierInv, WindowOK
  <2>2. n = 0
    BY <2>1, Constants DEF WindowOf, TurnsLeft
  <2>3. block_at_index \in Slot /\ Ahead(block_at_index, 0) = block_at_index
        /\ he_qat_buffer.count \in 0 .. BufferSize /\ he_qat_buffer.data \in [Slot -> Pointer]
    BY TaskIsHeld DEF BarrierInv, VariablesOK
  <2>4. ASSUME NEW s \in Slot PROVE he_qat_buffer.data[s] = NULL
    <3>1. PICK k \in 0 .. BufferSize - 1 : Ahead(block_at_index, k) = s
      BY <2>3, AheadReaches
    <3>2. Held(k) = NULL
      BY <2>1, <2>2 DEF WindowOf
    <3>. QED BY <3>1, <3>2 DEF Held
  <2>5. he_qat_buffer.count = 0
    BY <2>1, <2>2, <2>3, Constants DEF WindowOf
  <2>. QED BY <2>1, <2>2, <2>3, <2>4, <2>5 DEF WindowOf
<1>. QED BY <1>1, BarrierInvariant, PTL

\* In the asynchronous build neither the processing thread nor a callback still uses
\* a request that the barrier has freed (bnops.c:283-296, ctrl.c:441-538,
\* cb.c:19-75), also when the context was released and acquired anew.
THEOREM NoRequestFreedEarly == Spec => []RequestAlive
<1>1. BarrierInv => RequestAlive
  <2>. SUFFICES ASSUME BarrierInv, ~synchronous, NEW r \in InUse
                PROVE  r \in Request /\ request_status[r] # "FREED"
    BY NullAssumption DEF RequestAlive
  <2>1. runner \notin {"completion", "lost"} /\ \A x \in Request : callback[x] # "post"
    BY DEF BarrierInv, RunnerOK
  <2>2. CASE r \in device
    BY <2>2 DEF BarrierInv, AcceptedOK, VariablesOK
  <2>3. CASE r \in Running
    BY <2>1, <2>3 DEF BarrierInv, AcceptedOK, VariablesOK, Running
  <2>4. CASE r \in (IF runner = "count" THEN Listed \ {Head(to_offload)} ELSE Listed)
    <3>1. PICK k \in 1 .. Len(to_offload) : r = to_offload[k]
      BY <2>4 DEF Listed
    <3>2. k \in FirstWaiting .. Len(to_offload)
      <4>1. CASE runner = "count"
        <5>1. to_offload[k] # Head(to_offload)
          BY <2>4, <3>1, <4>1
        <5>2. k # 1
          BY <5>1 DEF BarrierInv, RunnerOK
        <5>. QED BY <4>1, <5>2 DEF FirstWaiting, HeadAccepted, BarrierInv, RunnerOK
      <4>2. CASE runner # "count"
        BY <2>1, <4>2 DEF FirstWaiting, HeadAccepted
      <4>. QED BY <4>1, <4>2
    <3>3. r \in Request
      BY <3>1 DEF BarrierInv, RunnerOK
    <3>. QED BY <3>1, <3>2, <3>3 DEF Waiting, BarrierInv, WaitingOK
  <2>. QED BY <2>2, <2>3, <2>4 DEF InUse
<1>. QED BY <1>1, BarrierInvariant, PTL

\* With HE_QAT_SYNC_MODE the accelerator has one request at a time, from its
\* acceptance to the publication of its answer (ctrl.c:537-546), also when the
\* barrier frees the request and its semaphore under the thread that waits for it.
THEOREM OneRequestAtATime == Spec => []OneAtATime
<1>1. BarrierInv => OneAtATime
  <2>. SUFFICES ASSUME BarrierInv, synchronous
                PROVE  Cardinality(device \cup {r \in Request : callback[r] = "counted"}) <= 1
    BY DEF OneAtATime
  <2>. DEFINE S == device \cup {r \in Request : callback[r] = "counted"}
  <2>1. S \in SUBSET {Head(to_offload)}
    BY DEF BarrierInv, SynchronousOK, VariablesOK
  <2>2. IsFiniteSet({Head(to_offload)}) /\ Cardinality({Head(to_offload)}) = 1
    BY FS_Singleton
  <2>. HIDE DEF S
  <2>3. Cardinality(S) <= 1
    BY <2>1, <2>2, FS_Subset
  <2>. QED BY <2>3 DEF S
<1>. QED BY <1>1, BarrierInvariant, PTL

\* submit_request never stores a request over one that was not collected (ctrl.c:81),
\* though it looks at what is not yet read: a slice fits the buffer.
THEOREM SlotsAreCollected == Spec => SlotCollected
<1>. DEFINE Kept == \A s \in Slot : \/ he_qat_buffer'.data[s] \in {NULL, he_qat_buffer.data[s]}
                                    \/ he_qat_buffer.data[s] = NULL \/ skewed
<1>1. BarrierInv /\ [Next]_vars => [Kept]_vars
  <2>. SUFFICES ASSUME BarrierInv, Next PROVE Kept
    OBVIOUS
  <2>1. CASE Submit
    <3>1. he_qat_buffer'.data
             = [he_qat_buffer.data EXCEPT ![he_qat_buffer.next_free_slot] = <<call, slice * Batch + element>>]
      BY <2>1 DEF Submit, BarrierInv, VariablesOK
    <3>2. ~skewed => he_qat_buffer.data[he_qat_buffer.next_free_slot] = NULL
      <4>. SUFFICES ASSUME ~skewed PROVE he_qat_buffer.data[he_qat_buffer.next_free_slot] = NULL
        OBVIOUS
      <4>1. PICK n \in 0 .. BufferSize : WindowOf(n)
        BY DEF BarrierInv, WindowOK
      <4>2. element \in 0 .. BufferSize - 1 /\ TurnsLeft = element
        <5>1. CallerOK /\ app = "submit" /\ NextElement /\ UNCHANGED <<call, worksize, slice>>
          BY <2>1 DEF Submit, BarrierInv
        <5>. QED BY <5>1, NextElementFacts
      <4>3. n \in 0 .. BufferSize - 1 /\ n >= n
        BY <4>1, <4>2, Constants DEF WindowOf
      <4>. QED BY <4>1, <4>3 DEF WindowOf, Held
    <3>. QED BY <3>1, <3>2 DEF BarrierInv, VariablesOK
  <2>2. CASE FreeTask
    BY <2>2 DEF FreeTask, BarrierInv, VariablesOK
  <2>3. CASE Restart
    BY <2>3 DEF Restart, EmptyBuffer
  <2>4. CASE Read
    BY <2>4 DEF Read, BarrierInv, VariablesOK
  <2>5. CASE he_qat_buffer' = he_qat_buffer
    BY <2>5
  <2>6. Call \/ SubmitFails \/ SkipNull \/ BarrierWaits \/ Collect => he_qat_buffer' = he_qat_buffer
    BY DEF Call, SubmitFails, SkipNull, BarrierWaits, Collect
  <2>7. RunnerStep => Read \/ he_qat_buffer' = he_qat_buffer
    BY DEF RunnerStep, Throttle, Offload, Count, WaitCompletion, WaitFreed, Retry, OffloadFails, RetryExits
  <2>8. PollingStep => he_qat_buffer' = he_qat_buffer
    BY DEF PollingStep, Respond, Publish, Post
  <2>. QED BY <2>1, <2>2, <2>3, <2>4, <2>5, <2>6, <2>7, <2>8 DEF Next, AppStep
<1>. QED BY <1>1, BarrierInvariant, PTL DEF Spec, SlotCollected

=============================================================================
