---------------------- MODULE OffloadRefinement_proofs ----------------------
(***************************************************************************)
(* HeQatOffload implements OffloadService, for every number of callers,    *)
(* buffers, slots, instances and requests, under every interleaving and    *)
(* with every failure the model has.  Acquire opens a session, Submit (and *)
(* SubmitFails) submits the next position, Complete answers one, and       *)
(* ReleaseBuffer closes the session; every other step changes nothing that *)
(* a caller can see.                                                       *)
(*                                                                         *)
(* What has to be proved is that ReleaseBuffer may close: that the caller  *)
(* has the results of the whole batch by then.  The loop of                *)
(* release_bnModExp_buffer looks at slots, not at requests, and frees what *)
(* it finds there; the invariants of HeQatPipeline_proofs tell which       *)
(* requests those are, and the invariant below adds what was written.      *)
(***************************************************************************)
EXTENDS OffloadRefinement, HeQatPipeline_proofs

-----------------------------------------------------------------------------
(* The invariant.                                                          *)

\* A caller that is on its way has a batch.
BatchOK == \A c \in Clients : pc[c] # "idle" => batch_size[c] > 0

\* A request is READY only with its result written.
ReadyOK == \A r \in Request : request_status[r] = "READY" => op_output[r]

\* If the last of the requests that a caller has been through is stored, or there
\* are none left to collect, then none of them failed to be: each is still there, or
\* its result is.
AllStored(c) == Collected(c) = Limit(c) \/ SlotAt(buffer_id[c], Limit(c) - 1) # NULL
StoredOK(c) ==
    AllStored(c) =>
        \A k \in 0 .. Limit(c) - 1 : request_status[<<c, k>>] # "FREED" \/ op_output[<<c, k>>]

ResultsOK == \A c \in Holders : batch_size[c] <= BufferSize => StoredOK(c)

ServiceInv == BatchOK /\ ReadyOK /\ ResultsOK

LEMMA ServiceInvInit == Init => ServiceInv
BY DEF Init, ServiceInv, BatchOK, ReadyOK, ResultsOK, Holders

\* A caller has a batch from Call on.
LEMMA BatchStep ==
    ASSUME IInv, BatchOK, [Next]_vars
    PROVE  BatchOK'
<1>. USE DEF BatchOK
<1>1. ClientTypeOK
  BY DEF IInv, TypeOK
<1>2. ASSUME NEW c \in Clients, Call(c) PROVE BatchOK'
  <2>1. PICK n \in 1 .. MaxBatch : batch_size' = [batch_size EXCEPT ![c] = n]
    BY <1>2 DEF Call
  <2>2. pc' = [pc EXCEPT ![c] = "acquire"] /\ n > 0
    BY <1>2, <2>1, OffloadAssumption DEF Call
  <2>. QED  BY <1>1, <2>1, <2>2 DEF ClientTypeOK
<1>3. ASSUME NEW c \in Clients, ReleaseBuffer(c) PROVE BatchOK'
  <2>1. pc' \in Signal([pc EXCEPT ![c] = "idle"], At("acquire_wait"), "acquire")
    BY <1>3 DEF ReleaseBuffer, WaitingForBuffer
  <2>2. \/ pc' = [pc EXCEPT ![c] = "idle"]
        \/ \E w \in At("acquire_wait") : pc' = [[pc EXCEPT ![c] = "idle"] EXCEPT ![w] = "acquire"]
    BY <2>1, Zenon DEF Signal
  <2>3. pc[c] = "release" /\ batch_size' = [batch_size EXCEPT ![c] = 0]
    BY <1>3 DEF ReleaseBuffer
  <2>4. \A d \in Clients : pc'[d] # "idle" => d # c /\ pc[d] # "idle"
    BY <1>1, <2>2, <2>3 DEF ClientTypeOK, At
  <2>. QED  BY <1>1, <2>3, <2>4 DEF ClientTypeOK
<1>4. ASSUME batch_size' = batch_size, \A d \in Clients : pc'[d] # "idle" => pc[d] # "idle"
      PROVE  BatchOK'
  BY <1>4
<1>5. ASSUME NEW c \in Clients,
             AcquireWaits(c) \/ Acquire(c) \/ SubmitWaits(c) \/ Submit(c) \/ SubmitFails(c)
               \/ ReleaseWaits(c) \/ ReleaseTask(c) \/ SpuriousClient(c)
      PROVE  BatchOK'
  <2>1. batch_size' = batch_size
    BY <1>5 DEF AcquireWaits, Acquire, SubmitWaits, Submit, SubmitFails, ReleaseWaits, ReleaseTask,
       SpuriousClient
  <2>2. pc[c] # "idle" /\ \E s : pc' = [pc EXCEPT ![c] = s] \/ pc' = pc
    BY <1>5 DEF AcquireWaits, Acquire, SubmitWaits, Submit, SubmitFails, NextRequest, ReleaseWaits,
       ReleaseTask, SpuriousClient
  <2>. QED  BY <1>1, <1>4, <2>1, <2>2 DEF ClientTypeOK
<1>6. ASSUME Extract \/ \E i \in Instance : Complete(i)
      PROVE  BatchOK'
  <2>1. \/ \E W \in SUBSET At("submit_wait") : pc' \in Signal(pc, W, "submit")
        \/ \E W \in SUBSET At("release_wait") : pc' \in Signal(pc, W, "release")
        \/ pc' = pc
    BY <1>6 DEF Extract, Complete
  <2>2. \/ pc' = pc
        \/ \E w \in At("submit_wait") : pc' = [pc EXCEPT ![w] = "submit"]
        \/ \E w \in At("release_wait") : pc' = [pc EXCEPT ![w] = "release"]
    BY <2>1, SignalWakesOne
  <2>3. \A d \in Clients : pc'[d] # "idle" => pc[d] # "idle"
    BY <1>1, <2>2 DEF ClientTypeOK, At
  <2>. QED  BY <1>4, <1>6, <2>3 DEF Extract, Complete
<1>7. CASE UNCHANGED <<pc, batch_size>>
  BY <1>7
<1>8. ASSUME Pull \/ Scan \/ ForwardWaits \/ Forward \/ RunnerStep \/ SpuriousThread
               \/ (\E i \in Instance : Respond(i)) \/ UNCHANGED vars
      PROVE  UNCHANGED <<pc, batch_size>>
  BY <1>8 DEF Pull, Scan, ForwardWaits, Forward, RunnerStep, Throttle, ReadWaits, Read, Offload,
     CountRequest, OffloadFails, OffloadRetry, SpuriousThread, Respond, vars, clientVars
<1>. QED  BY <1>2, <1>3, <1>5, <1>6, <1>7, <1>8 DEF Next, ClientStep, SchedulerStep, PollingStep

\* What Complete says of the one request it publishes; no other step makes a request
\* READY, and Submit takes a result away only from a request that is not.
LEMMA ReadyStep ==
    ASSUME IInv, PipelineInv, ReadyOK, [Next]_vars
    PROVE  ReadyOK'
<1>. USE DEF ReadyOK
<1>1. request_status \in [Request -> RequestStatus] /\ op_output \in [Request -> BOOLEAN]
  BY DEF IInv, TypeOK
<1>2. ASSUME NEW c \in Clients, Submit(c) PROVE ReadyOK'
  <2>1. /\ <<c, j[c]>> \in Request
        /\ request_status' = [request_status EXCEPT ![<<c, j[c]>>] = "SUCCESS"]
        /\ op_output' = [op_output EXCEPT ![<<c, j[c]>>] = FALSE]
    BY <1>2, SubmitFacts DEF Submit
  <2>. QED  BY <1>1, <2>1
<1>3. ASSUME NEW c \in Clients, SubmitFails(c) PROVE ReadyOK'
  <2>. DEFINE r == <<c, j[c]>>
  <2>1. c \in Holders /\ Limit(c) = j[c] /\ j[c] \in 0 .. MaxBatch - 1
    BY <1>3, NextRequestFacts DEF SubmitFails
  <2>2. r \in Request /\ r[1] = c /\ r[2] = j[c]
    BY <2>1 DEF Request
  <2>3. request_status[r] = "FREED"
    BY <2>1, <2>2 DEF PipelineInv, StatusOK
  <2>4. op_output' = [op_output EXCEPT ![r] = FALSE] /\ request_status' = request_status
    BY <1>3 DEF SubmitFails
  <2>. QED  BY <1>1, <2>2, <2>3, <2>4
<1>4. ASSUME NEW c \in Clients, ReleaseTask(c) PROVE ReadyOK'
  BY <1>1, <1>4 DEF ReleaseTask
<1>5. ASSUME OffloadFails PROVE ReadyOK'
  BY <1>1, <1>5 DEF OffloadFails
<1>6. ASSUME NEW i \in Instance, Complete(i) PROVE ReadyOK'
  BY <1>1, <1>6 DEF Complete, requestVars
<1>7. CASE UNCHANGED requestVars
  BY <1>7 DEF requestVars
<1>8. ASSUME NEW c \in Clients,
             Call(c) \/ AcquireWaits(c) \/ Acquire(c) \/ SubmitWaits(c) \/ ReleaseWaits(c)
               \/ ReleaseBuffer(c) \/ SpuriousClient(c)
      PROVE  UNCHANGED requestVars
  BY <1>8 DEF Call, AcquireWaits, Acquire, SubmitWaits, ReleaseWaits, ReleaseBuffer, SpuriousClient
<1>9. ASSUME SchedulerStep \/ Throttle \/ ReadWaits \/ Read \/ Offload \/ CountRequest
               \/ OffloadRetry \/ SpuriousThread \/ UNCHANGED vars
               \/ (\E i \in Instance : Respond(i))
      PROVE  UNCHANGED requestVars
  BY <1>9 DEF SchedulerStep, Pull, Scan, Extract, ForwardWaits, Forward, Throttle, ReadWaits, Read,
     Offload, CountRequest, OffloadRetry, SpuriousThread, Respond, vars
<1>. QED  BY <1>2, <1>3, <1>4, <1>5, <1>6, <1>7, <1>8, <1>9
     DEF Next, ClientStep, RunnerStep, PollingStep


-----------------------------------------------------------------------------
(* What is stored is there or has its result.                              *)

\* A caller whose slots stay as they are, whose requests are not freed and whose
\* results stay.
LEMMA StoredFrame ==
    ASSUME IInv, NEW c \in Holders, Kept(c), StoredOK(c),
           buffer'[buffer_id[c]].data = buffer[buffer_id[c]].data,
           buffer'[buffer_id[c]].next_data_out = buffer[buffer_id[c]].next_data_out,
           \A r \in Own(c) : /\ request_status'[r] = "FREED" => request_status[r] = "FREED"
                             /\ op_output[r] => op_output'[r]
    PROVE  StoredOK(c)'
<1>1. Limit(c)' = Limit(c) /\ Collected(c)' = Collected(c) /\ buffer_id'[c] = buffer_id[c]
  BY DEF Kept, Limit, Collected
<1>2. \A k : SlotAt(buffer_id[c], k)' = SlotAt(buffer_id[c], k)
  BY <1>1 DEF SlotAt
<1>3. AllStored(c)' <=> AllStored(c)
  BY <1>1, <1>2 DEF AllStored
<1>4. \A k \in 0 .. Limit(c) - 1 : <<c, k>> \in Own(c)
  <2>1. c \in Clients /\ Limit(c) \in Nat /\ Limit(c) <= MaxBatch /\ MaxBatch \in Nat
    BY HolderFacts, OffloadAssumption
  <2>. QED  BY <2>1 DEF Own
<1>5. ASSUME AllStored(c)', NEW k \in 0 .. Limit(c)' - 1
      PROVE  request_status'[<<c, k>>] # "FREED" \/ op_output'[<<c, k>>]
  <2>1. <<c, k>> \in Own(c) /\ (request_status[<<c, k>>] # "FREED" \/ op_output[<<c, k>>])
    BY <1>1, <1>3, <1>4, <1>5 DEF StoredOK
  <2>. QED  BY <2>1
<1>. QED  BY <1>5 DEF StoredOK

\* The same for all callers.
LEMMA ResultsFrame ==
    ASSUME IInv, ResultsOK, HoldersKept,
           \A b \in Buffer : /\ buffer'[b].data = buffer[b].data
                             /\ buffer'[b].next_data_out = buffer[b].next_data_out,
           \A r \in Request : /\ request_status'[r] = "FREED" => request_status[r] = "FREED"
                              /\ op_output[r] => op_output'[r]
    PROVE  ResultsOK'
<1>. SUFFICES ASSUME NEW c \in Holders, batch_size'[c] <= BufferSize PROVE StoredOK(c)'
  BY DEF ResultsOK, HoldersKept
<1>1. Kept(c) /\ buffer_id[c] \in Buffer /\ StoredOK(c) /\ c \in Clients
  BY HolderFacts DEF HoldersKept, Kept, ResultsOK
<1>2. \A r \in Own(c) : r \in Request
  BY <1>1, OwnFacts
<1>. QED  BY <1>1, <1>2, StoredFrame

\* A caller that submits keeps the others' results.
LEMMA OthersResults ==
    ASSUME IInv, ResultsOK, NEW c \in Holders, Holders' = Holders,
           \A d \in Holders : d # c => Kept(d),
           \A b \in Buffer : b # buffer_id[c] => buffer'[b] = buffer[b],
           \A r \in Request : r \notin Own(c) =>
              request_status'[r] = request_status[r] /\ op_output'[r] = op_output[r],
           batch_size[c] <= BufferSize => StoredOK(c)',
           batch_size'[c] = batch_size[c]
    PROVE  ResultsOK'
<1>. SUFFICES ASSUME NEW d \in Holders, d # c, batch_size'[d] <= BufferSize PROVE StoredOK(d)'
  BY DEF ResultsOK
<1>1. Kept(d) /\ d \in Clients /\ buffer_id[d] # buffer_id[c] /\ buffer_id[d] \in Buffer
  BY HolderFacts DEF IInv, BufferExclusive
<1>2. StoredOK(d)
  BY <1>1 DEF ResultsOK, Kept
<1>3. \A r \in Own(d) : r \in Request /\ r \notin Own(c)
  BY <1>1, OwnFacts, HolderFacts DEF Own
<1>. QED  BY <1>1, <1>2, <1>3, StoredFrame

\* The number of requests stored is what the slots tell.
LEMMA StoredCount ==
    ASSUME IInv, PipelineInv, NEW c \in Holders, batch_size[c] <= BufferSize, Collected(c) = 0
    PROVE  \E n \in 0 .. Limit(c) :
              /\ buffer[buffer_id[c]].next_free_slot
                    = Advance(buffer[buffer_id[c]].next_data_out, n)
              /\ \A k \in 0 .. BufferSize - 1 : SlotAt(buffer_id[c], k) # NULL <=> k < n
<1>. DEFINE b == buffer_id[c]
            m == buffer[b].count
<1>1. QueueOK(c) /\ CollectOK(c)
  BY DEF PipelineInv, HoldersOK
<1>2. /\ buffer[b].next_data_out \in Slot /\ m \in Nat /\ BufferSize \in Nat
      /\ batch_size[c] \in Nat /\ Limit(c) \in Nat /\ Limit(c) <= batch_size[c]
  BY HolderFacts, OffloadAssumption
<1>. HIDE DEF m
<1>3. PICK n \in 0 .. Limit(c) : Filled(c, n)
  BY <1>1 DEF CollectOK
<1>4. n \in Nat /\ m <= n - 0 /\ n <= BufferSize /\ n - m \in Nat /\ (n - m) + m = n
  BY <1>2, <1>3 DEF Filled, m
<1>5. buffer[b].next_free_slot = Advance(buffer[b].next_data_out, n)
  <2>1. buffer[b].next_data_slot = Advance(buffer[b].next_data_out, n - m)
    BY <1>3 DEF Filled, m
  <2>2. buffer[b].next_free_slot = Advance(buffer[b].next_data_slot, m)
    BY <1>1 DEF QueueOK, m
  <2>. QED  BY <1>2, <1>4, <2>1, <2>2, AdvanceTwice
<1>6. ASSUME NEW k \in 0 .. BufferSize - 1 PROVE SlotAt(b, k) # NULL <=> k < n
  <2>1. SlotAt(b, k) # NULL <=> k \in 0 .. n - 1
    BY <1>3 DEF Filled
  <2>. QED  BY <1>4, <2>1
<1>. QED  BY <1>5, <1>6

LEMMA SubmitResults ==
    ASSUME IInv, PipelineInv, ResultsOK, NEW c \in Clients, Submit(c)
    PROVE  ResultsOK'
<1>. DEFINE b == buffer_id[c]
            r == <<c, j[c]>>
            out == buffer[b].next_data_out
<1>1. /\ c \in Holders /\ Holders' = Holders /\ j[c] \in 0 .. MaxBatch - 1
      /\ Limit(c) = j[c] /\ Limit(c)' = j[c] + 1 /\ j[c] + 1 <= batch_size[c]
      /\ Collected(c) = 0 /\ Collected(c)' = 0
      /\ \A d \in Holders : d # c => Kept(d)
  BY NextRequestFacts DEF Submit
<1>2. /\ r \in Own(c) /\ r \in Request /\ b \in Buffer
      /\ buffer'[b].data = [buffer[b].data EXCEPT ![buffer[b].next_free_slot] = r]
      /\ buffer'[b].next_data_out = out
      /\ \A x \in Buffer : x # b => buffer'[x] = buffer[x]
      /\ request_status'[r] = "SUCCESS"
      /\ \A q \in Request : q # r => request_status'[q] = request_status[q]
  BY SubmitFacts
<1>3. \A q \in Request : q # r => op_output'[q] = op_output[q]
  BY DEF Submit, IInv, TypeOK
<1>4. buffer_id'[c] = b /\ batch_size'[c] = batch_size[c]
  BY DEF Submit
<1>5. ASSUME batch_size[c] <= BufferSize PROVE StoredOK(c)'
  <2>1. PICK n \in 0 .. Limit(c) :
           /\ buffer[b].next_free_slot = Advance(out, n)
           /\ \A k \in 0 .. BufferSize - 1 : SlotAt(b, k) # NULL <=> k < n
    BY <1>1, <1>5, StoredCount
  <2>2. /\ n \in Nat /\ n <= j[c] /\ j[c] \in Nat /\ j[c] < BufferSize /\ BufferSize \in Nat
        /\ out \in Slot
    BY <1>1, <1>5, <2>1, HolderFacts, OffloadAssumption
  <2>. HIDE DEF out, r
  <2>3. SUFFICES ASSUME AllStored(c)', NEW k \in 0 .. Limit(c)' - 1
                 PROVE  request_status'[<<c, k>>] # "FREED" \/ op_output'[<<c, k>>]
    BY DEF StoredOK
  <2>4. buffer'[b].data[Advance(out, j[c])] # NULL
    <3>1. Collected(c)' # Limit(c)' /\ Limit(c)' - 1 = j[c]
      BY <1>1, <2>2
    <3>2. buffer'[buffer_id'[c]].data[Advance(buffer'[buffer_id'[c]].next_data_out, Limit(c)' - 1)] # NULL
      BY <2>3, <3>1 DEF AllStored, SlotAt, Advance
    <3>. QED  BY <1>2, <1>4, <3>1, <3>2 DEF out
  <2>5. n = j[c]
    <3>1. CASE n < j[c]
      <4>1. Advance(out, j[c]) # Advance(out, n)
        <5>1. n \in 0 .. BufferSize - 1 /\ j[c] \in 0 .. BufferSize - 1 /\ n # j[c]
          BY <2>2, <3>1
        <5>2. \A k1, l1 \in 0 .. BufferSize - 1 : Advance(out, k1) = Advance(out, l1) => k1 = l1
          BY <2>2, AdvanceFacts
        <5>. QED  BY <5>1, <5>2
      <4>2. buffer[b].data[Advance(out, j[c])] # NULL
        <5>1. Advance(out, j[c]) \in Slot /\ buffer[b].data \in [Slot -> Pointer]
          <6>1. \A i \in 0 .. BufferSize : Advance(out, i) \in Slot
            BY <2>2, AdvanceFacts
          <6>2. buffer[b].data \in [Slot -> Pointer]
            BY <1>1, HolderFacts
          <6>. QED  BY <2>2, <6>1, <6>2

        <5>2. buffer'[b].data[Advance(out, j[c])] = buffer[b].data[Advance(out, j[c])]
          BY <1>2, <2>1, <4>1, <5>1
        <5>. QED  BY <2>4, <5>2
      <4>3. j[c] \in 0 .. BufferSize - 1 /\ ~(j[c] < n)
        BY <2>2, <3>1
      <4>. QED  BY <2>1, <4>2, <4>3 DEF SlotAt, out
    <3>. QED  BY <2>2, <3>1
  <2>6. AllStored(c)
    <3>1. CASE j[c] = 0
      BY <1>1, <3>1 DEF AllStored
    <3>2. CASE j[c] # 0
      <4>1. j[c] - 1 \in 0 .. BufferSize - 1 /\ j[c] - 1 < n
        BY <2>2, <2>5, <3>2
      <4>. QED  BY <1>1, <2>1, <4>1 DEF AllStored
    <3>. QED  BY <3>1, <3>2
  <2>7. k \in 0 .. j[c] - 1 \/ k = j[c]
    BY <1>1, <2>2
  <2>8. CASE k = j[c]
    BY <1>2, <2>8 DEF r
  <2>9. CASE k \in 0 .. j[c] - 1
    <3>1. request_status[<<c, k>>] # "FREED" \/ op_output[<<c, k>>]
      BY <1>1, <1>5, <2>6, <2>9 DEF ResultsOK, StoredOK
    <3>2. <<c, k>> \in Request /\ <<c, k>> # r
      <4>1. k \in 0 .. MaxBatch - 1 /\ k # j[c]
        BY <1>1, <2>2, <2>9, OffloadAssumption
      <4>. QED  BY <4>1 DEF Request, r
    <3>. QED  BY <1>2, <1>3, <3>1, <3>2
  <2>. QED  BY <2>7, <2>8, <2>9
<1>6. \A q \in Request : q \notin Own(c) =>
          request_status'[q] = request_status[q] /\ op_output'[q] = op_output[q]
  BY <1>2, <1>3
<1>. QED  BY <1>1, <1>2, <1>4, <1>5, <1>6, OthersResults

\* A request that cannot be allocated leaves its slot clear: from then on the last of
\* the batch is never stored.
LEMMA SubmitFailsResults ==
    ASSUME IInv, PipelineInv, ResultsOK, NEW c \in Clients, SubmitFails(c)
    PROVE  ResultsOK'
<1>. DEFINE b == buffer_id[c]
            r == <<c, j[c]>>
<1>1. /\ c \in Holders /\ Holders' = Holders /\ j[c] \in 0 .. MaxBatch - 1
      /\ Limit(c) = j[c] /\ Limit(c)' = j[c] + 1 /\ j[c] + 1 <= batch_size[c]
      /\ Collected(c) = 0 /\ Collected(c)' = 0
      /\ \A d \in Holders : d # c => Kept(d)
  BY NextRequestFacts DEF SubmitFails
<1>2. /\ UNCHANGED <<buffer, request_status, buffer_id, batch_size>>
      /\ op_output' = [op_output EXCEPT ![r] = FALSE]
  BY DEF SubmitFails
<1>3. ASSUME batch_size[c] <= BufferSize PROVE StoredOK(c)'
  <2>1. PICK n \in 0 .. Limit(c) :
           \A k \in 0 .. BufferSize - 1 : SlotAt(b, k) # NULL <=> k < n
    BY <1>1, <1>3, StoredCount
  <2>2. j[c] \in 0 .. BufferSize - 1 /\ ~(j[c] < n) /\ j[c] + 1 # 0 /\ (j[c] + 1) - 1 = j[c]
    BY <1>1, <1>3, <2>1, HolderFacts, OffloadAssumption
  <2>3. SlotAt(b, j[c]) = NULL
    BY <2>1, <2>2
  <2>4. \A i : SlotAt(b, i) = buffer'[buffer_id'[c]].data[(buffer'[buffer_id'[c]].next_data_out + i) % BufferSize]
    BY <1>2 DEF SlotAt, Advance
  <2>5. ~AllStored(c)'
    <3>1. Collected(c)' # Limit(c)' /\ Limit(c)' - 1 = j[c]
      BY <1>1, <2>2
    <3>2. buffer'[buffer_id'[c]].data[(buffer'[buffer_id'[c]].next_data_out + (Limit(c)' - 1)) % BufferSize] = NULL
      BY <2>3, <2>4, <3>1
    <3>. QED  BY <3>1, <3>2 DEF AllStored, SlotAt, Advance
  <2>. QED  BY <2>5 DEF StoredOK
<1>4. \A q \in Request : q \notin Own(c) =>
          request_status'[q] = request_status[q] /\ op_output'[q] = op_output[q]
  <2>1. r \in Own(c)
    BY <1>1 DEF Own
  <2>. QED  BY <1>2, <2>1 DEF IInv, TypeOK
<1>. QED  BY <1>1, <1>2, <1>3, <1>4, OthersResults

\* A request that is collected was READY, so its result is there, and it was in the
\* first slot still to be collected.
LEMMA CollectResults ==
    ASSUME IInv, PipelineInv, ReadyOK, ResultsOK, NEW c \in Clients, ReleaseTask(c)
    PROVE  ResultsOK'
<1>. DEFINE b == buffer_id[c]
            t == Task(c)
            out == buffer[b].next_data_out
<1>1. /\ c \in Holders /\ ~Submitting(c) /\ b \in Buffer
      /\ j[c] \in 0 .. BufferSize - 1
      /\ t = SlotAt(b, j[c]) /\ OutSlot(c) \in Slot
      /\ t \in Own(c) /\ t \in Request /\ request_status[t] = "READY"
      /\ \A q \in Request : q # t => request_status'[q] = request_status[q]
      /\ buffer'[b].data = [buffer[b].data EXCEPT ![OutSlot(c)] = NULL]
      /\ buffer'[b].next_data_out = out
      /\ \A x \in Buffer : x # b => buffer'[x] = buffer[x]
  BY CollectFacts
<1>2. /\ pc' = pc /\ op_output' = op_output /\ UNCHANGED <<buffer_id, batch_size>>
      /\ j' = [j EXCEPT ![c] = @ + 1] /\ j[c] < batch_size[c]
  BY DEF ReleaseTask
<1>3. /\ j'[c] = j[c] + 1 /\ \A d \in Clients : d # c => j'[d] = j[d]
  BY <1>2 DEF IInv, TypeOK, ClientTypeOK
<1>4. Holders' = Holders /\ \A d \in Holders : d # c => Kept(d)
  BY <1>2, <1>3 DEF Holders, Kept, Submitting
<1>5. op_output[t] /\ t # NULL
  BY <1>1, NullAssumption DEF ReadyOK
<1>6. /\ Limit(c) = batch_size[c] /\ Limit(c)' = batch_size[c]
      /\ Collected(c) = j[c] /\ Collected(c)' = j[c] + 1
  BY <1>1, <1>2, <1>3 DEF Limit, Collected, Submitting
<1>7. /\ batch_size[c] \in Nat /\ batch_size[c] <= MaxBatch /\ MaxBatch \in Nat
      /\ BufferSize \in Nat /\ j[c] \in Nat /\ out \in Slot
      /\ buffer[b].data \in [Slot -> Pointer]
  BY <1>1, HolderFacts, OffloadAssumption
<1>. HIDE DEF t, out
<1>8. ASSUME batch_size[c] <= BufferSize PROVE StoredOK(c)'
  <2>1. SUFFICES ASSUME AllStored(c)', NEW k \in 0 .. batch_size[c] - 1
                 PROVE  request_status'[<<c, k>>] # "FREED" \/ op_output'[<<c, k>>]
    BY <1>6 DEF StoredOK
  <2>2. AllStored(c)
    <3>. DEFINE last == batch_size[c] - 1
    <3>1. CASE j[c] + 1 = batch_size[c]
      <4>1. last = j[c]
        BY <1>7, <3>1
      <4>. QED  BY <1>1, <1>5, <1>6, <4>1 DEF AllStored
    <3>2. CASE j[c] + 1 # batch_size[c]
      <4>1. buffer'[b].data[Advance(out, last)] # NULL
        <5>1. buffer'[buffer_id'[c]].data[Advance(buffer'[buffer_id'[c]].next_data_out, Limit(c)' - 1)] # NULL
          BY <1>6, <2>1, <3>2 DEF AllStored, SlotAt, Advance
        <5>. QED  BY <1>1, <1>2, <1>6, <5>1
      <4>2. Advance(out, last) \in Slot
        <5>1. \A i \in 0 .. BufferSize : Advance(out, i) \in Slot
          BY <1>7, AdvanceFacts
        <5>2. last \in 0 .. BufferSize
          BY <1>2, <1>7, <1>8
        <5>. QED  BY <5>1, <5>2
      <4>3. buffer[b].data[Advance(out, last)] # NULL
        BY <1>1, <1>7, <4>1, <4>2
      <4>. QED  BY <1>6, <4>3 DEF AllStored, SlotAt, out
    <3>. QED  BY <3>1, <3>2
  <2>3. request_status[<<c, k>>] # "FREED" \/ op_output[<<c, k>>]
    BY <1>1, <1>6, <1>8, <2>2 DEF ResultsOK, StoredOK
  <2>4. <<c, k>> \in Request
    BY <1>7 DEF Request
  <2>. QED  BY <1>1, <1>2, <1>5, <2>3, <2>4
<1>9. \A q \in Request : q \notin Own(c) =>
          request_status'[q] = request_status[q] /\ op_output'[q] = op_output[q]
  BY <1>1, <1>2
<1>. QED  BY <1>1, <1>2, <1>4, <1>8, <1>9, OthersResults

LEMMA AcquireResults ==
    ASSUME IInv, PipelineInv, ResultsOK, NEW c \in Clients, Acquire(c)
    PROVE  ResultsOK'
<1>1. /\ j'[c] = 0 /\ pc'[c] = "submit"
      /\ c \notin Holders /\ Holders' = Holders \cup {c}
      /\ \A d \in Holders : Kept(d)
  BY AcquireFacts
<1>2. UNCHANGED <<buffer, request_status, op_output>>
  BY DEF Acquire, requestVars
<1>3. StoredOK(c)'
  <2>1. Limit(c)' = 0
    BY <1>1 DEF Limit, Submitting
  <2>. QED  BY <2>1 DEF StoredOK
<1>4. ASSUME NEW d \in Holders, batch_size'[d] <= BufferSize PROVE StoredOK(d)'
  BY <1>1, <1>2, <1>4, StoredFrame DEF ResultsOK, Kept
<1>. QED  BY <1>1, <1>3, <1>4 DEF ResultsOK

\* A caller that gives its buffer back leaves the others theirs.
LEMMA ReleaseOthers ==
    ASSUME IInv, NEW c \in Clients, ReleaseBuffer(c)
    PROVE  /\ c \in Holders /\ Holders' = Holders \ {c}
           /\ \A d \in Holders \ {c} : Kept(d)
<1>1. ClientTypeOK
  BY DEF IInv, TypeOK
<1>2. pc[c] = "release"
  BY DEF ReleaseBuffer
<1>3. \/ pc' = [pc EXCEPT ![c] = "idle"]
      \/ \E w \in At("acquire_wait") : pc' = [[pc EXCEPT ![c] = "idle"] EXCEPT ![w] = "acquire"]
  <2>1. pc' \in Signal([pc EXCEPT ![c] = "idle"], At("acquire_wait"), "acquire")
    BY DEF ReleaseBuffer, WaitingForBuffer
  <2>. QED  BY <2>1, Zenon DEF Signal
<1>4. Holders' = Holders \ {c} /\ \A d \in Holders \ {c} : pc'[d] = pc[d]
  BY <1>1, <1>2, <1>3 DEF Holders, ClientTypeOK, At
<1>5. \A d \in Holders \ {c} : Kept(d)
  BY <1>1, <1>4 DEF ReleaseBuffer, Kept, Submitting, ClientTypeOK, Holders
<1>. QED  BY <1>2, <1>4, <1>5 DEF Holders

LEMMA ReleaseResults ==
    ASSUME IInv, PipelineInv, ResultsOK, NEW c \in Clients, ReleaseBuffer(c)
    PROVE  ResultsOK'
<1>. DEFINE b == buffer_id[c]
<1>1. b \in Buffer /\ buffer \in [Buffer -> RequestBuffer]
  BY ReleasedBuffer DEF IInv, TypeOK
<1>2. UNCHANGED <<request_status, op_output>>
  BY DEF ReleaseBuffer, requestVars
<1>3. ASSUME NEW d \in Holders \ {c}, batch_size'[d] <= BufferSize PROVE StoredOK(d)'
  <2>1. buffer_id[d] # b /\ buffer_id[d] \in Buffer
    BY ReleaseOthers DEF IInv, BufferExclusive
  <2>2. buffer'[buffer_id[d]] = buffer[buffer_id[d]]
    BY <1>1, <2>1 DEF ReleaseBuffer
  <2>3. StoredOK(d) /\ Kept(d)
    BY <1>3, ReleaseOthers DEF ResultsOK, Kept
  <2>. QED  BY <1>2, <2>2, <2>3, StoredFrame
<1>. QED  BY <1>3, ReleaseOthers DEF ResultsOK

\* The other steps keep every caller as it is, what it has stored and the results it
\* has; Complete and OffloadFails leave the request where it is.
LEMMA OtherSteps ==
    ASSUME IInv, PipelineInv,
           \/ \E c \in Clients : \/ Call(c) \/ AcquireWaits(c) \/ SubmitWaits(c)
                                 \/ ReleaseWaits(c) \/ SpuriousClient(c)
           \/ SchedulerStep \/ RunnerStep \/ SpuriousThread
           \/ \E i \in Instance : PollingStep(i)
           \/ UNCHANGED vars
    PROVE  /\ HoldersKept
           /\ \A b \in Buffer : /\ buffer'[b].data = buffer[b].data
                                /\ buffer'[b].next_data_out = buffer[b].next_data_out
           /\ \A r \in Request : /\ request_status'[r] = "FREED" => request_status[r] = "FREED"
                                 /\ op_output[r] => op_output'[r]
           /\ op_output' = op_output \/ \E i \in Instance : Complete(i)
<1>. DEFINE Rest == /\ HoldersKept
                    /\ \A b \in Buffer : /\ buffer'[b].data = buffer[b].data
                                         /\ buffer'[b].next_data_out = buffer[b].next_data_out
                    /\ \A r \in Request :
                          /\ request_status'[r] = "FREED" => request_status[r] = "FREED"
                          /\ op_output[r] => op_output'[r]
                    /\ op_output' = op_output \/ \E i \in Instance : Complete(i)
<1>1. /\ ClientTypeOK /\ request_status \in [Request -> RequestStatus]
      /\ op_output \in [Request -> BOOLEAN] /\ buffer \in [Buffer -> RequestBuffer]
  BY DEF IInv, TypeOK
<1>2. ASSUME HoldersKept, UNCHANGED <<buffer, request_status, op_output>> PROVE Rest
  BY <1>2
<1>3. ASSUME NEW c \in Clients,
             Call(c) \/ AcquireWaits(c) \/ SubmitWaits(c) \/ ReleaseWaits(c) \/ SpuriousClient(c)
      PROVE  Rest
  <2>1. HoldersKept
    BY <1>1, <1>3, ClientQuiet
  <2>2. UNCHANGED <<buffer, request_status, op_output>>
    BY <1>3 DEF Call, AcquireWaits, SubmitWaits, ReleaseWaits, SpuriousClient, requestVars
  <2>. QED  BY <1>2, <2>1, <2>2
<1>4. ASSUME Extract PROVE Rest
  <2>1. /\ HoldersKept /\ request_status' = request_status /\ op_output' = op_output
        /\ \E n : buffer' = [buffer EXCEPT ![index].count = 0,
                                           ![index].next_data_slot = Advance(@, n)]
    BY <1>4, ExtractFacts DEF Extract, requestVars
  <2>2. \A b \in Buffer : /\ buffer'[b].data = buffer[b].data
                          /\ buffer'[b].next_data_out = buffer[b].next_data_out
    BY <1>1, <2>1 DEF RequestBuffer
  <2>. QED  BY <2>1, <2>2
<1>5. ASSUME UNCHANGED <<clientVars, buffer, request_status, op_output>> PROVE Rest
  BY <1>2, <1>5, SameClients
<1>6. ASSUME \/ Pull \/ Scan \/ ForwardWaits \/ Forward \/ Throttle \/ ReadWaits \/ Read \/ Offload
             \/ CountRequest \/ OffloadRetry \/ SpuriousThread \/ UNCHANGED vars
             \/ \E i \in Instance : Respond(i)
      PROVE  UNCHANGED <<clientVars, buffer, request_status, op_output>>
  BY <1>6 DEF Pull, Scan, ForwardWaits, Forward, Throttle, ReadWaits, Read, Offload, CountRequest,
     OffloadRetry, SpuriousThread, Respond, vars, requestVars
<1>7. ASSUME OffloadFails PROVE Rest
  <2>1. /\ request_status' = [request_status EXCEPT ![Head(to_offload)] = "FAIL"]
        /\ UNCHANGED <<clientVars, buffer, op_output>>
    BY <1>7 DEF OffloadFails
  <2>2. HoldersKept
    BY <2>1, SameClients
  <2>3. \A r \in Request : request_status'[r] = "FREED" => request_status[r] = "FREED"
    BY <1>1, <2>1
  <2>. QED  BY <2>1, <2>2, <2>3
<1>8. ASSUME NEW i \in Instance, Complete(i) PROVE Rest
  <2>1. /\ UNCHANGED <<buffer_id, batch_size, j, buffer>>
        /\ \E W \in SUBSET At("release_wait") : pc' \in Signal(pc, W, "release")
    BY <1>8 DEF Complete
  <2>2. HoldersKept
    BY <1>1, <2>1, WakingKeeps
  <2>3. \/ /\ request_status' = [request_status EXCEPT ![callback[i]] = "READY"]
           /\ op_output' = [op_output EXCEPT ![callback[i]] = TRUE]
        \/ request_status' = request_status /\ op_output' = op_output
    BY <1>8 DEF Complete, requestVars
  <2>4. \A r \in Request : /\ request_status'[r] = "FREED" => request_status[r] = "FREED"
                           /\ op_output[r] => op_output'[r]
    BY <1>1, <2>3
  <2>. QED  BY <1>8, <2>1, <2>2, <2>4
<1>. HIDE DEF Rest
<1>9. Rest
  BY <1>3, <1>4, <1>5, <1>6, <1>7, <1>8 DEF SchedulerStep, RunnerStep, PollingStep
<1>. QED  BY <1>9 DEF Rest

\* The steps of Next, as the service sees them.
LEMMA Steps ==
    ASSUME [Next]_vars
    PROVE  \/ \E c \in Clients : \/ Acquire(c) \/ Submit(c) \/ SubmitFails(c)
                                 \/ ReleaseTask(c) \/ ReleaseBuffer(c)
           \/ \E c \in Clients : \/ Call(c) \/ AcquireWaits(c) \/ SubmitWaits(c)
                                 \/ ReleaseWaits(c) \/ SpuriousClient(c)
           \/ SchedulerStep \/ RunnerStep \/ SpuriousThread
           \/ \E i \in Instance : PollingStep(i)
           \/ UNCHANGED vars
BY DEF Next, ClientStep

LEMMA ServiceInvStep == IInv /\ PipelineInv /\ ServiceInv /\ [Next]_vars => ServiceInv'
<1>. SUFFICES ASSUME IInv, PipelineInv, ServiceInv, [Next]_vars PROVE ServiceInv'
  OBVIOUS
<1>1. BatchOK' /\ ReadyOK'
  BY BatchStep, ReadyStep DEF ServiceInv
<1>2. ReadyOK /\ ResultsOK
  BY DEF ServiceInv
<1>3. ASSUME NEW c \in Clients,
             Acquire(c) \/ Submit(c) \/ SubmitFails(c) \/ ReleaseTask(c) \/ ReleaseBuffer(c)
      PROVE  ResultsOK'
  BY <1>2, <1>3, AcquireResults, SubmitResults, SubmitFailsResults, CollectResults, ReleaseResults
<1>4. ASSUME \/ \E c \in Clients : \/ Call(c) \/ AcquireWaits(c) \/ SubmitWaits(c)
                                   \/ ReleaseWaits(c) \/ SpuriousClient(c)
             \/ SchedulerStep \/ RunnerStep \/ SpuriousThread
             \/ \E i \in Instance : PollingStep(i)
             \/ UNCHANGED vars
      PROVE  ResultsOK'
  BY <1>2, <1>4, OtherSteps, ResultsFrame
<1>5. ResultsOK'
  BY <1>3, <1>4, Steps
<1>. QED  BY <1>1, <1>5 DEF ServiceInv

LEMMA ServiceInvariant == Spec => []ServiceInv
BY ServiceInvInit, ServiceInvStep, Invariant, PipelineInvariant, PTL DEF Spec

-----------------------------------------------------------------------------
(* The steps of the service.                                               *)

\* The variables of the service, as OffloadRefinement maps them.
Size == [c \in Clients |-> IF c \in Holders THEN batch_size[c] ELSE 0]
Sent == [c \in Clients |-> Submitted(c)]
Written == [c \in Clients |-> {k \in Submitted(c) : op_output[<<c, k>>]}]

LEMMA SubmittedPositions ==
    \A c \in Clients : Submitted(c) = IF c \in Holders THEN 0 .. Limit(c) - 1 ELSE {}
<1>. SUFFICES ASSUME NEW c \in Clients
              PROVE  Submitted(c) = IF c \in Holders THEN 0 .. Limit(c) - 1 ELSE {}
  OBVIOUS
<1>1. CASE pc[c] \in {"submit", "submit_wait"}
  BY <1>1 DEF Submitted, Holders, Limit, Submitting
<1>2. CASE pc[c] \in {"release", "release_wait"}
  BY <1>2 DEF Submitted, Holders, Limit, Submitting
<1>3. CASE pc[c] \notin {"submit", "submit_wait", "release", "release_wait"}
  BY <1>3 DEF Submitted, Holders
<1>. QED  BY <1>1, <1>2, <1>3

LEMMA SubmittedRequests ==
    ASSUME IInv, NEW c \in Clients, NEW k \in Submitted(c)
    PROVE  c \in Holders /\ k \in 0 .. Limit(c) - 1 /\ <<c, k>> \in Own(c) /\ <<c, k>> \in Request
<1>1. c \in Holders /\ k \in 0 .. Limit(c) - 1
  BY SubmittedPositions
<1>2. Limit(c) \in Nat /\ Limit(c) <= MaxBatch /\ MaxBatch \in Nat
  BY <1>1, HolderFacts, OffloadAssumption
<1>. QED  BY <1>1, <1>2 DEF Own, Request

LEMMA PrefixSize ==
    ASSUME NEW n \in Nat
    PROVE  Cardinality(0 .. n - 1) = n
<1>1. CASE n = 0
  <2>1. 0 .. n - 1 = {}
    BY <1>1
  <2>. QED  BY <1>1, <2>1, FS_EmptySet
<1>2. CASE n # 0
  <2>1. 0 \in Int /\ n - 1 \in Int /\ ~(0 > n - 1) /\ (n - 1) - 0 + 1 = n
    BY <1>2
  <2>. QED  BY <2>1, FS_Interval
<1>. QED  BY <1>1, <1>2

LEMMA SubmittedPositionsNext ==
    (\A c \in Clients : Submitted(c) = IF c \in Holders THEN 0 .. Limit(c) - 1 ELSE {})'
BY SubmittedPositions, PTL

\* What a caller that goes on as before shows.
LEMMA SameSession ==
    ASSUME NEW c \in Clients, c \in Holders' <=> c \in Holders,
           c \in Holders => batch_size'[c] = batch_size[c] /\ Limit(c)' = Limit(c)
    PROVE  Size'[c] = Size[c] /\ Sent'[c] = Sent[c] /\ Submitted(c)' = Submitted(c)
BY SubmittedPositions, SubmittedPositionsNext DEF Size, Sent

\* What the service knows is unchanged if no caller's session moves on and no result
\* of a session is written.
LEMMA SameService ==
    ASSUME Holders' = Holders,
           \A c \in Holders : batch_size'[c] = batch_size[c] /\ Limit(c)' = Limit(c),
           op_output' = op_output
    PROVE  UNCHANGED <<Size, Sent, Written>>
<1>1. \A c \in Clients : /\ Size'[c] = Size[c] /\ Sent'[c] = Sent[c]
                         /\ Submitted(c)' = Submitted(c)
  BY SameSession
<1>2. \A c \in Clients : {k \in Submitted(c) : op_output[<<c, k>>]}'
                            = {k \in Submitted(c) : op_output[<<c, k>>]}
  BY <1>1
<1>. QED  BY <1>1, <1>2 DEF Size, Sent, Written

LEMMA ServedAreHolders ==
    ASSUME IInv, ServiceInv
    PROVE  {c \in Clients : Size[c] > 0} = Holders
<1>1. ASSUME NEW c \in Holders PROVE c \in Clients /\ batch_size[c] > 0
  BY DEF Holders, ServiceInv, BatchOK
<1>2. Holders \subseteq Clients
  BY DEF Holders
<1>. QED  BY <1>1, <1>2 DEF Size

\* The service counts with its own instance of FiniteSets.
LEMMA ServiceCardinality ==
    ASSUME NEW S
    PROVE  Service!Cardinality(S) = Cardinality(S)
BY DEF Service!Cardinality, Cardinality

LEMMA OpenStep ==
    ASSUME IInv, PipelineInv, ServiceInv, NEW c \in Clients, Acquire(c)
    PROVE  Service!Open(c)
<1>1. /\ j'[c] = 0 /\ pc'[c] = "submit"
      /\ c \notin Holders /\ Holders' = Holders \cup {c}
      /\ \A d \in Holders : Kept(d)
  BY AcquireFacts
<1>2. batch_size' = batch_size /\ op_output' = op_output
  BY DEF Acquire, requestVars
<1>3. batch_size[c] \in 1 .. MaxBatch
  <2>1. batch_size[c] \in 0 .. MaxBatch /\ batch_size[c] > 0
    BY DEF ServiceInv, BatchOK, Acquire, IInv, TypeOK, ClientTypeOK
  <2>. QED  BY <2>1, OffloadAssumption
<1>4. Size[c] = 0
  BY <1>1 DEF Size
<1>5. Service!Cardinality(Service!Served) < BufferCount
  <2>1. busy_count = Cardinality(Holders) /\ busy_count \in Nat /\ ~(busy_count >= BufferCount)
    BY DEF IInv, TypeOK, ReservationTypeOK, BufferExclusive, Acquire, AllBusy
  <2>2. Cardinality(Holders) < BufferCount
    BY <2>1, OffloadAssumption
  <2>3. Service!Served = {d \in Clients : Size[d] > 0}
    BY DEF Service!Served, Size
  <2>. QED  BY <2>2, <2>3, ServedAreHolders, ServiceCardinality
<1>6. Size' = [Size EXCEPT ![c] = batch_size[c]]
  BY <1>1, <1>2 DEF Size
<1>7. Limit(c)' = 0
  BY <1>1 DEF Limit, Submitting
<1>8. \A d \in Clients : Submitted(d)' = Submitted(d)
  <2>1. Submitted(c)' = {} /\ Submitted(c) = {}
    BY <1>1, <1>7, SubmittedPositions, SubmittedPositionsNext
  <2>2. ASSUME NEW d \in Clients, d # c PROVE Submitted(d)' = Submitted(d)
    <3>1. d \in Holders => Limit(d)' = Limit(d) /\ batch_size'[d] = batch_size[d]
      BY <1>1 DEF Kept, Limit
    <3>. QED  BY <1>1, <2>2, <3>1, SameSession
  <2>. QED  BY <2>1, <2>2
<1>9. Sent' = Sent /\ Written' = Written
  BY <1>2, <1>8 DEF Sent, Written
<1>. QED  BY <1>3, <1>4, <1>5, <1>6, <1>9 DEF Service!Open, Size, Sent, Written

\* HE_QAT_bnModExp_MT returns for one more request, whether it stored it or not.
LEMMA SubmitNextStep ==
    ASSUME IInv, PipelineInv, ServiceInv, NEW c \in Clients, Submit(c) \/ SubmitFails(c)
    PROVE  Service!SubmitNext(c)
<1>. DEFINE r == <<c, j[c]>>
<1>1. /\ c \in Holders /\ Holders' = Holders /\ j[c] \in 0 .. MaxBatch - 1
      /\ Limit(c) = j[c] /\ Limit(c)' = j[c] + 1 /\ j[c] + 1 <= batch_size[c]
      /\ \A d \in Holders : d # c => Kept(d)
  BY NextRequestFacts DEF Submit, SubmitFails
<1>2. batch_size' = batch_size /\ op_output' = [op_output EXCEPT ![r] = FALSE]
  BY DEF Submit, SubmitFails
<1>3. r \in Request /\ j[c] \in Nat /\ batch_size[c] \in Nat /\ op_output \in [Request -> BOOLEAN]
  BY <1>1, OffloadAssumption DEF Request, IInv, TypeOK, ClientTypeOK
<1>4. Submitted(c) = 0 .. j[c] - 1 /\ Submitted(c)' = 0 .. j[c]
  <2>1. Submitted(c) = 0 .. Limit(c) - 1 /\ Submitted(c)' = 0 .. Limit(c)' - 1
    BY <1>1, SubmittedPositions, SubmittedPositionsNext
  <2>2. (j[c] + 1) - 1 = j[c]
    BY <1>3
  <2>. QED  BY <1>1, <2>1, <2>2
<1>5. ASSUME NEW d \in Clients, d # c PROVE Submitted(d)' = Submitted(d)
  <2>1. d \in Holders => Limit(d)' = Limit(d) /\ batch_size'[d] = batch_size[d]
    BY <1>1, <1>5 DEF Kept, Limit
  <2>. QED  BY <1>1, <2>1, SameSession
<1>6. Size' = Size /\ Size[c] = batch_size[c]
  BY <1>1, <1>2 DEF Size
<1>7. Service!Cardinality(Sent[c]) = j[c]
  BY <1>3, <1>4, PrefixSize, ServiceCardinality DEF Sent
<1>8. Sent' = [Sent EXCEPT ![c] = @ \cup {j[c]}]
  <2>1. 0 .. j[c] = (0 .. j[c] - 1) \cup {j[c]}
    BY <1>3
  <2>. QED  BY <1>4, <1>5, <2>1 DEF Sent
<1>9. Written' = Written
  <2>1. ASSUME NEW d \in Clients, d # c
        PROVE  {k \in Submitted(d) : op_output[<<d, k>>]}'
                  = {k \in Submitted(d) : op_output[<<d, k>>]}
    <3>1. \A k \in Submitted(d) : op_output'[<<d, k>>] = op_output[<<d, k>>]
      BY <1>2, <1>3, <2>1, SubmittedRequests
    <3>. QED  BY <1>5, <2>1, <3>1
  <2>2. {k \in Submitted(c) : op_output[<<c, k>>]}' = {k \in Submitted(c) : op_output[<<c, k>>]}
    <3>1. ~op_output'[<<c, j[c]>>]
      BY <1>2, <1>3
    <3>2. ASSUME NEW k \in 0 .. j[c] - 1 PROVE op_output'[<<c, k>>] = op_output[<<c, k>>]
      <4>1. <<c, k>> \in Request /\ k # j[c]
        BY <1>3, <1>4, SubmittedRequests
      <4>. QED  BY <1>2, <1>3, <4>1
    <3>3. \A k : k \in Submitted(c)' <=> k \in Submitted(c) \/ k = j[c]
      BY <1>3, <1>4
    <3>. QED  BY <1>4, <3>1, <3>2, <3>3
  <2>. QED  BY <2>1, <2>2 DEF Written
<1>10. j[c] < Size[c]
  BY <1>1, <1>3, <1>6
<1>. QED  BY <1>6, <1>7, <1>8, <1>9, <1>10 DEF Service!SubmitNext, Size, Sent, Written

\* The accelerator's answer: it goes to a request of a caller that still waits for it,
\* and is written once.  Without a response nothing is.
LEMMA AnswerStep ==
    ASSUME IInv, PipelineInv, ServiceInv, NEW i \in Instance, Complete(i)
    PROVE  \/ \E c \in Clients, k \in Service!Position : Service!Answer(c, k)
           \/ UNCHANGED <<Size, Sent, Written>>
<1>. DEFINE r == callback[i]
<1>1. PICK c \in Clients, k \in 0 .. MaxBatch - 1 :
        r \in Request /\ request_status[r] = "SUCCESS" /\ r = <<c, k>>
  BY CompleteFlies DEF Request
<1>. HIDE DEF r
<1>2. c \in Holders /\ k < Limit(c) /\ k \in Nat /\ Limit(c) \in Nat
  <2>1. c \in Holders /\ k < Limit(c)
    BY <1>1 DEF PipelineInv, StatusOK
  <2>. QED  BY <1>1, <2>1, HolderFacts, OffloadAssumption
<1>3. k \in Submitted(c)
  BY <1>1, <1>2, SubmittedPositions
<1>4. /\ UNCHANGED <<batch_size, buffer_id, j>>
      /\ Holders' = Holders /\ \A d \in Holders : Limit(d)' = Limit(d)
  <2>1. /\ UNCHANGED <<buffer_id, batch_size, j, buffer>>
        /\ \E W \in SUBSET At("release_wait") : pc' \in Signal(pc, W, "release")
    BY DEF Complete
  <2>2. HoldersKept
    BY <2>1, WakingKeeps DEF IInv, TypeOK
  <2>. QED  BY <2>1, <2>2 DEF HoldersKept, Kept, Limit
<1>5. CASE op_output' = op_output
  BY <1>4, <1>5, SameService
<1>6. CASE op_output' = [op_output EXCEPT ![r] = TRUE]
  <2>1. op_output \in [Request -> BOOLEAN]
    BY DEF IInv, TypeOK
  <2>2. CASE op_output[r]
    BY <1>4, <1>6, <2>1, <2>2, SameService
  <2>3. CASE ~op_output[r]
    <3>1. \A d \in Clients : /\ Size'[d] = Size[d] /\ Sent'[d] = Sent[d]
                             /\ Submitted(d)' = Submitted(d)
      BY <1>4, SameSession
    <3>2. Size' = Size /\ Sent' = Sent
      BY <3>1 DEF Size, Sent
    <3>3. k \in Sent[c] \ Written[c]
      BY <1>1, <1>3, <2>3 DEF Sent, Written
    <3>4. Written' = [Written EXCEPT ![c] = @ \cup {k}]
      <4>1. ASSUME NEW d \in Clients, NEW l \in Submitted(d)
            PROVE  op_output'[<<d, l>>] <=> op_output[<<d, l>>] \/ (d = c /\ l = k)
        BY <1>1, <1>6, <2>1, SubmittedRequests
      <4>2. ASSUME NEW d \in Clients
            PROVE  {l \in Submitted(d) : op_output[<<d, l>>]}'
                      = {l \in Submitted(d) : op_output[<<d, l>>]} \cup (IF d = c THEN {k} ELSE {})
        BY <1>3, <3>1, <4>1
      <4>. QED  BY <4>2 DEF Written
    <3>5. k \in Service!Position
      BY <1>1 DEF Service!Position
    <3>6. Service!Answer(c, k)
      BY <3>2, <3>3, <3>4 DEF Service!Answer, Size, Sent, Written
    <3>. QED  BY <1>1, <3>5, <3>6
  <2>. QED  BY <2>2, <2>3
<1>. QED  BY <1>5, <1>6 DEF Complete, requestVars, r

\* The end of release_bnModExp_buffer: a batch that fits into the buffer has been
\* collected, and is written, to the last request.
LEMMA CloseStep ==
    ASSUME MaxBatch <= BufferSize,
           IInv, PipelineInv, ServiceInv, NEW c \in Clients, ReleaseBuffer(c)
    PROVE  Service!Close(c)
<1>1. /\ c \in Holders /\ Holders' = Holders \ {c}
      /\ \A d \in Holders \ {c} : Kept(d)
  BY ReleaseOthers
<1>2. op_output' = op_output
  BY DEF ReleaseBuffer, requestVars
<1>3. batch_size[c] \in Nat /\ batch_size[c] > 0 /\ batch_size[c] <= BufferSize
  BY <1>1, HolderFacts, OffloadAssumption DEF ServiceInv, BatchOK, Holders
<1>4. Limit(c) = batch_size[c] /\ Collected(c) = batch_size[c]
  BY DEF ReleaseBuffer, Limit, Collected, Submitting
<1>5. Submitted(c) = 0 .. batch_size[c] - 1
  BY <1>1, <1>4, SubmittedPositions
<1>6. ASSUME NEW k \in Submitted(c) PROVE op_output[<<c, k>>]
  <2>1. request_status[<<c, k>>] = "FREED"
    BY SubmittedRequests, ReleasedBuffer
  <2>2. StoredOK(c) /\ AllStored(c)
    BY <1>1, <1>3, <1>4 DEF ServiceInv, ResultsOK, AllStored
  <2>. QED  BY <1>4, <1>5, <2>1, <2>2 DEF StoredOK
<1>7. Size[c] = batch_size[c] /\ Written[c] = 0 .. batch_size[c] - 1
  BY <1>1, <1>5, <1>6 DEF Size, Written
<1>8. ASSUME NEW d \in Clients, d # c
      PROVE  Size'[d] = Size[d] /\ Sent'[d] = Sent[d] /\ Submitted(d)' = Submitted(d)
  <2>1. d \in Holders => Limit(d)' = Limit(d) /\ batch_size'[d] = batch_size[d]
    BY <1>1, <1>8 DEF Kept, Limit
  <2>. QED  BY <1>1, <1>8, <2>1, SameSession
<1>9. Submitted(c)' = {}
  BY <1>1, SubmittedPositionsNext
<1>10. Size' = [Size EXCEPT ![c] = 0]
  BY <1>1, <1>8 DEF Size
<1>11. Sent' = [Sent EXCEPT ![c] = {}]
  BY <1>8, <1>9 DEF Sent
<1>12. Written' = [Written EXCEPT ![c] = {}]
  <2>1. \A d \in Clients :
           {k \in Submitted(d) : op_output[<<d, k>>]}'
              = IF d = c THEN {} ELSE {k \in Submitted(d) : op_output[<<d, k>>]}
    BY <1>2, <1>8, <1>9
  <2>. QED  BY <2>1 DEF Written
<1>. QED  BY <1>3, <1>7, <1>10, <1>11, <1>12 DEF Service!Close, Size, Sent, Written

LEMMA ServiceStarts == Init => Service!ServiceInit
<1>. SUFFICES ASSUME Init PROVE Service!ServiceInit
  OBVIOUS
<1>1. Holders = {}
  BY DEF Init, Holders
<1>2. \A c \in Clients : Submitted(c) = {}
  BY <1>1, SubmittedPositions
<1>3. /\ Size = [c \in Clients |-> 0]
      /\ Sent = [c \in Clients |-> {}]
      /\ Written = [c \in Clients |-> {}]
  BY <1>1, <1>2 DEF Size, Sent, Written
<1>. QED  BY <1>3 DEF Service!ServiceInit, Size, Sent, Written

\* Every step of the offload path is one of the service, or none.
LEMMA ServiceStep ==
    ASSUME MaxBatch <= BufferSize
    PROVE  IInv /\ PipelineInv /\ ServiceInv /\ [Next]_vars
              => [Service!ServiceNext]_(Service!serviceVars)
<1>. SUFFICES ASSUME IInv, PipelineInv, ServiceInv, [Next]_vars
              PROVE  Service!ServiceNext \/ UNCHANGED <<Size, Sent, Written>>
  BY DEF Service!serviceVars, Size, Sent, Written
<1>1. ASSUME NEW c \in Clients, Acquire(c) PROVE Service!ServiceNext
  BY <1>1, OpenStep DEF Service!ServiceNext
<1>2. ASSUME NEW c \in Clients, Submit(c) \/ SubmitFails(c) PROVE Service!ServiceNext
  BY <1>2, SubmitNextStep DEF Service!ServiceNext
<1>3. ASSUME NEW c \in Clients, ReleaseBuffer(c) PROVE Service!ServiceNext
  BY <1>3, CloseStep DEF Service!ServiceNext
<1>4. ASSUME NEW i \in Instance, Complete(i)
      PROVE  Service!ServiceNext \/ UNCHANGED <<Size, Sent, Written>>
  BY <1>4, AnswerStep DEF Service!ServiceNext
<1>5. ASSUME NEW c \in Clients, ReleaseTask(c) PROVE UNCHANGED <<Size, Sent, Written>>
  <2>1. pc[c] = "release" /\ UNCHANGED <<pc, batch_size, op_output>>
        /\ \A d \in Clients : d # c => j'[d] = j[d]
    BY <1>5 DEF ReleaseTask, IInv, TypeOK, ClientTypeOK
  <2>2. Holders' = Holders /\ \A d \in Holders : Limit(d)' = Limit(d)
    BY <2>1 DEF Holders, Limit, Submitting
  <2>. QED  BY <2>1, <2>2, SameService
<1>6. ASSUME \/ \E c \in Clients : \/ Call(c) \/ AcquireWaits(c) \/ SubmitWaits(c)
                                   \/ ReleaseWaits(c) \/ SpuriousClient(c)
             \/ SchedulerStep \/ RunnerStep \/ SpuriousThread
             \/ \E i \in Instance : PollingStep(i)
             \/ UNCHANGED vars
      PROVE  Service!ServiceNext \/ UNCHANGED <<Size, Sent, Written>>
  <2>1. HoldersKept /\ (op_output' = op_output \/ \E i \in Instance : Complete(i))
    BY <1>6, OtherSteps
  <2>2. /\ Holders' = Holders
        /\ \A c \in Holders : batch_size'[c] = batch_size[c] /\ Limit(c)' = Limit(c)
    BY <2>1 DEF HoldersKept, Kept, Limit
  <2>. QED  BY <1>4, <2>1, <2>2, SameService
<1>. QED  BY <1>1, <1>2, <1>3, <1>4, <1>5, <1>6, Steps

\* The offload path (acquire_bnModExp_buffer, HE_QAT_bnModExp_MT, schedule_requests,
\* start_instances, HE_QAT_bnModExpCallback, release_bnModExp_buffer) implements the
\* service of bnops.h, whatever fails on the way: there are never more sessions than
\* buffers, a result is written at most once and to a caller that has submitted the
\* request, and release_bnModExp_buffer returns only when every result of the batch
\* is written.  A batch is no larger than a buffer, which is what heQatBnModExp_MT
\* cuts its work into.
THEOREM ServiceImplemented ==
    ASSUME MaxBatch <= BufferSize
    PROVE  Spec => ImplementsService
BY ServiceStarts, ServiceStep, Invariant, PipelineInvariant, ServiceInvariant, PTL
   DEF Spec, ImplementsService, Service!ServiceSpec
=============================================================================
