---------------------------- MODULE HeQatBarrier ----------------------------
(***************************************************************************)
(* The single-threaded interface of the HE QAT module.  One thread calls   *)
(* HE_QAT_bnModExp or HE_QAT_BIGNUMModExp once per element, which put a    *)
(* request in the internal buffer he_qat_buffer themselves, and then the   *)
(* barrier getBnModExpRequest, which walks through the slots of that       *)
(* buffer, without its mutex, behind the processing thread.  heQatBnModExp *)
(* of ipcl/mod_exp.cpp is such a caller: it cuts its work into slices.     *)
(*                                                                         *)
(* The processing thread is start_instances or the older start_perform_op, *)
(* and the build is asynchronous or has HE_QAT_SYNC_MODE, in which that    *)
(* thread waits for every answer on a semaphore inside the request.  Both  *)
(* are chosen at the start.                                                *)
(*                                                                         *)
(* Unlike in HeQatOffload the internal buffer keeps its slots, because the *)
(* barrier looks at them after the processing thread has read them.  The   *)
(* waits of submit_request and read_request_list are guards.               *)
(***************************************************************************)
EXTENDS Integers, FiniteSets, Sequences, Pthreads

CONSTANTS
    BufferSize,         \* HE_QAT_BUFFER_SIZE
    BatchSize,          \* the batch_size given to heQatBnModExp
    Instances,          \* HE_QAT_NUM_ACTIVE_INSTANCES: callbacks run at a time
    MaxPending,         \* max_pending
    RestartThreshold,   \* restart_threshold
    MaxRetry,           \* HE_QAT_MAX_RETRY
    WorkSizes,          \* bound: how many elements a call may have
    MaxCalls,           \* bound: calls made
    Faults,             \* failures that may happen: "alloc", "submit", "retry", "response"
    MaxFailures,        \* bound: how many of them in all
    MaxRestarts,        \* bound: contexts acquired anew
    NULL

\* README.md of the module: at most a buffer of requests between two barriers.
ASSUME BarrierAssumption ==
    /\ BufferSize \in Nat \ {0}
    /\ BatchSize \in 1 .. BufferSize
    /\ {Instances, MaxPending, MaxRetry} \cup WorkSizes \subseteq Nat \ {0}
    /\ \E n \in WorkSizes : \A m \in WorkSizes : m <= n
    /\ RestartThreshold \in 1 .. MaxPending
    /\ {MaxCalls, MaxFailures, MaxRestarts} \subseteq Nat
    /\ Faults \subseteq {"alloc", "submit", "retry", "response"}

Slot == 0 .. BufferSize - 1

MaxWork == CHOOSE n \in WorkSizes : \A m \in WorkSizes : m <= n

\* An element of a call.
Request == (1 .. MaxCalls) \X (0 .. MaxWork - 1)

ASSUME NullAssumption == NULL \notin Request

\* NEW: not allocated yet.
RequestStatus == {"NEW", "SUCCESS", "READY", "FAIL", "FREED"}

VARIABLES
    legacy,             \* the processing thread is start_perform_op
    synchronous,        \* HE_QAT_SYNC_MODE
    failures,           \* how many there have been
    \* the context
    restarts,           \* how often it was released and acquired again
    skewed,             \* whether once with block_at_index in the middle of the buffer
    \* the caller
    app,                \* where it is
    call,               \* the calls it has begun
    worksize,
    slice,              \* j of heQatBnModExp
    element,            \* i of heQatBnModExp, while it submits
    j,                  \* of getBnModExpRequest
    block_at_index,     \* of getBnModExpRequest, static
    he_qat_buffer,
    \* the processing thread
    runner, max_requests, to_offload, retry, request_count,
    \* the accelerator, and the callbacks that are running
    device, response_count, callback,
    \* the request records: status, completion semaphore, whether the result is
    \* in the caller's memory
    request_status, semaphore, op_output

buildVars == <<legacy, synchronous, failures, restarts, skewed>>
appVars == <<app, call, worksize, slice, element, j, block_at_index>>
runnerVars == <<runner, max_requests, to_offload, retry, request_count>>
deviceVars == <<device, response_count, callback>>
requestVars == <<request_status, semaphore, op_output>>
unfailing == <<legacy, synchronous, restarts, skewed>>
vars == <<buildVars, appVars, he_qat_buffer, runnerVars, deviceVars, requestVars>>

FollowingSlot(slot) == (slot + 1) % BufferSize

EmptyBuffer == [data |-> [s \in Slot |-> NULL], count |-> 0,
                next_free_slot |-> 0, next_data_slot |-> 0]

\* Something that may fail does.
Failure(kind) == kind \in Faults /\ failures < MaxFailures /\ failures' = failures + 1

Init ==
    /\ legacy \in BOOLEAN
    /\ synchronous \in BOOLEAN
    /\ failures = 0 /\ restarts = 0 /\ skewed = FALSE
    /\ app = "idle"
    /\ call = 0 /\ worksize = 0 /\ slice = 0 /\ element = 0
    /\ j = 0
    /\ block_at_index = 0
    /\ he_qat_buffer = EmptyBuffer
    /\ runner = "throttle"
    /\ max_requests = 0 /\ to_offload = <<>> /\ retry = 0
    /\ request_count = 0
    /\ device = {}
    /\ response_count = 0
    /\ callback = [r \in Request |-> "none"]
    /\ request_status = [r \in Request |-> "NEW"]
    /\ semaphore = [r \in Request |-> "none"]
    /\ op_output = [r \in Request |-> FALSE]

-----------------------------------------------------------------------------
(* heQatBnModExp: slices of a batch, then what remains.  With less work    *)
(* than a batch, all of it is one slice.                                   *)

MutUnsliced == worksize
Batch == IF worksize < BatchSize THEN worksize ELSE BatchSize
Slices == IF worksize < BatchSize THEN 1 ELSE worksize \div BatchSize
Residue == IF worksize < BatchSize THEN 0 ELSE worksize % BatchSize
SliceSize == IF slice < Slices THEN Batch ELSE Residue

\* The requests of this slice.
SliceRequests == {<<call, slice * Batch + k>> : k \in 0 .. SliceSize - 1}

Call ==
    /\ app = "idle"
    /\ call < MaxCalls
    /\ call' = call + 1
    /\ worksize' \in WorkSizes
    /\ slice' = 0
    /\ element' = 0
    /\ app' = "submit"
    /\ UNCHANGED <<buildVars, j, block_at_index, he_qat_buffer, runnerVars, deviceVars, requestVars>>

\* After the submission of an element: the next one, or the barrier.
NextElement ==
    IF element + 1 < SliceSize
    THEN element' = element + 1 /\ UNCHANGED <<app, j>>
    ELSE element' = 0 /\ app' = "barrier" /\ j' = 0

\* HE_QAT_bnModExp, or HE_QAT_BIGNUMModExp, and submit_request.
Submit ==
    LET r == <<call, slice * Batch + element>>
    IN  /\ app = "submit"
        /\ he_qat_buffer.count < BufferSize
        /\ he_qat_buffer' = [he_qat_buffer EXCEPT
              !.data[he_qat_buffer.next_free_slot] = r,
              !.next_free_slot = FollowingSlot(@),
              !.count = @ + 1]
        /\ request_status' = [request_status EXCEPT ![r] = "SUCCESS"]
        /\ NextElement
        /\ UNCHANGED <<buildVars, call, worksize, slice, block_at_index, runnerVars, deviceVars,
                       semaphore, op_output>>

\* An allocation fails.  The caller prints a message and goes on.
SubmitFails ==
    /\ Failure("alloc")
    /\ app = "submit"
    /\ NextElement
    /\ UNCHANGED <<unfailing, call, worksize, slice, block_at_index, he_qat_buffer, runnerVars,
                   deviceVars, requestVars>>

-----------------------------------------------------------------------------
(* getBnModExpRequest.                                                     *)

Task == he_qat_buffer.data[block_at_index]

\* The end of a turn of the loop, also of one that found nothing.
NextTurn ==
    /\ j' = j + 1
    /\ app' = IF j + 1 < SliceSize THEN "barrier" ELSE "collect"

\* The cursor after a NULL slot.
MutMovesOn == FollowingSlot(block_at_index)
AfterNull == block_at_index

\* `continue' evaluates ++j < batch_size as well.
SkipNull ==
    /\ app = "barrier"
    /\ Task = NULL
    /\ NextTurn
    /\ block_at_index' = AfterNull
    /\ UNCHANGED <<buildVars, call, worksize, slice, element, he_qat_buffer, runnerVars,
                   deviceVars, requestVars>>

MutUnlessFailed == request_status[Task] # "FAIL"
Ready == request_status[Task] = "READY"

BarrierWaits ==
    /\ app = "barrier"
    /\ Task # NULL /\ ~Ready
    /\ app' = "barrier_wait"
    /\ UNCHANGED <<buildVars, call, worksize, slice, element, j, block_at_index, he_qat_buffer,
                   runnerVars, deviceVars, requestVars>>

\* Free the request and its slot.
FreeTask ==
    /\ app = "barrier"
    /\ Task # NULL /\ Ready
    /\ request_status' = [request_status EXCEPT ![Task] = "FREED"]
    /\ he_qat_buffer' = [he_qat_buffer EXCEPT !.data[block_at_index] = NULL]
    /\ block_at_index' = FollowingSlot(block_at_index)
    /\ NextTurn
    /\ UNCHANGED <<buildVars, call, worksize, slice, element, runnerVars, deviceVars, semaphore,
                   op_output>>

\* The caller takes the results, and begins the next slice or returns.
Collect ==
    /\ app = "collect"
    /\ IF slice + 1 < Slices + (IF Residue > 0 THEN 1 ELSE 0)
       THEN slice' = slice + 1 /\ app' = "submit" /\ UNCHANGED worksize
       ELSE slice' = 0 /\ app' = "idle" /\ worksize' = 0
    /\ j' = 0
    /\ UNCHANGED <<buildVars, call, element, block_at_index, he_qat_buffer, runnerVars,
                   deviceVars, requestVars>>

-----------------------------------------------------------------------------
(* The processing thread, either of the two.                               *)

Available ==
    LET pending == request_count - response_count
    IN  IF pending \in 0 .. MaxPending THEN MaxPending - pending ELSE 0

Throttle ==
    /\ runner = "throttle"
    /\ Available >= RestartThreshold
    /\ max_requests' = Available
    /\ runner' = "read"
    /\ UNCHANGED <<buildVars, appVars, he_qat_buffer, to_offload, retry, request_count,
                   deviceVars, requestVars>>

\* read_request_list: the pointers stay in the slots.
Read ==
    LET n == IF he_qat_buffer.count < max_requests THEN he_qat_buffer.count ELSE max_requests
        first == he_qat_buffer.next_data_slot
    IN  /\ runner = "read"
        /\ he_qat_buffer.count > 0
        /\ to_offload' = [k \in 1 .. n |-> he_qat_buffer.data[(first + k - 1) % BufferSize]]
        /\ he_qat_buffer' = [he_qat_buffer EXCEPT !.next_data_slot = (first + n) % BufferSize,
                                                  !.count = @ - n]
        /\ runner' = "offload"
        /\ max_requests' = 0       \* no longer used
        /\ retry' = 0
        /\ UNCHANGED <<buildVars, appVars, request_count, deviceVars, requestVars>>

NextOffload ==
    /\ to_offload' = Tail(to_offload)
    /\ retry' = 0
    /\ runner' = IF Tail(to_offload) = <<>> THEN "throttle" ELSE "offload"

\* The accelerator accepts the request.  COMPLETION_INIT precedes every attempt.
Offload ==
    LET r == Head(to_offload)
    IN  /\ runner = "offload"
        /\ device' = device \cup {r}
        /\ semaphore' = IF synchronous THEN [semaphore EXCEPT ![r] = "zero"] ELSE semaphore
        /\ runner' = "count"
        /\ UNCHANGED <<buildVars, appVars, he_qat_buffer, max_requests, to_offload, retry,
                       request_count, response_count, callback, request_status, op_output>>

\* Count it, and in the synchronous build wait for its callback.
Count ==
    /\ runner = "count"
    /\ request_count' = request_count + 1
    /\ IF synchronous
       THEN runner' = "completion" /\ UNCHANGED <<to_offload, retry>>
       ELSE NextOffload
    /\ UNCHANGED <<buildVars, appVars, he_qat_buffer, max_requests, deviceVars, requestVars>>

\* COMPLETION_WAIT ignores the timeout that it is given.
MutTimesOut(r) == TRUE
Completed(r) == semaphore[r] = "posted"

\* COMPLETION_WAIT and COMPLETION_DESTROY.
WaitCompletion ==
    LET r == Head(to_offload)
    IN  /\ runner = "completion"
        /\ Completed(r)
        /\ semaphore' = [semaphore EXCEPT ![r] = "none"]
        /\ NextOffload
        /\ UNCHANGED <<buildVars, appVars, he_qat_buffer, max_requests, request_count,
                       deviceVars, request_status, op_output>>

\* The barrier has freed the request, and with it the semaphore: what the
\* memory holds by then may let the thread go on, or block it for good.
WaitFreed ==
    /\ runner = "completion"
    /\ request_status[Head(to_offload)] = "FREED"
    /\ \/ NextOffload
       \/ runner' = "lost" /\ UNCHANGED <<to_offload, retry>>
    /\ UNCHANGED <<buildVars, appVars, he_qat_buffer, max_requests, request_count, deviceVars,
                   requestVars>>

MutOneMore == retry <= MaxRetry
MayRetry == retry + 1 < MaxRetry

\* CPA_STATUS_RETRY: start_perform_op sleeps and tries again.
Retry ==
    /\ "retry" \in Faults
    /\ runner = "offload"
    /\ legacy /\ MayRetry
    /\ retry' = retry + 1
    /\ UNCHANGED <<buildVars, appVars, he_qat_buffer, runner, max_requests, to_offload,
                   request_count, deviceVars, requestVars>>

\* The submission fails, or the last attempt of start_perform_op was refused.
OffloadFails ==
    /\ runner = "offload"
    /\ Failure("submit") \/ (legacy /\ ~MayRetry /\ Failure("retry"))
    /\ request_status' = [request_status EXCEPT ![Head(to_offload)] = "FAIL"]
    /\ NextOffload
    /\ UNCHANGED <<unfailing, appVars, he_qat_buffer, max_requests, request_count, deviceVars,
                   semaphore, op_output>>

\* CPA_STATUS_RETRY: start_instances exits.
RetryExits ==
    /\ Failure("retry")
    /\ runner = "offload"
    /\ ~legacy
    /\ runner' = "exited"
    /\ UNCHANGED <<unfailing, appVars, he_qat_buffer, max_requests, to_offload, retry,
                   request_count, deviceVars, requestVars>>

-----------------------------------------------------------------------------
(* The callbacks, HE_QAT_bnModExpCallback and HE_QAT_BIGNUMModExpCallback. *)

Running == {r \in Request : callback[r] # "none"}

Respond(r) ==
    /\ r \in device
    /\ Cardinality(Running) < Instances
    /\ device' = device \ {r}
    /\ callback' = [callback EXCEPT ![r] = "counted"]
    /\ response_count' = response_count + 1
    /\ UNCHANGED <<buildVars, appVars, he_qat_buffer, runnerVars, requestVars>>

\* The signal on the ready condition of r.
MutSilent(r) == app
Signalled(r) == IF app = "barrier_wait" /\ Task = r THEN "barrier" ELSE app

\* Under the request's mutex.  A failed answer leaves the status alone; a result
\* that BN_bin2bn cannot convert makes it FAIL.
Publish(r) ==
    /\ callback[r] = "counted"
    /\ \/ /\ request_status' = [request_status EXCEPT ![r] = "READY"]
          /\ op_output' = [op_output EXCEPT ![r] = TRUE]
          /\ UNCHANGED failures
       \/ /\ Failure("response")
          /\ \E s \in {"FAIL", request_status[r]} :
                request_status' = [request_status EXCEPT ![r] = s]
          /\ op_output' = op_output
    /\ app' = Signalled(r)
    /\ callback' = [callback EXCEPT ![r] = IF synchronous THEN "post" ELSE "none"]
    /\ UNCHANGED <<unfailing, call, worksize, slice, element, j, block_at_index, he_qat_buffer,
                   runnerVars, device, response_count, semaphore>>

\* COMPLETE, after the mutex has been released, and maybe after the request was
\* freed: then it may be lost.
Post(r) ==
    /\ callback[r] = "post"
    /\ \/ semaphore' = [semaphore EXCEPT ![r] = IF @ = "zero" THEN "posted" ELSE @]
       \/ request_status[r] = "FREED" /\ semaphore' = semaphore
    /\ callback' = [callback EXCEPT ![r] = "none"]
    /\ UNCHANGED <<buildVars, appVars, he_qat_buffer, runnerVars, device, response_count,
                   request_status, op_output>>

-----------------------------------------------------------------------------
(* release_qat_devices and acquire_qat_devices, when nothing is left to do *)
(* (HeQatContext describes them): the buffer starts from slot 0 again, the *)
(* static block_at_index stays where it is.                                *)

Quiescent ==
    /\ app = "idle"
    /\ runner \in {"throttle", "read"}
    /\ he_qat_buffer.count = 0 /\ device = {} /\ Running = {}

Restart ==
    /\ restarts < MaxRestarts /\ call < MaxCalls
    /\ Quiescent
    /\ restarts' = restarts + 1
    /\ skewed' = (skewed \/ block_at_index # 0)
    /\ he_qat_buffer' = EmptyBuffer
    /\ runner' = "throttle"
    /\ UNCHANGED <<legacy, synchronous, failures, appVars, max_requests, to_offload, retry, request_count,
                   deviceVars, requestVars>>

-----------------------------------------------------------------------------
AppStep == Submit \/ SubmitFails \/ SkipNull \/ BarrierWaits \/ FreeTask \/ Collect

RunnerStep ==
    \/ Throttle \/ Read \/ Offload \/ Count \/ WaitCompletion \/ WaitFreed
    \/ Retry \/ OffloadFails \/ RetryExits

PollingStep == \E r \in Request : Respond(r) \/ Publish(r) \/ Post(r)

Next == Call \/ AppStep \/ RunnerStep \/ PollingStep \/ Restart

Spec == Init /\ [][Next]_vars

\* A call that was begun goes on, the processing thread runs and the accelerator
\* answers.
Fairness == WF_vars(AppStep) /\ WF_vars(RunnerStep) /\ WF_vars(PollingStep)

FairSpec == Spec /\ Fairness

-----------------------------------------------------------------------------
(* Properties.                                                             *)

Pointer == Request \cup {NULL}

\* Types of every variable.
BarrierTypeOK ==
    /\ {legacy, synchronous, skewed} \subseteq BOOLEAN
    /\ failures \in 0 .. MaxFailures
    /\ restarts \in 0 .. MaxRestarts
    /\ app \in {"idle", "submit", "barrier", "barrier_wait", "collect"}
    /\ call \in 0 .. MaxCalls
    /\ {worksize, slice, element, j} \subseteq 0 .. MaxWork
    /\ block_at_index \in Slot
    /\ he_qat_buffer \in [data : [Slot -> Pointer], count : 0 .. BufferSize,
                          next_free_slot : Slot, next_data_slot : Slot]
    /\ runner \in {"throttle", "read", "offload", "count", "completion", "lost", "exited"}
    /\ max_requests \in 0 .. MaxPending
    /\ to_offload \in Seq(Request) /\ Len(to_offload) <= BufferSize
    /\ retry \in 0 .. MaxRetry - 1
    /\ {request_count, response_count} \subseteq 0 .. MaxCalls * MaxWork
    /\ device \subseteq Request
    /\ callback \in [Request -> {"none", "counted", "post"}]
    /\ request_status \in [Request -> RequestStatus]
    /\ semaphore \in [Request -> {"none", "zero", "posted"}]
    /\ op_output \in [Request -> BOOLEAN]

\* When the barrier returns, every request of the batch that could be allocated
\* has its result in the caller's memory and is freed; a NULL slot that counts as
\* a completed request (bnops.c:265) is the place of one that could not.  It takes
\* a restart with the cursor in the middle of the buffer to break this.
BarrierCovers ==
    app = "collect" /\ ~skewed =>
        \A r \in SliceRequests :
            request_status[r] = "NEW" \/ (request_status[r] = "FREED" /\ op_output[r])

\* Between two batches the barrier's cursor is where the next request will be
\* stored, and no slot holds a pointer: the unlocked reads of bnops.c:263 and the
\* cursors that three functions keep under different rules agree.
CursorsMeet ==
    app \in {"idle", "collect"} /\ ~skewed =>
        /\ block_at_index = he_qat_buffer.next_free_slot
        /\ he_qat_buffer.data = [s \in Slot |-> NULL]
        /\ he_qat_buffer.count = 0

\* The requests whose memory the processing thread or a callback still uses.
Listed == {to_offload[k] : k \in 1 .. Len(to_offload)}
InUse ==
    device \cup Running
    \cup (IF runner = "count" THEN Listed \ {Head(to_offload)} ELSE Listed)

\* In the asynchronous build no thread uses a request after the barrier freed it,
\* or the pointer that it left in the slot, also after a restart.  (In the synchronous build COMPLETE at cb.c:72 and
\* COMPLETION_WAIT at ctrl.c:539 may.)
RequestAlive ==
    ~synchronous => NULL \notin InUse /\ \A r \in InUse : request_status[r] # "FREED"

\* A request is only stored in a slot whose last request was collected
\* (ctrl.c:81), though submit_request looks at what is not yet read, not at what
\* is not yet collected.
SlotCollected ==
    [][\A s \in Slot : \/ he_qat_buffer'.data[s] \in {NULL, he_qat_buffer.data[s]}
                       \/ he_qat_buffer.data[s] = NULL \/ skewed]_vars

\* With HE_QAT_SYNC_MODE the accelerator has one request at a time, from its
\* acceptance to the end of its callback (ctrl.c:537-546).
OneAtATime ==
    synchronous => Cardinality(device \cup {r \in Request : callback[r] = "counted"}) <= 1

\* Something that nobody recovers from has happened: the processing thread is gone,
\* a request failed, or its answer did.
Unread == {he_qat_buffer.data[(he_qat_buffer.next_data_slot + k) % BufferSize] :
              k \in 0 .. he_qat_buffer.count - 1}
Broken ==
    \/ runner \in {"exited", "lost"}
    \/ \E r \in Request : request_status[r] = "FAIL"
    \/ \E r \in Request : /\ request_status[r] = "SUCCESS" /\ callback[r] # "counted"
                          /\ r \notin device \cup Listed \cup Unread

\* A barrier returns, even with requests missing from its batch or after a restart:
\* unless a request failed.
BarrierReturns == app = "barrier" ~> app = "collect" \/ Broken

=============================================================================
