---------------------------- MODULE HeQatOffload ----------------------------
(***************************************************************************)
(* The multi-threaded offload path of the HE QAT module.  Caller threads   *)
(* reserve one of the outstanding buffers (acquire_bnModExp_buffer), fill  *)
(* it with work requests (HE_QAT_bnModExp_MT), and wait for all of them    *)
(* before giving the buffer back (release_bnModExp_buffer).  The buffer    *)
(* manager thread (schedule_requests) moves requests from the outstanding  *)
(* buffers to the internal buffer he_qat_buffer; the processing thread     *)
(* (start_instances) throttles itself, reads the internal buffer and hands *)
(* the requests to the QAT instances round-robin; one polling thread per   *)
(* instance delivers the answers through HE_QAT_bnModExpCallback.          *)
(*                                                                         *)
(* A critical section under one mutex is one step.  The only section that  *)
(* is split is the scan of pull_outstanding_requests, which reads the      *)
(* count of every buffer WITHOUT that buffer's mutex: it is a step per     *)
(* index, during which outstanding.mutex is held.  A thread blocked in     *)
(* pthread_cond_wait has a control state ending in "_wait"; a signal moves *)
(* one such thread back to the test of its while loop.                     *)
(*                                                                         *)
(* The module describes a context that is acquired and has its threads     *)
(* running: starting and stopping it is the business of another module.    *)
(***************************************************************************)
EXTENDS Integers, FiniteSets, Sequences, Pthreads

CONSTANTS
    Clients,            \* threads that call the MT interface
    BufferCount,        \* HE_QAT_BUFFER_COUNT
    BufferSize,         \* HE_QAT_BUFFER_SIZE, of every request buffer
    Instances,          \* HE_QAT_NUM_ACTIVE_INSTANCES
    MaxPending,         \* max_pending
    RestartThreshold,   \* restart_threshold
    CounterModulus,     \* 2^64, the range of an unsigned long counter
    MaxBatch,           \* bound: requests a caller puts in a buffer
    MaxCalls,           \* bound: calls a caller makes ...
    Endless,            \* ... unless it is one of these callers
    Faults,             \* the failures that may happen, a subset of Fault
    NULL                \* the null pointer

Fault == {"alloc", "submit", "retry", "response", "spurious"}

ASSUME OffloadAssumption ==
    /\ IsFiniteSet(Clients)
    /\ BufferCount \in Nat \ {0}
    /\ BufferSize \in Nat \ {0}
    /\ Instances \in Nat \ {0}
    /\ MaxPending \in Nat \ {0}
    /\ RestartThreshold \in 1 .. MaxPending
    /\ CounterModulus \in Nat
    /\ MaxPending + 1 < CounterModulus
    /\ MaxBatch \in Nat \ {0}
    /\ MaxCalls \in Nat
    /\ Endless \subseteq Clients
    /\ Faults \subseteq Fault

Buffer == 0 .. BufferCount - 1
Slot == 0 .. BufferSize - 1
Instance == 0 .. Instances - 1

\* The requests of a caller's current batch, by position.  The memory of a
\* request is reused by the same position of the caller's next batch.
Request == Clients \X (0 .. MaxBatch - 1)

ASSUME NullAssumption == NULL \notin Request /\ NULL \notin Buffer

\* A HE_QAT_TaskRequest*.
Pointer == Request \cup {NULL}

\* HE_QAT_RequestBuffer without its synchronization objects.
RequestBuffer == [data           : [Slot -> Pointer],
                  count          : 0 .. BufferSize,
                  next_free_slot : Slot,
                  next_data_slot : Slot,
                  next_data_out  : Slot]

\* request_status: FREED is the state of memory that is not allocated; calloc
\* leaves a new request at 0, which is HE_QAT_STATUS_SUCCESS.
RequestStatus == {"FREED", "SUCCESS", "READY", "FAIL"}

VARIABLES
    \* the caller threads
    pc,                 \* where each caller is
    buffer_id,          \* the buffer it holds
    batch_size,         \* the requests it wants to put there
    j,                  \* its loop index, when submitting and when releasing
    calls,              \* how many calls it has begun (bounded by MaxCalls)
    \* outstanding, a HE_QAT_OutstandingBuffer
    busy_count, next_free_buffer, free_buffer, ready_buffer, buffer,
    \* the internal buffer: only its order and its capacity matter here
    he_qat_buffer,
    \* schedule_requests
    sched,              \* where it is
    index,              \* the buffer it looks at
    pulled,             \* its HE_QAT_TaskRequestList outstanding_requests
    \* start_instances
    runner,             \* where it is
    max_requests, next_instance,
    to_offload,         \* its HE_QAT_TaskRequestList outstanding_requests
    request_count, response_count,
    \* the accelerator, and its polling threads
    device,             \* accepted and unanswered: pairs <<instance, request>>
    callback,           \* the request whose callback an instance is running
    \* the request records
    request_status,
    op_output           \* whether the caller's output memory is written

clientVars == <<pc, buffer_id, batch_size, j, calls>>
reservationVars == <<busy_count, next_free_buffer, free_buffer, ready_buffer>>
schedVars == <<sched, index, pulled>>
runnerVars == <<runner, max_requests, next_instance, to_offload, request_count>>
deviceVars == <<device, callback, response_count>>
requestVars == <<request_status, op_output>>

vars == <<clientVars, reservationVars, buffer, he_qat_buffer, schedVars,
          runnerVars, deviceVars, requestVars>>

-----------------------------------------------------------------------------
(* Helpers.  A definition named Mut... is the one below it with a bug a    *)
(* programmer could make; it is not used: each shows that a property below *)
(* would notice that bug.                                                  *)

Smaller(a, b) == IF a < b THEN a ELSE b

\* Unsigned arithmetic on the two counters.
Increment(n) == IF n + 1 = CounterModulus THEN 0 ELSE n + 1
MutSignedDifference(m, n) == m - n
Difference(m, n) == IF n <= m THEN m - n ELSE m - n + CounterModulus

\* A cursor of a ring moves on by n slots.
MutNoWrapAdvance(slot, n) == slot + n
Advance(slot, n) == (slot + n) % BufferSize

At(state) == {c \in Clients : pc[c] = state}

\* The slot, and the request in it, that a releasing caller looks at.
MutOutSlotFromZero(c) == Advance(0, j[c])
OutSlot(c) == Advance(buffer[buffer_id[c]].next_data_out, j[c])
Task(c) == buffer[buffer_id[c]].data[OutSlot(c)]

EmptyBuffer == [data |-> [s \in Slot |-> NULL], count |-> 0,
                next_free_slot |-> 0, next_data_slot |-> 0, next_data_out |-> 0]

Init ==
    /\ pc = [c \in Clients |-> "idle"]
    /\ buffer_id = [c \in Clients |-> NULL]
    /\ batch_size = [c \in Clients |-> 0]
    /\ j = [c \in Clients |-> 0]
    /\ calls = [c \in Clients |-> 0]
    /\ busy_count = 0
    /\ next_free_buffer = 0
    /\ free_buffer = [b \in Buffer |-> TRUE]
    /\ ready_buffer = [b \in Buffer |-> FALSE]
    /\ buffer = [b \in Buffer |-> EmptyBuffer]
    /\ he_qat_buffer = <<>>
    /\ sched = "pull"
    /\ index = 0
    /\ pulled = <<>>
    /\ runner = "throttle"
    /\ max_requests = 0
    /\ next_instance = 0
    /\ to_offload = <<>>
    /\ request_count = 0
    /\ response_count = 0
    /\ device = {}
    /\ callback = [i \in Instance |-> NULL]
    /\ request_status = [r \in Request |-> "FREED"]
    /\ op_output = [r \in Request |-> FALSE]

-----------------------------------------------------------------------------
(* The caller: reserve a buffer.                                           *)

\* heQatBnModExp_MT starts on its next slice of work.
Call(c) ==
    /\ pc[c] = "idle"
    /\ c \in Endless \/ calls[c] < MaxCalls
    /\ calls' = IF c \in Endless THEN calls ELSE [calls EXCEPT ![c] = @ + 1]
    /\ \E n \in 1 .. MaxBatch : batch_size' = [batch_size EXCEPT ![c] = n]
    /\ pc' = [pc EXCEPT ![c] = "acquire"]
    /\ UNCHANGED <<buffer_id, j, reservationVars, buffer, he_qat_buffer,
                   schedVars, runnerVars, deviceVars, requestVars>>

\* The scheduler holds outstanding.mutex while it scans.
OutstandingLocked == sched = "scan"

\* A caller has to wait for a buffer.
MutOvercommits == busy_count > BufferCount
AllBusy == busy_count >= BufferCount

AcquireWaits(c) ==
    /\ pc[c] = "acquire"
    /\ ~OutstandingLocked
    /\ AllBusy
    /\ pc' = [pc EXCEPT ![c] = "acquire_wait"]
    /\ UNCHANGED <<buffer_id, batch_size, j, calls, reservationVars, buffer,
                   he_qat_buffer, schedVars, runnerVars, deviceVars, requestVars>>

\* The buffer the search from next_free_buffer settles on.  If it met no free
\* one, the caller's buffer_id would keep its initial value 0.
SelectsFree(b) ==
    \/ /\ free_buffer[b]
       /\ \E i \in Buffer :
             /\ b = (next_free_buffer + i) % BufferCount
             /\ \A k \in 0 .. i - 1 :
                   ~free_buffer[(next_free_buffer + k) % BufferCount]
    \/ b = 0 /\ \A x \in Buffer : ~free_buffer[x]

Acquire(c) ==
    /\ pc[c] = "acquire"
    /\ ~OutstandingLocked
    /\ ~AllBusy
    /\ \E b \in Buffer :
          /\ SelectsFree(b)
          /\ buffer_id' = [buffer_id EXCEPT ![c] = b]
          /\ next_free_buffer' = (b + 1) % BufferCount
          /\ free_buffer' = [free_buffer EXCEPT ![b] = FALSE]
          /\ ready_buffer' = [ready_buffer EXCEPT ![b] = TRUE]
    /\ busy_count' = busy_count + 1
    /\ pc' = [pc EXCEPT ![c] = "submit"]
    /\ j' = [j EXCEPT ![c] = 0]
    /\ sched' = Resume(sched, "pull_wait", "pull")
    /\ UNCHANGED <<batch_size, calls, buffer, he_qat_buffer, index, pulled,
                   runnerVars, deviceVars, requestVars>>

-----------------------------------------------------------------------------
(* The caller: submit the batch.                                           *)

\* After request j of the batch: the next one, or release_bnModExp_buffer.
NextRequest(c) ==
    IF j[c] + 1 < batch_size[c]
    THEN j' = [j EXCEPT ![c] = @ + 1] /\ pc' = [pc EXCEPT ![c] = "submit"]
    ELSE j' = [j EXCEPT ![c] = 0] /\ pc' = [pc EXCEPT ![c] = "release"]

SubmitWaits(c) ==
    /\ pc[c] = "submit"
    /\ buffer[buffer_id[c]].count >= BufferSize
    /\ pc' = [pc EXCEPT ![c] = "submit_wait"]
    /\ UNCHANGED <<buffer_id, batch_size, j, calls, reservationVars, buffer,
                   he_qat_buffer, schedVars, runnerVars, deviceVars, requestVars>>

\* HE_QAT_bnModExp_MT packs the request, and submit_request stores it.
Submit(c) ==
    LET r == <<c, j[c]>>
        b == buffer_id[c]
    IN  /\ pc[c] = "submit"
        /\ buffer[b].count < BufferSize
        /\ buffer' = [buffer EXCEPT
              ![b].data[buffer[b].next_free_slot] = r,
              ![b].next_free_slot = Advance(@, 1),
              ![b].count = @ + 1]
        /\ request_status' = [request_status EXCEPT ![r] = "SUCCESS"]
        /\ op_output' = [op_output EXCEPT ![r] = FALSE]
        /\ sched' = IF index = b THEN Resume(sched, "extract_wait", "extract") ELSE sched
        /\ NextRequest(c)
        /\ UNCHANGED <<buffer_id, batch_size, calls, reservationVars,
                       he_qat_buffer, index, pulled, runnerVars, deviceVars>>

\* An allocation fails: HE_QAT_bnModExp_MT returns HE_QAT_STATUS_FAIL, which its
\* caller only prints.
SubmitFails(c) ==
    /\ "alloc" \in Faults
    /\ pc[c] = "submit"
    /\ op_output' = [op_output EXCEPT ![<<c, j[c]>>] = FALSE]
    /\ NextRequest(c)
    /\ UNCHANGED <<buffer_id, batch_size, calls, reservationVars, buffer,
                   he_qat_buffer, schedVars, runnerVars, deviceVars, request_status>>

-----------------------------------------------------------------------------
(* The caller: wait for the batch in submission order, and release.  On a  *)
(* NULL slot the loop spins: no step is enabled until somebody fills it.   *)

MutUnlessFailed(c) == request_status[Task(c)] # "FAIL"
Ready(c) == request_status[Task(c)] = "READY"

ReleaseWaits(c) ==
    /\ pc[c] = "release"
    /\ j[c] < batch_size[c]
    /\ Task(c) # NULL
    /\ ~Ready(c)
    /\ pc' = [pc EXCEPT ![c] = "release_wait"]
    /\ UNCHANGED <<buffer_id, batch_size, j, calls, reservationVars, buffer,
                   he_qat_buffer, schedVars, runnerVars, deviceVars, requestVars>>

ReleaseTask(c) ==
    /\ pc[c] = "release"
    /\ j[c] < batch_size[c]
    /\ Task(c) # NULL
    /\ Ready(c)
    /\ request_status' = [request_status EXCEPT ![Task(c)] = "FREED"]
    /\ buffer' = [buffer EXCEPT ![buffer_id[c]].data[OutSlot(c)] = NULL]
    /\ j' = [j EXCEPT ![c] = @ + 1]
    /\ UNCHANGED <<pc, buffer_id, batch_size, calls, reservationVars, op_output,
                   he_qat_buffer, schedVars, runnerVars, deviceVars>>

\* Where the next batch put in this buffer is collected from.
MutNotSaved(c) == buffer[buffer_id[c]].next_data_out
NextBatchOut(c) == OutSlot(c)

\* Whom the release may wake.
MutNobody == {}
WaitingForBuffer == At("acquire_wait")

ReleaseBuffer(c) ==
    LET b == buffer_id[c]
    IN  /\ pc[c] = "release"
        /\ j[c] = batch_size[c]
        /\ ~OutstandingLocked
        /\ buffer' = [buffer EXCEPT ![b].next_data_out = NextBatchOut(c)]
        /\ next_free_buffer' = b
        /\ ready_buffer' = [ready_buffer EXCEPT ![b] = FALSE]
        /\ free_buffer' = [free_buffer EXCEPT ![b] = TRUE]
        /\ busy_count' = busy_count - 1
        /\ pc' \in Signal([pc EXCEPT ![c] = "idle"], WaitingForBuffer, "acquire")
        /\ buffer_id' = [buffer_id EXCEPT ![c] = NULL]
        /\ batch_size' = [batch_size EXCEPT ![c] = 0]
        /\ j' = [j EXCEPT ![c] = 0]
        /\ UNCHANGED <<calls, he_qat_buffer, schedVars, runnerVars, deviceVars,
                       requestVars>>

-----------------------------------------------------------------------------
(* The buffer manager thread, schedule_requests.                           *)

\* pull_outstanding_requests takes outstanding.mutex, to wait or to scan.
Pull ==
    /\ sched = "pull"
    /\ sched' = IF busy_count <= 0 THEN "pull_wait" ELSE "scan"
    /\ index' = 0
    /\ UNCHANGED <<clientVars, reservationVars, buffer, he_qat_buffer, pulled,
                   runnerVars, deviceVars, requestVars>>

\* The test of the scan.
MutInUse(b) == ready_buffer[b]
HasRequests(b) == ready_buffer[b] /\ buffer[b].count # 0

\* One turn of the scan.  It ends at the first buffer in use with requests, or,
\* after the last, with nothing pulled and nothing to submit.
Scan ==
    /\ sched = "scan"
    /\ \/ /\ HasRequests(index)
          /\ sched' = "extract"
          /\ index' = index
       \/ /\ ~HasRequests(index)
          /\ sched' = IF index + 1 < BufferCount THEN "scan" ELSE "pull"
          /\ index' = IF index + 1 < BufferCount THEN index + 1 ELSE 0
    /\ UNCHANGED <<clientVars, reservationVars, buffer, he_qat_buffer, pulled,
                   runnerVars, deviceVars, requestVars>>

\* The n requests from next_data_slot on.
MutLatestFirst(b, n) ==
    [k \in 1 .. n |-> buffer[b].data[Advance(buffer[b].next_data_slot, n - k)]]
Stored(b, n) ==
    [k \in 1 .. n |-> buffer[b].data[Advance(buffer[b].next_data_slot, k - 1)]]

Extract ==
    LET n == Smaller(buffer[index].count, BufferSize)
    IN  /\ sched = "extract"
        /\ IF buffer[index].count <= 0
           THEN sched' = "extract_wait" /\ UNCHANGED <<pulled, buffer, pc>>
           ELSE /\ pulled' = Stored(index, n)
                /\ buffer' = [buffer EXCEPT ![index].count = @ - n,
                                            ![index].next_data_slot = Advance(@, n)]
                /\ pc' \in Signal(pc, {c \in At("submit_wait") : buffer_id[c] = index}, "submit")
                /\ sched' = "forward"
        /\ UNCHANGED <<buffer_id, batch_size, j, calls, reservationVars,
                       he_qat_buffer, index, runnerVars, deviceVars, requestVars>>

\* submit_request_list, which waits until the whole list fits.
MutListFitsStrictly == BufferSize - Len(he_qat_buffer) > Len(pulled)
ListFits == /\ Len(he_qat_buffer) < BufferSize
            /\ BufferSize - Len(he_qat_buffer) >= Len(pulled)

ForwardWaits ==
    /\ sched = "forward"
    /\ pulled # <<>> /\ ~ListFits
    /\ sched' = "forward_wait"
    /\ UNCHANGED <<clientVars, reservationVars, buffer, he_qat_buffer, index,
                   pulled, runnerVars, deviceVars, requestVars>>

Forward ==
    /\ sched = "forward"
    /\ pulled = <<>> \/ ListFits
    /\ he_qat_buffer' = he_qat_buffer \o pulled
    /\ runner' = IF pulled = <<>> THEN runner ELSE Resume(runner, "read_wait", "read")
    /\ pulled' = <<>>
    /\ sched' = "pull"
    /\ UNCHANGED <<clientVars, reservationVars, buffer, index, max_requests,
                   next_instance, to_offload, request_count, deviceVars, requestVars>>

-----------------------------------------------------------------------------
(* The processing thread, start_instances.                                 *)

\* How many more requests the throttle lets through now.
MutIgnoresPending == MaxPending
Available ==
    MaxPending - Smaller(Difference(request_count, response_count), MaxPending)

\* The thread sleeps and looks again until this holds.
MutStrictThreshold == Available > RestartThreshold
Unthrottled == Available >= RestartThreshold

Throttle ==
    /\ runner = "throttle"
    /\ Unthrottled
    /\ max_requests' = Available
    /\ runner' = "read"
    /\ UNCHANGED <<clientVars, reservationVars, buffer, he_qat_buffer, schedVars,
                   next_instance, to_offload, request_count, deviceVars, requestVars>>

ReadWaits ==
    /\ runner = "read"
    /\ he_qat_buffer = <<>>
    /\ runner' = "read_wait"
    /\ UNCHANGED <<clientVars, reservationVars, buffer, he_qat_buffer, schedVars,
                   max_requests, next_instance, to_offload, request_count,
                   deviceVars, requestVars>>

\* read_request_list.
Read ==
    LET n == Smaller(Len(he_qat_buffer), max_requests)
    IN  /\ runner = "read"
        /\ he_qat_buffer # <<>>
        /\ to_offload' = SubSeq(he_qat_buffer, 1, n)
        /\ he_qat_buffer' = SubSeq(he_qat_buffer, n + 1, Len(he_qat_buffer))
        /\ runner' = IF n = 0 THEN "throttle" ELSE "offload"
        /\ sched' = Resume(sched, "forward_wait", "forward")
        /\ UNCHANGED <<clientVars, reservationVars, buffer, index, pulled, max_requests,
                       next_instance, request_count, deviceVars, requestVars>>

\* After one request of the list: the next, or a new turn of the outer loop.
MutSameAgain == to_offload' = to_offload /\ runner' = "offload"
NextOffload ==
    /\ to_offload' = Tail(to_offload)
    /\ runner' = IF Tail(to_offload) = <<>> THEN "throttle" ELSE "offload"

\* cpaCyLnModExp accepts the request; from here on its answer may arrive.
Offload ==
    /\ runner = "offload"
    /\ device' = device \cup {<<next_instance, Head(to_offload)>>}
    /\ runner' = "count"
    /\ UNCHANGED <<clientVars, reservationVars, buffer, he_qat_buffer, schedVars,
                   max_requests, next_instance, to_offload, request_count,
                   callback, response_count, requestVars>>

CountRequest ==
    /\ runner = "count"
    /\ request_count' = Increment(request_count)
    /\ next_instance' = (next_instance + 1) % Instances
    /\ NextOffload
    /\ UNCHANGED <<clientVars, reservationVars, buffer, he_qat_buffer, schedVars,
                   max_requests, deviceVars, requestVars>>

\* Any status other than success and retry: nobody is told.
OffloadFails ==
    /\ "submit" \in Faults
    /\ runner = "offload"
    /\ request_status' = [request_status EXCEPT ![Head(to_offload)] = "FAIL"]
    /\ NextOffload
    /\ UNCHANGED <<clientVars, reservationVars, buffer, he_qat_buffer, schedVars,
                   max_requests, next_instance, request_count, deviceVars, op_output>>

\* CPA_STATUS_RETRY: pthread_exit before the retry loop can turn.
OffloadRetry ==
    /\ "retry" \in Faults
    /\ runner = "offload"
    /\ runner' = "exited"
    /\ UNCHANGED <<clientVars, reservationVars, buffer, he_qat_buffer, schedVars,
                   max_requests, next_instance, to_offload, request_count,
                   deviceVars, requestVars>>

-----------------------------------------------------------------------------
(* The polling thread of an instance, in HE_QAT_bnModExpCallback.  The     *)
(* accelerator answers in any order.                                       *)

\* The callback starts, and counts the response under response_mutex.
Respond(i) ==
    /\ callback[i] = NULL
    /\ \E r \in Request :
          /\ <<i, r>> \in device
          /\ device' = device \ {<<i, r>>}
          /\ callback' = [callback EXCEPT ![i] = r]
    /\ response_count' = Increment(response_count)
    /\ UNCHANGED <<clientVars, reservationVars, buffer, he_qat_buffer, schedVars,
                   runnerVars, requestVars>>

\* Under the request's mutex: publish the result if there is one, and signal.
Complete(i) ==
    LET r == callback[i]
    IN  /\ r # NULL
        /\ \/ /\ request_status' = [request_status EXCEPT ![r] = "READY"]
              /\ op_output' = [op_output EXCEPT ![r] = TRUE]
           \/ "response" \in Faults /\ UNCHANGED requestVars
        /\ callback' = [callback EXCEPT ![i] = NULL]
        /\ pc' \in Signal(pc, {c \in At("release_wait") : Task(c) = r}, "release")
        /\ UNCHANGED <<buffer_id, batch_size, j, calls, reservationVars, buffer,
                       he_qat_buffer, schedVars, runnerVars, device, response_count>>

-----------------------------------------------------------------------------
(* POSIX lets pthread_cond_wait return without a signal.                   *)

SpuriousClient(c) ==
    /\ "spurious" \in Faults
    /\ \/ pc[c] = "acquire_wait" /\ pc' = [pc EXCEPT ![c] = "acquire"]
       \/ pc[c] = "submit_wait" /\ pc' = [pc EXCEPT ![c] = "submit"]
       \/ pc[c] = "release_wait" /\ pc' = [pc EXCEPT ![c] = "release"]
    /\ UNCHANGED <<buffer_id, batch_size, j, calls, reservationVars, buffer,
                   he_qat_buffer, schedVars, runnerVars, deviceVars, requestVars>>

SpuriousThread ==
    /\ "spurious" \in Faults
    /\ \/ sched = "pull_wait" /\ sched' = "pull" /\ runner' = runner
       \/ sched = "extract_wait" /\ sched' = "extract" /\ runner' = runner
       \/ sched = "forward_wait" /\ sched' = "forward" /\ runner' = runner
       \/ runner = "read_wait" /\ runner' = "read" /\ sched' = sched
    /\ UNCHANGED <<clientVars, reservationVars, buffer, he_qat_buffer, index,
                   pulled, max_requests, next_instance, to_offload,
                   request_count, deviceVars, requestVars>>

-----------------------------------------------------------------------------
ClientStep(c) ==
    \/ AcquireWaits(c) \/ Acquire(c)
    \/ SubmitWaits(c) \/ Submit(c) \/ SubmitFails(c)
    \/ ReleaseWaits(c) \/ ReleaseTask(c) \/ ReleaseBuffer(c)

SchedulerStep == Pull \/ Scan \/ Extract \/ ForwardWaits \/ Forward

RunnerStep ==
    \/ Throttle \/ ReadWaits \/ Read
    \/ Offload \/ CountRequest \/ OffloadFails \/ OffloadRetry

PollingStep(i) == Respond(i) \/ Complete(i)

Next ==
    \/ \E c \in Clients : Call(c) \/ ClientStep(c) \/ SpuriousClient(c)
    \/ SchedulerStep
    \/ RunnerStep
    \/ \E i \in Instance : PollingStep(i)
    \/ SpuriousThread

Spec == Init /\ [][Next]_vars

\* Every thread keeps running and the accelerator keeps answering.  A caller that
\* wants outstanding.mutex gets it in the end although the scheduler, which spins
\* while a buffer is busy, takes it again and again (strong fairness: the steps
\* are disabled during each scan).  Nothing obliges a caller to call again.
Fairness ==
    /\ \A c \in Clients :
          WF_vars(ClientStep(c)) /\ SF_vars(AcquireWaits(c) \/ Acquire(c) \/ ReleaseBuffer(c))
    /\ WF_vars(SchedulerStep)
    /\ WF_vars(RunnerStep)
    /\ \A i \in Instance : WF_vars(PollingStep(i))

FairSpec == Spec /\ Fairness

-----------------------------------------------------------------------------
(* Properties.                                                             *)

Holders == {c \in Clients : pc[c] \in {"submit", "submit_wait", "release", "release_wait"}}

ClientTypeOK ==
    /\ pc \in [Clients -> {"idle", "acquire", "acquire_wait", "submit",
                           "submit_wait", "release", "release_wait"}]
    /\ buffer_id \in [Clients -> Buffer \cup {NULL}]
    /\ batch_size \in [Clients -> 0 .. MaxBatch]
    /\ j \in [Clients -> 0 .. MaxBatch]
    /\ calls \in [Clients -> 0 .. MaxCalls]

ReservationTypeOK ==
    /\ busy_count \in Nat
    /\ next_free_buffer \in Buffer
    /\ free_buffer \in [Buffer -> BOOLEAN]
    /\ ready_buffer \in [Buffer -> BOOLEAN]

SchedulerTypeOK ==
    /\ sched \in {"pull", "pull_wait", "scan", "extract", "extract_wait",
                  "forward", "forward_wait"}
    /\ index \in Buffer
    /\ pulled \in Seq(Pointer)

RunnerTypeOK ==
    /\ runner \in {"throttle", "read", "read_wait", "offload", "count", "exited"}
    /\ max_requests \in 0 .. MaxPending
    /\ next_instance \in Instance
    /\ to_offload \in Seq(Pointer)
    /\ request_count \in 0 .. CounterModulus - 1

DeviceTypeOK ==
    /\ device \subseteq Instance \X Pointer
    /\ callback \in [Instance -> Pointer]
    /\ response_count \in 0 .. CounterModulus - 1

\* Every variable stays in the set of values that its C declaration and the
\* code assigning it allow: cursors inside their rings, counts inside their
\* capacity, counters inside their width.
TypeOK ==
    /\ ClientTypeOK
    /\ ReservationTypeOK
    /\ buffer \in [Buffer -> RequestBuffer]
    /\ he_qat_buffer \in Seq(Pointer) /\ Len(he_qat_buffer) <= BufferSize
    /\ SchedulerTypeOK
    /\ RunnerTypeOK
    /\ DeviceTypeOK
    /\ request_status \in [Request -> RequestStatus]
    /\ op_output \in [Request -> BOOLEAN]

\* A buffer is reserved for one caller at a time, the flags and the count of
\* outstanding agree with who holds what, and busy_count never passes the
\* number of buffers: acquire_bnModExp_buffer and release_bnModExp_buffer
\* update four fields that the rest of the code reads separately.
BufferExclusive ==
    /\ \A c \in Holders : buffer_id[c] \in Buffer /\ ~free_buffer[buffer_id[c]]
    /\ \A c, d \in Holders : buffer_id[c] = buffer_id[d] => c = d
    /\ \A b \in Buffer : ~free_buffer[b] => \E c \in Holders : buffer_id[c] = b
    /\ \A b \in Buffer : ready_buffer[b] = ~free_buffer[b]
    /\ busy_count = Cardinality(Holders)

\* A caller has a batch from Call to ReleaseBuffer, and its loop index is a
\* position of the batch as long as it submits.
LoopsOK ==
    \A c \in Clients :
        /\ pc[c] \in {"acquire", "acquire_wait"} => batch_size[c] > 0
        /\ pc[c] \in {"submit", "submit_wait"} => j[c] < batch_size[c]
        /\ pc[c] \in {"release", "release_wait"} => j[c] <= batch_size[c]

\* The processing thread asks for at least one request, and has one when it
\* offloads.
ListsOK ==
    /\ runner \in {"read", "read_wait"} => max_requests > 0
    /\ runner \in {"offload", "count"} => to_offload # <<>>

\* The requests accepted by the accelerator and not answered, by the counters;
\* and the requests the throttle still lets through without another look.
Owed ==
    IF runner = "count" THEN Difference(Increment(request_count), response_count)
                        ELSE Difference(request_count, response_count)

Promised ==
    CASE runner \in {"read", "read_wait"} -> max_requests
      [] runner = "offload" -> Len(to_offload)
      [] runner = "count" -> Len(to_offload) - 1
      [] OTHER -> 0

\* What the throttle saw stays good while it waits and offloads: the counters
\* never underrate the load of the accelerator, and together with the requests
\* that are on their way it is at most max_pending.
ThrottleOK ==
    /\ Cardinality(device) <= Owed
    /\ Owed + Promised <= MaxPending

\* A buffer that is offered to the next caller carries nothing over from the
\* previous one: no request is queued or uncollected, and the three cursors of
\* the ring meet, so that the next batch is collected where it was stored.
FreeBufferClean ==
    \A b \in Buffer : free_buffer[b] =>
        /\ buffer[b].count = 0
        /\ \A s \in Slot : buffer[b].data[s] = NULL
        /\ buffer[b].next_free_slot = buffer[b].next_data_slot
        /\ buffer[b].next_data_slot = buffer[b].next_data_out

\* No wakeup is lost on any_free_buffer: release_bnModExp_buffer signals one
\* waiter per release, so if a caller waits, every buffer is held or there is a
\* caller on its way that was woken, or that came, for each one that is not.
NoLostFreeBuffer ==
    At("acquire_wait") # {} => busy_count + Cardinality(At("acquire")) >= BufferCount

\* What the proofs carry from step to step: the strengthening by which types,
\* reservation, wakeups and throttle hold together, whatever fails.
IInv ==
    /\ TypeOK
    /\ LoopsOK
    /\ ListsOK
    /\ BufferExclusive
    /\ ThrottleOK
    /\ NoLostFreeBuffer

\* The accelerator never holds more than max_pending unanswered requests,
\* although the throttle reads response_count without its mutex, before it
\* blocks for new requests, and counts a request after handing it over.
InFlightBounded == Cardinality(device) <= MaxPending

\* The wait in the second half of pull_outstanding_requests is never entered:
\* between dropping outstanding.mutex and taking the buffer's mutex nobody can
\* empty or release the buffer ("This conditional waiting may not be required").
ChosenBufferHasData ==
    /\ sched # "extract_wait"
    /\ sched = "extract" => ready_buffer[index] /\ buffer[index].count > 0

\* The requests in an outstanding buffer that the scheduler has not taken.
Queued(b) == Stored(b, buffer[b].count)

\* On its way through the threads, in order: what to_offload, the element that is
\* already on the device left out, the internal buffer and the list of the
\* scheduler hold.
Unsent == IF runner = "count" THEN Tail(to_offload) ELSE to_offload
Line == Unsent \o he_qat_buffer \o pulled

\* Where a request is found: queued in an outstanding buffer, in the line, on the
\* device, or in a callback.
Places(r) ==
    {p \in {"queue"} \X Buffer \X (1 .. BufferSize) :
        p[3] <= buffer[p[2]].count /\ Queued(p[2])[p[3]] = r}
    \cup {p \in {"line"} \X {0} \X DOMAIN Line : Line[p[3]] = r}
    \cup {p \in {"device"} \X Instance \X {0} : <<p[2], r>> \in device}
    \cup {p \in {"callback"} \X Instance \X {0} : callback[p[2]] = r}

\* A request in the state SUCCESS is in exactly one place of the pipeline, and
\* one that is READY, failed or freed is in none: it is offloaded once, answered
\* once, and no thread keeps a pointer to memory that its caller frees.  When
\* the device may fail, a request can get lost, but never appear twice.
RequestInOnePlace ==
    \A r \in Request : LET places == Places(r) IN
        /\ \A p, q \in places : p = q
        /\ request_status[r] # "SUCCESS" => places = {}
        /\ request_status[r] = "SUCCESS" /\ "response" \notin Faults => places # {}

\* From the accelerator back to the caller's buffer.
Pipeline(c) == Line \o IF c \in Holders THEN Queued(buffer_id[c]) ELSE <<>>

\* The requests of a batch are offloaded in the order they were submitted in,
\* which is the order release_bnModExp_buffer waits for them, through three
\* lists and two rings.
OffloadInOrder ==
    \A c \in Clients : LET line == Pipeline(c) IN
        \A k, l \in DOMAIN line :
            k < l /\ line[k][1] = c /\ line[l][1] = c => line[k][2] < line[l][2]

\* No request is stored over another one that its caller has yet to collect:
\* submit_request only looks at count, which drops when the scheduler takes a
\* request, while the slot is in use until release_bnModExp_buffer clears it.
SlotNotOverwritten ==
    [][\A b \in Buffer, s \in Slot :
          buffer[b].data[s] # NULL => buffer'[b].data[s] \in {buffer[b].data[s], NULL}]_vars

\* Every call returns: the caller gets a buffer, its requests reach the
\* accelerator past the throttle, and their answers reach the caller.
CallReturns == \A c \in Clients : pc[c] = "acquire" ~> pc[c] = "idle"

\* Once there is work for it, the processing thread gets to offload, however the
\* throttle of start_instances, the waits and the signals interleave.
WorkIsOffloaded == he_qat_buffer # <<>> ~> runner = "offload"

\* bnops.h says of release_bnModExp_buffer that it waits for the processing to
\* complete and releases the buffer.
ReleaseReturns == \A c \in Clients : pc[c] = "release" ~> pc[c] = "idle"

\* ctrl.c says of the choice of the buffer to pull from "ensure fairness": the
\* requests of every buffer in use are taken in the end.
EveryBufferServed ==
    \A b \in Buffer : ready_buffer[b] /\ buffer[b].count > 0 ~> buffer[b].count = 0

=============================================================================
