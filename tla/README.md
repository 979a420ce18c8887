# A TLA+ model of the Intel Paillier Cryptosystem Library

This directory specifies the library in TLA+, from its concurrent core to the
operations on keys and ciphertexts: modules translated from the source, TLC
configurations that check them on small instances, and theorems that TLAPS
proves for every size. Paths are relative to the repository; `heqat/` stands for
`module/heqat/heqat/`.

## 1. The system

| Part | State | Operations | Hard because |
|---|---|---|---|
| **Multi-threaded offload path** (`heqat/bnops.c`, `heqat/ctrl.c`, `heqat/cb.c`) | 8 outstanding buffers (rings with three cursors), the flags and counts of their reservation, the internal buffer, two request lists, two global counters | `acquire_bnModExp_buffer`, `HE_QAT_bnModExp_MT`, `release_bnModExp_buffer`; the threads `schedule_requests`, `start_instances`, `start_inst_polling`; `HE_QAT_bnModExpCallback` | caller threads, a buffer manager, a processing thread and one polling thread per instance share rings under seven kinds of mutex and condition variable; two reads are made outside the lock that protects what they read |
| **Context life cycle** (`heqat/context.c`, `heqat/ctrl.c`) | `context_state`, `he_qat_config`, the `active`/`polling`/`running` flags of every instance | `acquire_qat_devices`, `release_qat_devices`, `stop_instances`, thread start and exit | threads are detached, told to stop through flags, and may be blocked when told |
| **Single-threaded interface** (`heqat/bnops.c`) | the internal buffer, the static cursor `block_at_index` | `HE_QAT_bnModExp`, `HE_QAT_BIGNUMModExp`, the barrier `getBnModExpRequest` | the cursor outlives a restart; the barrier reads the ring without a lock; in the synchronous build the request carries the semaphore its own thread waits on |
| **Legacy processing** (`start_perform_op`) | retries of a request | `perform_op` | the context no longer starts it |
| **Modular exponentiation** (`ipcl/mod_exp.cpp`, `ipcl/utils/util.cpp`) | a ratio and a mode per thread | `modExp`: a vector is split between QAT and IPP, and each part into slices or chunks | boundary arithmetic, a product in single precision, threads writing to vectors on the stack of their caller, exceptions in threads |
| **Runtime context** (`ipcl/utils/context.cpp`) | whether QAT is in use | `initializeContext`, `terminateContext` | drives the life cycle above |
| **Keys** (`ipcl/keygen.cpp`, `pub_key.cpp`, `pri_key.cpp`) | the numbers of a key, DJN, test vectors, precomputed inverses | key generation, construction, `enableDJN`, `setDJN`, encryption, RAW and CRT decryption, `save`, `load` | keys come about in five ways that must agree; statuses of the arithmetic are ignored |
| **Ciphertexts and plaintexts** (`ipcl/ciphertext.cpp`, `plaintext.cpp`, `base_text.cpp`) | a vector, its size, a shared pointer to a key | `+`, `*`, rotate, insert, remove, chunks, assignment, `save`, `load` | index arithmetic at the ends; key objects are shared by assignment and overwritten by `load` |
| **Big numbers** (`ipcl/bignum.cpp`) | a number | arithmetic | signs, ignored statuses |
| Conversions, formats of archives, CPU detection, builds, tests | data | - | left out, see section 11 |

How the parts interact: the operations on ciphertexts and keys call
`ipcl::modExp`, which runs a part of its vector on the cores, with OpenMP, and a part
through `heQatBnModExp_MT`, which for every slice of its work reserves a
buffer, calls `HE_QAT_bnModExp_MT` once per element and then
`release_bnModExp_buffer`, which blocks until every answer is there. The buffer
manager moves requests from the reserved buffers to the internal buffer, the
processing thread moves them from there to the instances, the polling threads run
the callback, and the callback wakes the caller. Everything between is shared
memory; there are no messages. The runtime context starts and stops all of this
through `acquire_qat_devices` and `release_qat_devices`.

What makes each part correct:

* Offload path: a buffer has one owner; a request is offloaded and answered once,
  its memory is not reused while a thread still points to it; a slot is not
  overwritten before it is collected; the accelerator is never overloaded; no
  wakeup is lost, every call returns, and the results are all there when it does.
* Life cycle: at most one set of threads serves the context; a release returns
  and stops what was started; a second acquire changes nothing.
* Single-threaded interface: the barrier returns, after the last request and not before.
* Modular exponentiation: every element is computed, at its index; no thread outlives its
  call; a thread's ratio is its own.
* Paillier: decryption inverts encryption, both decryptions agree, the operations on
  ciphertexts do to the messages what their names say, and nothing done to one ciphertext
  changes another.

## 2. Plan

| # | Module | Composes | Abstract specification | Theorems | Status |
|---|---|---|---|---|---|
| 1 | `HeQatOffload` | callers, rings, reservation, scheduler, throttle, callbacks | `OffloadService` | types, reservation, wakeups, load bound, the pipeline (`RequestInOnePlace`, `OffloadInOrder`, `FreeBufferClean`, `ChosenBufferHasData`, `SlotNotOverwritten`), the refinement `ImplementsService` | built; every safety property proved |
| 2 | `HeQatContext` | life cycle with the threads' start and exit | - | types, `RunningHasManager`, `ReleasedMeansStopped`, `ActiveMeansStarted`, `InstanceStartedOnce` | built; every safety property that holds proved |
| 3 | `HeQatBarrier` | the single-threaded interface, both processing threads, both builds | stated as properties of the barrier | types, `BarrierCovers`, `CursorsMeet`, `RequestAlive`, `OneAtATime`, `SlotCollected` | built; every safety property proved |
| 4 | `HybridModExp` | `modExp`, slices, chunks, ratio and mode, runtime context | a function applied to each element | types, `ResultsInPlace`, `NothingLeftRunning`, `OwnChoiceHolds`, `RuntimeAcquiresInactive` | built; every safety property proved |
| 5 | `Paillier` over `PaillierKeys`, `BaseText`, `BigNumber` | keys, encryption, decryption, containers, archives | `VectorService` | types, sizes and shared key objects, `PrivateKeySound`, `ObfuscatorsAreSound`, the meaning of the operations, `DecryptionsAgree`, the refinement `ImplementsVectors` | built; every safety property proved, arithmetic included |

The order is by consequence: an error in 1, 2 or 3 corrupts memory or hangs a
process, and no unit test reaches it; what 4 and 5 get wrong is a wrong result.

## 3. Modules

| Module | Models |
|---|---|
| `HeQatOffload` | the offload path (section 4) |
| `OffloadService` | what `heqat/include/heqat/bnops.h` promises a caller, without threads: sessions that are opened (as many as there is room for), filled in order, answered in any order and closed only when every result is written |
| `OffloadRefinement` | the mapping from `HeQatOffload` to `OffloadService` |
| `MCHeQatOffload` | what only TLC needs (symmetry of the callers) |
| `HeQatOffload_proofs` | proofs: types, reservation, wakeups, throttle |
| `HeQatPipeline_proofs` | proofs: rings, slots, lists and requests |
| `OffloadRefinement_proofs` | the proof that `HeQatOffload` implements `OffloadService` |
| `Pthreads` | condition variables |
| `HeQatContext`, `HeQatContext_proofs` | the life cycle of the context (section 5), and its proofs |
| `HeQatBarrier`, `HeQatBarrier_proofs` | the single-threaded interface (section 6), and its proofs |
| `HybridModExp`, `HybridModExp_proofs` | `modExp` and the runtime context (section 7), and its proofs |
| `BigNumber` | arithmetic of the cryptosystem (section 8) |
| `BaseText` | the container under the texts |
| `PaillierKeys`, `PaillierKeys_proofs` | keys as values, and what they compute; the arithmetic of it proved |
| `Paillier`, `Paillier_proofs`, `MCPaillier` | the user's objects and operations on them; the proofs about them; the primes and plaintexts TLC uses |
| `VectorService` | what the cryptosystem promises: vectors of residues |

In every module the `Mut...` operators are not part of the model. Each is the definition
below it with a bug a programmer could make, and the property it is listed with in
`PROJECT.json` was seen to fail with it.

## 4. `HeQatOffload`: correspondence with the code

| Variables | In the code |
|---|---|
| `pc`, `buffer_id`, `batch_size`, `j` | a caller's position in `heQatBnModExp_MT` / `acquire...` / `release_bnModExp_buffer` and its locals |
| `busy_count`, `next_free_buffer`, `free_buffer`, `ready_buffer`, `buffer` | the global `outstanding`; each `buffer[b]` has `data`, `count` and the cursors `next_free_slot`, `next_data_slot`, `next_data_out` |
| `he_qat_buffer` | the internal buffer; with one producer and one consumer in the multi-threaded interface only its order and capacity matter, so it is a sequence |
| `sched`, `index`, `pulled` | `schedule_requests` and its `HE_QAT_TaskRequestList` |
| `runner`, `max_requests`, `next_instance`, `to_offload`, `request_count` | `start_instances` |
| `response_count`, `callback`, `device` | the callbacks, and what the accelerator holds |
| `request_status`, `op_output` | the request records and the caller's result memory |

`next_ready_buffer` is not modelled: the code overwrites what it reads from it
(`ctrl.c:213-215`).

**Grain.** A critical section is one step, named after what it does (`Acquire`,
`Submit`, `Extract`, `Forward`, `Read`, ...). It is exact because everything a
section touches is protected by its mutex, with these exceptions, which are modelled:
* `pull_outstanding_requests` reads the `count` of every buffer while it holds
  only `outstanding.mutex` (`ctrl.c:216`): `Scan` is a step per index, and the
  callers that need that mutex are held off meanwhile (`OutstandingLocked`).
* The throttle reads `response_count` without `response_mutex`, and the count of
  a request follows its submission: `Throttle`, `Read`, `Offload` and
  `CountRequest` are separate steps, with answers arriving in between.
* `release_bnModExp_buffer` reads and writes `data` without the buffer's mutex; a
  step per request, and the read of a slot and of its request's status are one step
  because the slot belongs to the caller.

**Condition variables.** A thread in `pthread_cond_wait` is in a state ending in
`_wait`. A signal moves one of the waiters back to the test of its `while` loop
(`Signal`, `Resume`); a spurious wakeup does the same unasked (`SpuriousClient`,
`SpuriousThread`). The wait and the signal are separate steps of separate
threads, so a lost wakeup would show.

**Reuse.** A request's memory is identified by caller and position, so the next
batch of the caller reuses it: a stale pointer to a freed request would be
found pointing to a new one (`RequestInOnePlace`).

**Failures** are chosen by `Faults`: `alloc` (an allocation fails in
`HE_QAT_bnModExp_MT`, which its caller only prints), `submit` (`cpaCyLnModExp`
fails: status FAIL, nobody is signalled), `retry` (the processing thread exits),
`response` (the callback is given a failure: it signals without READY), `spurious`.
A caller that finds its next slot NULL spins (`bnops.c:470`), which is the
absence of a step.

## 5. `HeQatContext`: correspondence with the code

| Variables | In the code |
|---|---|
| `app`, `stop_index` | the application in `acquire_qat_devices`, `release_qat_devices`, `stop_perform_op` (and its `i`), or between them |
| `context_state`, `config` | the state, and the latest `he_qat_config` by number |
| `active`, `polling`, `status` | the members of `he_qat_inst_config[i]`; one array for all configurations |
| `running` | `running` of each configuration, which keeps its own |
| `runner`, `start_index`, `scheduler`, `poller` | the threads each configuration started: `start_instances` (and its `j`), `schedule_requests`, `start_inst_polling` |
| `next_instance` | the static variable of `start_instances` |
| `started`, `request` | external: what the driver has started, and where the application's request is |

The members `he_qat_config->active` and `inst_config[i].running` decide nothing
and are left out. `context_lock` is held throughout an acquire or a release, so
one application thread makes these calls; it makes a request only between the
two and waits for the answer. What the functions share with the threads they
start and stop is accessed without that lock: `Initialize` and `Launch`, `Release`,
`StopWaits`, `StopInstance` and `Deactivate` are the pieces between which those
threads can run. Initialisation before the processing thread exists is one step,
since only threads of an earlier configuration can see it in parts, and what
they could see then is that a condition variable they wait on is replaced: they
may or may not wake again (`StartBlocked`, `PullBlocked`).

Only one wait has a state, that of `stop_perform_op` for `active`: the others
are guards, because `HeQatOffload` covers their signals or nobody signals them.

## 6. `HeQatBarrier`: correspondence with the code

| Variables | In the code |
|---|---|
| `legacy`, `synchronous` | which thread processes (`start_instances` or `start_perform_op`), and whether the build has `HE_QAT_SYNC_MODE`; any combination, chosen at the start |
| `app`, `call`, `worksize`, `slice`, `element`, `j` | the caller in `heQatBnModExp` (`slice`, `element`) and in `getBnModExpRequest` (`j`) |
| `block_at_index` | the static cursor of the barrier |
| `he_qat_buffer` | the ring itself, with its slots: the barrier looks at them after `read_request_list` has read them and lowered `count` |
| `runner`, `max_requests`, `to_offload`, `retry`, `request_count` | the processing thread; `lost` is a thread blocked on a semaphore whose memory was freed |
| `device`, `response_count`, `callback` | the accelerator, and the callbacks between their count, their publication of the result and `COMPLETE` |
| `request_status`, `semaphore`, `op_output` | the request records (FREED once the barrier frees them), the semaphore inside them, the caller's result memory |

The steps are the critical sections; each turn of the barrier's loop is a step, since
it takes no lock of the ring. A NULL slot takes a turn, because `continue` evaluates
`++j < batch_size` too (`SkipNull`). The callback publishes under the request's mutex
and completes after it, so the barrier may free the request in between: in the
synchronous build the processing thread and the callback may then use freed memory,
and what they find there is any of the outcomes it can have (`WaitFreed`, `Post`).
`RequestAlive` shows that the asynchronous build has no such step.

`Restart` is a release and an acquire with nothing outstanding: the ring starts from slot
0 again, `block_at_index` does not. `skewed` remembers that it was elsewhere at
that moment. From then on the barrier may look at slots it has no request in and return early;
`BarrierCovers`, `CursorsMeet` and `SlotCollected` are claimed up to that moment, `BarrierReturns`
and `RequestAlive` after it as well.

Failures: an allocation (the caller prints a message and goes on), a rejected submission,
`CPA_STATUS_RETRY` (`start_perform_op` sleeps and tries `HE_QAT_MAX_RETRY` times,
`start_instances` exits), a failed answer.

## 7. `HybridModExp`: correspondence with the code

| Variables | In the code |
|---|---|
| `hybrid`, `chosen` | `g_hybrid_params` of each thread (`thread_local`); what that thread has asked for last, to compare with |
| `isUsingQAT`, `context_state` | `utils/context.cpp`, and the state that `acquire_qat_devices` and the buffer manager write |
| `stage`, `job` | a call of `modExp` and its numbers: `v_size`, ratio, `hybrid_qat_size` |
| `qat_thread`, `slice`, `qat_res` | the thread that runs `heQatBnModExp_MT` for the first part, or the caller itself if that is all |
| `chunk`, `ipp_res` | the OpenMP team of `ippMBModExpWrapper` or `ippSBModExpWrapper` for the rest |
| `res` | the vector that is returned |
| `chunk_size`, `max_threads` | of the machine: with or without AVX512-IFMA, and `OMPUtilities::MaxThreads`, which is 0 where `/proc/cpuinfo` could not be read |

An exponentiation is its index, so "the right result" is "the index itself". `QatSizes` is
the product of ratio and size in single precision, cut off to an integer: one less than
the exact product where that is whole and the ratio has no exact representation.
`encrypt`, `decrypt` and `*` set the ratio in mode OPTIMAL, and only there (`Operate`).
An exception that leaves a thread or a parallel region ends the process (`Terminate`);
one that reaches the caller is thrown (`Leave`). QAT work needs the devices: a caller who
asks for it without a context is left out, as `example/README.md` says.

## 8. `Paillier` and the modules under it: correspondence with the code

`PaillierKeys` has keys as records with the members' names, and an operator for every function
that computes; a random number is a set of results. `Paillier` has the user's objects and an
action for every operation of the interface.

* *Arithmetic is real*, over small primes: TLC multiplies, inverts and exponentiates. `InverseMul` leaves
  its modulus behind when there is no inverse, as the code does, which ignores the status.
* *Ciphertexts* hold a shared pointer to a key object; `sharers` has the objects, each as the set of
  ciphertexts that point to it. Constructors and operations make a new object, assignment shares it, and
  `load` writes the key from the archive into it, for all who share it (`LoadCipherText`).
* *A failed check* (`ERROR_CHECK`) throws before anything is changed: it is a guard.
* *Containers* keep `m_size` beside the vector, and the actions change both. The comparisons of an `int` with a
  `std::size_t` are modelled by what the conversion does, at 16 bits (`AsSize`).
* *`VectorService`* is the promise: messages instead of ciphertexts. `MessageOf` decodes a ciphertext by the
  definition of the scheme, not by a decryption of the code, so the refinement says that the code computes
  the scheme.

What the user is assumed to respect, where the code does not check: `setRandom` is called once for a key object, with
as many numbers as the plaintext has elements (`m_r` is appended to, `pub_key.cpp:93`); an element that is
inserted is under the same key; a ciphertext of another modulus is not loaded into one that shares its key
object; a private key is built from the primes of the public key; default-constructed texts and keys are not
operated on (their fields are indeterminate). An archive of an earlier run may exist (`Earlier`).

Four idealisations: random numbers that share a factor with `n` are left out (at the code's sizes, finding one
factors `n`); `rmod_sq * -1` multiplies by 2^32 - 1, whose factors 3, 5 and 17 the primes
of the runs avoid; and the prime distance is that of the small size. `ippsPrimeGen_BN` is taken to find primes.

## 9. Runs

| Run | Instance | Question |
|---|---|---|
| `offload_safety` | 3 callers, 2 buffers of 2 slots, 2 instances, batches of 1-2, 1 call each, no faults | reservation, rings, order and load: `BufferExclusive`, `FreeBufferClean`, `NoLostFreeBuffer`, `InFlightBounded`, `ChosenBufferHasData`, `RequestInOnePlace`, `OffloadInOrder`, `SlotNotOverwritten`, `TypeOK` |
| `offload_faults` | 2 callers, 1 buffer of 2 slots, batches of 1-3, all faults | what of it holds when anything fails, and with a batch larger than its buffer: `IInv`, `RequestInOnePlace` |
| `offload_service` | 2 callers with 2 calls each, 1 buffer of 2 slots, 2 instances (59,498 states) | nobody waits for ever, and the path is the service: `CallReturns`, `ImplementsService`, `ImplementsServiceProgress`, `WorkIsOffloaded` |
| `offload_starvation` | 2 callers, one of them endless | **violated**: `EveryBufferServed`, the "ensure fairness" of `ctrl.c:215` |
| `offload_device_failure` | 1 caller, failing submissions | **violated**: `ReleaseReturns`, promised by `bnops.h:137` |
| `context_life_cycle` | 2 instances, 2 acquires, failures of the driver and of `pthread_create` | with the threads of one context alive in the next: `ReleasedMeansStopped`, `ActiveMeansStarted`, `InstanceStartedOnce`, `RunningHasManager`, `FirstContextServes`, `ContextTypeOK` |
| `context_release` | no failures | **violated**: `ReleaseEnds`, the comment at `ctrl.c:531` |
| `context_manager` | no failures | **violated**: `BufferManagerTerminates`, the comment at `context.c:280` |
| `context_reacquire` | an acquired context is acquired again | **violated**: `AcquiresInactiveOnly`, the comment at `context.c:136` |
| `barrier` | a ring of 2 slots, work of 1 and 3 elements in batches of 2, 2 calls, 1 failure of any kind, 1 restart, both threads and builds (597,618 states) | `BarrierCovers`, `CursorsMeet`, `SlotCollected`, `RequestAlive`, `OneAtATime`, `BarrierReturns`, `BarrierTypeOK` |
| `hybrid` | 2 threads, vectors of 1 and 4, slices and chunks of 2, 0 or 2 cores, a setting, 2 calls, 2 context calls, every failure (about 750,000 states) | `ResultsInPlace`, `NothingLeftRunning`, `OwnChoiceHolds`, `RuntimeAcquiresInactive`, `ModExpReturns`, `HybridTypeOK` |
| `paillier` | 2 ciphertexts of at most 3 elements, keys of 8 bits and the primes 7 and 11, 5 operations of which at most 3 on keys (163,410 states) | `PrivateKeySound`, `DecryptionsAgree`, `ObfuscatorsAreSound`, `ImplementsVectors`, `PaillierTypeOK` |

**Bounds.** In the offload runs `MaxBatch` and `MaxCalls` bound the callers. Three callers for two buffers
are the least with which a caller waits while two others compete, and with which a
buffer is handed on; two slots and batches of one or two leave the cursors of
a ring in the middle and wrap them; `MaxPending` 2 with two instances makes the throttle close and
reopen; `CounterModulus` 4 makes both counters wrap. The real values (8 buffers
of 1024, 96 pending) appear nowhere in the argument of the theorems. A batch
never exceeds a buffer in the library (both are 1024) except in
`offload_faults`, where `submit_request` has to wait for room. `offload_service` has a single
buffer, so that its two callers wait for each other, and a second call reuses
the requests of the first.

Two acquires (`MaxAcquires`) let the threads of one context meet those of the next, and
two instances let a release overtake the start of the second. An acquire of a context
that is acquired already is left to `context_reacquire` (`Reacquires`): after it,
two sets of threads run and nothing more is promised.

In `barrier` work of 3 with batches of 2 has a whole slice and a residue, and the residue leaves the cursor
in the middle of the ring, where the next call continues, or a restart finds it.

In `hybrid` a vector of 4 and the ratios 12, 18, 25, 75 and 100 give QAT parts of 0, 1, 3 and 4 elements: part of
a slice, a whole and a part, two whole ones; and the same for the chunks. 0 cores is the
machine whose count is unknown. The proofs (section 10) have no bound.

In `paillier` five operations are enough for a key, a ciphertext, a copy of it, an
operation on one of them and a decryption; the plaintexts are a single element and a pair with an element
larger than the modulus. A generated key of 8 bits has the modulus 11 * 13, which is also that of
the archive from an earlier run, and 7 * 11 is built from given primes, in either order.

**Deadlock** is not checked: callers make finitely many calls, after which the
threads rest in their waits, as the code does; and a fault may block a caller for good.
Where a caller should not be blocked, `CallReturns`, `BarrierReturns` and `ModExpReturns` say so.

**Fairness.** Every thread runs (weak fairness of each thread's steps; the
pthreads scheduler), and the accelerator answers what it accepted (its polling
thread runs every 50 microseconds). `outstanding.mutex` is taken again and again by the buffer
manager, which spins while a buffer is busy; that a caller who wants it obtains it is
strong fairness of the steps that need it, which is what a mutex that
does not starve its waiters gives. Nothing obliges a caller to begin a call, and
no fault is fair.

In `HeQatContext` every thread that can go on does, and an acquire or release that has
begun goes on; beginning one, or a request, is up to the application. In `HeQatBarrier` the
call that was begun, the processing thread and the polling threads go on. In `HybridModExp` the QAT
thread, the team and the caller of each call do; that a slice ends is what `WorkIsOffloaded` and `CallReturns` show of the offload
path. `Paillier` has no fairness: its operations are sequential, and begin when the user likes.

## 10. What the violations show, and the proofs

* *Starvation* (`offload_starvation`): a caller that releases and re-acquires
  buffer 0 fast enough keeps requests there; the scan starts at 0 every time and
  stops at the first buffer with requests, so a request in buffer 1 stays there for
  ever although every thread runs fairly.
* *Failed submission* (`offload_device_failure`): the processing thread marks the
  request FAIL without a signal, and the release waits for READY only.
* *Release during the start* (`context_release`): `start_instances` signals `ready` under the
  mutex, but sets `active` afterwards, without either. A release that begins to wait
  in between is woken only by a spurious wakeup or by a later request that moves on
  to this instance, which nobody makes.
* *Buffer manager* (`context_manager`): it is blocked on `any_ready_buffer`, which a release
  does not signal; or it has not begun when the release stores INACTIVE, and
  then stores RUNNING over it. The same release leaves the processing thread
  blocked on `any_more_data`. A later context re-initialises the first condition
  variable under its waiter; a request of that context may also be taken by the old
  processing thread, which sends it to an instance that is not started yet, so that
  it fails and its caller waits for ever.
* *Second acquire* (`context_reacquire`): the state is RUNNING by then, not ACTIVE.
  `module/heqat/test/test_context.c:25-27` relies on the early return.

Seen while the other modules were written, without a run of their own:

* `PlainText::rotate` accepts no shift of a vector that is not empty, because `-m_size` is a huge `size_t`
  (`plaintext.cpp:59`, theorem `PlainNeverRotates`); `CipherText::rotate` accepts no shift to the left
  (`ciphertext.cpp:119`, theorem `CipherRotatesRight`).
* The second inner loop of `getDJNBN` is to give a `q` that is 3 modulo 4, says its comment (`keygen.cpp:84`), but tests `p` again; the
  greatest common divisor that is tested afterwards lets a `q` that is 1 modulo 4 pass, such as 13 beside 11.
* An unknown runtime name throws in `initializeContext` (`context.cpp:43`) although the header announces the default one.
* `enableCRT(false)` is not saved: a loaded private key decrypts with CRT (`pri_key.hpp:118`).
* In the synchronous build `COMPLETION_WAIT` ignores its timeout (`utils.h:70`), and a request may be used after the barrier freed it
  (`cb.c:72`, `ctrl.c:539`): the steps `Post` and `WaitFreed`.
* After a restart with `block_at_index` in the middle of the ring, the barrier may return before its requests are answered (`skewed`).

### Proofs

`HeQatOffload_proofs` proves, for all values of the constants that satisfy
`OffloadAssumption` and `NullAssumption` and for every set of faults:

| Theorem | States |
|---|---|
| `Invariant` | `Spec => []IInv` |
| `TypeCorrect` | `Spec => []TypeOK`: no cursor leaves its ring, no count its capacity, no counter its width |
| `OneCallerPerBuffer` | `Spec => []BufferExclusive` |
| `NoWakeupLost` | `Spec => []NoLostFreeBuffer` |
| `LoadBounded` | `Spec => []InFlightBounded` |

The assumptions: finitely many callers, at least one buffer, slot and instance, a
threshold between 1 and `max_pending`, and counters wide enough for
`max_pending + 1`.

The inductive invariant is `IInv`, also checked by TLC in `offload_faults`:
* `TypeOK` alone is not inductive: that a caller's `buffer_id` is not NULL when it
  uses it needs `BufferExclusive`, that its index stays in the batch needs
  `LoopsOK`, and that the processing thread's list is not empty when it takes the
  head needs `ListsOK`.
* `BufferExclusive` ties `busy_count` to the number of holders. By counting,
  `busy_count < BufferCount` leaves a buffer free (`SpareBuffer`), so the search
  of `acquire_bnModExp_buffer` never falls through to its initial 0. A release
  takes one holder away, so `busy_count - 1` cannot wrap.
* `NoLostFreeBuffer` is inductive beside it: a release lowers `busy_count` by one and
  moves one waiter on its way, an acquire does the opposite.
* `ThrottleOK` strengthens `InFlightBounded`: the difference of the counters, the
  request being counted added, never underrates the accelerator's load
  (`Owed`), and together with what the throttle has already let through
  (`Promised`) is at most `max_pending`. `CounterSteps` shows that the difference
  moves by one when a counter wraps.

Each step lemma of that module (`ExclusiveStep`, `ClientTypeStep`, `ReservationTypeStep`, `BufferTypeStep`,
`SchedulerTypeStep`, `RunnerTypeStep`, `DeviceTypeStep`, `RequestTypeStep`,
`ThrottleStep`, `WakeupStep`) has a step per action that touches what it is about.

`HeQatPipeline_proofs` extends it, under the same assumptions and for every set of faults:

| Theorem | States |
|---|---|
| `PipelineInvariant` | `Spec => []PipelineInv` |
| `NeverWaitsForData` | `Spec => []ChosenBufferHasData` |
| `BufferComesBackClean` | `Spec => []FreeBufferClean` |
| `OnePlacePerRequest` | `Spec => []RequestInOnePlace` |
| `InOrder` | `Spec => []OffloadInOrder` |
| `SlotKept` | `MaxBatch <= BufferSize` implies `Spec => SlotNotOverwritten` |

`PipelineInv` follows a request from its slot to its answer. `Line` is what the processing thread has not sent, what
is in the internal buffer and what the buffer manager has pulled, joined in this order; a step of either thread
keeps it, takes its first request or adds to its end (`LineKept`, `LineAdvances`, `LineGrows`), so the order in it (`LineOK`) is preserved.
* `RequestInOnePlace` alone says nothing of freed requests, and is not inductive: that `Extract` does not duplicate a request needs the
  order of the requests left in the buffer (`QueueOK`), and that a reused request is nowhere needs `StatusOK`,
  `LineOK` and `FlightOK` (whatever is queued, in the line or with the accelerator has status SUCCESS).
* `FreeBufferClean` needs what each slot of a reserved buffer holds. While a batch fits, the requests stored are exactly those
  from `next_data_out` on that are not collected (`Filled`); with a failed allocation there are fewer of them than positions, so the number is existential
  (`CollectOK`). For a batch that does not fit, `release_bnModExp_buffer` still clears every slot, since it moves
  once around the ring (`ClearedOK`).
* A batch larger than a buffer lets `submit_request` wait for the scheduler and then store over slots that nobody has
  collected; `SlotKept` therefore has the hypothesis `MaxBatch <= BufferSize`. `heQatBnModExp_MT` slices its work into
  batches of `IPCL_QAT_MODEXP_BATCH_SIZE`, 1024 elements, and `HE_QAT_BUFFER_SIZE` is 1024, so it holds of every call the library makes.

`OffloadRefinement_proofs` proves `ServiceImplemented`: `MaxBatch <= BufferSize` implies `Spec => ImplementsService`. Every step maps to one of
the service or changes nothing that the service shows: `Acquire` opens a session, `Submit` and `SubmitFails` fill the next position,
`Complete` answers, and `ReleaseBuffer` closes. Closing is what needs an argument, because the loop of `release_bnModExp_buffer`
counts slots and not results: `ServiceInv` says that a READY request has its result written (`ReadyOK`), and that, when the last position
that a caller has been through is stored, every position before it is still there or has its result (`StoredOK`).
That the service also makes progress is `ImplementsServiceProgress`, which only TLC checks.

`HeQatContext_proofs`, for all values of the constants that satisfy `ContextAssumption`:

| Theorem | States |
|---|---|
| `ContextTypeCorrect` | `Spec => []ContextTypeOK` |
| `ManagerWhileRunning` | `Spec => []RunningHasManager` |
| `CycleInvariant` | `~Reacquires` implies `Spec => []CycleInv` |
| `ReleaseStopsAll` | `~Reacquires` implies `Spec => []ReleasedMeansStopped` |
| `ActiveIsCurrent` | `~Reacquires` implies `Spec => []ActiveMeansStarted` |
| `StartsOnce` | `~Reacquires` implies `Spec => InstanceStartedOnce` |

`start_instances` and `stop_perform_op` share the flags `active` without a mutex that would cover the whole of either. `CycleInv` says
how far each of them has got: only the latest processing thread starts instances, in order, and those it is past are
the active ones (`StartsInOrder`); the release has stopped those that it is past (`StopsInOrder`), and it waits for each to be active,
so the start cannot be under way when it ends (`AllStopped`, `IdleStartsNothing`). `~Reacquires` is an
application that does not acquire what it has acquired. `context_reacquire` shows that the code does not refuse a second acquire; `InstanceStartedOnce` is false then, since a second
processing thread starts instances that the first has started.

`HeQatBarrier_proofs`, for all values of the constants that satisfy `BarrierAssumption` (there is a largest work size) and `NullAssumption`, with both
processing threads, both builds, and every set of faults:

| Theorem | States |
|---|---|
| `BarrierInvariant` | `Spec => []BarrierInv` |
| `BarrierTypeCorrect` | `Spec => []BarrierTypeOK` |
| `BarrierWaitsForAll` | `Spec => []BarrierCovers` |
| `CursorsAgree` | `Spec => []CursorsMeet` |
| `NoRequestFreedEarly` | `Spec => []RequestAlive` |
| `OneRequestAtATime` | `Spec => []OneAtATime` |
| `SlotsAreCollected` | `Spec => SlotCollected` |

`BarrierInv` ties three views of the ring together. The `n` slots on from `block_at_index` hold what is left of the slice, and the others nothing
(`WindowOf`); `n` is existential, since a failed allocation leaves no slot, and after a restart that left the cursor elsewhere
the window is lost (`skewed`), as the properties say. The requests not read are the slots before `next_free_slot`, disjoint from the list of the
processing thread (`UnreadOK`), and all of them, read or not, wait with status SUCCESS (`WaitingOK`). The counters count no more
than was taken from the buffer (`CountsOK`): this needs the requests to be distinct, and bounds both
counters for `BarrierTypeOK` across restarts, which do not reset them. In the
synchronous build `SynchronousOK` says that only the head of the list is with the accelerator, and that its semaphore is not posted before its callback has
published; `OneAtATime` follows.

`HybridModExp_proofs` proves, for all values of the constants that satisfy `HybridAssumption` (sizes, slices and chunks of at
least one element, ratios between 0 and 100 percent) and every set of failures:

| Theorem | States |
|---|---|
| `EveryResultInPlace` | `Spec => []ResultsInPlace` |
| `NoThreadOutlivesItsCall` | `Spec => []NothingLeftRunning` |
| `OwnChoiceIsKept` | `Spec => []OwnChoiceHolds` |
| `AcquiresOnlyInactive` | `Spec => RuntimeAcquiresInactive` |
| `HybridTypeCorrect` | `Spec => []HybridTypeOK` |

Its invariant `HInv` follows each call (`CallOK`): the elements below `slice * BatchSize` and those of finished chunks have their results,
and a QAT thread that is not running has put its results in place. That all slices, or all chunks, cover their
part of the vector exactly once the last one has its shorter length is arithmetic (`Parts`, `PartEnds`, `AllParts`, `PartOf`),
proved from the definition of division. That a call which throws has no thread needs the fact that a call
without QAT work never had one. `ChoiceOK` ties the ratio to the thread's last setting; it is needed between calls
too, since operations change the ratio in mode OPTIMAL.

The types need an invariant of their own beside it (`TInv`): a result vector holds indices of the call's operands only, because the
slice or chunk that writes there reads inside them.

`PaillierKeys_proofs` proves what the cryptosystem computes, for keys of every size:

| Theorem | States |
|---|---|
| `ExponentiationMultiplies` | `modExp(b, 0, m)` is 1 modulo `m`, and `modExp(b, e + 1, m)` is `b` times `modExp(b, e, m)` modulo `m` |
| `FreshTextsEncrypt` | `raw_encrypt`, times any n-th power of a unit, is `(1+n)^m r^n mod n^2` |
| `EncryptionsAdd`, `EncryptionsMultiply` | products and powers of encryptions encrypt sums and multiples modulo `n` |
| `DecryptionsReturnMessage` | `decryptRAW`, `decryptCRT` and the choice between them return the message of every encryption |
| `OneMessage` | a number encrypts at most one message |

The recursive functions `modExp` and `gcd` are defined by `CHOOSE`, so their equations are worth nothing before there is a function that
satisfies them. The library's induction theorems take an operator as a parameter, which the provers cannot instantiate;
`WellFoundedInduction` also states that a set of numbers has a least element, and that is enough. A function that satisfies the equations up to `k`
is extended to `k + 1`, a `k` without one would have a least one, and the union of these functions is one for all numbers.
The same argument, "a set of counterexamples has a least one", replaces induction everywhere else.

* Congruence is `Same(m, a, b)`: equal remainders. `modExp` turns sums of exponents into products (`ExpOfSum`), products of
  exponents into powers, and respects congruence.
* `gcd` is the greatest common divisor and a combination of its arguments, so a unit has an inverse, and `InverseMul` finds it.
* `(1+n)^m` is `1 + nm` modulo `n^2`, whence the sum and the multiple of messages, and what `computeLfun` extracts.
* A decryption raises to a multiple of `p - 1` what is an n-th power times `(1+n)^m`. That the n-th power vanishes is Fermat's little theorem
  (`Fermat`), proved by Lagrange's: the multiplication by a unit cuts the units modulo `p` into orbits of equal size, and there are `p - 1` of them
  (`OrderDivides`). From `p` to `p^2` it is one more power (`UnitOfSquare`, `RandomFactorVanishes`).
* For the raw decryption the congruences modulo `p^2` and `q^2` are joined (`SameUnderProduct`); for the other one the halves
  are the message modulo `p` and modulo `q`, and `computeCRT` joins them.

Its assumption is `PaillierKeysAssumption`; the rest are hypotheses of the theorems: two primes without a common factor, such that
`(p-1)(q-1)` has none with `pq` either, which holds of any two different primes of the same size.

`Paillier_proofs` proves, for any number of ciphertexts, every bound on vectors, keys of every size and any sequence of operations:

| Theorem | States |
|---|---|
| `CipherRotatesRight`, `PlainNeverRotates` | what the comparisons of a shift with a `size_t` accept, for vectors shorter than half its range |
| `SizesAreKept` | the size of a ciphertext, a plaintext and an archive is that of its vector |
| `KeyObjectsShared` | `Spec => []KeyObjectsOK`: an assigned ciphertext points to one key object, and all that point to it see one key |
| `OneCipherTextAtATime` | of any two ciphertexts a step changes at most one |
| `PrivateKeysAreSound` | `Spec => []PrivateKeySound` |
| `ObfuscatorsStaySound` | `Spec => []ObfuscatorsAreSound` |
| `PaillierTypeCorrect` | `Spec => []PaillierTypeOK` |
| `CipherTextsAreEncryptions` | every element of a ciphertext is an encryption under the key it points to |
| `OperationsActOnMessages` | encryption, the two sums and the product do to the messages what they say, element by element |
| `BothDecryptionsReturnTheMessage` | `Spec => []DecryptionsAgree` |
| `VectorsImplemented` | `Spec => ImplementsVectors`: every step is a step of `VectorService`, or none |

The inductive invariant `Inv` has three layers. `TextsInv` is inductive by cases on how a ciphertext changes: it becomes a new one with a copy of a
key (`BecomeStep`), is edited in place (`EditStep`), shares the object of another (`AssignStep`), or loads an archive into the object it shares
(`LoadStep`); the last two need that no ciphertext is listed with two objects, and a rotation keeps the size only because of what its test
accepts. `KeysInv` follows the keys through construction, `enableDJN`, switches and archives: that a
private key is sound and a DJN key has an n-th power of a unit for `hs`. `SchemeInv` says that the
elements of ciphertexts and archives are encryptions, which sums and multiples preserve only while both operands have one modulus. `PaillierTypeOK` and
`DecryptionsAgree` are not inductive without it: that a product is a residue, or decrypts at all, depends on what was multiplied.

The refinement maps a ciphertext to its modulus and the messages of its elements (`Shown`). Where an operation computes, the messages of the
result follow from `OperationsActOnMessages`, and that a number has one message (`MessageIs`, from `OneMessage`) makes the
vector shown equal to the one the service computes (`BecomesUnder`). Where it moves elements (rotation, removal, insertion, a chunk, an assignment),
the messages move with them (`MovedShown`), and lemmas on positions (`RotatedItems`, `RemovedItems`, `InsertedItems`, `PartItems`) show that
`std::rotate`, `erase` and `insert` move them where the service does. What is shown of all other ciphertexts stays (`OthersShown`), also
when `load` writes into a key object they share. A change of keys, and a rotation of a plaintext, which only an empty one allows, show nothing
but the modulus.

The assumptions are `PaillierKeysAssumption`, `PaillierAssumption` (plaintexts are numbers, shifts and sizes within half the range of `size_t`) and
`PrimesAssumption`: what the runs generate, are given or find in an archive is a product of two primes as above, and has no factor in common with the
2^32 - 1 of `rmod_sq * -1`. TLC evaluates them in `paillier`. All theorems about `Spec` but `PrivateKeysAreSound` have the hypothesis `NoneIsNothing`, that the
value for an unassigned variable is no ciphertext and no plaintext; `VectorsImplemented` has `NoneIsNoValue`, that it is no number and no vector either.

Only model-checked are the liveness properties `CallReturns`, `WorkIsOffloaded`, `BarrierReturns`, `ModExpReturns`, `FirstContextServes`
and `ImplementsServiceProgress`, since fairness and ENABLED are beyond the proof system.

## 11. Not modelled

* Of the life cycle: a release while a request of another thread is outstanding, and several
  requests at a time; the calls of the driver that `acquire_qat_devices` makes before it changes
  anything (each failure returns), and `icp_sal_userStop` and `qaeMemDestroy` at the end.
* Of the legacy processing: how `start_perform_op` starts its instance, as `start_instances` does; the context does not start it any more.
* What a request of the accelerator contains: base, exponent and modulus do not influence control. A result is
  "written or not" in the modules of the HE QAT part, and its value in `Paillier`.
* `modExp` of several threads inside one encryption: `Paillier` takes the vector element by element, which
  `ResultsInPlace` justifies.
* The lengths and buffers of `BigNumber` (`bignum.cpp` keeps them for IPP), its bitwise operations and its conversions; a result of
  `operator-=` for operands of opposite signs may be a bit longer than the room it is given, with the status
  ignored (`bignum.cpp:177`), which takes numbers the cryptosystem does not subtract.
* The format of archives (cereal), conversions of the HE QAT module, memory pools, and the parsing of `/proc/cpuinfo`: data without shared state.
* The QAT driver, OpenSSL, IPP, OpenMP and POSIX threads: external, modelled by what
  the code can observe of them.
