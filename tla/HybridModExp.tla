---------------------------- MODULE HybridModExp ----------------------------
(***************************************************************************)
(* ipcl/mod_exp.cpp in a build with QAT and OpenMP: how modExp splits a    *)
(* vector of exponentiations between the accelerator and the cores.  Every *)
(* client thread has its own ratio and mode (g_hybrid_params is            *)
(* thread_local), which it sets itself and which the operations of the     *)
(* keys and ciphertexts set in mode OPTIMAL.  A call runs the first part   *)
(* of its vector on QAT, in a thread of its own and slice by slice, and    *)
(* the rest in chunks by a team of OpenMP threads, while the caller waits. *)
(*                                                                         *)
(* An exponentiation is its index in the vector.  A ratio is a percentage; *)
(* its product with the size is computed in single precision and cut off.  *)
(* The processing of a slice by the accelerator is the subject of          *)
(* HeQatOffload.  The devices belong to the runtime context of             *)
(* utils/context.cpp, also modelled here.                                  *)
(***************************************************************************)
EXTENDS Integers, FiniteSets

CONSTANTS
    Client,             \* threads that call the library
    Sizes,              \* bound: how many exponentiations a call may have
    Ratios,             \* bound: what setHybridRatio is given, in percent
    Modes,              \* bound: what setHybridMode is given, besides UNDEFINED
    Threshold,          \* IPCL_WORKLOAD_SIZE_THRESHOLD
    EncryptRatio,       \* IPCL_HYBRID_MODEXP_RATIO_ENCRYPT, in percent
    DecryptRatio,       \* IPCL_HYBRID_MODEXP_RATIO_DECRYPT
    MultiplyRatio,      \* IPCL_HYBRID_MODEXP_RATIO_MULTIPLY
    ChunkSizes,         \* IPCL_CRYPTO_MB_SIZE, or 1 without AVX512-IFMA
    BatchSize,          \* IPCL_QAT_MODEXP_BATCH_SIZE
    ThreadCounts,       \* OMPUtilities::MaxThreads, one of these: cpus / nodes, 0 if unknown
    MaxSettings,        \* bound: changes of ratio or mode
    MaxCalls,           \* bound: calls in all, after which settings do not matter
    MaxContexts,        \* bound: calls of initializeContext and terminateContext
    Faults              \* failures that may happen: "qat", "ipp", "acquire"

\* The values of HybridMode that are not only a ratio.
OPTIMAL == 95
UNDEFINED == -1

ASSUME HybridAssumption ==
    /\ IsFiniteSet(Client) /\ Sizes \subseteq Nat \ {0}
    /\ Ratios \cup {EncryptRatio, DecryptRatio, MultiplyRatio} \subseteq 0 .. 100
    /\ Modes \subseteq 0 .. 100
    /\ {Threshold, MaxSettings, MaxCalls, MaxContexts} \cup ThreadCounts \subseteq Nat
    /\ {BatchSize} \cup ChunkSizes \subseteq Nat \ {0}
    /\ Faults \subseteq {"qat", "ipp", "acquire"}

VARIABLES
    process,            \* "up", or "terminated" by std::terminate
    chunk_size, max_threads,    \* of the machine
    hybrid,             \* g_hybrid_params of every client: ratio and mode
    chosen,             \* the ratio each client has set last
    settings,
    \* the runtime context
    isUsingQAT, context_state, contexts,
    \* the calls
    calls,
    stage,              \* of every client: "idle", "running", "returned" or "thrown"
    job,                \* its call: size, ratio, hybrid_qat_size
    qat_thread,         \* the QAT part: "none", "running" or "done"
    slice,              \* slices it has finished
    chunk,              \* the chunks of the IPP part: "todo", "running" or "done"
    qat_res, ipp_res, res       \* what is where in the result vectors, or -1

envVars == <<chunk_size, max_threads>>
paramVars == <<hybrid, chosen, settings>>
contextVars == <<isUsingQAT, context_state, contexts>>
callVars == <<calls, stage, job, qat_thread, slice, chunk, qat_res, ipp_res, res>>
vars == <<process, envVars, paramVars, contextVars, callVars>>

Empty(n) == [i \in 0 .. n - 1 |-> -1]

NoJob == [size |-> 0, ratio |-> 0, hybrid_qat_size |-> 0]

Init ==
    /\ process = "up"
    /\ chunk_size \in ChunkSizes
    /\ max_threads \in ThreadCounts
    /\ hybrid = [c \in Client |-> [ratio |-> 0, mode |-> OPTIMAL]]
    /\ chosen = [c \in Client |-> 0]
    /\ settings = 0
    /\ isUsingQAT = FALSE /\ context_state = "INACTIVE" /\ contexts = 0
    /\ calls = 0
    /\ stage = [c \in Client |-> "idle"]
    /\ job = [c \in Client |-> NoJob]
    /\ qat_thread = [c \in Client |-> "none"]
    /\ slice = [c \in Client |-> 0]
    /\ chunk = [c \in Client |-> <<>>]
    /\ qat_res = [c \in Client |-> Empty(0)]
    /\ ipp_res = [c \in Client |-> Empty(0)]
    /\ res = [c \in Client |-> Empty(0)]

Running(c) == process = "up" /\ stage[c] = "running"

-----------------------------------------------------------------------------
(* setHybridRatio, setHybridMode and setHybridOff.  The parameters are     *)
(* thread_local.                                                           *)

MutEverybody(c) == Client
Holders(c) == {c}

Set(c, ratio, mode) ==
    /\ process = "up" /\ stage[c] # "running"
    /\ settings < MaxSettings /\ calls < MaxCalls
    /\ settings' = settings + 1
    /\ hybrid' = [d \in Client |->
                    IF d \in Holders(c) THEN [ratio |-> ratio, mode |-> mode] ELSE hybrid[d]]
    /\ chosen' = [chosen EXCEPT ![c] = ratio]
    /\ UNCHANGED <<process, envVars, contextVars, callVars>>

SetHybridRatio(c) ==
    \E ratio \in Ratios, reset_mode \in BOOLEAN :
        Set(c, ratio, IF reset_mode THEN UNDEFINED ELSE hybrid[c].mode)

SetHybridMode(c) == \E mode \in Modes \cup {UNDEFINED} : Set(c, mode, mode)

SetHybridOff(c) == Set(c, 0, UNDEFINED)

-----------------------------------------------------------------------------
(* initializeContext and terminateContext, when no client is at work.      *)

ContextCall ==
    /\ process = "up" /\ \A c \in Client : stage[c] # "running"
    /\ contexts < MaxContexts /\ calls < MaxCalls
    /\ contexts' = contexts + 1
    /\ UNCHANGED <<process, envVars, paramVars, callVars>>

MutAlways == TRUE
NotYetUsing == ~isUsingQAT

\* initializeContext("QAT"): acquire_qat_devices, which may fail, does nothing in
\* state ACTIVE.
InitializeQAT ==
    /\ ContextCall
    /\ \/ /\ NotYetUsing
          /\ isUsingQAT' = TRUE
          /\ context_state' = "ACTIVE"
       \/ /\ ~NotYetUsing \/ "acquire" \in Faults
          /\ UNCHANGED <<isUsingQAT, context_state>>

\* initializeContext of another runtime does nothing.

TerminateContext ==
    /\ ContextCall
    /\ isUsingQAT' = FALSE
    /\ context_state' = IF isUsingQAT THEN "INACTIVE" ELSE context_state

\* schedule_requests of the HE QAT module.
BecomesRunning ==
    /\ process = "up" /\ context_state = "ACTIVE"
    /\ context_state' = "RUNNING"
    /\ UNCHANGED <<process, envVars, paramVars, isUsingQAT, contexts, callVars>>

-----------------------------------------------------------------------------
(* The beginning of a call of modExp.                                      *)

Ceiling(a, b) == (a + b - 1) \div b

\* ratio * v_size in single precision: a product that should be whole can come
\* out a little smaller, except where the ratio is a power of two.
QatSizes(ratio, size) ==
    {(ratio * size) \div 100} \cup
    IF (ratio * size) % 100 = 0 /\ ratio \notin {0, 25, 50, 100}
    THEN {(ratio * size) \div 100 - 1} ELSE {}

QatSize(c) == job[c].hybrid_qat_size
IppSize(c) == job[c].size - QatSize(c)

\* modExp with a vector; QAT work needs the devices (example/README.md).
Begin(c, size, ratio) ==
    \E qat_size \in QatSizes(ratio, size) :
        /\ qat_size > 0 => isUsingQAT
        /\ job' = [job EXCEPT ![c] = [size |-> size, ratio |-> ratio, hybrid_qat_size |-> qat_size]]
        /\ qat_thread' = [qat_thread EXCEPT ![c] = IF qat_size = 0 THEN "none" ELSE "running"]
        /\ slice' = [slice EXCEPT ![c] = 0]
        /\ chunk' = [chunk EXCEPT ![c] =
              [k \in 0 .. Ceiling(size - qat_size, chunk_size) - 1 |-> "todo"]]
        /\ qat_res' = [qat_res EXCEPT ![c] = Empty(qat_size)]
        /\ ipp_res' = [ipp_res EXCEPT ![c] = Empty(size - qat_size)]
        /\ res' = [res EXCEPT ![c] = Empty(size)]
        /\ stage' = [stage EXCEPT ![c] = "running"]

MutAtMostAll(ratio) == ratio <= 100
CorrectRatio(ratio) == ratio \in 0 .. 100

Call(c, size, ratio) ==
    /\ process = "up" /\ stage[c] # "running"
    /\ calls < MaxCalls
    /\ calls' = calls + 1
    /\ \/ CorrectRatio(ratio) /\ Begin(c, size, ratio)
       \/ /\ ~CorrectRatio(ratio)       \* mode UNDEFINED: modExp throws
          /\ stage' = [stage EXCEPT ![c] = "thrown"]
          /\ UNCHANGED <<job, qat_thread, slice, chunk, qat_res, ipp_res, res>>
    /\ UNCHANGED <<process, envVars, chosen, settings, contextVars>>

\* modExp called by the user, who sets the ratio or takes what the last operation
\* has left.
ModExp(c) ==
    /\ UNCHANGED hybrid
    /\ \E size \in Sizes : Call(c, size, hybrid[c].ratio)

\* encrypt, decrypt and CipherText * PlainText set the ratio in mode OPTIMAL.
Operate(c) ==
    \E optimal \in {EncryptRatio, DecryptRatio, MultiplyRatio}, size \in Sizes :
        LET ratio == IF hybrid[c].mode # OPTIMAL THEN hybrid[c].ratio
                     ELSE IF size <= Threshold THEN 100 ELSE optimal
        IN  /\ hybrid' = [hybrid EXCEPT ![c].ratio = ratio]
            /\ Call(c, size, ratio)

\* The call ends: its locals are gone.
Leave(c, outcome) ==
    /\ stage' = [stage EXCEPT ![c] = outcome]
    /\ slice' = [slice EXCEPT ![c] = 0]
    /\ chunk' = [chunk EXCEPT ![c] = <<>>]
    /\ qat_res' = [qat_res EXCEPT ![c] = Empty(0)]
    /\ ipp_res' = [ipp_res EXCEPT ![c] = Empty(0)]
    /\ UNCHANGED process

Terminate ==
    /\ process' = "terminated"
    /\ UNCHANGED <<stage, slice, chunk, qat_res, ipp_res>>

-----------------------------------------------------------------------------
(* The QAT part: heQatBnModExp_MT, in a thread of its own if there is an   *)
(* IPP part.                                                               *)

MutFloor(size) == size \div BatchSize
SliceCount(size) == Ceiling(size, BatchSize)

\* parallel_quantity
SliceLength(j, size) ==
    IF j = SliceCount(size) - 1 /\ size % BatchSize > 0 THEN size % BatchSize ELSE BatchSize

QatSlice(c) ==
    LET first == slice[c] * BatchSize
    IN  /\ Running(c) /\ qat_thread[c] = "running"
        /\ slice[c] < SliceCount(QatSize(c))
        /\ slice' = [slice EXCEPT ![c] = @ + 1]
        /\ qat_res' = [qat_res EXCEPT ![c] = [i \in DOMAIN @ |->
              IF i \in first .. first + SliceLength(slice[c], QatSize(c)) - 1 THEN i ELSE @[i]]]
        /\ UNCHANGED <<process, envVars, paramVars, contextVars, calls, stage, job, qat_thread,
                       chunk, ipp_res, res>>

\* The results go to the front of the result vector.
QatEnds(c) ==
    /\ Running(c) /\ qat_thread[c] = "running"
    /\ slice[c] = SliceCount(QatSize(c))
    /\ qat_thread' = [qat_thread EXCEPT ![c] = "done"]
    /\ res' = [res EXCEPT ![c] = [i \in DOMAIN @ |->
                                    IF i < QatSize(c) THEN qat_res[c][i] ELSE @[i]]]
    /\ UNCHANGED <<process, envVars, paramVars, contextVars, calls, stage, job, slice, chunk,
                   qat_res, ipp_res>>

\* An exception that leaves a thread ends the process; with no IPP part it is
\* thrown to the caller.
QatFails(c) ==
    /\ "qat" \in Faults
    /\ Running(c) /\ qat_thread[c] = "running"
    /\ IF IppSize(c) > 0 THEN Terminate ELSE Leave(c, "thrown")
    /\ qat_thread' = [qat_thread EXCEPT ![c] = "done"]
    /\ UNCHANGED <<envVars, paramVars, contextVars, calls, job, res>>

-----------------------------------------------------------------------------
(* The IPP part: ippMBModExpWrapper and ippSBModExpWrapper, or             *)
(* ippSBModExp for one exponentiation.                                     *)

Smaller(a, b) == IF a < b THEN a ELSE b

\* OMPUtilities::assignOMPThreads
MutAvailable(remaining, requested) == Smaller(remaining, requested)
AssignOMPThreads(remaining, requested) ==
    LET retval == Smaller(remaining, IF requested > 0 THEN requested ELSE 1)
    IN  IF retval > 1 THEN retval ELSE 1

ChunksAt(c, state) == {k \in DOMAIN chunk[c] : chunk[c][k] = state}

ChunkBegins(c, k) ==
    /\ Running(c)
    /\ chunk[c][k] = "todo"
    /\ Cardinality(ChunksAt(c, "running")) <
          AssignOMPThreads(max_threads, Cardinality(DOMAIN chunk[c]))
    /\ chunk' = [chunk EXCEPT ![c][k] = "running"]
    /\ UNCHANGED <<process, envVars, paramVars, contextVars, calls, stage, job, qat_thread, slice,
                   qat_res, ipp_res, res>>

ChunkLength(k, size) ==
    IF k = Ceiling(size, chunk_size) - 1 /\ size % chunk_size > 0 THEN size % chunk_size ELSE chunk_size

\* The chunk of ipp_base, which begins at hybrid_qat_size of base.
ChunkEnds(c, k) ==
    LET first == k * chunk_size
    IN  /\ Running(c)
        /\ chunk[c][k] = "running"
        /\ chunk' = [chunk EXCEPT ![c][k] = "done"]
        /\ ipp_res' = [ipp_res EXCEPT ![c] = [i \in DOMAIN @ |->
              IF i \in first .. first + ChunkLength(k, IppSize(c)) - 1
              THEN QatSize(c) + i ELSE @[i]]]
        /\ UNCHANGED <<process, envVars, paramVars, contextVars, calls, stage, job, qat_thread,
                       slice, qat_res, res>>

\* An exception that leaves a parallel region, or the caller while it still has a
\* thread, ends the process.
ChunkFails(c, k) ==
    /\ "ipp" \in Faults
    /\ Running(c)
    /\ chunk[c][k] = "running"
    /\ IF IppSize(c) > 1 \/ QatSize(c) > 0 THEN Terminate ELSE Leave(c, "thrown")
    /\ UNCHANGED <<envVars, paramVars, contextVars, calls, job, qat_thread, res>>

MutDetached(c) == TRUE
Joined(c) == qat_thread[c] # "running"

\* The caller copies the IPP results behind those of QAT, and joins the thread.
Return(c) ==
    /\ Running(c)
    /\ ChunksAt(c, "done") = DOMAIN chunk[c]
    /\ Joined(c)
    /\ res' = [res EXCEPT ![c] = [i \in DOMAIN @ |->
                                    IF i < QatSize(c) THEN @[i] ELSE ipp_res[c][i - QatSize(c)]]]
    /\ Leave(c, "returned")
    /\ UNCHANGED <<envVars, paramVars, contextVars, calls, job, qat_thread>>

-----------------------------------------------------------------------------
ClientStep(c) ==
    SetHybridRatio(c) \/ SetHybridMode(c) \/ SetHybridOff(c) \/ ModExp(c) \/ Operate(c)

QatStep(c) == QatSlice(c) \/ QatEnds(c)
TeamStep(c) == \E k \in DOMAIN chunk[c] : ChunkBegins(c, k) \/ ChunkEnds(c, k)
Failure(c) == QatFails(c) \/ \E k \in DOMAIN chunk[c] : ChunkFails(c, k)

Next ==
    \/ InitializeQAT \/ TerminateContext \/ BecomesRunning
    \/ \E c \in Client : ClientStep(c) \/ QatStep(c) \/ TeamStep(c) \/ Failure(c) \/ Return(c)

Spec == Init /\ [][Next]_vars

\* The thread, the team and the caller of every call are scheduled, and the
\* offload path finishes the slices (WorkIsOffloaded of OffloadRefinement).
Fairness == \A c \in Client : WF_vars(QatStep(c)) /\ WF_vars(TeamStep(c)) /\ WF_vars(Return(c))

FairSpec == Spec /\ Fairness

-----------------------------------------------------------------------------
(* Properties.                                                             *)

Vector(size) == [0 .. size - 1 -> -1 .. size - 1]

\* Types of every variable.
HybridTypeOK ==
    /\ process \in {"up", "terminated"}
    /\ chunk_size \in ChunkSizes /\ max_threads \in ThreadCounts
    /\ hybrid \in [Client -> [ratio : -1 .. 100, mode : -1 .. 100]]
    /\ chosen \in [Client -> -1 .. 100]
    /\ isUsingQAT \in BOOLEAN /\ context_state \in {"INACTIVE", "ACTIVE", "RUNNING"}
    /\ settings \in 0 .. MaxSettings /\ calls \in 0 .. MaxCalls /\ contexts \in 0 .. MaxContexts
    /\ stage \in [Client -> {"idle", "running", "returned", "thrown"}]
    /\ qat_thread \in [Client -> {"none", "running", "done"}]
    /\ \A c \in Client :
          /\ job[c] \in [size : Nat, ratio : 0 .. 100, hybrid_qat_size : 0 .. job[c].size]
          /\ slice[c] \in 0 .. SliceCount(QatSize(c))
          /\ chunk[c] \in [DOMAIN chunk[c] -> {"todo", "running", "done"}]
          /\ qat_res[c] \in Vector(IF stage[c] = "running" THEN QatSize(c) ELSE 0)
          /\ ipp_res[c] \in [0 .. (IF stage[c] = "running" THEN IppSize(c) ELSE 0) - 1 -> -1 .. job[c].size - 1]
          /\ res[c] \in Vector(job[c].size)

\* When a call returns every result is at the index of its base, exponent and
\* modulus, whatever the ratio, the slices and the chunks with their shorter last
\* ones, and the order in which they ended.
ResultsInPlace ==
    \A c \in Client : stage[c] = "returned" =>
        \A i \in 0 .. job[c].size - 1 : res[c][i] = i

\* A call that returned or threw has left no thread behind: the vectors that the
\* QAT thread and the team write are on the caller's stack.
NothingLeftRunning ==
    process = "up" =>
        \A c \in Client : stage[c] # "running" =>
            qat_thread[c] # "running" /\ ChunksAt(c, "running") = {}

\* Outside mode OPTIMAL a call is split by the ratio its thread has set last,
\* whatever the other threads have set and the operations done since.
OwnChoiceHolds ==
    \A c \in Client : stage[c] = "running" /\ hybrid[c].mode # OPTIMAL =>
        job[c].ratio = chosen[c]

\* The runtime context never acquires the devices when the buffer manager is
\* already running, which acquire_qat_devices does not recognise (see
\* AcquiresInactiveOnly of HeQatContext).
RuntimeAcquiresInactive ==
    [][context_state' = "ACTIVE" /\ context_state # "ACTIVE" => context_state = "INACTIVE"]_vars

\* Every call returns or throws, also where the number of cores is unknown, unless
\* an exception has ended the process.
ModExpReturns ==
    \A c \in Client : stage[c] = "running" ~> stage[c] # "running" \/ process = "terminated"

=============================================================================
