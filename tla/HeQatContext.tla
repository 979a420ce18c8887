---------------------------- MODULE HeQatContext ----------------------------
(***************************************************************************)
(* The life cycle of the HE QAT context: acquire_qat_devices and           *)
(* release_qat_devices, and how the threads they start and stop begin and  *)
(* end.  Every acquire makes a new configuration, numbered here, with a    *)
(* processing thread (start_instances), a buffer manager                   *)
(* (schedule_requests) and a polling thread per instance                   *)
(* (start_inst_polling).  They are detached, and told to stop by flags.    *)
(*                                                                         *)
(* context_lock serialises the two functions, so one application thread    *)
(* stands for all; each of their accesses to what the threads share is a   *)
(* step.  Requests are reduced to one at a time: how many of them move     *)
(* through the rings is the business of HeQatOffload.  So are the waits of *)
(* the threads: a wait whose signals are not lost, or that may as well end *)
(* spuriously, is the guard of a step here.  Only the wait of              *)
(* stop_perform_op for an instance to become active has a state.           *)
(***************************************************************************)
EXTENDS Integers

CONSTANTS
    Instances,      \* HE_QAT_NUM_ACTIVE_INSTANCES
    MaxAcquires,    \* bound: configurations made
    Reacquires,     \* whether the application acquires again what it has acquired
    Faults          \* the failures that may happen: of the driver's start of an
                    \* instance ("start"), of pthread_create ("create")

ASSUME ContextAssumption ==
    /\ Instances \in Nat \ {0}
    /\ MaxAcquires \in Nat \ {0}
    /\ Reacquires \in BOOLEAN
    /\ Faults \subseteq {"start", "create"}

Instance == 0 .. Instances - 1
Config == 1 .. MaxAcquires

VARIABLES
    app,                \* where the application is in its calls
    context_state,
    config,             \* he_qat_config: the number of the latest, 0 for none
    stop_index,         \* the instance stop_perform_op is at
    \* he_qat_inst_config, one array for all configurations
    active, polling, status,
    running,            \* config->running of every configuration
    \* the threads of every configuration
    runner, start_index, scheduler, poller,
    next_instance,      \* a static variable, which all processing threads share
    \* outside the code
    started,            \* the instances that the driver has started
    request             \* where the application's request is

appVars == <<app, stop_index>>
instVars == <<active, polling, status>>
runnerVars == <<runner, start_index>>
vars == <<appVars, context_state, config, instVars, running, runnerVars,
          scheduler, poller, next_instance, started, request>>

Init ==
    /\ app = "idle"
    /\ context_state = "INACTIVE"
    /\ config = 0
    /\ stop_index = 0
    /\ active = [i \in Instance |-> FALSE]
    /\ polling = [i \in Instance |-> FALSE]
    /\ status = [i \in Instance |-> "FAIL"]
    /\ running = [g \in Config |-> FALSE]
    /\ runner = [g \in Config |-> "none"]
    /\ start_index = [g \in Config |-> 0]
    /\ scheduler = [g \in Config |-> "none"]
    /\ poller = [g \in Config |-> [i \in Instance |-> "none"]]
    /\ next_instance = 0
    /\ started = [i \in Instance |-> FALSE]
    /\ request = "none"

-----------------------------------------------------------------------------
(* acquire_qat_devices.                                                    *)

\* What becomes of a new thread.
Spawned == {"start"} \cup (IF "create" \in Faults THEN {"none"} ELSE {})

\* It returns at once when this holds.
AlreadyAcquired == context_state = "ACTIVE"

MutKeepsActive == active
NoneActive == [i \in Instance |-> FALSE]

\* The threads that may be blocked on a condition that is initialised.
StartBlocked == {g \in Config : runner[g] = "start" /\ active[start_index[g]]}
PullBlocked == {g \in Config : scheduler[g] = "pull" /\ request = "none"}

\* Initialise every shared structure and start the processing thread, without
\* looking at what pthread_create returns.  A thread still blocked on
\* any_ready_buffer, or on the ready condition of an instance, may never wake:
\* pthread_cond_init under a waiter is undefined.
Initialize ==
    /\ app \in {"idle"} \cup (IF Reacquires THEN {"acquired"} ELSE {})
    /\ ~AlreadyAcquired
    /\ config < MaxAcquires
    /\ config' = config + 1
    /\ active' = NoneActive
    /\ polling' = [i \in Instance |-> FALSE]
    /\ status' = [i \in Instance |-> "FAIL"]
    /\ \E lost \in SUBSET StartBlocked, first \in Spawned :
          runner' = [g \in Config |-> IF g = config' THEN first
                                      ELSE IF g \in lost THEN "lost" ELSE runner[g]]
    /\ \E lost \in SUBSET PullBlocked :
          scheduler' = [g \in Config |-> IF g \in lost THEN "lost" ELSE scheduler[g]]
    /\ app' = "launch"
    /\ UNCHANGED <<stop_index, context_state, running, start_index, poller, next_instance,
                   started, request>>

\* Activate the context and start the buffer manager, or, if that fails, go on
\* with release_qat_devices.
Launch ==
    /\ app = "launch"
    /\ context_state' = "ACTIVE"
    /\ \/ /\ scheduler' = [scheduler EXCEPT ![config] = "enter"]
          /\ app' = "acquired"
       \/ /\ "create" \in Faults
          /\ scheduler' = scheduler
          /\ app' = "failed"
    /\ UNCHANGED <<stop_index, config, instVars, running, runnerVars, poller, next_instance,
                   started, request>>

-----------------------------------------------------------------------------
(* release_qat_devices.                                                    *)

\* stop_instances.  A released context may be released again.
Release ==
    /\ app \in {"idle", "acquired", "failed"}
    /\ context_state # "INACTIVE"
    /\ running' = [running EXCEPT ![config] = FALSE]
    /\ app' = "stop"
    /\ UNCHANGED <<stop_index, context_state, config, instVars, runnerVars, scheduler,
                   poller, next_instance, started, request>>

\* stop_perform_op, for one instance after the other.
StopWaits ==
    /\ app = "stop"
    /\ ~active[stop_index]
    /\ app' = "stop_wait"
    /\ UNCHANGED <<stop_index, context_state, config, instVars, running, runnerVars,
                   scheduler, poller, next_instance, started, request>>

MutAnyInstance(i) == TRUE
MayStop(i) == active[i]

\* Stop the polling thread and the instance.  The sleep in between is under the
\* instance's mutex.  The signal on the ready condition that follows is for
\* start_instances, which waits for the instance to be inactive.
StopInstance ==
    /\ app = "stop"
    /\ MayStop(stop_index)
    /\ IF status[stop_index] = "SUCCESS"
       THEN /\ polling' = [polling EXCEPT ![stop_index] = FALSE]
            /\ started' = [started EXCEPT ![stop_index] = FALSE]
       ELSE UNCHANGED <<polling, started>>
    /\ IF stop_index + 1 < Instances
       THEN stop_index' = stop_index + 1 /\ app' = "stop"
       ELSE stop_index' = 0 /\ app' = "deactivate"
    /\ UNCHANGED <<context_state, config, active, status, running, runnerVars,
                   scheduler, poller, next_instance, request>>

Deactivate ==
    /\ app = "deactivate"
    /\ context_state' = "INACTIVE"
    /\ app' = "idle"
    /\ UNCHANGED <<stop_index, config, instVars, running, runnerVars, scheduler,
                   poller, next_instance, started, request>>

-----------------------------------------------------------------------------
(* The application makes a request between acquire and release, and waits. *)

\* acquire_bnModExp_buffer.
Request ==
    /\ app = "acquired"
    /\ request' = "outstanding"
    /\ app' = "request"
    /\ UNCHANGED <<stop_index, context_state, config, instVars, running, runnerVars,
                   scheduler, poller, next_instance, started>>

Answered ==
    /\ app = "request"
    /\ request = "answered"
    /\ request' = "none"
    /\ app' = "acquired"
    /\ UNCHANGED <<stop_index, context_state, config, instVars, running, runnerVars,
                   scheduler, poller, next_instance, started>>

-----------------------------------------------------------------------------
(* schedule_requests of configuration g.                                   *)

SchedulerEnters(g) ==
    /\ scheduler[g] = "enter"
    /\ context_state' = "RUNNING"
    /\ scheduler' = [scheduler EXCEPT ![g] = "test"]
    /\ UNCHANGED <<appVars, config, instVars, running, runnerVars, poller, next_instance,
                   started, request>>

MutNotActive == context_state # "ACTIVE"
Deactivated == context_state = "INACTIVE"

SchedulerTests(g) ==
    /\ scheduler[g] = "test"
    /\ scheduler' = [scheduler EXCEPT ![g] = IF Deactivated THEN "none" ELSE "pull"]
    /\ UNCHANGED <<appVars, context_state, config, instVars, running, runnerVars,
                   poller, next_instance, started, request>>

\* pull_outstanding_requests waits while no buffer is busy.  One is from
\* acquire_bnModExp_buffer to release_bnModExp_buffer: in between, the buffer
\* manager spins.
SchedulerPulls(g) ==
    /\ scheduler[g] = "pull"
    /\ request # "none"
    /\ scheduler' = [scheduler EXCEPT ![g] = "test"]
    /\ request' = IF request = "outstanding" THEN "queued" ELSE request
    /\ UNCHANGED <<appVars, context_state, config, instVars, running, runnerVars,
                   poller, next_instance, started>>

-----------------------------------------------------------------------------
(* start_instances of configuration g.                                     *)

\* Whether cpaCyStartInstance succeeds.
StartResult == {TRUE} \cup (IF "start" \in Faults THEN {FALSE} ELSE {})

\* Signal the ready condition of instance i, for stop_perform_op.
SignalReady(i) ==
    app' = IF app = "stop_wait" /\ stop_index = i THEN "stop" ELSE app

\* Under the instance's mutex, and after a wait for the instance to be inactive.
StartInstance(g) ==
    LET i == start_index[g]
    IN  /\ runner[g] = "start"
        /\ ~active[i]
        /\ \E ok \in StartResult :
              /\ status' = [status EXCEPT ![i] = IF ok THEN "SUCCESS" ELSE "FAIL"]
              /\ started' = [started EXCEPT ![i] = ok \/ @]
              /\ runner' = [runner EXCEPT ![g] = IF ok THEN "spawn" ELSE "none"]
        /\ SignalReady(i)
        /\ UNCHANGED <<stop_index, context_state, config, active, polling, running,
                       start_index, scheduler, poller, next_instance, request>>

MutStartsFewer(i) == i + 2 < Instances
StartsAnother(i) == i + 1 < Instances

\* Start the polling thread, and set the flag: without the mutex or a signal.
SpawnPoller(g) ==
    LET i == start_index[g]
    IN  /\ runner[g] = "spawn"
        /\ poller' = [poller EXCEPT ![g][i] = "enter"]
        /\ active' = [active EXCEPT ![i] = TRUE]
        /\ IF StartsAnother(i)
           THEN /\ start_index' = [start_index EXCEPT ![g] = i + 1]
                /\ runner' = [runner EXCEPT ![g] = "start"]
           ELSE /\ start_index' = [start_index EXCEPT ![g] = 0]
                /\ runner' = [runner EXCEPT ![g] = "enter"]
        /\ UNCHANGED <<appVars, context_state, config, polling, status, running,
                       scheduler, next_instance, started, request>>

\* Or fail to.
SpawnFails(g) ==
    /\ runner[g] = "spawn"
    /\ "create" \in Faults
    /\ runner' = [runner EXCEPT ![g] = "none"]
    /\ UNCHANGED <<appVars, context_state, config, instVars, running, start_index,
                   scheduler, poller, next_instance, started, request>>

RunnerEnters(g) ==
    /\ runner[g] = "enter"
    /\ running' = [running EXCEPT ![g] = TRUE]
    /\ runner' = [runner EXCEPT ![g] = "test"]
    /\ UNCHANGED <<appVars, context_state, config, instVars, start_index, scheduler,
                   poller, next_instance, started, request>>

RunnerTests(g) ==
    /\ runner[g] = "test"
    /\ runner' = [runner EXCEPT ![g] = IF running[g] THEN "read" ELSE "none"]
    /\ UNCHANGED <<appVars, context_state, config, instVars, running, start_index,
                   scheduler, poller, next_instance, started, request>>

MutUnwrapped(i) == i + 1
FollowingInstance(i) == (i + 1) % Instances

\* read_request_list, then the request goes to the next instance; a stopped one
\* refuses it, and then nobody is told.
Offload(g) ==
    /\ runner[g] = "read"
    /\ request = "queued"
    /\ runner' = [runner EXCEPT ![g] = "test"]
    /\ \/ /\ started[next_instance]
          /\ request' = "device"
          /\ next_instance' = FollowingInstance(next_instance)
          /\ SignalReady(next_instance')
       \/ /\ ~started[next_instance]
          /\ request' = "failed"
          /\ UNCHANGED <<app, next_instance>>
    /\ UNCHANGED <<stop_index, context_state, config, instVars, running, start_index,
                   scheduler, poller, started>>

-----------------------------------------------------------------------------
(* start_inst_polling of instance i, in configuration g.                   *)

PollerEnters(g, i) ==
    /\ poller[g][i] = "enter"
    /\ polling' = [polling EXCEPT ![i] = TRUE]
    /\ poller' = [poller EXCEPT ![g][i] = "test"]
    /\ UNCHANGED <<appVars, context_state, config, active, status, running,
                   runnerVars, scheduler, next_instance, started, request>>

PollerExits(g, i) ==
    /\ poller[g][i] = "test"
    /\ ~polling[i]
    /\ poller' = [poller EXCEPT ![g][i] = "none"]
    /\ UNCHANGED <<appVars, context_state, config, instVars, running, runnerVars,
                   scheduler, next_instance, started, request>>

Poll(g, i) ==
    /\ poller[g][i] = "test"
    /\ polling[i]
    /\ request = "device" /\ i = (next_instance + Instances - 1) % Instances
    /\ request' = "answered"
    /\ UNCHANGED <<appVars, context_state, config, instVars, running, runnerVars,
                   scheduler, poller, next_instance, started>>

-----------------------------------------------------------------------------
\* pthread_cond_wait may return without a signal.
SpuriousWakeup ==
    /\ app = "stop_wait"
    /\ app' = "stop"
    /\ UNCHANGED <<stop_index, context_state, config, instVars, running, runnerVars,
                   scheduler, poller, next_instance, started, request>>

AppStep ==
    \/ Launch
    \/ app = "failed" /\ Release
    \/ StopWaits \/ StopInstance \/ Deactivate
    \/ Answered

RunnerStep(g) ==
    \/ StartInstance(g) \/ SpawnPoller(g) \/ SpawnFails(g)
    \/ RunnerEnters(g) \/ RunnerTests(g) \/ Offload(g)

SchedulerStep(g) == SchedulerEnters(g) \/ SchedulerTests(g) \/ SchedulerPulls(g)

PollerStep(g, i) == PollerEnters(g, i) \/ PollerExits(g, i) \/ Poll(g, i)

Next ==
    \/ Initialize \/ Release \/ Request \/ AppStep \/ SpuriousWakeup
    \/ \E g \in Config : RunnerStep(g) \/ SchedulerStep(g)
    \/ \E g \in Config, i \in Instance : PollerStep(g, i)

Spec == Init /\ [][Next]_vars

\* Every thread runs, and a call that has begun goes on.  When the application
\* calls is its own affair.
Fairness ==
    /\ WF_vars(AppStep)
    /\ \A g \in Config : WF_vars(RunnerStep(g)) /\ WF_vars(SchedulerStep(g))
    /\ \A g \in Config, i \in Instance : WF_vars(PollerStep(g, i))

FairSpec == Spec /\ Fairness

-----------------------------------------------------------------------------
(* Properties.                                                             *)

ContextTypeOK ==
    /\ app \in {"idle", "launch", "acquired", "failed", "request", "stop", "stop_wait",
                "deactivate"}
    /\ context_state \in {"INACTIVE", "ACTIVE", "RUNNING"}
    /\ config \in 0 .. MaxAcquires
    /\ stop_index \in Instance
    /\ active \in [Instance -> BOOLEAN]
    /\ polling \in [Instance -> BOOLEAN]
    /\ status \in [Instance -> {"SUCCESS", "FAIL"}]
    /\ running \in [Config -> BOOLEAN]
    /\ runner \in [Config -> {"none", "start", "spawn", "enter", "test", "read",
                              "lost"}]
    /\ start_index \in [Config -> Instance]
    /\ scheduler \in [Config -> {"none", "enter", "test", "pull", "lost"}]
    /\ poller \in [Config -> [Instance -> {"none", "enter", "test"}]]
    /\ next_instance \in Instance
    /\ started \in [Instance -> BOOLEAN]
    /\ request \in {"none", "outstanding", "queued", "device", "answered", "failed"}

\* After a release returned, all instances are stopped: stop_perform_op waits for each to become active, so that the
\* processing thread is past starting them.
ReleasedMeansStopped ==
    app = "idle" => \A i \in Instance : ~started[i]

\* The active flag of an instance, which stop_perform_op goes by, is never left
\* over from the previous configuration while the context is acquired.
ActiveMeansStarted ==
    app \in {"launch", "acquired", "request"} =>
        \A i \in Instance : active[i] => started[i]

\* No processing thread starts an instance that is already started, although the
\* thread of the previous configuration may still be alive.
InstanceStartedOnce ==
    [][\A g \in Config : runner[g] = "start" /\ runner'[g] = "spawn"
          => ~started[start_index[g]]]_vars

\* While the context says that it is running, a buffer manager is: schedule_requests
\* says so without context_lock, after a release or an acquire may have gone by.
RunningHasManager ==
    context_state = "RUNNING" => \E g \in Config : scheduler[g] # "none"

\* The first context that is acquired answers its requests, however far its
\* threads have got when the first one comes, if they could be started.
FirstContextServes ==
    (app = "request" /\ config = 1) ~> (app = "acquired" \/ runner[1] = "none")

\* ctrl.c says of the signals on the ready condition that they wake up any blocked
\* call to stop_perform_op: release_qat_devices returns.
ReleaseEnds == (app = "stop") ~> app = "idle"

\* context.c says that setting the state to inactive will terminate the buffer
\* manager thread.
BufferManagerTerminates ==
    \A g \in Config :
        (context_state = "INACTIVE" /\ config = g)
            ~> (scheduler[g] = "none" \/ config # g)

\* context.c says that acquire_qat_devices handles being called when the context
\* is already active and running: it initialises an inactive context only.
AcquiresInactiveOnly == [][config' # config => context_state = "INACTIVE"]_vars

=============================================================================
