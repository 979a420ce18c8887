------------------------- MODULE HeQatContext_proofs -------------------------
(***************************************************************************)
(* Proofs about HeQatContext, for every number of instances and of         *)
(* acquires, and whatever fails.  The last three theorems are about        *)
(* applications that do not acquire again what they have acquired.         *)
(***************************************************************************)
EXTENDS HeQatContext, TLAPS

-----------------------------------------------------------------------------
(* Types.                                                                  *)

LEMMA InstanceRange ==
    /\ 0 \in Instance
    /\ \A i \in Instance : i \in Nat /\ i < Instances
    /\ \A i \in Instance : i + 1 < Instances => i + 1 \in Instance
    /\ \A i \in Instance : FollowingInstance(i) \in Instance
    /\ \A i, j \in Instance : i < j \/ i = j \/ j < i
<1>1. \A i \in Instance : ((i + 1) % Instances) \in 0 .. Instances - 1
  BY ContextAssumption DEF Instance
<1>. QED  BY <1>1, ContextAssumption DEF Instance, FollowingInstance

LEMMA AcquireType ==
    ASSUME ContextTypeOK, Initialize \/ Launch
    PROVE  ContextTypeOK'
<1>1. CASE Initialize
  <2>1. PICK lost \in SUBSET StartBlocked, first \in Spawned :
           runner' = [g \in Config |-> IF g = config' THEN first
                                       ELSE IF g \in lost THEN "lost" ELSE runner[g]]
    BY <1>1 DEF Initialize
  <2>2. PICK gone \in SUBSET PullBlocked :
           scheduler' = [g \in Config |-> IF g \in gone THEN "lost" ELSE scheduler[g]]
    BY <1>1 DEF Initialize
  <2>3. first \in {"start", "none"}
    BY DEF Spawned
  <2>4. config' \in 0 .. MaxAcquires
    BY <1>1, ContextAssumption DEF Initialize, ContextTypeOK
  <2>5. runner' \in [Config -> {"none", "start", "spawn", "enter", "test", "read", "lost"}]
    BY <2>1, <2>3 DEF ContextTypeOK
  <2>6. scheduler' \in [Config -> {"none", "enter", "test", "pull", "lost"}]
    BY <2>2 DEF ContextTypeOK
  <2>. QED  BY <1>1, <2>4, <2>5, <2>6 DEF Initialize, ContextTypeOK, NoneActive
<1>2. CASE Launch
  BY <1>2 DEF Launch, ContextTypeOK, instVars, runnerVars
<1>. QED  BY <1>1, <1>2

LEMMA AppType ==
    ASSUME ContextTypeOK,
           Release \/ StopWaits \/ StopInstance \/ Deactivate \/ Request \/ Answered
              \/ SpuriousWakeup
    PROVE  ContextTypeOK'
<1>1. CASE Release
  BY <1>1 DEF Release, ContextTypeOK, instVars, runnerVars
<1>2. CASE StopWaits
  BY <1>2 DEF StopWaits, ContextTypeOK, instVars, runnerVars
<1>3. CASE StopInstance
  <2>1. stop_index' \in Instance
    BY <1>3, InstanceRange DEF StopInstance, ContextTypeOK
  <2>. QED  BY <1>3, <2>1 DEF StopInstance, ContextTypeOK, runnerVars
<1>4. CASE Deactivate
  BY <1>4 DEF Deactivate, ContextTypeOK, instVars, runnerVars
<1>5. CASE Request
  BY <1>5 DEF Request, ContextTypeOK, instVars, runnerVars
<1>6. CASE Answered
  BY <1>6 DEF Answered, ContextTypeOK, instVars, runnerVars
<1>7. CASE SpuriousWakeup
  BY <1>7 DEF SpuriousWakeup, ContextTypeOK, instVars, runnerVars
<1>. QED  BY <1>1, <1>2, <1>3, <1>4, <1>5, <1>6, <1>7

LEMMA SchedulerType ==
    ASSUME ContextTypeOK, NEW g \in Config, SchedulerStep(g)
    PROVE  ContextTypeOK'
<1>1. CASE SchedulerEnters(g)
  BY <1>1 DEF SchedulerEnters, ContextTypeOK, appVars, instVars, runnerVars
<1>2. CASE SchedulerTests(g)
  BY <1>2 DEF SchedulerTests, ContextTypeOK, appVars, instVars, runnerVars
<1>3. CASE SchedulerPulls(g)
  BY <1>3 DEF SchedulerPulls, ContextTypeOK, appVars, instVars, runnerVars
<1>. QED  BY <1>1, <1>2, <1>3 DEF SchedulerStep

LEMMA RunnerType ==
    ASSUME ContextTypeOK, NEW g \in Config, RunnerStep(g)
    PROVE  ContextTypeOK'
<1>1. CASE StartInstance(g)
  <2>1. start_index[g] \in Instance
    BY DEF ContextTypeOK
  <2>2. PICK ok \in BOOLEAN :
           /\ status' = [status EXCEPT ![start_index[g]] = IF ok THEN "SUCCESS" ELSE "FAIL"]
           /\ started' = [started EXCEPT ![start_index[g]] = ok \/ @]
           /\ runner' = [runner EXCEPT ![g] = IF ok THEN "spawn" ELSE "none"]
    BY <1>1 DEF StartInstance, StartResult
  <2>3. started' \in [Instance -> BOOLEAN]
    BY <2>1, <2>2 DEF ContextTypeOK
  <2>. QED  BY <1>1, <2>2, <2>3 DEF StartInstance, SignalReady, ContextTypeOK
<1>2. CASE SpawnPoller(g)
  <2>1. start_index[g] \in Instance
    BY DEF ContextTypeOK
  <2>2. start_index' \in [Config -> Instance]
    <3>1. CASE StartsAnother(start_index[g])
      <4>1. start_index[g] + 1 \in Instance
        BY <2>1, <3>1, InstanceRange DEF StartsAnother
      <4>. QED  BY <1>2, <3>1, <4>1 DEF SpawnPoller, ContextTypeOK
    <3>2. CASE ~StartsAnother(start_index[g])
      BY <1>2, <3>2, InstanceRange DEF SpawnPoller, ContextTypeOK
    <3>. QED  BY <3>1, <3>2
  <2>3. poller' \in [Config -> [Instance -> {"none", "enter", "test"}]]
    BY <1>2, <2>1 DEF SpawnPoller, ContextTypeOK
  <2>4. runner' \in [Config -> {"none", "start", "spawn", "enter", "test", "read", "lost"}]
    BY <1>2 DEF SpawnPoller, ContextTypeOK
  <2>5. active' \in [Instance -> BOOLEAN]
    BY <1>2, <2>1 DEF SpawnPoller, ContextTypeOK
  <2>. QED  BY <1>2, <2>2, <2>3, <2>4, <2>5 DEF SpawnPoller, ContextTypeOK, appVars
<1>3. CASE SpawnFails(g)
  BY <1>3 DEF SpawnFails, ContextTypeOK, appVars, instVars
<1>4. CASE RunnerEnters(g)
  BY <1>4 DEF RunnerEnters, ContextTypeOK, appVars, instVars
<1>5. CASE RunnerTests(g)
  BY <1>5 DEF RunnerTests, ContextTypeOK, appVars, instVars
<1>6. CASE Offload(g)
  <2>1. next_instance' \in Instance
    BY <1>6, InstanceRange DEF Offload, ContextTypeOK
  <2>. QED  BY <1>6, <2>1 DEF Offload, SignalReady, ContextTypeOK, instVars
<1>. QED  BY <1>1, <1>2, <1>3, <1>4, <1>5, <1>6 DEF RunnerStep

LEMMA PollerType ==
    ASSUME ContextTypeOK, NEW g \in Config, NEW i \in Instance, PollerStep(g, i)
    PROVE  ContextTypeOK'
<1>1. CASE PollerEnters(g, i)
  BY <1>1 DEF PollerEnters, ContextTypeOK, appVars, runnerVars
<1>2. CASE PollerExits(g, i)
  BY <1>2 DEF PollerExits, ContextTypeOK, appVars, instVars, runnerVars
<1>3. CASE Poll(g, i)
  BY <1>3 DEF Poll, ContextTypeOK, appVars, instVars, runnerVars
<1>. QED  BY <1>1, <1>2, <1>3 DEF PollerStep

\* Whatever the application calls, the flags, the control state of every thread
\* and the instance counters keep their types.
THEOREM ContextTypeCorrect == Spec => []ContextTypeOK
<1>1. Init => ContextTypeOK
  BY InstanceRange, ContextAssumption DEF Init, ContextTypeOK
<1>2. ContextTypeOK /\ [Next]_vars => ContextTypeOK'
  <2>1. ASSUME ContextTypeOK, Next
        PROVE  ContextTypeOK'
    BY <2>1, AcquireType, AppType, SchedulerType, RunnerType, PollerType DEF Next, AppStep
  <2>2. ASSUME ContextTypeOK, UNCHANGED vars
        PROVE  ContextTypeOK'
    BY <2>2 DEF ContextTypeOK, vars, appVars, instVars, runnerVars
  <2>. QED  BY <2>1, <2>2
<1>. QED  BY <1>1, <1>2, PTL DEF Spec

-----------------------------------------------------------------------------
(* The buffer manager.                                                     *)

\* SchedulerEnters says that the context is running as it begins; the manager
\* ends only once the context is inactive again.
LEMMA ManagerStep ==
    ASSUME ContextTypeOK, RunningHasManager, Next
    PROVE  RunningHasManager'
<1>1. CASE Initialize
  <2>1. PICK gone \in SUBSET PullBlocked :
           scheduler' = [g \in Config |-> IF g \in gone THEN "lost" ELSE scheduler[g]]
    BY <1>1 DEF Initialize
  <2>2. \A g \in Config : scheduler[g] # "none" => scheduler'[g] # "none"
    BY <2>1
  <2>. QED  BY <1>1, <2>2 DEF Initialize, RunningHasManager
<1>2. CASE Launch \/ Release \/ StopWaits \/ StopInstance \/ Deactivate \/ Request
              \/ Answered \/ SpuriousWakeup
  BY <1>2 DEF Launch, Release, StopWaits, StopInstance, Deactivate, Request, Answered,
              SpuriousWakeup, RunningHasManager
<1>3. ASSUME NEW g \in Config, SchedulerStep(g)
      PROVE  RunningHasManager'
  BY <1>3 DEF SchedulerStep, SchedulerEnters, SchedulerTests, SchedulerPulls, Deactivated,
              ContextTypeOK, RunningHasManager
<1>4. ASSUME NEW g \in Config, RunnerStep(g)
      PROVE  RunningHasManager'
  BY <1>4 DEF RunnerStep, StartInstance, SpawnPoller, SpawnFails, RunnerEnters, RunnerTests,
              Offload, RunningHasManager
<1>5. ASSUME NEW g \in Config, NEW i \in Instance, PollerStep(g, i)
      PROVE  RunningHasManager'
  BY <1>5 DEF PollerStep, PollerEnters, PollerExits, Poll, RunningHasManager
<1>. QED  BY <1>1, <1>2, <1>3, <1>4, <1>5 DEF Next, AppStep

\* schedule_requests says that the context is running without context_lock, when a
\* release or another acquire may have gone by; still, while the state says so,
\* some buffer manager has not ended.
THEOREM ManagerWhileRunning == Spec => []RunningHasManager
<1>1. Init => RunningHasManager
  BY DEF Init, RunningHasManager
<1>2. ContextTypeOK /\ RunningHasManager /\ [Next]_vars => RunningHasManager'
  <2>1. ASSUME RunningHasManager, UNCHANGED vars
        PROVE  RunningHasManager'
    BY <2>1 DEF RunningHasManager, vars
  <2>. QED  BY <2>1, ManagerStep
<1>. QED  BY <1>1, <1>2, ContextTypeCorrect, PTL DEF Spec

-----------------------------------------------------------------------------
(* Starting and stopping instances.                                        *)

Starting(g) == runner[g] \in {"start", "spawn"}

\* A configuration has threads from its acquire on.
ThreadsBegin ==
    \A g \in Config : g > config => runner[g] = "none" /\ start_index[g] = 0

\* Only the latest processing thread starts instances, in order: the active ones
\* are those it is past, and no other is started but the one it spawns a polling
\* thread for.
StartsInOrder ==
    \A g \in Config : Starting(g) =>
        /\ g = config
        /\ \A i \in Instance : active[i] <=> i < start_index[g]
        /\ \A i \in Instance : started[i] =>
              i < start_index[g] \/ (i = start_index[g] /\ runner[g] = "spawn")
        /\ runner[g] = "spawn" => started[start_index[g]]

\* release_qat_devices has stopped the instances that it is past, and they were
\* active, so that they are not started again.
StopsInOrder ==
    IF app \in {"stop", "stop_wait"}
    THEN \A i \in Instance : i < stop_index => active[i] /\ ~started[i]
    ELSE stop_index = 0

AllStopped ==
    app \in {"deactivate", "idle"} =>
        \A i \in Instance : ~started[i] /\ (config = 0 \/ active[i])

\* stop_perform_op, which looks at the status, does not miss an instance.
StatusTold == \A i \in Instance : started[i] => status[i] = "SUCCESS"

Acquiring == app \in {"launch", "acquired", "request", "failed"}

ActiveServes == Acquiring => \A i \in Instance : active[i] => started[i]

CycleInv ==
    /\ ContextTypeOK
    /\ ThreadsBegin
    /\ StartsInOrder
    /\ StopsInOrder
    /\ AllStopped
    /\ StatusTold
    /\ ActiveServes

\* Between releases nothing is left to start.
LEMMA IdleStartsNothing ==
    ASSUME CycleInv, app \in {"deactivate", "idle"}, NEW g \in Config
    PROVE  ~Starting(g)
<1>. SUFFICES ASSUME Starting(g)
              PROVE  FALSE
  OBVIOUS
<1>1. /\ g = config
      /\ start_index[g] \in Instance
      /\ ~active[start_index[g]]
  BY DEF CycleInv, StartsInOrder, ContextTypeOK, Instance
<1>2. config # 0
  BY <1>1 DEF Config
<1>. QED  BY <1>1, <1>2 DEF CycleInv, AllStopped

\* Most steps neither start nor stop an instance.
LEMMA QuietStep ==
    ASSUME CycleInv, ContextTypeOK',
           UNCHANGED <<config, active, status, start_index, started, stop_index>>,
           \A g \in Config : runner'[g] = runner[g] \/ (~Starting(g)' /\ g <= config),
           \/ app' = app
           \/ Acquiring /\ Acquiring'
           \/ {app, app'} \subseteq {"stop", "stop_wait"}
    PROVE  CycleInv'
<1>1. ThreadsBegin'
  <2>. SUFFICES ASSUME NEW g \in Config, g > config
                PROVE  runner'[g] = "none" /\ start_index'[g] = 0
    BY DEF ThreadsBegin
  <2>1. g \in Int /\ config \in Int
    BY DEF CycleInv, ContextTypeOK, Config
  <2>. QED  BY <2>1 DEF CycleInv, ThreadsBegin
<1>2. StartsInOrder'
  BY DEF CycleInv, StartsInOrder, Starting
<1>3. StopsInOrder' /\ AllStopped' /\ StatusTold' /\ ActiveServes'
  BY DEF CycleInv, StopsInOrder, AllStopped, StatusTold, ActiveServes, Acquiring
<1>. QED  BY <1>1, <1>2, <1>3 DEF CycleInv

\* An acquire after a release forgets the instances, all of them stopped, and
\* has one processing thread start them.
LEMMA InitializeStep ==
    ASSUME ~Reacquires, CycleInv, ContextTypeOK', Initialize
    PROVE  CycleInv'
<1>1. /\ app = "idle" /\ app' = "launch"
      /\ config' = config + 1 /\ config' \in Config
      /\ config \in Int
      /\ active' = [i \in Instance |-> FALSE]
      /\ UNCHANGED <<stop_index, start_index, started>>
  BY ContextAssumption DEF Initialize, NoneActive, CycleInv, ContextTypeOK, Config
<1>2. \A g \in Config : ~Starting(g)
  BY <1>1, IdleStartsNothing
<1>3. PICK lost \in SUBSET StartBlocked, first \in Spawned :
         runner' = [g \in Config |-> IF g = config' THEN first
                                     ELSE IF g \in lost THEN "lost" ELSE runner[g]]
  BY DEF Initialize
<1>4. lost = {}
  BY <1>2 DEF StartBlocked, Starting
<1>5. \A i \in Instance : ~started[i]
  BY <1>1 DEF CycleInv, AllStopped
<1>6. start_index[config'] = 0 /\ first \in {"none", "start"}
  BY <1>1 DEF CycleInv, ThreadsBegin, Config, Spawned
<1>7. ThreadsBegin'
  <2>. SUFFICES ASSUME NEW g \in Config, g > config'
                PROVE  runner'[g] = "none" /\ start_index'[g] = 0
    BY DEF ThreadsBegin
  <2>1. g > config /\ g # config'
    BY <1>1 DEF Config
  <2>. QED  BY <1>1, <1>3, <1>4, <2>1 DEF CycleInv, ThreadsBegin
<1>8. StartsInOrder'
  <2>. SUFFICES ASSUME NEW g \in Config, Starting(g)'
                PROVE  /\ g = config'
                       /\ runner'[g] = "start"
                       /\ start_index'[g] = 0
    BY <1>1, <1>5 DEF StartsInOrder, Instance
  <2>1. g = config'
    BY <1>2, <1>3, <1>4 DEF Starting
  <2>. QED  BY <1>1, <1>3, <1>6, <2>1 DEF Starting
<1>9. StopsInOrder' /\ AllStopped' /\ StatusTold' /\ ActiveServes'
  BY <1>1, <1>5 DEF CycleInv, StopsInOrder, AllStopped, StatusTold, ActiveServes
<1>. QED  BY <1>7, <1>8, <1>9 DEF CycleInv

LEMMA ReleaseStep ==
    ASSUME CycleInv, ContextTypeOK', Release
    PROVE  CycleInv'
<1>1. /\ app \in {"idle", "acquired", "failed"} /\ app' = "stop"
      /\ UNCHANGED <<stop_index, config, active, status, runner, start_index, started>>
  BY DEF Release, instVars, runnerVars
<1>2. ThreadsBegin' /\ StartsInOrder' /\ StatusTold'
  BY <1>1 DEF CycleInv, ThreadsBegin, StartsInOrder, Starting, StatusTold
<1>3. stop_index = 0
  BY <1>1 DEF CycleInv, StopsInOrder
<1>4. StopsInOrder' /\ AllStopped' /\ ActiveServes'
  BY <1>1, <1>3 DEF StopsInOrder, AllStopped, ActiveServes, Acquiring, Instance
<1>. QED  BY <1>2, <1>4 DEF CycleInv

\* stop_perform_op stops an instance that is active, which the processing thread
\* is past.
LEMMA StopStep ==
    ASSUME CycleInv, ContextTypeOK', StopInstance
    PROVE  CycleInv'
<1>. DEFINE s == stop_index
<1>1. /\ app = "stop" /\ active[s] /\ s \in Instance
      /\ UNCHANGED <<config, active, status, runner, start_index>>
  BY DEF StopInstance, MayStop, CycleInv, ContextTypeOK, runnerVars
<1>2. /\ \A i \in Instance : started'[i] => started[i] /\ i # s
      /\ \A i \in Instance : started[i] => started'[i] \/ i = s
  BY <1>1 DEF StopInstance, CycleInv, ContextTypeOK, StatusTold
<1>3. ThreadsBegin' /\ StatusTold'
  BY <1>1, <1>2 DEF CycleInv, ThreadsBegin, StatusTold
<1>4. StartsInOrder'
  <2>. SUFFICES ASSUME NEW g \in Config, Starting(g)
                PROVE  runner[g] = "spawn" => started'[start_index[g]]
    BY <1>1, <1>2 DEF CycleInv, StartsInOrder, Starting
  <2>1. start_index[g] \in Instance /\ ~active[start_index[g]]
    BY DEF CycleInv, ContextTypeOK, StartsInOrder, Instance
  <2>. QED  BY <1>1, <1>2, <2>1 DEF CycleInv, StartsInOrder
<1>5. CASE s + 1 < Instances
  <2>1. stop_index' = s + 1 /\ app' = "stop"
    BY <1>5 DEF StopInstance
  <2>2. \A i \in Instance : i < s + 1 => i < s \/ i = s
    BY <1>1 DEF Instance
  <2>3. StopsInOrder'
    BY <1>1, <1>2, <2>1, <2>2 DEF CycleInv, StopsInOrder
  <2>. QED  BY <1>3, <1>4, <2>1, <2>3 DEF CycleInv, AllStopped, ActiveServes, Acquiring
<1>6. CASE ~(s + 1 < Instances)
  <2>1. stop_index' = 0 /\ app' = "deactivate"
    BY <1>6 DEF StopInstance
  <2>2. \A i \in Instance : i < s \/ i = s
    BY <1>1, <1>6, ContextAssumption DEF Instance
  <2>3. \A i \in Instance : ~started'[i] /\ active'[i]
    BY <1>1, <1>2, <2>2 DEF CycleInv, StopsInOrder
  <2>. QED  BY <1>3, <1>4, <2>1, <2>3
            DEF CycleInv, StopsInOrder, AllStopped, ActiveServes, Acquiring
<1>. QED  BY <1>5, <1>6

LEMMA DeactivateStep ==
    ASSUME CycleInv, ContextTypeOK', Deactivate
    PROVE  CycleInv'
<1>1. /\ app = "deactivate" /\ app' = "idle"
      /\ UNCHANGED <<stop_index, config, active, status, runner, start_index, started>>
  BY DEF Deactivate, instVars, runnerVars
<1>. QED  BY <1>1 DEF CycleInv, ThreadsBegin, StartsInOrder, Starting, StopsInOrder,
                      AllStopped, StatusTold, ActiveServes, Acquiring

\* start_instances starts an instance that no call has started.
LEMMA StartStep ==
    ASSUME CycleInv, ContextTypeOK', NEW g \in Config, StartInstance(g)
    PROVE  CycleInv'
<1>. DEFINE i == start_index[g]
<1>1. /\ runner[g] = "start" /\ i \in Instance
      /\ UNCHANGED <<stop_index, config, active, start_index>>
      /\ app' = app \/ {app, app'} \subseteq {"stop", "stop_wait"}
  BY DEF StartInstance, SignalReady, CycleInv, ContextTypeOK
<1>2. /\ g = config
      /\ \A j \in Instance : active[j] <=> j < i
      /\ \A j \in Instance : started[j] => j < i
  BY <1>1 DEF CycleInv, StartsInOrder, Starting
<1>3. PICK ok \in BOOLEAN :
         /\ status' = [status EXCEPT ![i] = IF ok THEN "SUCCESS" ELSE "FAIL"]
         /\ started' = [started EXCEPT ![i] = ok \/ @]
         /\ runner' = [runner EXCEPT ![g] = IF ok THEN "spawn" ELSE "none"]
  BY DEF StartInstance, StartResult
<1>4. /\ ~active[i] /\ ~started[i]
      /\ started'[i] = ok /\ \A j \in Instance : j # i => started'[j] = started[j]
  BY <1>1, <1>2, <1>3 DEF CycleInv, ContextTypeOK, Instance
<1>5. ThreadsBegin'
  <2>1. config \in Int
    BY DEF CycleInv, ContextTypeOK
  <2>. QED  BY <1>1, <1>2, <1>3, <2>1 DEF CycleInv, ContextTypeOK, ThreadsBegin
<1>6. StartsInOrder'
  <2>. SUFFICES ASSUME NEW h \in Config, Starting(h)'
                PROVE  h = g /\ ok /\ runner'[h] = "spawn"
    BY <1>1, <1>2, <1>4 DEF StartsInOrder
  <2>1. h = g
    BY <1>2, <1>3 DEF CycleInv, ContextTypeOK, StartsInOrder, Starting
  <2>. QED  BY <1>3, <2>1 DEF CycleInv, ContextTypeOK, Starting
<1>7. StopsInOrder'
  BY <1>1, <1>4 DEF CycleInv, StopsInOrder
<1>8. AllStopped'
  <2>1. ~(app' \in {"deactivate", "idle"})
    <3>1. app \notin {"deactivate", "idle"}
      BY <1>1, IdleStartsNothing DEF Starting
    <3>. QED  BY <1>1, <3>1
  <2>. QED  BY <2>1 DEF AllStopped
<1>9. StatusTold'
  BY <1>3, <1>4 DEF CycleInv, ContextTypeOK, StatusTold
<1>10. ActiveServes'
  BY <1>1, <1>4 DEF CycleInv, ActiveServes, Acquiring
<1>. QED  BY <1>5, <1>6, <1>7, <1>8, <1>9, <1>10 DEF CycleInv

\* It sets the active flag of the instance it has started.
LEMMA SpawnStep ==
    ASSUME CycleInv, ContextTypeOK', NEW g \in Config, SpawnPoller(g)
    PROVE  CycleInv'
<1>. DEFINE i == start_index[g]
<1>1. /\ runner[g] = "spawn" /\ i \in Instance
      /\ active' = [active EXCEPT ![i] = TRUE]
      /\ UNCHANGED <<app, stop_index, config, status, started>>
  BY DEF SpawnPoller, CycleInv, ContextTypeOK, appVars
<1>2. /\ g = config
      /\ \A j \in Instance : active[j] <=> j < i
      /\ \A j \in Instance : started[j] => j < i \/ j = i
      /\ started[i]
  BY <1>1 DEF CycleInv, StartsInOrder, Starting
<1>3. \A j \in Instance : active'[j] <=> (j < i \/ j = i)
  BY <1>1, <1>2 DEF CycleInv, ContextTypeOK
<1>4. \A h \in Config : h # g => runner'[h] = runner[h] /\ start_index'[h] = start_index[h]
  BY DEF SpawnPoller, CycleInv, ContextTypeOK
<1>5. ThreadsBegin'
  <2>1. config \in Int
    BY DEF CycleInv, ContextTypeOK
  <2>. QED  BY <1>1, <1>2, <1>4, <2>1 DEF CycleInv, ThreadsBegin
<1>6. StartsInOrder'
  <2>. SUFFICES ASSUME NEW h \in Config, Starting(h)'
                PROVE  h = g /\ runner'[h] = "start" /\ start_index'[h] = i + 1
    <3>1. \A j \in Instance : j < i + 1 <=> (j < i \/ j = i)
      BY <1>1 DEF Instance
    <3>. QED  BY <1>1, <1>2, <1>3, <3>1 DEF StartsInOrder
  <2>1. h = g
    BY <1>2, <1>4 DEF CycleInv, StartsInOrder, Starting
  <2>2. runner'[g] # "enter"
    BY <2>1 DEF Starting
  <2>3. StartsAnother(i)
    BY <2>2 DEF SpawnPoller, CycleInv, ContextTypeOK
  <2>. QED  BY <2>1, <2>3 DEF SpawnPoller, CycleInv, ContextTypeOK
<1>7. StopsInOrder'
  BY <1>1, <1>3, <1>2 DEF CycleInv, StopsInOrder
<1>8. AllStopped'
  <2>1. app \notin {"deactivate", "idle"}
    BY <1>1, IdleStartsNothing DEF Starting
  <2>. QED  BY <1>1, <2>1 DEF AllStopped
<1>9. StatusTold' /\ ActiveServes'
  BY <1>1, <1>2, <1>3 DEF CycleInv, StatusTold, ActiveServes, Acquiring
<1>. QED  BY <1>5, <1>6, <1>7, <1>8, <1>9 DEF CycleInv

LEMMA CycleStep ==
    ASSUME ~Reacquires, CycleInv, ContextTypeOK', Next
    PROVE  CycleInv'
<1>1. CASE Initialize \/ Release \/ StopInstance \/ Deactivate
  BY <1>1, InitializeStep, ReleaseStep, StopStep, DeactivateStep
<1>2. CASE Launch \/ Request \/ Answered \/ StopWaits \/ SpuriousWakeup
  <2>1. UNCHANGED <<config, active, status, runner, start_index, started, stop_index>>
    BY <1>2 DEF Launch, Request, Answered, StopWaits, SpuriousWakeup, instVars, runnerVars
  <2>2. (Acquiring /\ Acquiring') \/ {app, app'} \subseteq {"stop", "stop_wait"}
    BY <1>2 DEF Launch, Request, Answered, StopWaits, SpuriousWakeup, Acquiring
  <2>. QED  BY <2>1, <2>2, QuietStep
<1>3. ASSUME NEW g \in Config, SchedulerStep(g)
      PROVE  CycleInv'
  <2>1. UNCHANGED <<app, config, active, status, runner, start_index, started, stop_index>>
    BY <1>3 DEF SchedulerStep, SchedulerEnters, SchedulerTests, SchedulerPulls, appVars,
                instVars, runnerVars
  <2>. QED  BY <2>1, QuietStep
<1>4. ASSUME NEW g \in Config, NEW i \in Instance, PollerStep(g, i)
      PROVE  CycleInv'
  <2>1. UNCHANGED <<app, config, active, status, runner, start_index, started, stop_index>>
    BY <1>4 DEF PollerStep, PollerEnters, PollerExits, Poll, appVars, instVars, runnerVars
  <2>. QED  BY <2>1, QuietStep
<1>5. ASSUME NEW g \in Config, RunnerStep(g)
      PROVE  CycleInv'
  <2>1. CASE StartInstance(g) \/ SpawnPoller(g)
    BY <2>1, StartStep, SpawnStep
  <2>2. CASE SpawnFails(g) \/ RunnerEnters(g) \/ RunnerTests(g) \/ Offload(g)
    <3>1. UNCHANGED <<config, active, status, start_index, started, stop_index>>
      BY <2>2 DEF SpawnFails, RunnerEnters, RunnerTests, Offload, appVars, instVars
    <3>2. app' = app \/ {app, app'} \subseteq {"stop", "stop_wait"}
      BY <2>2 DEF SpawnFails, RunnerEnters, RunnerTests, Offload, SignalReady, appVars
    <3>3. runner[g] # "none"
      BY <2>2 DEF SpawnFails, RunnerEnters, RunnerTests, Offload
    <3>4. g <= config
      BY <3>3 DEF CycleInv, ContextTypeOK, ThreadsBegin, Config
    <3>5. /\ \A h \in Config : h # g => runner'[h] = runner[h]
          /\ ~Starting(g)'
      BY <2>2 DEF SpawnFails, RunnerEnters, RunnerTests, Offload, Starting, CycleInv,
                  ContextTypeOK
    <3>. QED  BY <3>1, <3>2, <3>4, <3>5, QuietStep
  <2>. QED  BY <1>5, <2>1, <2>2 DEF RunnerStep
<1>. QED  BY <1>1, <1>2, <1>3, <1>4, <1>5 DEF Next, AppStep

\* In an application that does not acquire again what it has acquired, the flags
\* that start_instances sets and stop_perform_op tests, without the mutex of the
\* instance, tell how far each of the two has got.
THEOREM CycleInvariant ==
    ASSUME ~Reacquires
    PROVE  Spec => []CycleInv
<1>1. Init => CycleInv
  <2>. SUFFICES ASSUME Init
                PROVE  CycleInv
    OBVIOUS
  <2>1. ContextTypeOK
    BY InstanceRange, ContextAssumption DEF Init, ContextTypeOK
  <2>2. ThreadsBegin /\ StartsInOrder
    BY DEF Init, ThreadsBegin, StartsInOrder, Starting
  <2>3. StopsInOrder /\ AllStopped /\ StatusTold /\ ActiveServes
    BY DEF Init, StopsInOrder, AllStopped, StatusTold, ActiveServes, Acquiring
  <2>. QED  BY <2>1, <2>2, <2>3 DEF CycleInv
<1>2. CycleInv /\ ContextTypeOK' /\ [Next]_vars => CycleInv'
  <2>1. ASSUME CycleInv, ContextTypeOK', UNCHANGED vars
        PROVE  CycleInv'
    <3>1. UNCHANGED <<app, config, active, status, runner, start_index, started, stop_index>>
      BY <2>1 DEF vars, appVars, instVars, runnerVars
    <3>. QED  BY <2>1, <3>1, QuietStep
  <2>. QED  BY <2>1, CycleStep
<1>. QED  BY <1>1, <1>2, ContextTypeCorrect, PTL DEF Spec

\* release_qat_devices returns with every instance stopped, although the
\* processing thread may still have been starting them when it was called.
THEOREM ReleaseStopsAll ==
    ASSUME ~Reacquires
    PROVE  Spec => []ReleasedMeansStopped
<1>1. CycleInv => ReleasedMeansStopped
  BY DEF CycleInv, AllStopped, ReleasedMeansStopped
<1>. QED  BY <1>1, CycleInvariant, PTL

\* acquire_qat_devices clears the active flags that a release leaves set, so that
\* the next release does not take an old flag for a started instance.
THEOREM ActiveIsCurrent ==
    ASSUME ~Reacquires
    PROVE  Spec => []ActiveMeansStarted
<1>1. CycleInv => ActiveMeansStarted
  BY DEF CycleInv, ActiveServes, Acquiring, ActiveMeansStarted
<1>. QED  BY <1>1, CycleInvariant, PTL

\* start_instances never starts an instance that is started.
THEOREM StartsOnce ==
    ASSUME ~Reacquires
    PROVE  Spec => InstanceStartedOnce
<1>1. CycleInv /\ [Next]_vars =>
        [\A g \in Config : runner[g] = "start" /\ runner'[g] = "spawn"
            => ~started[start_index[g]]]_vars
  <2>. SUFFICES ASSUME CycleInv, NEW g \in Config, runner[g] = "start"
                PROVE  ~started[start_index[g]]
    OBVIOUS
  <2>. QED  BY DEF CycleInv, ContextTypeOK, StartsInOrder, Starting, Instance
<1>. QED  BY <1>1, CycleInvariant, PTL DEF Spec, InstanceStartedOnce

=============================================================================
