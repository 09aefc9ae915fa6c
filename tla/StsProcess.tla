----------------------------- MODULE StsProcess -----------------------------
(***************************************************************************)
(* The SQL Tools Service process: StsProcessManager, which spawns the      *)
(* server, shakes hands with it, names each incarnation by an epoch,       *)
(* restarts it after a crash and stops it; and StsRuntime, which starts a  *)
(* manager on demand and replaces one that has used up its restarts.       *)
(*                                                                         *)
(* One runtime: the shared one of the extension, or the protected one that *)
(* a Leave-No-Trace operation has to itself.  A runtime has one manager    *)
(* with any life in it at a time.  An epoch is named by its process.       *)
(***************************************************************************)
EXTENDS Naturals, FiniteSets

CONSTANTS
    MaxRestarts,    \* MAX_RESTARTS
    MaxCrashes      \* bound on the processes that die by themselves

ASSUME StsProcessAssumption == {MaxRestarts, MaxCrashes} \subseteq Nat

VARIABLES
    protected,      \* the runtime is a protected one, whose start records its process first
    manager,        \* number of managers created
    process,        \* _process and _connection: a process, or 0
    ready,          \* state of _readyPromise
    generation,     \* number of promises _readyPromise has been
    activeEpoch,    \* _activeEpoch, or 0
    restarts,       \* _restartCount
    timer,          \* _restartTimer is set
    stopped,        \* _stopped
    start,          \* where start() is suspended, and its process
    stop,           \* where stop() is suspended, and its process
    published,      \* processManager is set
    starting,       \* where startCore() is suspended: what startPromise waits for
    attempt,        \* its attempt
    disposal,       \* where dispose() is suspended
    alive,          \* processes that run
    spawned,        \* number of processes spawned
    crashes

managerVars == <<manager, process, ready, generation, activeEpoch, restarts, timer, stopped, start,
                 stop>>
runtimeVars == <<published, starting, attempt, disposal>>
systemVars == <<alive, spawned, crashes>>
processVars == <<protected, managerVars, runtimeVars, systemVars>>

Idle == [stage |-> "idle", pid |-> 0]
Pids == 1 .. MaxCrashes + 1         \* each process but the last has crashed

ProcessInit ==
    /\ protected \in BOOLEAN
    /\ manager = 0 /\ process = 0 /\ ready = "pending" /\ generation = 0 /\ activeEpoch = 0
    /\ restarts = 0 /\ timer = FALSE /\ stopped = FALSE
    /\ start = Idle /\ stop = Idle
    /\ published = FALSE /\ starting = "no" /\ attempt = 0 /\ disposal = "no"
    /\ alive = {} /\ spawned = 0 /\ crashes = 0

Disposed == disposal # "no"
IsRunning == process # 0 /\ activeEpoch # 0

-----------------------------------------------------------------------------
(* StsRuntime: startCore and what follows it. *)

(* startPromise settles: a disposal that waits for it has nothing to stop. *)
EndStart ==
    /\ starting' = "no"
    /\ attempt' = 0
    /\ disposal' = IF disposal = "waiting" THEN "done" ELSE disposal

(* The catch clause of an attempt, once the manager has been stopped. *)
NextAttempt ==
    /\ IF attempt = 0 /\ ~Disposed
       THEN starting' = "installing" /\ attempt' = 1 /\ UNCHANGED disposal
       ELSE EndStart
    /\ UNCHANGED published

(* The manager failed for good: onDidFail drops it and starts another.     *)
Replace ==
    IF published /\ ~Disposed
    THEN published' = FALSE /\ starting' = "installing" /\ attempt' = 0 /\ UNCHANGED disposal
    ELSE UNCHANGED runtimeVars

(* getProcessManager, where there is no manager and none is being started. *)
Launch == starting' = "installing" /\ attempt' = 0

NeedsLaunch == ~published /\ starting = "no" /\ ~Disposed

-----------------------------------------------------------------------------
(* StsProcessManager. *)

(* spawn, up to the first await of start(). *)
Spawn(stage) ==
    /\ spawned' = spawned + 1
    /\ alive' = alive \cup {spawned + 1}
    /\ start' = [stage |-> stage, pid |-> spawned + 1]
    /\ process' = IF stage = "handshake" THEN spawned + 1 ELSE process
    /\ UNCHANGED crashes

FirstStage == IF protected THEN "recording" ELSE "handshake"

SettleReadyOnce(state) ==                    \* mutant: what waits is not refused
    ready' = IF ready = "pending" /\ state = "resolved" THEN state ELSE ready

SettleReady(state) == ready' = IF ready = "pending" THEN state ELSE ready

(* _handleExit of a process that is the current one, or when none is:      *)
(* the epoch ends, what waits for readiness is refused, and a restart is   *)
(* scheduled, as often as allowed.                                         *)
HandleExit(pid) ==
    /\ activeEpoch' = 0
    /\ process' = 0
    /\ alive' = alive \ {pid}
    /\ IF stopped
       THEN UNCHANGED <<ready, generation, restarts, timer>>
       ELSE IF restarts < MaxRestarts
       THEN /\ ready' = "pending" /\ generation' = generation + 1
            /\ restarts' = restarts + 1
            /\ timer' = TRUE
       ELSE SettleReady("rejected") /\ UNCHANGED <<generation, restarts, timer>>

(* The first start() of a manager failed: the exit is handled, then        *)
(* startCore stops the manager, which takes back the restart.              *)
Abandon(pid) ==
    /\ activeEpoch' = 0 /\ process' = 0 /\ alive' = alive \ {pid}
    /\ stopped' = TRUE /\ timer' = FALSE
    /\ ready' = "rejected"
    /\ UNCHANGED <<generation, restarts>>

GivesUp == ~stopped /\ restarts = MaxRestarts

(* stop() up to its first await; without a process it is over at once.     *)
BeginStop ==
    /\ stopped' = TRUE
    /\ timer' = FALSE
    /\ activeEpoch' = 0
    /\ SettleReady("rejected")
    /\ stop' = IF process = 0 THEN Idle ELSE [stage |-> "shutdown", pid |-> process]

(* ensureSts, after invalidateStsCache in the second attempt; a new        *)
(* manager then spawns its first process.                                  *)
Install(ok) ==
    /\ starting = "installing"
    /\ IF ok /\ ~Disposed
       THEN /\ manager' = manager + 1
            /\ ready' = "pending" /\ generation' = generation + 1
            /\ activeEpoch' = 0 /\ restarts' = 0 /\ timer' = FALSE /\ stopped' = FALSE
            /\ Spawn(FirstStage)
            /\ starting' = "starting"
            /\ UNCHANGED <<stop, published, attempt, disposal>>
       ELSE EndStart /\ UNCHANGED <<managerVars, systemVars, published>>
    /\ UNCHANGED protected

(* onProcessStarted writes the process down; the write fails when the      *)
(* sandbox is already gone.                                                *)
Recorded ==
    /\ start.stage = "recording"
    /\ start' = [start EXCEPT !.stage = "handshake"]
    /\ process' = start.pid
    /\ UNCHANGED <<protected, manager, ready, generation, activeEpoch, restarts, timer, stopped,
                   stop, runtimeVars, systemVars>>

RecordFails ==
    /\ start.stage = "recording" /\ disposal = "done"
    /\ start' = Idle
    /\ HandleExit(start.pid)
    /\ UNCHANGED <<protected, manager, stopped, stop, runtimeVars, spawned, crashes>>

(* The server answers initialize: the epoch begins.  startCore publishes   *)
(* the manager, unless the runtime was disposed meanwhile.                 *)
Initialized ==
    /\ start.stage = "handshake" /\ start.pid \in alive /\ process = start.pid
    /\ start' = Idle
    /\ IF starting = "starting" /\ Disposed
       THEN BeginStop /\ starting' = "failing" /\ UNCHANGED <<published, attempt, disposal>>
       ELSE /\ activeEpoch' = start.pid
            /\ SettleReady("resolved")
            /\ published' = (published \/ starting = "starting")
            /\ IF starting = "starting" THEN EndStart ELSE UNCHANGED <<starting, attempt, disposal>>
            /\ UNCHANGED <<timer, stopped, stop>>
    /\ UNCHANGED <<protected, manager, process, generation, restarts, systemVars>>

(* The process of the connection died: its exit is handled, and a start()  *)
(* under way fails.  A server that does not answer initialize is killed    *)
(* and handled alike.                                                      *)
Exit ==
    /\ process # 0 /\ process \notin alive
    /\ start' = IF start.pid = process THEN Idle ELSE start
    /\ IF starting = "starting"
       THEN Abandon(process) /\ NextAttempt
       ELSE /\ HandleExit(process)
            /\ IF GivesUp THEN Replace ELSE UNCHANGED runtimeVars
            /\ UNCHANGED stopped
    /\ UNCHANGED <<protected, manager, stop, spawned, crashes>>

(* The restart timer fires. *)
Restart ==
    /\ timer
    /\ timer' = FALSE
    /\ IF stopped THEN UNCHANGED <<start, process, systemVars>> ELSE Spawn(FirstStage)
    /\ UNCHANGED <<protected, manager, ready, generation, activeEpoch, restarts, stopped, stop,
                   runtimeVars>>

(* An epoch has lasted for STABLE_EPOCH_RESET_MS. *)
Stable ==
    /\ activeEpoch # 0 /\ ~stopped /\ restarts # 0
    /\ restarts' = 0
    /\ UNCHANGED <<protected, manager, process, ready, generation, activeEpoch, timer, stopped,
                   start, stop, runtimeVars, systemVars>>

(* shutdown was answered, timed out or was refused; the connection is      *)
(* disposed, which refuses an initialize still under way.                  *)
Shutdown ==
    /\ stop.stage = "shutdown"
    /\ stop' = [stop EXCEPT !.stage = "exiting"]
    /\ IF start.stage = "handshake"
       THEN start' = Idle /\ HandleExit(process)
       ELSE UNCHANGED <<start, activeEpoch, process, alive, ready, generation, restarts, timer>>
    /\ UNCHANGED <<protected, manager, stopped, runtimeVars, spawned, crashes>>

(* The process exits, or is killed after two seconds. *)
Stopped ==
    /\ stop.stage = "exiting"
    /\ stop' = Idle
    /\ alive' = alive \ {stop.pid}
    /\ process' = IF process = stop.pid THEN 0 ELSE process
    /\ activeEpoch' = IF activeEpoch = stop.pid THEN 0 ELSE activeEpoch
    /\ IF starting = "failing" THEN NextAttempt
       ELSE disposal' = (IF disposal = "stopping" THEN "done" ELSE disposal)
            /\ UNCHANGED <<published, starting, attempt>>
    /\ UNCHANGED <<protected, manager, ready, generation, restarts, timer, stopped, start, spawned,
                   crashes>>

(* StsRuntime.dispose: what is published is stopped; what is starting is   *)
(* waited for.                                                             *)
DisposeRuntimeAtOnce ==                      \* mutant: what is starting is not waited for
    /\ ~Disposed
    /\ published' = FALSE
    /\ IF published
       THEN BeginStop /\ disposal' = (IF process = 0 THEN "done" ELSE "stopping")
       ELSE disposal' = "done" /\ UNCHANGED <<stopped, timer, activeEpoch, ready, stop>>
    /\ UNCHANGED <<protected, manager, process, generation, restarts, start, starting, attempt,
                   systemVars>>

DisposeRuntime ==
    /\ ~Disposed
    /\ published' = FALSE
    /\ IF published
       THEN BeginStop /\ disposal' = (IF process = 0 THEN "done" ELSE "stopping")
       ELSE /\ disposal' = (IF starting = "no" THEN "done" ELSE "waiting")
            /\ UNCHANGED <<stopped, timer, activeEpoch, ready, stop>>
    /\ UNCHANGED <<protected, manager, process, generation, restarts, start, starting, attempt,
                   systemVars>>

(* A process dies by itself. *)
Crash(pid) ==
    /\ pid \in alive /\ crashes < MaxCrashes
    /\ crashes' = crashes + 1
    /\ alive' = alive \ {pid}
    /\ UNCHANGED <<protected, managerVars, runtimeVars, spawned>>

Progress ==
    \/ \E ok \in BOOLEAN : Install(ok)
    \/ Recorded \/ RecordFails \/ Initialized \/ Exit \/ Restart \/ Shutdown \/ Stopped

ProcessNext == Progress \/ Stable \/ \E pid \in alive : Crash(pid)
=============================================================================
