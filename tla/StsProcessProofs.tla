--------------------------- MODULE StsProcessProofs ---------------------------
(***************************************************************************)
(* Theorems about the SQL Tools Service: StsProcess, under every step that *)
(* StsOperation and the rest of the extension take with it, and the one    *)
(* operation on it.  Once the shared runtime is disposed no process of it  *)
(* runs again; the rows of a protected operation are given out after its   *)
(* process has ended; an operation that has ended leaves nothing on a      *)
(* server that goes on.                                                    *)
(*                                                                         *)
(* ProcessInv is about the process, OpInv about the operation and what it  *)
(* holds of the process, ServerInv about requests and servers.             *)
(***************************************************************************)
EXTENDS StsOperation, TLAPS

Starts == [stage : {"idle", "recording", "handshake"}, pid : Nat]
Stops == [stage : {"idle", "shutdown", "exiting"}, pid : Nat]

ProcessType ==
    /\ spawned \in Nat /\ process \in 0 .. spawned /\ alive \subseteq 1 .. spawned
    /\ manager \in Nat /\ (spawned # 0 \/ published \/ starting = "starting" => manager # 0)
    /\ starting \in {"no", "installing", "starting", "failing"}
    /\ disposal \in {"no", "waiting", "stopping", "done"}
    /\ start \in Starts /\ stop \in Stops /\ start.pid \in 0 .. spawned

(* Only two processes run: the manager's, and one that is being recorded.   *)
(* The start under way is of one of them.                                  *)
OneProcess ==
    /\ alive \subseteq {process, start.pid}
    /\ \/ start = Idle
       \/ start.stage = "handshake" /\ start.pid = process /\ process # 0
       \/ start.stage = "recording" /\ start.pid # 0 /\ process = 0 /\ protected

(* A restart is scheduled only by a published manager without a process. *)
TimerInv == timer => published /\ process = 0 /\ start = Idle

(* A stop belongs to a failed attempt or to the disposal, is of the process *)
(* the manager has if it has one, and ends all restarts and, before the    *)
(* process exits, the start under way.                                     *)
StopInv ==
    /\ stop.stage # "idle" <=> starting = "failing" \/ disposal = "stopping"
    /\ stop.stage # "idle" => stopped /\ process \in {0, stop.pid} /\ start.stage # "recording"
    /\ stop.stage = "exiting" => start = Idle

(* Where the runtime neither has nor starts a manager, nothing runs: but a  *)
(* protected process that was being recorded when its runtime was disposed *)
(* is not stopped.                                                         *)
RuntimeInv ==
    /\ starting # "no" => ~published
    /\ published => disposal = "no"
    /\ starting = "failing" => start = Idle /\ disposal = "waiting"
    /\ starting = "installing" => process = 0 /\ start = Idle
    /\ starting = "no" /\ ~published => \/ disposal = "stopping"
                                        \/ process = 0 /\ start = Idle
                                        \/ protected /\ disposal = "done" /\ stopped
    /\ disposal \in {"stopping", "done"} => starting = "no"
    /\ disposal = "waiting" => starting # "no"

(* An epoch is the process of a manager that is ready; while a process      *)
(* starts, or is to be restarted, its manager is not.                      *)
ReadyInv ==
    /\ activeEpoch # 0 => activeEpoch = process /\ start = Idle
    /\ ~Disposed =>
          /\ start # Idle \/ timer => ready = "pending"
          /\ activeEpoch # 0 => published /\ ready = "resolved"
          /\ ready = "resolved" /\ process # 0 => activeEpoch # 0

ProcessInv == ProcessType /\ OneProcess /\ TimerInv /\ StopInv /\ RuntimeInv /\ ReadyInv

-----------------------------------------------------------------------------
LEMMA Suspended ==
    /\ Idle \in Starts /\ Idle \in Stops /\ Idle.stage = "idle" /\ Idle.pid = 0
    /\ \A s \in {"recording", "handshake"}, n \in Nat :
          LET x == [stage |-> s, pid |-> n] IN x \in Starts /\ x.stage = s /\ x.pid = n
    /\ \A n \in Nat : LET x == [stage |-> "shutdown", pid |-> n] IN
                          x \in Stops /\ x.stage = "shutdown" /\ x.pid = n
    /\ \A x \in Starts : LET y == [x EXCEPT !.stage = "handshake"] IN
                          /\ x.pid \in Nat /\ (x.stage = "idle" /\ x.pid = 0 => x = Idle)
                          /\ y \in Starts /\ y.stage = "handshake" /\ y.pid = x.pid
    /\ \A x \in Stops : LET y == [x EXCEPT !.stage = "exiting"] IN
                          y \in Stops /\ y.stage = "exiting" /\ y.pid = x.pid
BY DEF Idle, Starts, Stops

(* Each step of the process keeps ProcessInv. *)

LEMMA InstallKeeps ==
    ASSUME ProcessInv, NEW ok \in BOOLEAN, Install(ok)
    PROVE  ProcessInv'
<1> USE Suspended DEF ProcessInv, ProcessType, OneProcess, TimerInv, StopInv, RuntimeInv, ReadyInv,
   Disposed,
      managerVars, runtimeVars, systemVars, Install, Spawn, FirstStage, EndStart
<1>1. ProcessType'
  OBVIOUS
<1>2. OneProcess'
  OBVIOUS
<1>3. TimerInv'
  OBVIOUS
<1>4. StopInv'
  OBVIOUS
<1>5. RuntimeInv'
  OBVIOUS
<1>6. ReadyInv'
  OBVIOUS
<1> QED
  BY ONLY <1>1, <1>2, <1>3, <1>4, <1>5, <1>6 DEF ProcessInv

LEMMA RecordedKeeps ==
    ASSUME ProcessInv, Recorded
    PROVE  ProcessInv'
<1> USE Suspended DEF ProcessInv, ProcessType, OneProcess, TimerInv, StopInv, RuntimeInv, ReadyInv,
   Disposed,
      managerVars, runtimeVars, systemVars, Recorded
<1>1. ProcessType'
  OBVIOUS
<1>2. OneProcess'
  OBVIOUS
<1>3. TimerInv'
  OBVIOUS
<1>4. StopInv'
  OBVIOUS
<1>5. RuntimeInv'
  OBVIOUS
<1>6. ReadyInv'
  OBVIOUS
<1> QED
  BY ONLY <1>1, <1>2, <1>3, <1>4, <1>5, <1>6 DEF ProcessInv

LEMMA RecordFailsKeeps ==
    ASSUME ProcessInv, RecordFails
    PROVE  ProcessInv'
<1> USE Suspended DEF ProcessInv, ProcessType, OneProcess, TimerInv, StopInv, RuntimeInv, ReadyInv,
   Disposed,
      managerVars, runtimeVars, systemVars, RecordFails, HandleExit
<1>1. ProcessType'
  OBVIOUS
<1>2. OneProcess'
  OBVIOUS
<1>3. TimerInv'
  OBVIOUS
<1>4. StopInv'
  OBVIOUS
<1>5. RuntimeInv'
  OBVIOUS
<1>6. ReadyInv'
  OBVIOUS
<1> QED
  BY ONLY <1>1, <1>2, <1>3, <1>4, <1>5, <1>6 DEF ProcessInv

LEMMA InitializedKeeps ==
    ASSUME ProcessInv, Initialized
    PROVE  ProcessInv'
<1> USE Suspended DEF ProcessInv, ProcessType, OneProcess, TimerInv, StopInv, RuntimeInv, ReadyInv,
   Disposed,
      managerVars, runtimeVars, systemVars, Initialized, BeginStop, EndStart, SettleReady
<1>1. ProcessType'
  OBVIOUS
<1>2. OneProcess'
  OBVIOUS
<1>3. TimerInv'
  OBVIOUS
<1>4. StopInv'
  OBVIOUS
<1>5. RuntimeInv'
  OBVIOUS
<1>6. ReadyInv'
  OBVIOUS
<1> QED
  BY ONLY <1>1, <1>2, <1>3, <1>4, <1>5, <1>6 DEF ProcessInv

LEMMA ExitKeeps ==
    ASSUME ProcessInv, Exit
    PROVE  ProcessInv'
<1> USE Suspended DEF ProcessInv, ProcessType, OneProcess, TimerInv, StopInv, RuntimeInv, ReadyInv,
   Disposed,
      managerVars, runtimeVars, systemVars, Exit, Abandon, NextAttempt, EndStart, HandleExit,
         GivesUp, Replace, SettleReady
<1>1. ProcessType'
  OBVIOUS
<1>2. OneProcess'
  OBVIOUS
<1>3. TimerInv'
  <2>1. CASE starting = "starting" \/ stopped \/ ~(restarts < MaxRestarts)
    BY <2>1
  <2>2. CASE starting # "starting" /\ ~stopped /\ restarts < MaxRestarts
    <3>1. ~GivesUp
      BY <2>2, StsProcessAssumption
    <3>2. published /\ UNCHANGED published
      BY <2>2, <3>1
    <3> QED
      BY <3>2
  <2> QED
    BY <2>1, <2>2
<1>4. StopInv'
  OBVIOUS
<1>5. RuntimeInv'
  OBVIOUS
<1>6. ReadyInv'
  OBVIOUS
<1> QED
  BY ONLY <1>1, <1>2, <1>3, <1>4, <1>5, <1>6 DEF ProcessInv

LEMMA RestartKeeps ==
    ASSUME ProcessInv, Restart
    PROVE  ProcessInv'
<1> USE Suspended DEF ProcessInv, ProcessType, OneProcess, TimerInv, StopInv, RuntimeInv, ReadyInv,
   Disposed,
      managerVars, runtimeVars, systemVars, Restart, Spawn, FirstStage
<1>1. ProcessType'
  OBVIOUS
<1>2. OneProcess'
  OBVIOUS
<1>3. TimerInv'
  OBVIOUS
<1>4. StopInv'
  OBVIOUS
<1>5. RuntimeInv'
  OBVIOUS
<1>6. ReadyInv'
  OBVIOUS
<1> QED
  BY ONLY <1>1, <1>2, <1>3, <1>4, <1>5, <1>6 DEF ProcessInv

LEMMA ShutdownKeeps ==
    ASSUME ProcessInv, Shutdown
    PROVE  ProcessInv'
<1> USE Suspended DEF ProcessInv, ProcessType, OneProcess, TimerInv, StopInv, RuntimeInv, ReadyInv,
   Disposed,
      managerVars, runtimeVars, systemVars, Shutdown, HandleExit
<1>1. ProcessType'
  OBVIOUS
<1>2. OneProcess'
  OBVIOUS
<1>3. TimerInv'
  OBVIOUS
<1>4. StopInv'
  OBVIOUS
<1>5. RuntimeInv'
  OBVIOUS
<1>6. ReadyInv'
  OBVIOUS
<1> QED
  BY ONLY <1>1, <1>2, <1>3, <1>4, <1>5, <1>6 DEF ProcessInv

LEMMA StoppedKeeps ==
    ASSUME ProcessInv, Stopped
    PROVE  ProcessInv'
<1> USE Suspended DEF ProcessInv, ProcessType, OneProcess, TimerInv, StopInv, RuntimeInv, ReadyInv,
   Disposed,
      managerVars, runtimeVars, systemVars, Stopped, NextAttempt, EndStart
<1>1. ProcessType'
  OBVIOUS
<1>2. OneProcess'
  OBVIOUS
<1>3. TimerInv'
  OBVIOUS
<1>4. StopInv'
  OBVIOUS
<1>5. RuntimeInv'
  OBVIOUS
<1>6. ReadyInv'
  OBVIOUS
<1> QED
  BY ONLY <1>1, <1>2, <1>3, <1>4, <1>5, <1>6 DEF ProcessInv

LEMMA StableKeeps ==
    ASSUME ProcessInv, Stable
    PROVE  ProcessInv'
<1> USE Suspended DEF ProcessInv, ProcessType, OneProcess, TimerInv, StopInv, RuntimeInv, ReadyInv,
   Disposed,
      managerVars, runtimeVars, systemVars, Stable
<1>1. ProcessType'
  OBVIOUS
<1>2. OneProcess'
  OBVIOUS
<1>3. TimerInv'
  OBVIOUS
<1>4. StopInv'
  OBVIOUS
<1>5. RuntimeInv'
  OBVIOUS
<1>6. ReadyInv'
  OBVIOUS
<1> QED
  BY ONLY <1>1, <1>2, <1>3, <1>4, <1>5, <1>6 DEF ProcessInv

LEMMA CrashKeeps ==
    ASSUME ProcessInv, NEW pid \in alive, Crash(pid)
    PROVE  ProcessInv'
<1> USE Suspended DEF ProcessInv, ProcessType, OneProcess, TimerInv, StopInv, RuntimeInv, ReadyInv,
   Disposed,
      managerVars, runtimeVars, systemVars, Crash
<1>1. ProcessType'
  OBVIOUS
<1>2. OneProcess'
  OBVIOUS
<1>3. TimerInv'
  OBVIOUS
<1>4. StopInv'
  OBVIOUS
<1>5. RuntimeInv'
  OBVIOUS
<1>6. ReadyInv'
  OBVIOUS
<1> QED
  BY ONLY <1>1, <1>2, <1>3, <1>4, <1>5, <1>6 DEF ProcessInv

(* The operation, or the extension, disposes the runtime. *)
LEMMA DisposeKeeps ==
    ASSUME ProcessInv, DisposeRuntime
    PROVE  ProcessInv'
<1> USE Suspended DEF ProcessInv, ProcessType, OneProcess, TimerInv, StopInv, RuntimeInv, ReadyInv,
   Disposed,
      managerVars, runtimeVars, systemVars, DisposeRuntime, BeginStop, SettleReady
<1>1. ProcessType'
  OBVIOUS
<1>2. OneProcess'
  OBVIOUS
<1>3. TimerInv'
  OBVIOUS
<1>4. StopInv'
  OBVIOUS
<1>5. RuntimeInv'
  OBVIOUS
<1>6. ReadyInv'
  OBVIOUS
<1> QED
  BY ONLY <1>1, <1>2, <1>3, <1>4, <1>5, <1>6 DEF ProcessInv

LEMMA StillKeeps == ProcessInv /\ UNCHANGED processVars => ProcessInv'
BY DEF processVars, managerVars, runtimeVars, systemVars, ProcessInv, ProcessType, OneProcess,
   TimerInv,
   StopInv, RuntimeInv, ReadyInv, Disposed, Idle

(* Where a manager is wanted and there is none, one is started. *)
LEMMA LaunchKeeps ==
    ASSUME ProcessInv, NeedsLaunch, Launch,
           UNCHANGED <<protected, managerVars, published, disposal, systemVars>>
    PROVE  ProcessInv'
BY Suspended DEF managerVars, systemVars, NeedsLaunch, Launch, Disposed, ProcessInv, ProcessType,
   OneProcess, TimerInv, StopInv, RuntimeInv, ReadyInv

LEMMA ProcessNextKeeps == ASSUME ProcessInv, ProcessNext PROVE ProcessInv'
BY InstallKeeps, RecordedKeeps, RecordFailsKeeps, InitializedKeeps, ExitKeeps, RestartKeeps,
   ShutdownKeeps,
   StoppedKeeps, StableKeeps, CrashKeeps DEF ProcessNext, Progress

(* Which steps of the operation touch the process. *)
LEMMA OperationStep ==
    ASSUME [Next]_vars
    PROVE  \/ UNCHANGED processVars
           \/ ProcessNext
           \/ NeedsLaunch /\ Launch /\ UNCHANGED <<protected, managerVars, published, disposal, systemVars>>
           \/ DisposeRuntime
<1> USE DEF processVars, runtimeVars
<1>1. ASSUME NEW o, Obtain(o)
      PROVE  \/ UNCHANGED processVars
             \/ NeedsLaunch /\ Launch /\ UNCHANGED <<protected, managerVars, published, disposal, systemVars>>
  BY <1>1 DEF Obtain
<1>2. CASE Main
  BY <1>1, <1>2 DEF Main, Checked, Created, Capture, OptionsBuilt, ConnectDispatched, Connected,
     Execute, ExecuteDispatched, Accepted, Completed, NextPage, PageDispatched, PageRead, Throws,
     DisposeAtEnd, Leave
<1>3. CASE Begin \/ TimesOut \/ Cancel \/ CleanupTimesOut
  BY <1>3 DEF Begin, TimesOut, Cancel, CleanupTimesOut
<1>4. CASE Cleanup
  BY <1>4 DEF Cleanup, CleanupSends, CleanupAnswered, CleanupEnds, RuntimeDisposed
<1>5. CASE Server \/ Deliveries
  BY <1>5 DEF Server, Deliveries, ServerReceives, ServerConnects, ServerCompletes, Deliver
<1>6. CASE ProcessStep
  BY <1>6 DEF ProcessStep
<1>7. CASE OthersLaunch \/ Close \/ CloseRuntime
  BY <1>7 DEF OthersLaunch, Close, CloseRuntime
<1>8. CASE UNCHANGED vars
  BY <1>8 DEF vars
<1> QED
  BY <1>2, <1>3, <1>4, <1>5, <1>6, <1>7, <1>8 DEF Next
-----------------------------------------------------------------------------
(* The operation. *)


Fields == {"stage", "phase", "cancelled", "got", "awaited", "manager", "epoch", "holds", "flags",
           "heard", "pages", "outcome", "clean", "todo"}

Methods == {"cancelConnect", "queryCancel", "queryDispose", "disconnect"}

OpType ==
    /\ Fields \subseteq DOMAIN op
    /\ op.todo \in Seq(Methods)
    /\ op.clean \in {"no", "requesting", "awaiting", "disposing", "done"}
    /\ op.clean = "awaiting" => op.todo # <<>>

Early == {"new", "checking", "creating"}
Late == {"leaving", "ended"}
Cleaned == op.clean \in {"disposing", "done"}

(* The cleanup begins with a cancellation or at the end. *)
CleanInv ==
    /\ op.clean # "no" => op.cancelled \/ op.stage \in Late
    /\ op.clean # "no" <=> op.phase \in {"cleaning", "done"}
    /\ Cleaned <=> op.phase = "done"
    /\ op.stage = "new" => op.clean = "no"
    /\ op.stage = "ended" => op.clean = "done"

(* What the operation holds of its runtime, and who disposes that. *)
HoldInv ==
    /\ closing => ~protected
    /\ protected /\ Disposed => Cleaned
    /\ ~protected /\ Disposed => closing /\ (op.stage = "new" \/ op.clean = "done")
    /\ op.clean = "no" /\ op.stage \notin Early \cup Late => op.holds

(* A result is that of an operation which held its runtime to the end. *)
OutcomeInv ==
    /\ op.outcome = "result" =>
          /\ op.stage \in Late
          /\ protected => IF op.clean = "done" THEN disposal = "done" ELSE op.holds
    /\ result = "result" => op.stage = "ended" /\ op.outcome = "result"

(* The epoch of the operation, if it goes on, is the one that is current. *)
EpochInv ==
    /\ op.stage \in Early \cup {"starting", "readying", "capturing"} => op.epoch = 0
    /\ op.epoch \in 0 .. spawned
    /\ op.epoch \in alive =>
          /\ process = op.epoch /\ start = Idle /\ disposal # "done"
          /\ ~Disposed => activeEpoch = op.epoch /\ ready = "resolved" /\ published /\ op.manager = manager

OpInv == OpType /\ CleanInv /\ HoldInv /\ OutcomeInv /\ EpochInv

ToDo(s, m) == \E i \in 1 .. Len(s) : s[i] = m

(* The requests of a cleanup. *)
LEMMA ConcatToDo ==
    ASSUME NEW a \in Seq(Methods), NEW b \in Seq(Methods), NEW m
    PROVE  /\ a \o b \in Seq(Methods)
           /\ ToDo(a, m) \/ ToDo(b, m) => ToDo(a \o b, m)
<1> PICK c : c = a \o b
  OBVIOUS
<1> PICK k, n \in Nat : k = Len(a) /\ n = Len(b)
  OBVIOUS
<1>1. /\ c \in Seq(Methods) /\ Len(c) = k + n
      /\ \A i \in 1 .. k : c[i] = a[i]
      /\ \A i \in 1 .. n : c[k + i] = b[i]
  OBVIOUS
<1>2. ToDo(a, m) => ToDo(c, m)
  BY <1>1 DEF ToDo
<1>3. ASSUME ToDo(b, m) PROVE ToDo(c, m)
  <2>1. PICK i \in 1 .. n : b[i] = m
    BY <1>3 DEF ToDo
  <2>2. k + i \in 1 .. k + n /\ c[k + i] = m
    BY <1>1, <2>1
  <2> QED
    BY <1>1, <2>2 DEF ToDo
<1> QED
  BY <1>1, <1>2, <1>3

(* The cleanup disposes what was submitted and leaves what was connected.  *)
LEMMA ReleasesAre ==
    ASSUME NEW o
    PROVE  /\ Releases(o) \in Seq(Methods)
           /\ "connectSubmitted" \in o.flags => ToDo(Releases(o), "disconnect")
           /\ "submitted" \in o.flags => ToDo(Releases(o), "queryDispose")
<1> DEFINE A == CASE o.flags \cap {"connectSubmitted", "connectCompleted"} = {"connectSubmitted"} ->
                        <<"cancelConnect">>
                  [] o.flags \cap {"submitted", "queryCompleted"} = {"submitted"} /\ o.phase = "executing" ->
                        <<"queryCancel">>
                  [] OTHER -> <<>>
           B == IF "submitted" \in o.flags THEN <<"queryDispose">> ELSE <<>>
           C == IF "connectSubmitted" \in o.flags \/ o.phase = "connecting" THEN <<"disconnect">> ELSE <<>>
<1>0. /\ <<>> \in Seq(Methods) /\ <<"cancelConnect">> \in Seq(Methods) /\ <<"queryCancel">> \in Seq(Methods)
      /\ <<"queryDispose">> \in Seq(Methods) /\ <<"disconnect">> \in Seq(Methods)
  BY DEF Methods
<1>1. PICK a \in Seq(Methods) : a = A
  BY <1>0, Zenon
<1>2. PICK b \in Seq(Methods) : b = B
  BY <1>0, Zenon
<1>3. PICK c \in Seq(Methods) : c = C
  BY <1>0, Zenon
<1>4. Releases(o) = a \o b \o c
  BY <1>1, <1>2, <1>3, Zenon DEF Releases
<1>5. "submitted" \in o.flags => ToDo(b, "queryDispose")
  BY <1>2 DEF ToDo
<1>6. "connectSubmitted" \in o.flags => ToDo(c, "disconnect")
  BY <1>3 DEF ToDo
<1>7. PICK d \in Seq(Methods) : d = a \o b /\ (ToDo(b, "queryDispose") => ToDo(d, "queryDispose"))
  BY ConcatToDo
<1>8. /\ d \o c \in Seq(Methods)
      /\ ToDo(d, "queryDispose") => ToDo(d \o c, "queryDispose")
      /\ ToDo(c, "disconnect") => ToDo(d \o c, "disconnect")
  BY ConcatToDo
<1> HIDE DEF A, B, C
<1> QED
  BY <1>4, <1>5, <1>6, <1>7, <1>8

(* The cleanup of o is under way. *)
Begun(o, c) ==
    /\ Fields \subseteq DOMAIN c /\ c.todo \in Seq(Methods)
    /\ \A f \in Fields \ {"clean", "phase", "todo"} : c[f] = o[f]
    /\ IF o.clean = "no"
       THEN c.clean = "requesting" /\ c.phase = "cleaning"
       ELSE c.clean = o.clean /\ c.phase = o.phase /\ c.todo = o.todo

LEMMA CleaningBegins ==
    ASSUME NEW o, Fields \subseteq DOMAIN o, o.todo \in Seq(Methods)
    PROVE  Begun(o, Cleaning(o))
<1> PICK t \in Seq(Methods) : t = IF ProcessIsCurrent THEN Releases(o) ELSE <<>>
  <2>1. <<>> \in Seq(Methods) /\ Releases(o) \in Seq(Methods)
    BY ReleasesAre
  <2> QED
    BY <2>1, Zenon
<1>1. Cleaning(o) = IF o.clean # "no" THEN o
                    ELSE [o EXCEPT !.clean = "requesting", !.phase = "cleaning", !.todo = t]
  BY Zenon DEF Cleaning
<1> QED
  BY <1>1 DEF Begun, Fields

(* What a step of the process makes of the operation. *)
LEMMA SettledForms ==
    ASSUME NEW o
    PROVE  \/ Settled(o) = o
           \/ o.stage \in {"starting", "readying"} /\ Settled(o) = [o EXCEPT !.stage = "capturing", !.got = manager']
           \/ o.stage \in {"starting", "readying", "sending"} /\ Settled(o) = [o EXCEPT !.stage = "leaving", !.outcome = "error"]
BY DEF Settled

(* The operation o asked for a manager. *)
Obtained(o, c) ==
    /\ Fields \subseteq DOMAIN c
    /\ \A f \in Fields \ {"stage", "outcome", "got", "awaited"} : c[f] = o[f]
    /\ \/ c.stage \in {"starting", "readying", "capturing"} /\ c.outcome = o.outcome
       \/ c.stage = "leaving" /\ c.outcome = "error"

LEMMA ObtainForms ==
    ASSUME NEW o, Fields \subseteq DOMAIN o, Obtain(o)
    PROVE  Obtained(o, op')
BY DEF Obtain, Obtained, Fields, Disposed

(* Each step of the operation keeps OpInv. *)

LEMMA BeginOpKeeps ==
    ASSUME ProcessInv, OpInv, Begin
    PROVE  OpInv'
<1> USE DEF OpInv, Cleaned, Early, Late, Goto, Disposed, processVars, managerVars, runtimeVars,
   systemVars, Begin
<1>0. Fields \subseteq DOMAIN op'
  BY DEF OpType
<1>1. OpType'
  BY <1>0 DEF OpType, Fields
<1>2. CleanInv'
  BY <1>0 DEF OpType, Fields, CleanInv
<1>3. HoldInv'
  BY <1>0 DEF OpType, Fields, HoldInv
<1>4. OutcomeInv'
  BY <1>0 DEF OpType, Fields, OutcomeInv
<1>5. EpochInv'
  BY <1>0 DEF OpType, Fields, EpochInv
<1> QED
  BY ONLY <1>1, <1>2, <1>3, <1>4, <1>5 DEF OpInv

LEMMA CheckedOpKeeps ==
    ASSUME ProcessInv, OpInv, Checked
    PROVE  OpInv'
<1> USE DEF OpInv, Cleaned, Early, Late, Disposed
<1> PICK o : o = [op EXCEPT !.phase = IF op.clean = "no" THEN "connecting" ELSE @]
  OBVIOUS
<1>a. /\ op.stage = "checking" /\ ~op.cancelled /\ UNCHANGED <<result, closing>>
      /\ IF protected THEN op' = [o EXCEPT !.stage = "creating"]
         ELSE Obtained([o EXCEPT !.holds = TRUE], op')
      /\ UNCHANGED <<protected, manager, process, ready, activeEpoch, start, published, disposal, alive, spawned>>
  BY ObtainForms DEF Checked, Obtain, OpType, processVars, managerVars, runtimeVars, systemVars
<1>b. Fields \subseteq DOMAIN o
  BY DEF OpType
<1>0. Fields \subseteq DOMAIN op'
  BY <1>a, <1>b DEF Obtained
<1>1. OpType'
  BY <1>0, <1>a, <1>b DEF Obtained, OpType, Fields
<1>2. CleanInv'
  BY <1>0, <1>a, <1>b DEF Obtained, OpType, Fields, CleanInv
<1>3. HoldInv'
  BY <1>0, <1>a, <1>b DEF Obtained, OpType, Fields, HoldInv
<1>4. OutcomeInv'
  BY <1>0, <1>a, <1>b DEF Obtained, OpType, Fields, OutcomeInv
<1>5. EpochInv'
  BY <1>0, <1>a, <1>b DEF Obtained, OpType, Fields, EpochInv
<1> QED
  BY ONLY <1>1, <1>2, <1>3, <1>4, <1>5 DEF OpInv

LEMMA CreatedOpKeeps ==
    ASSUME ProcessInv, OpInv, Created
    PROVE  OpInv'
<1> USE DEF OpInv, Cleaned, Early, Late, Goto, Disposed, processVars, managerVars, runtimeVars,
   systemVars, Created, Obtain, Launch
<1>0. Fields \subseteq DOMAIN op'
  BY DEF OpType
<1>1. OpType'
  BY <1>0 DEF OpType, Fields
<1>2. CleanInv'
  BY <1>0 DEF OpType, Fields, CleanInv
<1>3. HoldInv'
  BY <1>0 DEF OpType, Fields, HoldInv
<1>4. OutcomeInv'
  BY <1>0 DEF OpType, Fields, OutcomeInv
<1>5. EpochInv'
  BY <1>0 DEF OpType, Fields, EpochInv
<1> QED
  BY ONLY <1>1, <1>2, <1>3, <1>4, <1>5 DEF OpInv

LEMMA CaptureOpKeeps ==
    ASSUME ProcessInv, OpInv, Capture
    PROVE  OpInv'
<1> USE DEF OpInv, Cleaned, Early, Late, Goto, Disposed, processVars, managerVars, runtimeVars,
   systemVars, Capture, EpochOf
<1>0. Fields \subseteq DOMAIN op'
  BY DEF OpType
<1>1. OpType'
  BY <1>0 DEF OpType, Fields
<1>2. CleanInv'
  BY <1>0 DEF OpType, Fields, CleanInv
<1>3. HoldInv'
  BY <1>0 DEF OpType, Fields, HoldInv
<1>4. OutcomeInv'
  BY <1>0 DEF OpType, Fields, OutcomeInv
<1>5. EpochInv'
  BY <1>0 DEF OpType, Fields, CleanInv, HoldInv, OutcomeInv, EpochInv, ProcessInv, ReadyInv,
     OneProcess, ProcessType
<1> QED
  BY ONLY <1>1, <1>2, <1>3, <1>4, <1>5 DEF OpInv

LEMMA OptionsBuiltOpKeeps ==
    ASSUME ProcessInv, OpInv, OptionsBuilt
    PROVE  OpInv'
<1> USE DEF OpInv, Cleaned, Early, Late, Goto, Disposed, processVars, managerVars, runtimeVars,
   systemVars, OptionsBuilt
<1>0. Fields \subseteq DOMAIN op'
  BY DEF OpType
<1>1. OpType'
  BY <1>0 DEF OpType, Fields
<1>2. CleanInv'
  BY <1>0 DEF OpType, Fields, CleanInv
<1>3. HoldInv'
  BY <1>0 DEF OpType, Fields, HoldInv
<1>4. OutcomeInv'
  BY <1>0 DEF OpType, Fields, OutcomeInv
<1>5. EpochInv'
  BY <1>0 DEF OpType, Fields, EpochInv
<1> QED
  BY ONLY <1>1, <1>2, <1>3, <1>4, <1>5 DEF OpInv

(* A request is dispatched, or the operation fails. *)
Dispatched(method, flags, stage) ==
    \/ /\ MayDispatch /\ CanSend /\ Send(method)
       /\ op' = [op EXCEPT !.stage = stage, !.flags = @ \cup flags]
    \/ UNCHANGED wire /\ op' = [op EXCEPT !.stage = "sending", !.flags = @ \cup flags]
    \/ UNCHANGED wire /\ op' = [op EXCEPT !.stage = "leaving", !.outcome = "error"]

LEMMA DispatchForms ==
    ASSUME NEW method, NEW flags, NEW stage, Dispatch(method, flags, stage)
    PROVE  Dispatched(method, flags, stage)
BY DEF Dispatch, Dispatched

LEMMA ConnectDispatchedOpKeeps ==
    ASSUME ProcessInv, OpInv, ConnectDispatched
    PROVE  OpInv'
<1> USE DEF OpInv, Cleaned, Early, Late, Disposed, processVars, managerVars, runtimeVars, systemVars
<1>0. /\ Dispatched("connect", {"connectSubmitted"}, "connecting")
      /\ op.stage \notin Early \cup Late \cup {"starting", "readying", "capturing"}
      /\ UNCHANGED <<processVars, result, closing>>
  BY DispatchForms DEF ConnectDispatched
<1> USE <1>0 DEF Dispatched, OpType, Fields
<1>1. OpType'
  OBVIOUS
<1>2. CleanInv'
  BY DEF CleanInv
<1>3. HoldInv'
  BY DEF HoldInv
<1>4. OutcomeInv'
  BY DEF OutcomeInv
<1>5. EpochInv'
  BY DEF EpochInv
<1> QED
  BY ONLY <1>1, <1>2, <1>3, <1>4, <1>5 DEF OpInv

LEMMA ConnectedOpKeeps ==
    ASSUME ProcessInv, OpInv, Connected
    PROVE  OpInv'
<1> USE DEF OpInv, Cleaned, Early, Late, Goto, Disposed, processVars, managerVars, runtimeVars,
   systemVars, Connected
<1>0. Fields \subseteq DOMAIN op'
  BY DEF OpType
<1>1. OpType'
  BY <1>0 DEF OpType, Fields
<1>2. CleanInv'
  BY <1>0 DEF OpType, Fields, CleanInv
<1>3. HoldInv'
  BY <1>0 DEF OpType, Fields, HoldInv
<1>4. OutcomeInv'
  BY <1>0 DEF OpType, Fields, OutcomeInv
<1>5. EpochInv'
  BY <1>0 DEF OpType, Fields, EpochInv
<1> QED
  BY ONLY <1>1, <1>2, <1>3, <1>4, <1>5 DEF OpInv

LEMMA ExecuteOpKeeps ==
    ASSUME ProcessInv, OpInv, Execute
    PROVE  OpInv'
<1> USE DEF OpInv, Cleaned, Early, Late, Goto, Disposed, processVars, managerVars, runtimeVars,
   systemVars, Execute
<1>0. Fields \subseteq DOMAIN op'
  BY DEF OpType
<1>1. OpType'
  BY <1>0 DEF OpType, Fields
<1>2. CleanInv'
  BY <1>0 DEF OpType, Fields, CleanInv
<1>3. HoldInv'
  BY <1>0 DEF OpType, Fields, HoldInv
<1>4. OutcomeInv'
  BY <1>0 DEF OpType, Fields, OutcomeInv
<1>5. EpochInv'
  BY <1>0 DEF OpType, Fields, EpochInv
<1> QED
  BY ONLY <1>1, <1>2, <1>3, <1>4, <1>5 DEF OpInv

LEMMA ExecuteDispatchedOpKeeps ==
    ASSUME ProcessInv, OpInv, ExecuteDispatched
    PROVE  OpInv'
<1> USE DEF OpInv, Cleaned, Early, Late, Disposed, processVars, managerVars, runtimeVars, systemVars
<1>0. /\ Dispatched("execute", {"submitted"}, "accepting")
      /\ op.stage \notin Early \cup Late \cup {"starting", "readying", "capturing"}
      /\ UNCHANGED <<processVars, result, closing>>
  BY DispatchForms DEF ExecuteDispatched
<1> USE <1>0 DEF Dispatched, OpType, Fields
<1>1. OpType'
  OBVIOUS
<1>2. CleanInv'
  BY DEF CleanInv
<1>3. HoldInv'
  BY DEF HoldInv
<1>4. OutcomeInv'
  BY DEF OutcomeInv
<1>5. EpochInv'
  BY DEF EpochInv
<1> QED
  BY ONLY <1>1, <1>2, <1>3, <1>4, <1>5 DEF OpInv

LEMMA AcceptedOpKeeps ==
    ASSUME ProcessInv, OpInv, Accepted
    PROVE  OpInv'
<1> USE DEF OpInv, Cleaned, Early, Late, Goto, Disposed, processVars, managerVars, runtimeVars,
   systemVars, Accepted
<1>0. Fields \subseteq DOMAIN op'
  BY DEF OpType
<1>1. OpType'
  BY <1>0 DEF OpType, Fields
<1>2. CleanInv'
  BY <1>0 DEF OpType, Fields, CleanInv
<1>3. HoldInv'
  BY <1>0 DEF OpType, Fields, HoldInv
<1>4. OutcomeInv'
  BY <1>0 DEF OpType, Fields, OutcomeInv
<1>5. EpochInv'
  BY <1>0 DEF OpType, Fields, EpochInv
<1> QED
  BY ONLY <1>1, <1>2, <1>3, <1>4, <1>5 DEF OpInv

LEMMA CompletedOpKeeps ==
    ASSUME ProcessInv, OpInv, Completed
    PROVE  OpInv'
<1> USE DEF OpInv, Cleaned, Early, Late, Goto, Disposed, processVars, managerVars, runtimeVars,
   systemVars, Completed
<1>0. Fields \subseteq DOMAIN op'
  BY DEF OpType
<1>1. OpType'
  BY <1>0 DEF OpType, Fields
<1>2. CleanInv'
  BY <1>0 DEF OpType, Fields, CleanInv
<1>3. HoldInv'
  BY <1>0 DEF OpType, Fields, HoldInv
<1>4. OutcomeInv'
  BY <1>0 DEF OpType, Fields, OutcomeInv
<1>5. EpochInv'
  BY <1>0 DEF OpType, Fields, EpochInv
<1> QED
  BY ONLY <1>1, <1>2, <1>3, <1>4, <1>5 DEF OpInv

LEMMA NextPageOpKeeps ==
    ASSUME ProcessInv, OpInv, NextPage
    PROVE  OpInv'
<1> USE DEF OpInv, Cleaned, Early, Late, Goto, Disposed, processVars, managerVars, runtimeVars,
   systemVars, NextPage
<1>0. Fields \subseteq DOMAIN op'
  BY DEF OpType
<1>1. OpType'
  BY <1>0 DEF OpType, Fields
<1>2. CleanInv'
  BY <1>0 DEF OpType, Fields, CleanInv
<1>3. HoldInv'
  BY <1>0 DEF OpType, Fields, HoldInv
<1>4. OutcomeInv'
  BY <1>0 DEF OpType, Fields, CleanInv, HoldInv, OutcomeInv
<1>5. EpochInv'
  BY <1>0 DEF OpType, Fields, EpochInv
<1> QED
  BY ONLY <1>1, <1>2, <1>3, <1>4, <1>5 DEF OpInv

LEMMA PageDispatchedOpKeeps ==
    ASSUME ProcessInv, OpInv, PageDispatched
    PROVE  OpInv'
<1> USE DEF OpInv, Cleaned, Early, Late, Disposed, processVars, managerVars, runtimeVars, systemVars
<1>0. /\ Dispatched("subset", {}, "paging")
      /\ op.stage \notin Early \cup Late \cup {"starting", "readying", "capturing"}
      /\ UNCHANGED <<processVars, result, closing>>
  BY DispatchForms DEF PageDispatched
<1> USE <1>0 DEF Dispatched, OpType, Fields
<1>1. OpType'
  OBVIOUS
<1>2. CleanInv'
  BY DEF CleanInv
<1>3. HoldInv'
  BY DEF HoldInv
<1>4. OutcomeInv'
  BY DEF OutcomeInv
<1>5. EpochInv'
  BY DEF EpochInv
<1> QED
  BY ONLY <1>1, <1>2, <1>3, <1>4, <1>5 DEF OpInv

LEMMA PageReadOpKeeps ==
    ASSUME ProcessInv, OpInv, PageRead
    PROVE  OpInv'
<1> USE DEF OpInv, Cleaned, Early, Late, Goto, Disposed, processVars, managerVars, runtimeVars,
   systemVars, PageRead
<1>0. Fields \subseteq DOMAIN op'
  BY DEF OpType
<1>1. OpType'
  BY <1>0 DEF OpType, Fields
<1>2. CleanInv'
  BY <1>0 DEF OpType, Fields, CleanInv
<1>3. HoldInv'
  BY <1>0 DEF OpType, Fields, HoldInv
<1>4. OutcomeInv'
  BY <1>0 DEF OpType, Fields, OutcomeInv
<1>5. EpochInv'
  BY <1>0 DEF OpType, Fields, EpochInv
<1> QED
  BY ONLY <1>1, <1>2, <1>3, <1>4, <1>5 DEF OpInv

LEMMA ThrowsOpKeeps ==
    ASSUME ProcessInv, OpInv, Throws
    PROVE  OpInv'
<1> USE DEF OpInv, Cleaned, Early, Late, Goto, Disposed, processVars, managerVars, runtimeVars,
   systemVars, Throws, Checking, Racing
<1>0. Fields \subseteq DOMAIN op'
  BY DEF OpType
<1>1. OpType'
  BY <1>0 DEF OpType, Fields
<1>2. CleanInv'
  BY <1>0 DEF OpType, Fields, CleanInv
<1>3. HoldInv'
  BY <1>0 DEF OpType, Fields, HoldInv
<1>4. OutcomeInv'
  BY <1>0 DEF OpType, Fields, OutcomeInv
<1>5. EpochInv'
  BY <1>0 DEF OpType, Fields, EpochInv
<1> QED
  BY ONLY <1>1, <1>2, <1>3, <1>4, <1>5 DEF OpInv

LEMMA TimesOutOpKeeps ==
    ASSUME ProcessInv, OpInv, TimesOut
    PROVE  OpInv'
<1> USE DEF OpInv, Cleaned, Early, Late, Goto, Disposed, processVars, managerVars, runtimeVars,
   systemVars, TimesOut, Racing
<1>0. Fields \subseteq DOMAIN op'
  BY DEF OpType
<1>1. OpType'
  BY <1>0 DEF OpType, Fields
<1>2. CleanInv'
  BY <1>0 DEF OpType, Fields, CleanInv
<1>3. HoldInv'
  BY <1>0 DEF OpType, Fields, HoldInv
<1>4. OutcomeInv'
  BY <1>0 DEF OpType, Fields, OutcomeInv
<1>5. EpochInv'
  BY <1>0 DEF OpType, Fields, EpochInv
<1> QED
  BY ONLY <1>1, <1>2, <1>3, <1>4, <1>5 DEF OpInv

LEMMA DisposeAtEndOpKeeps ==
    ASSUME ProcessInv, OpInv, DisposeAtEnd
    PROVE  OpInv'
<1> USE DEF OpInv, Cleaned, Early, Late, Goto, Disposed, processVars, managerVars, runtimeVars,
   systemVars, DisposeAtEnd
<1>0. Begun(op, op')
  BY CleaningBegins DEF OpType, Fields
<1>1. OpType'
  BY <1>0 DEF Begun, OpType, Fields
<1>2. CleanInv'
  BY <1>0 DEF Begun, OpType, Fields, CleanInv
<1>3. HoldInv'
  BY <1>0 DEF Begun, OpType, Fields, HoldInv
<1>4. OutcomeInv'
  BY <1>0 DEF Begun, OpType, Fields, OutcomeInv
<1>5. EpochInv'
  BY <1>0 DEF Begun, OpType, Fields, EpochInv
<1> QED
  BY ONLY <1>1, <1>2, <1>3, <1>4, <1>5 DEF OpInv

LEMMA LeaveOpKeeps ==
    ASSUME ProcessInv, OpInv, Leave
    PROVE  OpInv'
<1> USE DEF OpInv, Cleaned, Early, Late, Goto, Disposed, processVars, managerVars, runtimeVars,
   systemVars, Leave
<1>0. Fields \subseteq DOMAIN op'
  BY DEF OpType
<1>1. OpType'
  BY <1>0 DEF OpType, Fields
<1>2. CleanInv'
  BY <1>0 DEF OpType, Fields, CleanInv
<1>3. HoldInv'
  BY <1>0 DEF OpType, Fields, HoldInv
<1>4. OutcomeInv'
  BY <1>0 DEF OpType, Fields, OutcomeInv
<1>5. EpochInv'
  BY <1>0 DEF OpType, Fields, EpochInv
<1> QED
  BY ONLY <1>1, <1>2, <1>3, <1>4, <1>5 DEF OpInv

LEMMA CancelOpKeeps ==
    ASSUME ProcessInv, OpInv, Cancel
    PROVE  OpInv'
<1> USE DEF OpInv, Cleaned, Early, Late, Goto, Disposed, processVars, managerVars, runtimeVars,
   systemVars, Cancel, Cancellable, CancelOp
<1>0. Begun([op EXCEPT !.cancelled = TRUE], op')
  BY CleaningBegins DEF OpType, Fields
<1>1. OpType'
  BY <1>0 DEF Begun, OpType, Fields
<1>2. CleanInv'
  BY <1>0 DEF Begun, OpType, Fields, CleanInv
<1>3. HoldInv'
  BY <1>0 DEF Begun, OpType, Fields, HoldInv
<1>4. OutcomeInv'
  BY <1>0 DEF Begun, OpType, Fields, OutcomeInv
<1>5. EpochInv'
  BY <1>0 DEF Begun, OpType, Fields, EpochInv
<1> QED
  BY ONLY <1>1, <1>2, <1>3, <1>4, <1>5 DEF OpInv

LEMMA CleanupSendsOpKeeps ==
    ASSUME ProcessInv, OpInv, CleanupSends
    PROVE  OpInv'
<1> USE DEF OpInv, Cleaned, Early, Late, Goto, Disposed, processVars, managerVars, runtimeVars,
   systemVars, CleanupSends, Rest
<1>0. Fields \subseteq DOMAIN op'
  BY DEF OpType
<1>1. OpType'
  <2>1. CASE CanSend
    BY <1>0, <2>1 DEF OpType, Fields
  <2>2. CASE ~CanSend
    <3>1. Tail(op.todo) \in Seq(Methods)
      BY DEF OpType
    <3>2. op' = Rest
      BY <2>2
    <3> QED
      BY <1>0, <3>1, <3>2 DEF OpType, Fields
  <2> QED
    BY <2>1, <2>2
<1>2. CleanInv'
  BY <1>0 DEF OpType, Fields, CleanInv
<1>3. HoldInv'
  BY <1>0 DEF OpType, Fields, HoldInv
<1>4. OutcomeInv'
  BY <1>0 DEF OpType, Fields, OutcomeInv
<1>5. EpochInv'
  BY <1>0 DEF OpType, Fields, EpochInv
<1> QED
  BY ONLY <1>1, <1>2, <1>3, <1>4, <1>5 DEF OpInv

LEMMA CleanupAnsweredOpKeeps ==
    ASSUME ProcessInv, OpInv, CleanupAnswered
    PROVE  OpInv'
<1> USE DEF OpInv, Cleaned, Early, Late, Goto, Disposed, processVars, managerVars, runtimeVars,
   systemVars, CleanupAnswered, Rest
<1>0. Fields \subseteq DOMAIN op'
  BY DEF OpType
<1>1. OpType'
  BY <1>0 DEF OpType, Fields
<1>2. CleanInv'
  BY <1>0 DEF OpType, Fields, CleanInv
<1>3. HoldInv'
  BY <1>0 DEF OpType, Fields, HoldInv
<1>4. OutcomeInv'
  BY <1>0 DEF OpType, Fields, OutcomeInv
<1>5. EpochInv'
  BY <1>0 DEF OpType, Fields, EpochInv
<1> QED
  BY ONLY <1>1, <1>2, <1>3, <1>4, <1>5 DEF OpInv

LEMMA CleanupTimesOutOpKeeps ==
    ASSUME ProcessInv, OpInv, CleanupTimesOut
    PROVE  OpInv'
<1> USE DEF OpInv, Cleaned, Early, Late, Goto, Disposed, processVars, managerVars, runtimeVars,
   systemVars, CleanupTimesOut, Rest
<1>0. Fields \subseteq DOMAIN op'
  BY DEF OpType
<1>1. OpType'
  BY <1>0 DEF OpType, Fields
<1>2. CleanInv'
  BY <1>0 DEF OpType, Fields, CleanInv
<1>3. HoldInv'
  BY <1>0 DEF OpType, Fields, HoldInv
<1>4. OutcomeInv'
  BY <1>0 DEF OpType, Fields, OutcomeInv
<1>5. EpochInv'
  BY <1>0 DEF OpType, Fields, EpochInv
<1> QED
  BY ONLY <1>1, <1>2, <1>3, <1>4, <1>5 DEF OpInv

LEMMA RuntimeDisposedOpKeeps ==
    ASSUME ProcessInv, OpInv, RuntimeDisposed
    PROVE  OpInv'
<1> USE DEF OpInv, Cleaned, Early, Late, Goto, Disposed, processVars, managerVars, runtimeVars,
   systemVars, RuntimeDisposed
<1>0. Fields \subseteq DOMAIN op'
  BY DEF OpType
<1>1. OpType'
  BY <1>0 DEF OpType, Fields
<1>2. CleanInv'
  BY <1>0 DEF OpType, Fields, CleanInv
<1>3. HoldInv'
  BY <1>0 DEF OpType, Fields, HoldInv
<1>4. OutcomeInv'
  BY <1>0 DEF OpType, Fields, OutcomeInv
<1>5. EpochInv'
  BY <1>0 DEF OpType, Fields, EpochInv
<1> QED
  BY ONLY <1>1, <1>2, <1>3, <1>4, <1>5 DEF OpInv


(* What is disposed stays so, and a process that runs is the current one    *)
(* until it dies.                                                          *)
Goes ==
    /\ UNCHANGED protected /\ (Disposed' <=> Disposed) /\ (disposal = "done" => disposal' = "done")
    /\ spawned' \in Nat /\ spawned \in 0 .. spawned' /\ alive' \cap (0 .. spawned) \subseteq alive
    /\ \A e \in alive \cap alive' : process = e /\ start = Idle =>
          /\ process' = e /\ start' = Idle
          /\ disposal # "done" => disposal' # "done"
          /\ ~Disposed /\ activeEpoch = e => UNCHANGED <<activeEpoch, published, manager, ready>>

LEMMA ProcessGoes ==
    ASSUME ProcessInv, ProcessNext
    PROVE  Goes
<1> USE Suspended DEF ProcessInv, ProcessType, OneProcess, TimerInv, StopInv, RuntimeInv, ReadyInv,
   Disposed, Goes,
      managerVars, runtimeVars, systemVars
<1>1. ASSUME NEW ok \in BOOLEAN, Install(ok) PROVE Goes
  BY <1>1 DEF Install, Spawn, FirstStage, EndStart
<1>2. ASSUME Recorded PROVE Goes
  BY <1>2 DEF Recorded
<1>3. ASSUME RecordFails PROVE Goes
  BY <1>3 DEF RecordFails, HandleExit
<1>4. ASSUME Initialized PROVE Goes
  BY <1>4 DEF Initialized, BeginStop, EndStart, SettleReady
<1>5. ASSUME Exit PROVE Goes
  BY <1>5 DEF Exit, Abandon, NextAttempt, EndStart, HandleExit, GivesUp, Replace, SettleReady
<1>6. ASSUME Restart PROVE Goes
  BY <1>6 DEF Restart, Spawn, FirstStage
<1>7. ASSUME Shutdown PROVE Goes
  BY <1>7 DEF Shutdown, HandleExit
<1>8. ASSUME Stopped PROVE Goes
  BY <1>8 DEF Stopped, NextAttempt, EndStart
<1>9. ASSUME Stable PROVE Goes
  BY <1>9 DEF Stable
<1>10. ASSUME NEW pid \in alive, Crash(pid) PROVE Goes
  BY <1>10 DEF Crash
<1> QED
  BY <1>1, <1>2, <1>3, <1>4, <1>5, <1>6, <1>7, <1>8, <1>9, <1>10 DEF ProcessNext, Progress

(* What the operation makes of a step of the process. *)
Heard(o, c) ==
    /\ Fields \subseteq DOMAIN c
    /\ \A f \in Fields \ {"stage", "outcome", "got"} : c[f] = o[f]
    /\ \/ c.stage = o.stage /\ c.outcome = o.outcome
       \/ o.stage \in {"starting", "readying"} /\ c.stage = "capturing" /\ c.outcome = o.outcome
       \/ o.stage \in {"starting", "readying", "sending"} /\ c.stage = "leaving" /\ c.outcome = "error"

LEMMA SettledHears ==
    ASSUME NEW o, Fields \subseteq DOMAIN o
    PROVE  Heard(o, Settled(o))
BY SettledForms DEF Heard, Fields

LEMMA ProcessStepOpKeeps ==
    ASSUME ProcessInv, OpInv, Goes, op' = Settled(op), UNCHANGED <<result, closing>>
    PROVE  OpInv'
<1> USE DEF OpInv, Cleaned, Early, Late
<1>0. Heard(op, op')
  BY SettledHears DEF OpType
<1>1. OpType'
  BY <1>0 DEF Heard, OpType, Fields
<1>2. CleanInv'
  BY <1>0 DEF Heard, OpType, Fields, CleanInv
<1>3. HoldInv'
  BY <1>0 DEF Heard, OpType, Fields, HoldInv, Goes
<1>4. OutcomeInv'
  BY <1>0 DEF Heard, OpType, Fields, OutcomeInv, Goes
<1>5. EpochInv'
  <2> USE <1>0 DEF OpType, Fields, Heard, EpochInv, Goes, ProcessInv, ProcessType
  <2>1. op'.stage \in Early \cup {"starting", "readying", "capturing"} => op'.epoch = 0
    OBVIOUS
  <2>2. op'.epoch \in 0 .. spawned'
    OBVIOUS
  <2>3. op'.epoch \in alive' => op.epoch \in alive \cap alive'
    OBVIOUS
  <2>4. op'.epoch \in alive' => process' = op'.epoch /\ start' = Idle /\ disposal' # "done"
    BY <2>3
  <2>5. op'.epoch \in alive' /\ ~Disposed' =>
          activeEpoch' = op'.epoch /\ ready' = "resolved" /\ published' /\ op'.manager = manager'
    BY <2>3
  <2> QED
    BY ONLY <2>1, <2>2, <2>4, <2>5 DEF EpochInv
<1> QED
  BY ONLY <1>1, <1>2, <1>3, <1>4, <1>5 DEF OpInv

(* A disposal touches no process; it is over at once only if none runs. *)
Disposes ==
    /\ UNCHANGED <<protected, manager, process, start, alive, spawned>>
    /\ disposal = "no" /\ disposal' \in {"done", "stopping", "waiting"}
    /\ disposal' = "done" => process = 0 \/ (~published /\ starting = "no")

LEMMA DisposeForms == ASSUME DisposeRuntime PROVE Disposes
<1>1. /\ UNCHANGED <<protected, manager, process, start, alive, spawned>>
      /\ disposal = "no" /\ disposal' \in {"done", "stopping", "waiting"}
  BY DEF DisposeRuntime, Disposed, systemVars
<1>2. disposal' = "done" => process = 0 \/ (~published /\ starting = "no")
  BY DEF DisposeRuntime
<1> QED
  BY <1>1, <1>2 DEF Disposes

LEMMA CloseRuntimeOpKeeps ==
    ASSUME ProcessInv, OpInv, CloseRuntime
    PROVE  OpInv'
<1> USE DEF OpInv, Cleaned, Early, Late, Disposed
<1>0. Heard(op, op')
  BY SettledHears DEF CloseRuntime, OpType
<1>a. /\ closing /\ ~protected /\ (op.stage = "new" \/ op.clean = "done")
      /\ UNCHANGED <<result, closing>> /\ Disposes
  BY DisposeForms DEF CloseRuntime, HoldInv
<1>1. OpType'
  BY <1>0 DEF Disposes, Heard, OpType, Fields
<1>2. CleanInv'
  BY <1>0 DEF Disposes, Heard, OpType, Fields, CleanInv
<1>3. HoldInv'
  BY <1>0, <1>a DEF Disposes, Heard, OpType, Fields, HoldInv
<1>4. OutcomeInv'
  BY <1>0, <1>a DEF Disposes, Heard, OpType, Fields, OutcomeInv
<1>5. EpochInv'
  BY <1>0, <1>a DEF Disposes, Heard, OpType, Fields, EpochInv, ProcessInv, ProcessType, RuntimeInv,
     OneProcess
<1> QED
  BY ONLY <1>1, <1>2, <1>3, <1>4, <1>5 DEF OpInv

LEMMA CleanupEndsOpKeeps ==
    ASSUME ProcessInv, OpInv, CleanupEnds
    PROVE  OpInv'
<1> USE DEF OpInv, Cleaned, Early, Late, Disposed
<1>a. op.clean = "requesting" /\ op.todo = <<>> /\ UNCHANGED <<result, closing>>
  BY DEF CleanupEnds
<1>1. CASE protected /\ op.holds
  <2> PICK o : o = [op EXCEPT !.phase = "done", !.clean = "disposing"]
    OBVIOUS
  <2>b. Fields \subseteq DOMAIN o
    BY DEF OpType
  <2>0. Heard(o, op')
    BY <1>1, <2>b, SettledHears DEF CleanupEnds
  <2>a. Disposes
    BY <1>1, DisposeForms DEF CleanupEnds
  <2>1. OpType'
    BY <1>a, <2>0 DEF Disposes, Heard, OpType, Fields
  <2>2. CleanInv'
    BY <1>a, <2>0 DEF Disposes, Heard, OpType, Fields, CleanInv
  <2>3. HoldInv'
    BY <1>1, <1>a, <2>0, <2>a DEF Disposes, Heard, OpType, Fields, HoldInv
  <2>4. OutcomeInv'
    BY <1>1, <1>a, <2>0, <2>a DEF Disposes, Heard, OpType, Fields, OutcomeInv
  <2>5. EpochInv'
    <3> USE <1>a, <2>0, <2>a DEF Disposes, Heard, OpType, Fields, EpochInv, ProcessInv, ProcessType
    <3>1. op'.stage \in Early \cup {"starting", "readying", "capturing"} => op'.epoch = 0
      OBVIOUS
    <3>2. op'.epoch = op.epoch /\ Disposed'
      OBVIOUS
    <3>3. ASSUME op.epoch \in alive PROVE disposal' # "done"
      BY <3>3 DEF RuntimeInv
    <3> QED
      BY <3>1, <3>2, <3>3
  <2> QED
    BY ONLY <2>1, <2>2, <2>3, <2>4, <2>5 DEF OpInv
<1>2. CASE ~(protected /\ op.holds)
  <2>0. op' = [op EXCEPT !.phase = "done", !.clean = "done"] /\ UNCHANGED processVars
    BY <1>2 DEF CleanupEnds
  <2>1. OpType'
    BY <1>a, <2>0 DEF OpType, Fields
  <2>2. CleanInv'
    BY <1>a, <2>0 DEF OpType, Fields, CleanInv
  <2> USE DEF processVars, managerVars, runtimeVars, systemVars
  <2>3. HoldInv'
    BY <1>2, <1>a, <2>0 DEF OpType, Fields, HoldInv
  <2>4. OutcomeInv'
    BY <1>2, <1>a, <2>0 DEF OpType, Fields, OutcomeInv
  <2>5. EpochInv'
    BY <1>a, <2>0 DEF OpType, Fields, EpochInv
  <2> QED
    BY ONLY <2>1, <2>2, <2>3, <2>4, <2>5 DEF OpInv
<1> QED
  BY <1>1, <1>2

LEMMA CloseOpKeeps ==
    ASSUME ProcessInv, OpInv, Close
    PROVE  OpInv'
<1> USE DEF OpInv, Cleaned, Early, Late, Disposed, processVars, managerVars, runtimeVars, systemVars
<1>1. CASE Cancellable
  <2>0. Begun([op EXCEPT !.cancelled = TRUE], op')
    BY <1>1, CleaningBegins DEF Close, CancelOp, OpType, Fields
  <2>a. /\ ~protected /\ closing' /\ UNCHANGED processVars
        /\ op.stage # "new" /\ op.stage # "ended"
        /\ result' = IF result = "none" THEN "cancelled" ELSE result
    BY <1>1 DEF Close, CancelOp, Cancellable
  <2>1. OpType'
    BY <2>0 DEF OpType, Fields, Begun
  <2>2. CleanInv'
    BY <2>0, <2>a DEF OpType, Fields, Begun, CleanInv
  <2>3. HoldInv'
    BY <2>0, <2>a DEF OpType, Fields, Begun, HoldInv
  <2>4. OutcomeInv'
    BY <2>0, <2>a DEF OpType, Fields, Begun, OutcomeInv
  <2>5. EpochInv'
    BY <2>0, <2>a DEF OpType, Fields, Begun, EpochInv
  <2> QED
    BY ONLY <2>1, <2>2, <2>3, <2>4, <2>5 DEF OpInv
<1>2. CASE ~Cancellable
  BY <1>2 DEF Close, OpType, CleanInv, HoldInv, OutcomeInv, EpochInv
<1> QED
  BY <1>1, <1>2

LEMMA OthersOpKeep ==
    ASSUME OpInv, \/ OthersLaunch \/ Server \/ Deliveries \/ UNCHANGED vars
    PROVE  OpInv'
<1> USE DEF OpInv, Cleaned, Early, Late, Disposed, processVars, managerVars, runtimeVars, systemVars
<1>1. \/ op' = op
      \/ \E k : op' = [op EXCEPT !.heard = @ \cup {k}]
  BY DEF OthersLaunch, Server, ServerReceives, ServerConnects, ServerCompletes, Deliveries,
     Deliver, vars
<1>2. /\ UNCHANGED <<protected, manager, process, ready, activeEpoch, start, published, disposal, alive, spawned>>
      /\ UNCHANGED <<result, closing>>
  BY DEF OthersLaunch, Server, ServerReceives, ServerConnects, ServerCompletes, Deliveries,
     Deliver, vars
<1>3. OpType'
  BY <1>1 DEF OpType, Fields
<1> QED
  BY <1>1, <1>2, <1>3 DEF OpType, Fields, CleanInv, HoldInv, OutcomeInv, EpochInv

LEMMA OpNextKeeps ==
    ASSUME ProcessInv, OpInv, [Next]_vars
    PROVE  OpInv'
<1>1. CASE Main
  BY <1>1, CheckedOpKeeps, CreatedOpKeeps, CaptureOpKeeps, OptionsBuiltOpKeeps,
     ConnectDispatchedOpKeeps,
     ConnectedOpKeeps, ExecuteOpKeeps, ExecuteDispatchedOpKeeps, AcceptedOpKeeps, CompletedOpKeeps,
     NextPageOpKeeps, PageDispatchedOpKeeps, PageReadOpKeeps, ThrowsOpKeeps, DisposeAtEndOpKeeps,
     LeaveOpKeeps DEF Main
<1>2. CASE Cleanup
  BY <1>2, CleanupSendsOpKeeps, CleanupAnsweredOpKeeps, CleanupEndsOpKeeps,
     RuntimeDisposedOpKeeps DEF Cleanup
<1>3. CASE ProcessStep
  BY <1>3, ProcessGoes, ProcessStepOpKeeps DEF ProcessStep
<1> QED
  BY <1>1, <1>2, <1>3, BeginOpKeeps, TimesOutOpKeeps, CancelOpKeeps, CleanupTimesOutOpKeeps,
     CloseOpKeeps,
     CloseRuntimeOpKeeps, OthersOpKeep DEF Next

-----------------------------------------------------------------------------
(* Requests and servers. *)


Requests == [pid : Nat, method : Methods \cup {"connect", "execute", "subset"}]

(* Requests in flight; m follows every a. *)
Contains(w, m) == \E i \in 1 .. Len(w) : w[i].method = m
Follows(w, a, m) == \A i \in 1 .. Len(w) : w[i].method = a => \E j \in i + 1 .. Len(w) : w[j].method = m

(* Requests go to the server of the operation only, and what that may hold  *)
(* for it has been noted.                                                  *)
WireInv ==
    /\ wire \in Seq(Requests)
    /\ \A i \in 1 .. Len(wire) : wire[i].pid = op.epoch /\ op.epoch # 0
    /\ connecting \cup sessions \cup held \subseteq {op.epoch} \ {0}
    /\ Contains(wire, "connect") \/ connecting \cup sessions # {} => "connectSubmitted" \in op.flags
    /\ Contains(wire, "execute") \/ held # {} => "submitted" \in op.flags

(* The cleanup has m still to send. *)
Owed(m) ==
    \/ op.clean = "no"
    \/ op.clean = "requesting" /\ ToDo(op.todo, m)
    \/ op.clean = "awaiting" /\ ToDo(Tail(op.todo), m)

(* m is on its way behind whatever it releases. *)
Released(a, m, kept) == Follows(wire, a, m) /\ (Contains(wire, m) \/ kept = {})

Connections == connecting \cup sessions

ReleaseInv ==
    op.epoch \in alive =>
        /\ Owed("disconnect") \/ Released("connect", "disconnect", Connections)
        /\ Owed("queryDispose") \/ Released("execute", "queryDispose", held)

LEMMA AppendContains ==
    ASSUME NEW w \in Seq(Requests), NEW x \in Requests, NEW m
    PROVE  Contains(Append(w, x), m) <=> Contains(w, m) \/ x.method = m
BY DEF Contains

LEMMA AppendFollows ==
    ASSUME NEW w \in Seq(Requests), NEW x \in Requests, NEW a, NEW m, a # m,
           x.method = m \/ (Follows(w, a, m) /\ x.method # a)
    PROVE  Follows(Append(w, x), a, m)
<1>1. Len(Append(w, x)) = Len(w) + 1 /\ Len(w) \in Nat
  OBVIOUS
<1>2. \A i \in 1 .. Len(w) + 1 : Append(w, x)[i] = IF i = Len(w) + 1 THEN x ELSE w[i]
  OBVIOUS
<1> PICK v : v = Append(w, x)
  OBVIOUS
<1>3. Len(v) = Len(w) + 1 /\ \A i \in 1 .. Len(w) + 1 : v[i] = IF i = Len(w) + 1 THEN x ELSE w[i]
  BY <1>1, <1>2
<1>4. CASE x.method = m
  BY <1>1, <1>3, <1>4 DEF Follows
<1>5. CASE Follows(w, a, m) /\ x.method # a
  BY <1>1, <1>3, <1>5 DEF Follows
<1> QED
  BY <1>4, <1>5

LEMMA TailKeeps ==
    ASSUME NEW w \in Seq(Requests), w # <<>>, NEW a, NEW m
    PROVE  /\ Tail(w) \in Seq(Requests) /\ Head(w) \in Requests
           /\ \A i \in 1 .. Len(Tail(w)) : i + 1 \in 1 .. Len(w) /\ Tail(w)[i] = w[i + 1]
           /\ Head(w) = w[1] /\ 1 \in 1 .. Len(w)
           /\ Contains(Tail(w), m) => Contains(w, m)
           /\ Contains(w, m) => Contains(Tail(w), m) \/ Head(w).method = m
           /\ Follows(w, a, m) => Follows(Tail(w), a, m)
           /\ Follows(w, a, m) /\ Head(w).method = a => Contains(Tail(w), m)
<1> PICK v : v = Tail(w)
  OBVIOUS
<1> PICK n \in Nat : n = Len(w) /\ n >= 1
  OBVIOUS
<1>1. v \in Seq(Requests) /\ Head(w) \in Requests
  OBVIOUS
<1>2. Len(v) = n - 1 /\ Head(w) = w[1] /\ \A i \in 1 .. n - 1 : v[i] = w[i + 1]
  OBVIOUS
<1>3. Contains(v, m) => Contains(w, m)
  BY <1>2 DEF Contains
<1>4. Contains(w, m) => Contains(v, m) \/ Head(w).method = m
  <2> SUFFICES ASSUME NEW i \in 1 .. n, w[i].method = m, i # 1 PROVE Contains(v, m)
    BY <1>2 DEF Contains
  <2>1. i - 1 \in 1 .. n - 1 /\ v[i - 1] = w[i]
    BY <1>2
  <2> QED
    BY <1>2, <2>1 DEF Contains
<1>5. Follows(w, a, m) => Follows(v, a, m)
  <2> SUFFICES ASSUME Follows(w, a, m), NEW i \in 1 .. n - 1, v[i].method = a
               PROVE  \E j \in i + 1 .. n - 1 : v[j].method = m
    BY <1>2 DEF Follows
  <2>1. PICK j \in i + 2 .. n : w[j].method = m
    BY <1>2 DEF Follows
  <2>2. j - 1 \in i + 1 .. n - 1 /\ v[j - 1] = w[j]
    BY <1>2
  <2> QED
    BY <2>1, <2>2
<1>6. Follows(w, a, m) /\ Head(w).method = a => Contains(v, m)
  <2> SUFFICES ASSUME Follows(w, a, m), w[1].method = a PROVE Contains(v, m)
    BY <1>2
  <2>1. PICK j \in 2 .. n : w[j].method = m
    BY DEF Follows
  <2>2. j - 1 \in 1 .. n - 1 /\ v[j - 1] = w[j]
    BY <1>2
  <2> QED
    BY <1>2, <2>1, <2>2 DEF Contains
<1> QED
  BY <1>1, <1>2, <1>3, <1>4, <1>5, <1>6


ServerInv == WireInv /\ ReleaseInv

(* A server that runs and is the operation's can be asked. *)
LEMMA Reachable ==
    ASSUME ProcessInv, OpInv, op.epoch \in alive, ~Disposed
    PROVE  ProcessIsCurrent /\ CanSend /\ ~AwaitsReady /\ process = op.epoch
<1>1. /\ process = op.epoch /\ activeEpoch = op.epoch /\ ready = "resolved" /\ published
      /\ op.manager = manager
  BY DEF OpInv, EpochInv
<1>2. op.epoch # 0 /\ manager # 0
  BY <1>1 DEF ProcessInv, ProcessType
<1>3. stop.stage = "idle"
  BY <1>1 DEF ProcessInv, StopInv, RuntimeInv, Disposed
<1> QED
  BY <1>1, <1>2, <1>3 DEF ProcessIsCurrent, EpochOf, CanSend, MatchesEpoch, AwaitsReady

LEMMA NotDisposed ==
    ASSUME OpInv, op.clean \in {"no", "requesting", "awaiting"}, op.stage # "new"
    PROVE  ~Disposed
BY DEF OpInv, HoldInv, Cleaned

(* Every request is for the epoch of the operation. *)
LEMMA SendsToEpoch ==
    ASSUME ProcessInv, ~Disposed, CanSend
    PROVE  process = op.epoch /\ op.epoch \in Nat \ {0}
BY DEF CanSend, MatchesEpoch, ProcessInv, ProcessType, ReadyInv

(* Nothing is sent, and no server gets or loses anything of the operation. *)
LEMMA Quiet ==
    ASSUME ServerInv, op.epoch \in alive' => op.epoch \in alive,
           UNCHANGED serverVars, op'.epoch = op.epoch, op.flags \subseteq op'.flags,
           \/ op'.clean = op.clean /\ op'.todo = op.todo
           \/ op.clean = "awaiting" /\ op'.clean = "requesting" /\ op'.todo = Tail(op.todo)
           \/ op.clean = "requesting" /\ op.todo = <<>>
    PROVE  ServerInv'
<1> USE DEF ServerInv, serverVars
<1>1. WireInv'
  BY DEF WireInv, Contains
<1>2. ASSUME NEW m, Owed(m) PROVE Owed(m)'
  <2>1. CASE op'.clean = op.clean /\ op'.todo = op.todo
    BY <1>2, <2>1 DEF Owed
  <2>2. CASE op.clean = "awaiting" /\ op'.clean = "requesting" /\ op'.todo = Tail(op.todo)
    BY <1>2, <2>2 DEF Owed
  <2>3. CASE op.clean = "requesting" /\ op.todo = <<>>
    BY <1>2, <2>3 DEF Owed, ToDo
  <2> QED
    BY <2>1, <2>2, <2>3
<1>3. \A a, m, k : Released(a, m, k) => UNCHANGED Released(a, m, k)
  BY DEF Released, Contains, Follows
<1>4. ReleaseInv'
  BY <1>2, <1>3 DEF ReleaseInv, Connections, Released, Contains, Follows
<1> QED
  BY <1>1, <1>4

(* When the cleanup begins, it owes what its servers may hold. *)
LEMMA CleaningQuiet ==
    ASSUME ProcessInv, OpInv, ServerInv, NEW o, Fields \subseteq DOMAIN o,
           op.stage # "new",
           \A f \in Fields \ {"stage", "cancelled"} : o[f] = op[f],
           op' = Cleaning(o), UNCHANGED <<alive, serverVars>>
    PROVE  ServerInv'
<1> USE DEF ServerInv, serverVars
<1>1. Begun(o, op')
  BY CleaningBegins DEF OpInv, OpType, Fields
<1>2. CASE op.clean # "no"
  BY <1>1, <1>2, Quiet DEF Begun, Fields
<1>3. CASE op.clean = "no"
  <2>1. WireInv'
    BY <1>1 DEF WireInv, Contains, Begun, Fields
  <2> SUFFICES ASSUME op.epoch \in alive
               PROVE  ReleaseInv'
    BY <1>1, <2>1 DEF ReleaseInv, Begun, Fields
  <2>2. op'.todo = Releases(o)
    BY <1>3, NotDisposed, Reachable DEF Cleaning, Fields
  <2>3. "connectSubmitted" \in op.flags => ToDo(op'.todo, "disconnect")
    BY <2>2, ReleasesAre DEF Fields
  <2>4. "submitted" \in op.flags => ToDo(op'.todo, "queryDispose")
    BY <2>2, ReleasesAre DEF Fields
  <2>5. "connectSubmitted" \notin op.flags => Released("connect", "disconnect", Connections)'
    BY DEF WireInv, Released, Connections, Contains, Follows
  <2>6. "submitted" \notin op.flags => Released("execute", "queryDispose", held)'
    BY DEF WireInv, Released, Contains, Follows
  <2> QED
    BY <1>1, <1>3, <2>3, <2>4, <2>5, <2>6 DEF ReleaseInv, Owed, Begun, Fields
<1> QED
  BY <1>2, <1>3

(* What is on its way when a request has been sent. *)
LEMMA AppendServerInv ==
    ASSUME ProcessInv, ServerInv, ~Disposed, CanSend, NEW method, Send(method),
           method \in Methods \cup {"connect", "execute", "subset"},
           UNCHANGED <<alive, connecting, sessions, held>>, op'.epoch = op.epoch
    PROVE  LET x == [pid |-> process, method |-> method] IN
           /\ x \in Requests /\ wire \in Seq(Requests) /\ wire' = Append(wire, x)
           /\ wire' \in Seq(Requests)
           /\ \A i \in 1 .. Len(wire') : wire'[i].pid = op.epoch /\ op.epoch # 0
           /\ \A m : Contains(wire', m) <=> Contains(wire, m) \/ method = m
           /\ \A a, m : a # m /\ (method = m \/ (Follows(wire, a, m) /\ method # a)) => Follows(wire', a, m)
<1> PICK x : x = [pid |-> process, method |-> method]
  OBVIOUS
<1>1. process = op.epoch /\ op.epoch \in Nat \ {0}
  BY SendsToEpoch
<1>2. x \in Requests /\ x.pid = op.epoch /\ x.method = method
  BY <1>1 DEF Requests
<1>3. wire \in Seq(Requests) /\ wire' = Append(wire, x)
  BY DEF ServerInv, WireInv, Send
<1>4. wire' \in Seq(Requests) /\ \A i \in 1 .. Len(wire') : wire'[i].pid = op.epoch /\ op.epoch # 0
  BY <1>1, <1>2, <1>3 DEF ServerInv, WireInv
<1> QED
  BY <1>2, <1>3, <1>4, AppendContains, AppendFollows

LEMMA DispatchedServerInv ==
    ASSUME ProcessInv, OpInv, ServerInv, op.stage # "new",
           NEW method, NEW flags, NEW stage, Dispatched(method, flags, stage),
           \/ method = "connect" /\ flags = {"connectSubmitted"}
           \/ method = "execute" /\ flags = {"submitted"}
           \/ method = "subset" /\ flags = {},
           UNCHANGED <<alive, answers, connecting, sessions, running, held>>
    PROVE  ServerInv'
<1>1. /\ op'.epoch = op.epoch /\ op.flags \subseteq op'.flags
      /\ op'.clean = op.clean /\ op'.todo = op.todo
  BY DEF Dispatched, OpInv, OpType, Fields
<1>2. CASE UNCHANGED wire
  BY <1>1, <1>2, Quiet DEF serverVars
<1>3. ASSUME MayDispatch, CanSend, Send(method), op' = [op EXCEPT !.stage = stage, !.flags = @ \cup flags]
      PROVE  ServerInv'
  <2>1. op.clean = "no" /\ op'.clean = "no" /\ op'.flags = op.flags \cup flags
    BY <1>3 DEF MayDispatch, OpInv, CleanInv, OpType, Fields
  <2>2. ~Disposed
    BY <2>1, NotDisposed
  <2>3. /\ wire' \in Seq(Requests)
        /\ \A i \in 1 .. Len(wire') : wire'[i].pid = op.epoch /\ op.epoch # 0
        /\ \A m : Contains(wire', m) <=> Contains(wire, m) \/ method = m
    BY <1>1, <1>3, <2>2, AppendServerInv
  <2>4. WireInv'
    BY <1>1, <2>1, <2>3 DEF ServerInv, WireInv
  <2>5. ReleaseInv'
    BY <2>1 DEF ReleaseInv, Owed
  <2> QED
    BY <2>4, <2>5 DEF ServerInv
<1> QED
  BY <1>2, <1>3 DEF Dispatched

LEMMA CleanupSendsServerInv ==
    ASSUME ProcessInv, OpInv, ServerInv, CleanupSends
    PROVE  ServerInv'
<1>1. /\ op.clean = "requesting" /\ op.todo # <<>> /\ op.todo \in Seq(Methods)
      /\ UNCHANGED <<alive, answers, connecting, sessions, running, held>>
      /\ op.stage # "new" /\ Fields \subseteq DOMAIN op
  BY DEF CleanupSends, OpInv, OpType, CleanInv, processVars, systemVars
<1>2. ~Disposed
  BY <1>1, NotDisposed
<1>3. CASE ~CanSend
  <2>1. op' = Rest /\ UNCHANGED wire
    BY <1>3 DEF CleanupSends
  <2>2. op'.clean = "requesting" /\ op'.epoch = op.epoch /\ op'.flags = op.flags
    BY <1>1, <2>1 DEF Rest, Fields
  <2>3. op.epoch \notin alive
    BY <1>2, <1>3, Reachable
  <2> QED
    BY <1>1, <2>1, <2>2, <2>3 DEF ServerInv, WireInv, ReleaseInv, Contains
<1>4. CASE CanSend
  <2> PICK h, t : h = Head(op.todo) /\ t = Tail(op.todo)
    OBVIOUS
  <2>1. h \in Methods /\ t \in Seq(Methods) /\ \A m : ToDo(op.todo, m) => m = h \/ ToDo(t, m)
    <3>1. h \in Methods /\ t \in Seq(Methods)
      BY <1>1
    <3>2. ASSUME NEW m, ToDo(op.todo, m), m # h PROVE ToDo(t, m)
      <4>1. PICK i \in 1 .. Len(op.todo) : op.todo[i] = m
        BY <3>2 DEF ToDo
      <4>2. i # 1
        BY <1>1, <3>2, <4>1
      <4>3. i - 1 \in 1 .. Len(t) /\ t[i - 1] = m
        BY <1>1, <4>1, <4>2
      <4> QED
        BY <4>3 DEF ToDo
    <3> QED
      BY <3>1, <3>2
  <2>2. /\ op'.clean = "awaiting" /\ op'.todo = op.todo /\ op'.epoch = op.epoch /\ op'.flags = op.flags
        /\ Send(h)
    BY <1>1, <1>4 DEF CleanupSends, Fields
  <2>3. /\ wire' \in Seq(Requests)
        /\ \A i \in 1 .. Len(wire') : wire'[i].pid = op.epoch /\ op.epoch # 0
        /\ \A m : Contains(wire', m) <=> Contains(wire, m) \/ h = m
        /\ \A a, m : a # m /\ (h = m \/ (Follows(wire, a, m) /\ h # a)) => Follows(wire', a, m)
    BY <1>1, <1>2, <1>4, <2>1, <2>2, AppendServerInv
  <2>4. WireInv'
    BY <1>1, <2>1, <2>2, <2>3 DEF ServerInv, WireInv, Methods
  <2>5. \A m : Owed(m) => Owed(m)' \/ h = m
    BY <1>1, <2>1, <2>2 DEF Owed
  <2>6. ASSUME op.epoch \in alive PROVE Owed("disconnect")' \/ Released("connect", "disconnect", Connections)'
    BY <1>1, <2>1, <2>3, <2>5, <2>6 DEF ServerInv, ReleaseInv, Released, Connections, Methods
  <2>7. ASSUME op.epoch \in alive PROVE Owed("queryDispose")' \/ Released("execute", "queryDispose", held)'
    BY <1>1, <2>1, <2>3, <2>5, <2>7 DEF ServerInv, ReleaseInv, Released, Methods
  <2> QED
    BY <1>1, <2>2, <2>4, <2>6, <2>7 DEF ServerInv, ReleaseInv
<1> QED
  BY <1>3, <1>4

(* A server gets what was sent first: what comes behind it releases it. *)
LEMMA ServerReceivesServerInv ==
    ASSUME ProcessInv, OpInv, ServerInv, ServerReceives
    PROVE  ServerInv'
<1> PICK h : h = Head(wire)
  OBVIOUS
<1>1. /\ wire \in Seq(Requests) /\ wire # <<>> /\ wire' = Tail(wire)
      /\ UNCHANGED <<alive, op>>
  BY DEF ServerReceives, ServerInv, WireInv, processVars, systemVars
<1>2. /\ wire' \in Seq(Requests) /\ h \in Requests
      /\ \A i \in 1 .. Len(wire') : i + 1 \in 1 .. Len(wire) /\ wire'[i] = wire[i + 1]
      /\ h = wire[1] /\ 1 \in 1 .. Len(wire)
  BY <1>1, TailKeeps
<1>3. \A m : Contains(wire', m) => Contains(wire, m)
  BY <1>1, TailKeeps
<1>4. h.pid = op.epoch /\ op.epoch # 0 /\ Contains(wire, h.method)
  BY <1>2 DEF ServerInv, WireInv, Contains
<1>5. /\ connecting' = connecting \/ connecting' = connecting \ {op.epoch}
         \/ (h.method = "connect" /\ connecting' = connecting \cup {op.epoch})
      /\ sessions' = sessions \/ sessions' = sessions \ {op.epoch}
      /\ held' = held \/ held' = held \ {op.epoch}
         \/ (h.method = "execute" /\ held' = held \cup {op.epoch})
      /\ op.epoch \in alive /\ h.method = "disconnect" =>
            connecting' = connecting \ {op.epoch} /\ sessions' = sessions \ {op.epoch}
      /\ op.epoch \in alive /\ h.method = "queryDispose" => held' = held \ {op.epoch}
  BY <1>4 DEF ServerReceives
<1>6. WireInv'
  BY <1>1, <1>2, <1>3, <1>4, <1>5 DEF ServerInv, WireInv
<1>7. ASSUME NEW a, NEW m, a # m, Follows(wire, a, m)
      PROVE  /\ Follows(wire', a, m)
             /\ Contains(wire, m) => Contains(wire', m) \/ h.method = m
             /\ h.method = a => Contains(wire', m)
  BY <1>1, <1>7, TailKeeps
<1>8. \A m : Owed(m)' <=> Owed(m)
  BY <1>1 DEF Owed
<1>9. ASSUME op.epoch \in alive, Released("connect", "disconnect", Connections)
      PROVE  Released("connect", "disconnect", Connections)'
  BY <1>5, <1>7, <1>9 DEF Released, Connections, ServerInv, WireInv
<1>10. ASSUME op.epoch \in alive, Released("execute", "queryDispose", held)
       PROVE  Released("execute", "queryDispose", held)'
  BY <1>5, <1>7, <1>10 DEF Released, ServerInv, WireInv
<1> QED
  BY <1>1, <1>6, <1>8, <1>9, <1>10 DEF ServerInv, ReleaseInv

LEMMA ServerConnectsServerInv ==
    ASSUME ServerInv, \/ \E pid \in alive : \E ok \in BOOLEAN : ServerConnects(pid, ok)
                      \/ \E pid \in alive : ServerCompletes(pid)
    PROVE  ServerInv'
<1>1. /\ Connections' \subseteq Connections /\ held' = held /\ UNCHANGED <<alive, op, wire>>
  BY DEF ServerConnects, ServerCompletes, Connections, processVars, systemVars
<1>2. WireInv'
  BY <1>1 DEF ServerInv, WireInv, Connections, Contains
<1>3. ReleaseInv'
  BY <1>1 DEF ServerInv, ReleaseInv, Owed, Released, Contains, Follows, ToDo
<1> QED
  BY <1>2, <1>3 DEF ServerInv


(* Nothing was sent before the epoch was captured. *)
LEMMA CaptureServerInv ==
    ASSUME OpInv, ServerInv, Capture
    PROVE  ServerInv'
<1>1. /\ op.epoch = 0 /\ op'.flags = op.flags /\ op'.clean = "no"
      /\ UNCHANGED serverVars
  BY DEF Capture, OpInv, OpType, Fields, CleanInv, EpochInv, Late
<1>2. wire = <<>> /\ connecting \cup sessions \cup held = {}
  <2>1. Len(wire) = 0
    BY <1>1 DEF ServerInv, WireInv
  <2> QED
    BY <1>1, <2>1 DEF ServerInv, WireInv
<1>3. WireInv'
  BY <1>1, <1>2 DEF ServerInv, WireInv, Contains, serverVars
<1>4. ReleaseInv'
  BY <1>1 DEF ReleaseInv, Owed
<1> QED
  BY <1>3, <1>4 DEF ServerInv

(* Steps that send nothing and leave the cleanup where it is. *)
Quietly ==
    /\ UNCHANGED serverVars /\ (op.epoch \in alive' => op.epoch \in alive)
    /\ op'.epoch = op.epoch /\ op.flags \subseteq op'.flags
    /\ op'.clean = op.clean /\ op'.todo = op.todo

LEMMA QuietlyServerInv == ASSUME ServerInv, Quietly PROVE ServerInv'
BY Quiet DEF Quietly

LEMMA MainServerInv ==
    ASSUME ProcessInv, OpInv, ServerInv, Main \/ Begin \/ TimesOut \/ Cancel
    PROVE  ServerInv'
<1> USE DEF processVars, systemVars
<1>1. CASE Capture
  BY <1>1, CaptureServerInv
<1>2. CASE ConnectDispatched
  BY <1>2, DispatchForms, DispatchedServerInv DEF ConnectDispatched
<1>3. CASE ExecuteDispatched
  BY <1>3, DispatchForms, DispatchedServerInv DEF ExecuteDispatched
<1>4. CASE PageDispatched
  BY <1>4, DispatchForms, DispatchedServerInv DEF PageDispatched
<1>5. CASE DisposeAtEnd
  BY <1>5, CleaningQuiet DEF DisposeAtEnd, OpInv, OpType, Fields
<1>6. CASE Cancel
  <2> PICK o : o = [op EXCEPT !.cancelled = TRUE]
    OBVIOUS
  <2>1. /\ Fields \subseteq DOMAIN o /\ (\A f \in Fields \ {"stage", "cancelled"} : o[f] = op[f])
        /\ op' = Cleaning(o) /\ UNCHANGED <<alive, serverVars>> /\ op.stage # "new"
    BY <1>6 DEF Cancel, CancelOp, Cancellable, OpInv, OpType, Fields
  <2> QED
    BY <2>1, CleaningQuiet
<1>7. CASE Checked \/ Created
  <2>1. PICK o : /\ Fields \subseteq DOMAIN o /\ (\A f \in {"epoch", "flags", "clean", "todo"} : o[f] = op[f])
                 /\ op' = [o EXCEPT !.stage = "creating"] \/ Obtained(o, op')
                 /\ UNCHANGED <<alive, serverVars>>
    <3>1. CASE Created
      <4> PICK o : o = [op EXCEPT !.holds = TRUE]
        OBVIOUS
      <4>1. Fields \subseteq DOMAIN o /\ (\A f \in {"epoch", "flags", "clean", "todo"} : o[f] = op[f])
        BY DEF OpInv, OpType, Fields
      <4>2. Obtained(o, op') /\ UNCHANGED <<alive, serverVars>>
        BY <3>1, <4>1, ObtainForms DEF Created, Obtain
      <4> QED
        BY <4>1, <4>2
    <3>2. CASE Checked
      <4> PICK o : o = [op EXCEPT !.phase = IF op.clean = "no" THEN "connecting" ELSE @]
        OBVIOUS
      <4>1. Fields \subseteq DOMAIN o /\ (\A f \in {"epoch", "flags", "clean", "todo"} : o[f] = op[f])
        BY DEF OpInv, OpType, Fields
      <4>2. UNCHANGED <<alive, serverVars>>
        BY <3>2 DEF Checked, Obtain
      <4>3. CASE protected
        BY <3>2, <4>1, <4>2, <4>3 DEF Checked
      <4>4. CASE ~protected
        <5> PICK u : u = [o EXCEPT !.holds = TRUE]
          OBVIOUS
        <5>1. Fields \subseteq DOMAIN u /\ (\A f \in {"epoch", "flags", "clean", "todo"} : u[f] = op[f])
          BY <4>1 DEF Fields
        <5>2. Obtained(u, op')
          BY <3>2, <4>4, <5>1, ObtainForms DEF Checked
        <5> QED
          BY <4>2, <5>1, <5>2
      <4> QED
        BY <4>3, <4>4
    <3> QED
      BY <1>7, <3>1, <3>2
  <2>2. Quietly
    BY <2>1 DEF Quietly, Obtained, Fields
  <2> QED
    BY <2>2, QuietlyServerInv
<1>8. CASE \/ OptionsBuilt \/ Connected \/ Execute \/ Accepted \/ Completed \/ NextPage \/ PageRead \/ Throws
           \/ Leave \/ Begin \/ TimesOut
  <2>1. Quietly
    BY <1>8 DEF Quietly, OpInv, OpType, Fields, OptionsBuilt, Connected, Execute, Accepted,
       Completed, NextPage, PageRead,
       Throws, Leave, Begin, TimesOut, Goto
  <2> QED
    BY <2>1, QuietlyServerInv
<1> QED
  BY <1>1, <1>2, <1>3, <1>4, <1>5, <1>6, <1>7, <1>8 DEF Main

LEMMA CleanupServerInv ==
    ASSUME ProcessInv, OpInv, ServerInv, Cleanup \/ CleanupTimesOut
    PROVE  ServerInv'
<1> USE DEF processVars, systemVars
<1>1. CASE CleanupSends
  BY <1>1, CleanupSendsServerInv
<1>2. CASE CleanupAnswered \/ CleanupTimesOut
  BY <1>2, Quiet DEF CleanupAnswered, CleanupTimesOut, Rest, OpInv, OpType, Fields
<1>3. CASE CleanupEnds
  <2>1. /\ op'.epoch = op.epoch /\ op'.flags = op.flags
        /\ UNCHANGED <<alive, serverVars>> /\ op.clean = "requesting" /\ op.todo = <<>>
    <3>1. CASE protected /\ op.holds
      <4> PICK o : o = [op EXCEPT !.phase = "done", !.clean = "disposing"]
        OBVIOUS
      <4>1. Fields \subseteq DOMAIN o /\ o.epoch = op.epoch /\ o.flags = op.flags
        BY DEF OpInv, OpType, Fields
      <4>2. Heard(o, op')
        BY <1>3, <3>1, <4>1, SettledHears DEF CleanupEnds
      <4> QED
        BY <1>3, <3>1, <4>1, <4>2 DEF CleanupEnds, DisposeRuntime, Heard, Fields
    <3>2. CASE ~(protected /\ op.holds)
      BY <1>3, <3>2 DEF CleanupEnds, OpInv, OpType, Fields
    <3> QED
      BY <3>1, <3>2
  <2> QED
    BY <2>1, Quiet
<1>4. CASE RuntimeDisposed
  <2>1. /\ op.clean = "disposing" /\ op'.clean = "done" /\ op'.epoch = op.epoch /\ op'.flags = op.flags
        /\ UNCHANGED <<alive, serverVars>>
    BY <1>4 DEF RuntimeDisposed, OpInv, OpType, Fields
  <2> QED
    BY <2>1 DEF ServerInv, WireInv, ReleaseInv, Owed, Released, Connections, Contains, Follows,
       serverVars
<1> QED
  BY <1>1, <1>2, <1>3, <1>4 DEF Cleanup

LEMMA EnvironmentServerInv ==
    ASSUME ProcessInv, OpInv, ServerInv,
           Server \/ Deliveries \/ ProcessStep \/ OthersLaunch \/ Close \/ CloseRuntime \/ UNCHANGED vars
    PROVE  ServerInv'
<1> USE DEF processVars, systemVars
<1>1. CASE Server
  BY <1>1, ServerReceivesServerInv, ServerConnectsServerInv DEF Server
<1>2. CASE Deliveries
  <2>1. /\ UNCHANGED <<alive, wire, connecting, sessions, held>>
        /\ \A f \in {"epoch", "flags", "clean", "todo"} : op'[f] = op[f]
    BY <1>2 DEF Deliveries, Deliver, OpInv, OpType, Fields
  <2> QED
    BY <2>1 DEF ServerInv, WireInv, ReleaseInv, Owed, Released, Connections, Contains, Follows
<1>3. CASE ProcessStep \/ CloseRuntime
  <2>1. Heard(op, op') /\ UNCHANGED serverVars
    BY <1>3, SettledHears DEF ProcessStep, CloseRuntime, OpInv, OpType
  <2>2. op.epoch \in alive' => op.epoch \in alive
    BY <1>3, ProcessGoes DEF ProcessStep, CloseRuntime, DisposeRuntime, Goes, OpInv, EpochInv
  <2>3. Quietly
    BY <2>1, <2>2 DEF Quietly, Heard, Fields
  <2> QED
    BY <2>3, QuietlyServerInv
<1>4. CASE Close
  <2>1. CASE Cancellable
    <3> PICK o : o = [op EXCEPT !.cancelled = TRUE]
      OBVIOUS
    <3>1. /\ Fields \subseteq DOMAIN o /\ (\A f \in Fields \ {"stage", "cancelled"} : o[f] = op[f])
          /\ op' = Cleaning(o) /\ UNCHANGED <<alive, serverVars>> /\ op.stage # "new"
      BY <1>4, <2>1 DEF Close, CancelOp, Cancellable, OpInv, OpType, Fields
    <3> QED
      BY <3>1, CleaningQuiet
  <2>2. CASE ~Cancellable
    BY <1>4, <2>2, QuietlyServerInv DEF Quietly, Close
  <2> QED
    BY <2>1, <2>2
<1>5. CASE OthersLaunch \/ UNCHANGED vars
  BY <1>5, QuietlyServerInv DEF Quietly, OthersLaunch, vars
<1> QED
  BY <1>1, <1>2, <1>3, <1>4, <1>5

LEMMA ServerNextKeeps ==
    ASSUME ProcessInv, OpInv, ServerInv, [Next]_vars
    PROVE  ServerInv'
BY MainServerInv, CleanupServerInv, EnvironmentServerInv DEF Next

LEMMA InitHolds == Init => OpInv /\ ServerInv
<1> SUFFICES ASSUME Init PROVE OpInv /\ ServerInv
  OBVIOUS
<1> USE DEF Init
<1>1. Fields \subseteq DOMAIN op /\ op.todo \in Seq(Methods)
  BY DEF Fields
<1>2. OpInv
  BY <1>1 DEF ProcessInit, OpInv, OpType, CleanInv, HoldInv, OutcomeInv, EpochInv, Early, Late,
     Cleaned, Disposed
<1>3. ServerInv
  BY DEF ServerInv, WireInv, ReleaseInv, Owed, Contains
<1> QED
  BY <1>2, <1>3

-----------------------------------------------------------------------------
StsInv == ProcessInv /\ OpInv /\ ServerInv

LEMMA StsInvHolds == Spec => []StsInv
<1>1. Init => ProcessInv
  <2> SUFFICES ASSUME ProcessInit PROVE ProcessInv
    BY DEF Init
  <2> USE Suspended DEF ProcessInit
  <2>1. ProcessType
    BY DEF ProcessType
  <2>2. OneProcess /\ TimerInv
    BY DEF OneProcess, TimerInv
  <2>3. StopInv /\ RuntimeInv /\ ReadyInv
    BY DEF StopInv, RuntimeInv, ReadyInv, Disposed
  <2> QED
    BY <2>1, <2>2, <2>3 DEF ProcessInv
<1>2. ProcessInv /\ [Next]_vars => ProcessInv'
  BY OperationStep, StillKeeps, LaunchKeeps, DisposeKeeps, ProcessNextKeeps
<1>3. Init => StsInv
  BY <1>1, InitHolds DEF StsInv
<1>4. StsInv /\ [Next]_vars => StsInv'
  BY <1>2, OpNextKeeps, ServerNextKeeps DEF StsInv
<1> QED
  BY <1>3, <1>4, PTL DEF Spec

(* In whatever state of a start, a restart or a stop the shared runtime is  *)
(* disposed, once it is, none of its processes runs and none is started.   *)
THEOREM DisposalIsFinal == Spec => []DisposedStaysStopped
<1>1. StsInv => DisposedStaysStopped
  BY Suspended DEF StsInv, ProcessInv, ProcessType, OneProcess, RuntimeInv, DisposedStaysStopped
<1> QED
  BY <1>1, StsInvHolds, PTL

(* The caller of a protected operation gets its rows only when the process *)
(* that ran the query has ended and the runtime is disposed.               *)
THEOREM RowsAfterShutdown == Spec => []ResultAfterShutdown
<1>1. StsInv => ResultAfterShutdown
  BY DEF StsInv, OpInv, CleanInv, OutcomeInv, EpochInv, ResultAfterShutdown
<1> QED
  BY <1>1, StsInvHolds, PTL

(* However an operation ended, once what it sent has arrived, no server    *)
(* that goes on running has a connection or a query of it.                 *)
THEOREM NothingIsLeft == Spec => []NothingLeftOnServer
<1>1. StsInv => NothingLeftOnServer
  <2> SUFFICES ASSUME StsInv, op.clean = "done", wire = <<>>, NEW p \in connecting \cup sessions \cup held, p \in alive
               PROVE  FALSE
    BY DEF NothingLeftOnServer
  <2>1. p = op.epoch
    BY DEF StsInv, ServerInv, WireInv
  <2>2. ~Owed("disconnect") /\ ~Owed("queryDispose")
    BY DEF Owed
  <2>3. connecting \cup sessions = {} /\ held = {}
    BY <2>1, <2>2 DEF StsInv, ServerInv, ReleaseInv, Released, Connections, Contains
  <2> QED
    BY <2>3
<1> QED
  BY <1>1, StsInvHolds, PTL
===============================================================================
