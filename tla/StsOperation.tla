---------------------------- MODULE StsOperation ----------------------------
(***************************************************************************)
(* One operation of StsQueryService on the process of StsProcess: it       *)
(* connects, executes a query, waits for its completion, reads its pages   *)
(* and cleans up, while it is cancelled, requests time out, the server     *)
(* dies and is restarted, and the service is disposed.                     *)
(*                                                                         *)
(* op is the StsExecutionOperation: stage is the await its main coroutine  *)
(* is in, clean the one its cleanup is in; both run at once after a cancel *)
(* that comes early.  A protected operation has the runtime to itself; the *)
(* shared runtime has other users, too.                                    *)
(***************************************************************************)
EXTENDS StsProcess, Sequences

CONSTANTS
    MaxPages,       \* bound on the pages of a result
    MaxFaults       \* bound on requests that time out

ASSUME StsOperationAssumption == {MaxPages, MaxFaults} \subseteq Nat

VARIABLES
    op,             \* the operation
    result,         \* what its caller got
    closing,        \* the query service was disposed
    wire,           \* requests on their way to a server
    answers,        \* responses and notifications on their way from a server
    connecting, sessions,   \* servers that open, that have opened the operation's connection
    running, held,  \* servers that run its query, that hold its result
    faults

serverVars == <<wire, answers, connecting, sessions, running, held>>
vars == <<processVars, op, result, closing, serverVars, faults>>

Init ==
    /\ ProcessInit
    /\ op = [stage |-> "new", phase |-> "starting", cancelled |-> FALSE,
             got |-> 0, awaited |-> 0, manager |-> 0, epoch |-> 0, holds |-> FALSE,
             flags |-> {}, heard |-> {}, pages |-> 0, outcome |-> "none",
             clean |-> "no", todo |-> <<>>]
    /\ result = "none" /\ closing = FALSE
    /\ wire = <<>> /\ answers = {} /\ faults = 0
    /\ connecting = {} /\ sessions = {} /\ running = {} /\ held = {}

Goto(stage) == [op EXCEPT !.stage = stage]

(* process.epoch of the manager the operation holds. *)
EpochOf(m) == IF m = manager THEN activeEpoch ELSE 0
ProcessIsCurrent == op.manager # 0 /\ EpochOf(op.manager) = op.epoch
Lost == op.epoch # 0 /\ ~ProcessIsCurrent

-----------------------------------------------------------------------------
(* Requests. *)

Send(method) == wire' = Append(wire, [pid |-> process, method |-> method])


MatchesEpoch == op.epoch = activeEpoch

(* What sendRequest checks once the manager is ready. *)
CanSend ==
    /\ op.manager = manager /\ ready = "resolved"
    /\ process # 0 /\ stop.stage # "exiting" /\ MatchesEpoch

(* sendRequest waits for a restart to be over. *)
AwaitsReady == op.manager = manager /\ ready = "pending"

-----------------------------------------------------------------------------
(* connect *)

Begin ==
    /\ op.stage = "new" /\ ~closing
    /\ op' = Goto("checking")
    /\ UNCHANGED <<processVars, result, closing, serverVars, faults>>

(* getProcessManager: o is the operation up to this call. *)
Obtain(o) ==
    /\ op' = CASE Disposed -> [o EXCEPT !.stage = "leaving", !.outcome = "error"]
               [] ~Disposed /\ (starting # "no" \/ ~published) -> [o EXCEPT !.stage = "starting"]
               [] ~Disposed /\ starting = "no" /\ published /\ IsRunning ->
                     [o EXCEPT !.stage = "capturing", !.got = manager]
               [] OTHER -> [o EXCEPT !.stage = "readying", !.awaited = generation]
    /\ IF NeedsLaunch THEN Launch ELSE UNCHANGED <<starting, attempt>>
    /\ UNCHANGED <<protected, managerVars, published, disposal, systemVars>>

Checked ==
    /\ op.stage = "checking" /\ ~op.cancelled
    /\ LET o == [op EXCEPT !.phase = IF op.clean = "no" THEN "connecting" ELSE @] IN
       IF protected
       THEN op' = [o EXCEPT !.stage = "creating"] /\ UNCHANGED processVars
       ELSE Obtain([o EXCEPT !.holds = TRUE])
    /\ UNCHANGED <<result, closing, serverVars, faults>>

(* createProtectedRuntime made the sandbox: nobody asks whether the         *)
(* operation has ended meanwhile.                                          *)
Created ==
    /\ op.stage = "creating"
    /\ Obtain([op EXCEPT !.holds = TRUE])
    /\ UNCHANGED <<result, closing, serverVars, faults>>

(* What the operation makes of a step of the process: the promise it waits *)
(* for may have settled in it.  A request that waited for a restart has    *)
(* expected no epoch, and is refused by the epoch that begins.             *)
Settled(o) ==
    CASE o.stage = "starting" /\ starting # "no" /\ starting' = "no" ->
            IF published' THEN [o EXCEPT !.stage = "capturing", !.got = manager']
            ELSE [o EXCEPT !.stage = "leaving", !.outcome = "error"]
      [] o.stage = "readying" /\ (generation' # o.awaited \/ ready' # "pending") ->
            IF generation' = o.awaited /\ ready' = "resolved"
            THEN [o EXCEPT !.stage = "capturing", !.got = manager']
            ELSE [o EXCEPT !.stage = "leaving", !.outcome = "error"]
      [] o.stage = "sending" /\ (generation' # generation \/ ready' # "pending") ->
            [o EXCEPT !.stage = "leaving", !.outcome = "error"]
      [] OTHER -> o

(* The epoch is captured and the handlers are registered in one step: an   *)
(* epoch that is over has the number 0 by then.                            *)
Capture ==
    /\ op.stage = "capturing" /\ ~op.cancelled
    /\ op' = [op EXCEPT !.stage = "options", !.manager = op.got, !.epoch = EpochOf(op.got)]
    /\ UNCHANGED <<processVars, result, closing, serverVars, faults>>

(* buildStsConnectionOptions, which may ask the user to sign in. *)
OptionsBuilt ==
    /\ op.stage = "options" /\ ~op.cancelled
    /\ op' = Goto("connectLock")
    /\ UNCHANGED <<processVars, result, closing, serverVars, faults>>

(* assertDispatchCurrent, under the locks of the owner. *)
MayDispatch == ~op.cancelled /\ ProcessIsCurrent /\ op.phase \notin {"cleaning", "done"}

(* A request is sent, refused, or waits for a restart to be over.          *)
Dispatch(method, flags, stage) ==
    CASE MayDispatch /\ CanSend ->
            Send(method) /\ op' = [op EXCEPT !.stage = stage, !.flags = @ \cup flags]
      [] MayDispatch /\ AwaitsReady ->
            op' = [op EXCEPT !.stage = "sending", !.flags = @ \cup flags] /\ UNCHANGED wire
      [] OTHER ->
            op' = [op EXCEPT !.stage = "leaving", !.outcome = "error"] /\ UNCHANGED wire

ConnectDispatched ==
    /\ op.stage = "connectLock"
    /\ Dispatch("connect", {"connectSubmitted"}, "connecting")
    /\ UNCHANGED <<processVars, result, closing, answers, connecting, sessions, running, held,
                   faults>>

Connected ==
    /\ op.stage = "connecting" /\ "connected" \in op.heard /\ ~op.cancelled
    /\ op' = Goto("connected")
    /\ UNCHANGED <<processVars, result, closing, serverVars, faults>>

-----------------------------------------------------------------------------
(* executeCore *)

Execute ==
    /\ op.stage = "connected" /\ ~op.cancelled
    /\ op' = [op EXCEPT !.stage = "executeLock", !.flags = @ \cup {"connectCompleted"},
                        !.phase = IF op.clean = "no" THEN "executing" ELSE @]
    /\ UNCHANGED <<processVars, result, closing, serverVars, faults>>

ExecuteDispatched ==
    /\ op.stage = "executeLock"
    /\ Dispatch("execute", {"submitted"}, "accepting")
    /\ UNCHANGED <<processVars, result, closing, answers, connecting, sessions, running, held,
                   faults>>

Accepted ==
    /\ op.stage = "accepting" /\ "accepted" \in op.heard /\ ~op.cancelled
    /\ op' = Goto("running")
    /\ UNCHANGED <<processVars, result, closing, serverVars, faults>>

Completed ==
    /\ op.stage = "running" /\ "completed" \in op.heard /\ ~op.cancelled
    /\ \E n \in 0 .. MaxPages :
          op' = [op EXCEPT !.stage = "completed", !.flags = @ \cup {"queryCompleted"}, !.pages = n]
    /\ UNCHANGED <<processVars, result, closing, serverVars, faults>>

(* The completion, or a page, is checked: another page, or the result. *)
NextPage ==
    /\ op.stage = "completed" /\ ~op.cancelled
    /\ op' = IF op.pages = 0
             THEN [op EXCEPT !.stage = "leaving", !.outcome = "result"]
             ELSE [op EXCEPT !.stage = "pageLock", !.pages = @ - 1,
                             !.phase = IF op.clean = "no" THEN "paging" ELSE @]
    /\ UNCHANGED <<processVars, result, closing, serverVars, faults>>

PageDispatched ==
    /\ op.stage = "pageLock"
    /\ Dispatch("subset", {}, "paging")
    /\ UNCHANGED <<processVars, result, closing, answers, connecting, sessions, running, held,
                   faults>>

PageRead ==
    /\ op.stage = "paging" /\ "page" \in op.heard /\ ~op.cancelled
    /\ op' = [op EXCEPT !.stage = "completed", !.heard = @ \ {"page"}]
    /\ UNCHANGED <<processVars, result, closing, serverVars, faults>>

(* Every check, lock and sign-in may be refused, always is after a cancel. *)
Checking == {"checking", "creating", "capturing", "options", "connectLock", "connected",
             "executeLock", "completed", "pageLock"}
Racing == {"connecting", "accepting", "running", "paging", "sending"}

Throws ==
    /\ \/ op.stage \in Checking
       \/ op.stage \in Racing /\ (op.cancelled \/ Lost \/ "refused" \in op.heard)
    /\ op' = [op EXCEPT !.stage = "leaving", !.outcome = "error"]
    /\ UNCHANGED <<processVars, result, closing, serverVars, faults>>

(* A request, a connection or the whole query exceeds its time. *)
TimesOut ==
    /\ op.stage \in Racing \ {"sending"} /\ faults < MaxFaults
    /\ faults' = faults + 1
    /\ op' = [op EXCEPT !.stage = "leaving", !.outcome = "error"]
    /\ UNCHANGED <<processVars, result, closing, serverVars>>

-----------------------------------------------------------------------------
(* cleanup *)

(* The requests that release what the server may hold for the operation.   *)
ReleasesCompleted(o) ==                      \* mutant: what was only submitted is not released
    (IF "submitted" \in o.flags THEN <<"queryDispose">> ELSE <<>>)
    \o (IF "connectCompleted" \in o.flags THEN <<"disconnect">> ELSE <<>>)

Releases(o) ==
    (CASE o.flags \cap {"connectSubmitted", "connectCompleted"} = {"connectSubmitted"} ->
            <<"cancelConnect">>
       [] o.flags \cap {"submitted", "queryCompleted"} = {"submitted"} /\ o.phase = "executing" ->
            <<"queryCancel">>
       [] OTHER -> <<>>)
    \o (IF "submitted" \in o.flags THEN <<"queryDispose">> ELSE <<>>)
    \o (IF "connectSubmitted" \in o.flags \/ o.phase = "connecting" THEN <<"disconnect">> ELSE <<>>)

(* dispose(): the first call starts the cleanup, the others share it.      *)
Cleaning(o) ==
    IF o.clean # "no" THEN o
    ELSE [o EXCEPT !.clean = "requesting", !.phase = "cleaning",
                   !.todo = IF ProcessIsCurrent THEN Releases(o) ELSE <<>>]

(* The main coroutine has ended, and awaits the cleanup. *)
DisposeAtEnd ==
    /\ op.stage = "leaving" /\ op.clean = "no"
    /\ op' = Cleaning(op)
    /\ UNCHANGED <<processVars, result, closing, serverVars, faults>>

CancelOp ==
    /\ op' = Cleaning([op EXCEPT !.cancelled = TRUE])
    /\ result' = IF result = "none" THEN "cancelled" ELSE result

Cancellable == op.stage \notin {"new", "ended"} /\ ~op.cancelled /\ op.phase # "done"

(* cancel(), by the user, by a policy change or by a changed connection.   *)
Cancel ==
    /\ Cancellable
    /\ CancelOp
    /\ UNCHANGED <<processVars, closing, serverVars, faults>>

Rest == [op EXCEPT !.todo = Tail(@), !.clean = "requesting", !.heard = @ \ {"ack"}]

(* bestEffort: sent, or refused and only logged. *)
CleanupSends ==
    /\ op.clean = "requesting" /\ op.todo # <<>> /\ ~AwaitsReady
    /\ IF CanSend
       THEN Send(Head(op.todo)) /\ op' = [op EXCEPT !.clean = "awaiting"]
       ELSE op' = Rest /\ UNCHANGED wire
    /\ UNCHANGED <<processVars, result, closing, answers, connecting, sessions, running, held,
                   faults>>

CleanupAnswered ==
    /\ op.clean = "awaiting"
    /\ "ack" \in op.heard \/ Lost
    /\ op' = Rest
    /\ UNCHANGED <<processVars, result, closing, serverVars, faults>>

CleanupTimesOut ==
    /\ op.clean = "awaiting" /\ faults < MaxFaults
    /\ faults' = faults + 1
    /\ op' = Rest
    /\ UNCHANGED <<processVars, result, closing, serverVars>>

(* The finally clause: a protected operation disposes its runtime. *)
CleanupEnds ==
    /\ op.clean = "requesting" /\ op.todo = <<>>
    /\ IF protected /\ op.holds
       THEN DisposeRuntime /\ op' = Settled([op EXCEPT !.phase = "done", !.clean = "disposing"])
       ELSE op' = [op EXCEPT !.phase = "done", !.clean = "done"] /\ UNCHANGED processVars
    /\ UNCHANGED <<result, closing, serverVars, faults>>

RuntimeDisposed ==
    /\ op.clean = "disposing" /\ disposal = "done"
    /\ op' = [op EXCEPT !.clean = "done", !.holds = FALSE]
    /\ UNCHANGED <<processVars, result, closing, serverVars, faults>>

LeaveEarly ==                                \* mutant: the cleanup is not awaited
    /\ op.stage = "leaving"
    /\ op' = Cleaning([op EXCEPT !.stage = "ended"])
    /\ result' = IF result = "none" THEN op.outcome ELSE result
    /\ UNCHANGED <<processVars, closing, serverVars, faults>>

(* What the caller gets, if it was not told of a cancellation before.      *)
Leave ==
    /\ op.stage = "leaving" /\ op.clean = "done"
    /\ op' = Goto("ended")
    /\ result' = IF result = "none" THEN op.outcome ELSE result
    /\ UNCHANGED <<processVars, closing, serverVars, faults>>

-----------------------------------------------------------------------------
(* The server and the connection. *)

Answer(pid, kind) == answers' = answers \cup {[pid |-> pid, kind |-> kind]}

ServerReceives ==
    /\ wire # <<>>
    /\ wire' = Tail(wire)
    /\ LET pid == Head(wire).pid
           method == Head(wire).method IN
       IF pid \notin alive
       THEN UNCHANGED <<answers, connecting, sessions, running, held>>
       ELSE /\ connecting' = CASE method = "connect" -> connecting \cup {pid}
                               [] method \in {"cancelConnect", "disconnect"} -> connecting \ {pid}
                               [] OTHER -> connecting
            /\ sessions' = IF method = "disconnect" THEN sessions \ {pid} ELSE sessions
            /\ running' = CASE method = "execute" -> running \cup {pid}
                            [] method \in {"queryCancel", "queryDispose", "disconnect"} -> running \ {pid}
                            [] OTHER -> running
            /\ held' = CASE method = "execute" -> held \cup {pid}
                         [] method = "queryDispose" -> held \ {pid}
                         [] OTHER -> held
            /\ CASE method = "connect" -> UNCHANGED answers
                 [] method = "execute" -> Answer(pid, "accepted")
                 [] method = "subset" -> Answer(pid, "page")
                 [] OTHER -> Answer(pid, "ack")
    /\ UNCHANGED <<processVars, op, result, closing, faults>>

ServerConnects(pid, ok) ==
    /\ pid \in connecting \cap alive
    /\ connecting' = connecting \ {pid}
    /\ sessions' = IF ok THEN sessions \cup {pid} ELSE sessions
    /\ Answer(pid, IF ok THEN "connected" ELSE "refused")
    /\ UNCHANGED <<processVars, op, result, closing, wire, running, held, faults>>

ServerCompletes(pid) ==
    /\ pid \in running \cap alive
    /\ running' = running \ {pid}
    /\ Answer(pid, "completed")
    /\ UNCHANGED <<processVars, op, result, closing, wire, connecting, sessions, held, faults>>

(* A response, or a notification to the handlers of the operation. *)
Deliver(a) ==
    /\ a \in answers
    /\ answers' = answers \ {a}
    /\ op' = IF a.pid = activeEpoch /\ ProcessIsCurrent /\ a.pid = op.epoch /\ op.phase # "done"
             THEN [op EXCEPT !.heard = @ \cup {a.kind}] ELSE op
    /\ UNCHANGED <<processVars, result, closing, wire, connecting, sessions, running, held, faults>>

-----------------------------------------------------------------------------
(* The rest of the extension, on the shared runtime. *)

OthersLaunch ==
    /\ ~protected /\ NeedsLaunch
    /\ Launch
    /\ UNCHANGED <<protected, managerVars, published, disposal, systemVars, op, result, closing,
                   serverVars, faults>>

(* SqlWorkbenchService.dispose: the query service cancels its operations   *)
(* and awaits their cleanup, then the runtime is disposed.                 *)
Close ==
    /\ ~protected /\ ~closing
    /\ closing' = TRUE
    /\ IF Cancellable THEN CancelOp ELSE UNCHANGED <<op, result>>
    /\ UNCHANGED <<processVars, serverVars, faults>>

CloseRuntime ==
    /\ closing /\ (op.stage = "new" \/ op.clean = "done")
    /\ DisposeRuntime
    /\ op' = Settled(op)
    /\ UNCHANGED <<result, closing, serverVars, faults>>

-----------------------------------------------------------------------------
ProcessStep ==
    /\ ProcessNext
    /\ op' = Settled(op)
    /\ UNCHANGED <<result, closing, serverVars, faults>>

ProcessProgress ==
    /\ Progress
    /\ op' = Settled(op)
    /\ UNCHANGED <<result, closing, serverVars, faults>>

Main ==
    \/ Checked \/ Created \/ Capture \/ OptionsBuilt
    \/ ConnectDispatched \/ Connected
    \/ Execute \/ ExecuteDispatched \/ Accepted \/ Completed
    \/ NextPage \/ PageDispatched \/ PageRead
    \/ Throws \/ DisposeAtEnd \/ Leave

Cleanup == CleanupSends \/ CleanupAnswered \/ CleanupEnds \/ RuntimeDisposed

Server ==
    \/ ServerReceives
    \/ \E pid \in alive : (\E ok \in BOOLEAN : ServerConnects(pid, ok)) \/ ServerCompletes(pid)

Deliveries == \E a \in answers : Deliver(a)

Next ==
    \/ Begin \/ Main \/ TimesOut \/ Cancel \/ Cleanup \/ CleanupTimesOut
    \/ Server \/ Deliveries \/ ProcessStep
    \/ OthersLaunch \/ Close \/ CloseRuntime

Spec == Init /\ [][Next]_vars

(* Awaits settle: locks and checks by their timeouts, starts and stops by  *)
(* theirs; the server answers what it receives and completes a query, by   *)
(* its command timeout at the latest.                                      *)
Fairness ==
    /\ WF_vars(ProcessProgress) /\ WF_vars(Main) /\ WF_vars(Cleanup)
    /\ WF_vars(Server) /\ WF_vars(Deliveries)

FairSpec == Spec /\ Fairness

-----------------------------------------------------------------------------
(* An operation that has ended leaves neither a connection nor a query on  *)
(* a server that goes on running, whenever it was cancelled, timed out or  *)
(* lost its server, and whether or not the requests of its cleanup were    *)
(* answered: once what is on its way has arrived.                          *)
NothingLeftOnServer ==
    op.stage = "ended" /\ op.clean = "done" /\ wire = <<>> =>
        (connecting \cup sessions \cup held) \cap alive = {}

(* The rows of a protected operation are returned when the process that    *)
(* ran its query has ended and its runtime is disposed.                    *)
ResultAfterShutdown ==
    protected /\ result = "result" => op.epoch \notin alive /\ disposal = "done"

(* Once the shared runtime is disposed no process of it runs, nor does one *)
(* start again, in whatever state of a start or a restart it was disposed. *)
DisposedStaysStopped == ~protected /\ disposal = "done" => alive = {} /\ process = 0

(* Every operation settles and its cleanup ends. *)
OperationSettles == op.stage = "checking" ~> op.stage = "ended" /\ op.clean = "done"

(* An operation that has ended leaves no process of its own running.       *)
NoProcessLeft == [](protected /\ op.stage = "ended" => <>(alive = {}))
=============================================================================
