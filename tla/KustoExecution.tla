--------------------------- MODULE KustoExecution ---------------------------
(***************************************************************************)
(* Kusto query execution in one editor of the extension host: the          *)
(* per-editor KustoExecutionCoordinator (section lifecycles, reservations, *)
(* cancellation, terminals), the low-level QueryRunCoordinator registry it *)
(* shares with other engines, and the asynchronous flow of                 *)
(* HostKustoSectionExecutionApplicationHandler.executeKustoSectionQuery,   *)
(* one handler invocation per execution.                                   *)
(*                                                                         *)
(* Every await of the code is a place where another action may run.  What  *)
(* a target depends on outside the editor - the physical connection, the   *)
(* preferred account and the Leave-No-Trace revocation generation of its   *)
(* cluster - changes at any time; the editor hears of a change later, when *)
(* the notice of it is delivered.  A connection stands for a connection    *)
(* together with the database chosen on it.                                *)
(***************************************************************************)
EXTENDS Naturals, FiniteSets

CONSTANTS
    Boxes,          \* editor sections, by box id
    Instances,      \* section instance ids
    Conns,          \* saved connections
    Execs,          \* execution ids; each is submitted at most once
    HostStarted,    \* executions a host producer starts and the webview must claim
    SharedBoxes,    \* boxes in which another engine may register a run
    MaxGen,         \* bound on target generations
    MaxRevision,    \* bounds on the changes of a connection,
    MaxAccount,     \*   of an account
    MaxPolicy,      \*   and of a cluster's policy
    None,           \* "undefined"
    Foreign         \* the owner of another engine's run

ASSUME KustoExecutionAssumption ==
    /\ HostStarted \subseteq Execs /\ SharedBoxes \subseteq Boxes
    /\ {MaxGen, MaxRevision, MaxAccount, MaxPolicy} \subseteq Nat
    /\ Foreign \notin Execs /\ Foreign # None
    /\ None \notin Boxes \cup Instances \cup Conns \cup Execs \cup Nat

Kinds == {"result", "error", "cancelled"}

(* A section's target: who owns it and what it points at. *)
Lifecycles == [instance : Instances, gen : Nat, conn : Conns \cup {None},
               owner : Nat \cup {None}]
Targets == [instance : Instances, gen : 0 .. MaxGen, conn : Conns]
Reservations == [box : Boxes, instance : Instances, gen : Nat, conn : Conns,
                 owner : Nat, seq : Nat \ {0}]
Dispatches == [account : Nat \ {0}, policy : Nat]
Runs == [exec : Execs \cup {Foreign}, stage : {"preflight", "transport"}]
Terminals == [exec : Execs, kind : Kinds, attempt : {1, 2}]
Notices == [of : {"physical", "account", "policy"}, conn : Conns, version : Nat]
Stages == {"idle", "rejecting", "claiming", "saving", "starting", "running",
           "accountWait", "connectionWait", "admitting", "publishing", "done"}

ASSUME NoneIsNoRecord ==
    None \notin Lifecycles \cup Reservations \cup Dispatches \cup Runs

VARIABLES
    (* KustoExecutionCoordinator *)
    lifecycle,      \* lifecycleByBoxId
    closed,         \* closedSectionInstances
    active,         \* activeByBoxId
    sequence,       \* reservationSequence
    disposed,
    reservation,    \* the reservation each execution was given
    dispatch,       \* the dispatch identity captured for it
    (* QueryRunCoordinator *)
    runs,           \* runningByBoxId
    (* the handler invocation of each execution and its transport *)
    stage, status, transport,
    (* terminals on their way to the webview, and what it applied *)
    outbox, queued, applied,
    (* shared services *)
    present, revision, account, policy,
    notices,        \* change events not yet delivered to this editor
    lock            \* holder of the policy lock, when it is this editor

coordinatorVars == <<lifecycle, closed, active, sequence, disposed, reservation, dispatch>>
handlerVars == <<stage, status>>
deliveryVars == <<outbox, queued, applied>>
serviceVars == <<present, revision, account, policy, notices, lock>>
vars == <<coordinatorVars, runs, handlerVars, transport, deliveryVars, serviceVars>>

-----------------------------------------------------------------------------
Init ==
    /\ lifecycle = [b \in Boxes |-> None]
    /\ closed = {}
    /\ active = [b \in Boxes |-> None]
    /\ sequence = 0
    /\ disposed = FALSE
    /\ reservation = [e \in Execs |-> None]
    /\ dispatch = [e \in Execs |-> None]
    /\ runs = [b \in Boxes |-> None]
    /\ stage = [e \in Execs |-> "idle"]
    /\ status = [e \in Execs |-> None]
    /\ transport = [e \in Execs |-> "none"]
    /\ outbox = {}
    /\ queued = [e \in Execs |-> 0]
    /\ applied = [e \in Execs |-> {}]
    /\ present = Conns
    /\ revision = [c \in Conns |-> 1]
    /\ account \in [Conns -> {0, 1}]     \* 0: no account established yet
    /\ policy = [c \in Conns |-> 0]
    /\ notices = {}
    /\ lock = None

(* getCurrentConnectionOwner compared with the owner a target was given. *)
IsCurrentOwner(c, owner) == c \in present /\ owner = revision[c]

SameTarget(l, t) == l.instance = t.instance /\ l.gen = t.gen /\ l.conn = t.conn

BoxOf(e) == reservation[e].box
ConnOf(e) == reservation[e].conn

(* isActiveRecord / lease.isCurrent *)
IsCurrent(e) == reservation[e] # None /\ active[BoxOf(e)] = e

Run(e, s) == [exec |-> e, stage |-> s]
Terminal(e, k, n) == [exec |-> e, kind |-> k, attempt |-> n]

(* Queueing a terminal: it is delivered asynchronously. *)
Queue(S, k) ==
    /\ outbox' = outbox \cup {Terminal(e, k, 1) : e \in S}
    /\ queued' = [e \in Execs |-> IF e \in S THEN queued[e] + 1 ELSE queued[e]]

ActiveExecs == {active[b] : b \in Boxes} \ {None}

OwnsRun(e) == runs[BoxOf(e)] # None /\ runs[BoxOf(e)].exec = e

CancelledLocally(S) == transport             \* mutant: the run is dropped, not cancelled

(* The transports once the runs of the executions of S are cancelled.      *)
Cancelled(S) ==
    [e \in Execs |-> IF e \in S /\ transport[e] = "open" /\ OwnsRun(e)
                     THEN "cancelled" ELSE transport[e]]

(* retireActive for every execution of S, a set of active executions: the  *)
(* record goes, its own run is cancelled if it still owns the registry     *)
(* entry, and a cancellation is queued.                                    *)
Drop(S) ==
    /\ active' = [b \in Boxes |-> IF active[b] \in S THEN None ELSE active[b]]
    /\ runs' = [b \in Boxes |->
                  IF \E e \in S : BoxOf(e) = b /\ OwnsRun(e) THEN None ELSE runs[b]]
    /\ Queue(S, "cancelled")

Retire(S) == Drop(S) /\ transport' = Cancelled(S)

RetireBox(b) == Retire({active[b]} \ {None})

-----------------------------------------------------------------------------
(* Section lifecycle messages. *)

MayOpen(b, i) ==
    /\ ~disposed /\ i \notin closed
    /\ lifecycle[b] # None => lifecycle[b].instance # i

OpenSection(b, i) ==
    /\ MayOpen(b, i)
    /\ RetireBox(b)
    /\ lifecycle' = [lifecycle EXCEPT ![b] =
                       [instance |-> i, gen |-> 0, conn |-> None, owner |-> None]]
    /\ UNCHANGED <<closed, sequence, disposed, reservation, dispatch, handlerVars,
                   applied, serviceVars>>

(* adoptTarget.  Equal and lower generations change nothing.  A target with *)
(* a connection is adopted only for the connection's current revision.      *)
AdoptTarget(b, i, g, c) ==
    /\ ~disposed /\ i \notin closed
    /\ lifecycle[b] # None /\ lifecycle[b].instance = i
    /\ g > lifecycle[b].gen
    /\ c # None => c \in present
    /\ RetireBox(b)
    /\ lifecycle' = [lifecycle EXCEPT ![b] =
                       [instance |-> i, gen |-> g, conn |-> c,
                        owner |-> IF c = None THEN None ELSE revision[c]]]
    /\ UNCHANGED <<closed, sequence, disposed, reservation, dispatch, handlerVars,
                   applied, serviceVars>>

CloseSection(b) ==
    /\ ~disposed
    /\ lifecycle[b] # None
    /\ lifecycle' = [lifecycle EXCEPT ![b] = None]
    /\ closed' = closed \cup {lifecycle[b].instance}
    /\ RetireBox(b)
    /\ UNCHANGED <<sequence, disposed, reservation, dispatch, handlerVars, applied,
                   serviceVars>>

-----------------------------------------------------------------------------
(* executeKustoSectionQuery, up to the first await.                        *)

MayReserve(b, t) ==
    /\ ~disposed
    /\ lifecycle[b] # None
    /\ SameTarget(lifecycle[b], t)
    /\ IsCurrentOwner(t.conn, lifecycle[b].owner)

(* ++this.reservationSequence: a sequence of 0 is no reservation.          *)
LastSequence == sequence                     \* mutant: read before the increment
NextSequence == sequence + 1

(* reserve: the new execution replaces the active one, whose run is        *)
(* cancelled through the registry and whose cancellation is queued.  The   *)
(* run a foreign engine registered in the box is cancelled as well.        *)
Reserve(e, b, t) ==
    LET retired == {active[b]} \ {None} IN
    /\ stage[e] = "idle"
    /\ MayReserve(b, t)
    /\ sequence' = NextSequence
    /\ reservation' = [reservation EXCEPT ![e] =
                         [box |-> b, instance |-> t.instance, gen |-> t.gen,
                          conn |-> t.conn, owner |-> lifecycle[b].owner,
                          seq |-> NextSequence]]
    /\ active' = [active EXCEPT ![b] = e]
    /\ runs' = [runs EXCEPT ![b] = Run(e, "preflight")]
    /\ transport' = Cancelled(retired)
    /\ Queue(retired, "cancelled")
    /\ stage' = [stage EXCEPT ![e] = IF e \in HostStarted THEN "claiming" ELSE "saving"]
    /\ UNCHANGED <<lifecycle, closed, disposed, dispatch, status, applied, serviceVars>>

(* The reservation is refused.  A request the webview has already claimed  *)
(* is answered by a cancellation of its own; a host producer is told that  *)
(* it was superseded.                                                      *)
Refuse(e, b, t) ==
    /\ stage[e] = "idle"
    /\ ~disposed
    /\ ~MayReserve(b, t)
    /\ IF e \in HostStarted
       THEN /\ stage' = [stage EXCEPT ![e] = "done"]
            /\ status' = [status EXCEPT ![e] = "superseded"]
            /\ UNCHANGED <<sequence, outbox, queued>>
       ELSE /\ sequence' = sequence + 1
            /\ Queue({e}, "cancelled")
            /\ stage' = [stage EXCEPT ![e] = "rejecting"]
            /\ UNCHANGED status
    /\ UNCHANGED <<lifecycle, closed, active, disposed, reservation, dispatch, runs,
                   transport, applied, serviceVars>>

Return(e, s) ==
    /\ stage' = [stage EXCEPT ![e] = "done"]
    /\ status' = [status EXCEPT ![e] = s]

(* cancelExpected: retires the execution if it is still the active one.    *)
IfCurrent(e) == IF IsCurrent(e) THEN {e} ELSE {}

CancelAnyway(e) == Retire({e})               \* mutant: whoever is active

CancelExpected(e) == Retire(IfCurrent(e))

(* fail / settle: the active record and its run go without a cancel.       *)
Fail(e) ==
    /\ active' = [active EXCEPT ![BoxOf(e)] = None]
    /\ runs' = [runs EXCEPT ![BoxOf(e)] = IF OwnsRun(e) THEN None ELSE @]
    /\ Queue({e}, "error")

(* fail, or nothing when the execution is no longer the active one.        *)
FailIfCurrent(e) ==
    IF IsCurrent(e) THEN Fail(e) ELSE UNCHANGED <<active, runs, outbox, queued>>

(* The webview's answer to kustoExecutionStarted; no answer within five    *)
(* seconds, an undelivered message and disposal count as a refusal.        *)
ClaimAnswered(e, accepted) ==
    /\ stage[e] = "claiming"
    /\ IF accepted
       THEN /\ stage' = [stage EXCEPT ![e] = "starting"]
            /\ UNCHANGED <<status, active, runs, transport, outbox, queued>>
       ELSE /\ CancelExpected(e)
            /\ Return(e, "superseded")
    /\ UNCHANGED <<lifecycle, closed, sequence, disposed, reservation, dispatch,
                   applied, serviceVars>>

(* saveLastSelection settles; fail() is called whoever is active now.      *)
SelectionSaved(e, ok) ==
    /\ stage[e] = "saving"
    /\ IF ok
       THEN /\ stage' = [stage EXCEPT ![e] = "starting"]
            /\ UNCHANGED <<status, active, runs, outbox, queued>>
       ELSE /\ FailIfCurrent(e)
            /\ Return(e, "failed")
    /\ UNCHANGED <<lifecycle, closed, sequence, disposed, reservation, dispatch,
                   transport, applied, serviceVars>>

-----------------------------------------------------------------------------
(* The continuation after the claim or the save: findConnection and        *)
(* coordinator.start.                                                      *)

ConnectionMissing(e) ==
    /\ stage[e] = "starting"
    /\ ConnOf(e) \notin present
    /\ FailIfCurrent(e)
    /\ Return(e, "failed")
    /\ UNCHANGED <<lifecycle, closed, sequence, disposed, reservation, dispatch,
                   transport, applied, serviceVars>>

(* requireActive throws, or the physical connection changed since the      *)
(* reservation and the execution is retired.                               *)
StartRefused(e) ==
    /\ stage[e] = "starting"
    /\ ConnOf(e) \in present
    /\ ~IsCurrent(e) \/ ~IsCurrentOwner(ConnOf(e), reservation[e].owner)
    /\ CancelExpected(e)
    /\ Return(e, "superseded")
    /\ UNCHANGED <<lifecycle, closed, sequence, disposed, reservation, dispatch,
                   applied, serviceVars>>

MayStart(e) ==
    /\ stage[e] = "starting"
    /\ IsCurrent(e)
    /\ IsCurrentOwner(ConnOf(e), reservation[e].owner)

(* executeQueryCancelable throws, e.g. the client was disposed.            *)
StartThrows(e) ==
    /\ MayStart(e)
    /\ Fail(e)
    /\ Return(e, "failed")
    /\ UNCHANGED <<lifecycle, closed, sequence, disposed, reservation, dispatch,
                   transport, applied, serviceVars>>

(* replaceIfCurrent promotes the registry entry to the transport.          *)
StartTransport(e) ==
    /\ MayStart(e)
    /\ runs[BoxOf(e)] = Run(e, "preflight")
    /\ runs' = [runs EXCEPT ![BoxOf(e)] = Run(e, "transport")]
    /\ transport' = [transport EXCEPT ![e] = "open"]
    /\ stage' = [stage EXCEPT ![e] = "running"]
    /\ UNCHANGED <<coordinatorVars, status, deliveryVars, serviceVars>>

(* Another engine took the registry entry: the transport is cancelled and  *)
(* the reservation released, with no terminal.                             *)
StartDisplaced(e) ==
    /\ MayStart(e)
    /\ runs[BoxOf(e)] # Run(e, "preflight")
    /\ active' = [active EXCEPT ![BoxOf(e)] = None]
    /\ transport' = [transport EXCEPT ![e] = "cancelled"]
    /\ Return(e, "superseded")
    /\ UNCHANGED <<lifecycle, closed, sequence, disposed, reservation, dispatch, runs,
                   deliveryVars, serviceVars>>

-----------------------------------------------------------------------------
(* The transport.  A dispatch is prepared under the policy lock, possibly  *)
(* more than once (authentication retry), with the account the client      *)
(* authenticated some time before.  captureDispatch keeps its identity, or *)
(* retires the execution when the physical connection has changed, which   *)
(* makes the dispatch throw.                                               *)
Dispatch(e, a) ==
    /\ stage[e] = "running" /\ transport[e] = "open"
    /\ lock = None
    /\ IF IsCurrent(e) /\ IsCurrentOwner(ConnOf(e), reservation[e].owner)
       THEN /\ dispatch' = [dispatch EXCEPT ![e] =
                              [account |-> a, policy |-> policy[ConnOf(e)]]]
            /\ UNCHANGED <<active, runs, transport, outbox, queued>>
       ELSE /\ Drop(IfCurrent(e))
            /\ transport' = [Cancelled(IfCurrent(e)) EXCEPT
                                ![e] = IF @ = "open" THEN "failed" ELSE @]
            /\ UNCHANGED dispatch
    /\ UNCHANGED <<lifecycle, closed, sequence, disposed, reservation, handlerVars,
                   applied, serviceVars>>

TransportSettles(e, outcome) ==
    /\ transport[e] = "open"
    /\ outcome = "resolved" => dispatch[e] # None
    /\ transport' = [transport EXCEPT ![e] = outcome]
    /\ UNCHANGED <<coordinatorVars, runs, handlerVars, deliveryVars, serviceVars>>

(* lease.release, in the finally clause of every path through the try.     *)
Released(e) == [runs EXCEPT ![BoxOf(e)] = IF OwnsRun(e) THEN None ELSE @]

Supersede(e) ==
    /\ Return(e, "superseded")
    /\ runs' = Released(e)
    /\ UNCHANGED <<active, transport, outbox, queued>>

QueryResolved(e) ==
    /\ stage[e] = "running" /\ transport[e] = "resolved"
    /\ IF IsCurrent(e)
       THEN /\ stage' = [stage EXCEPT ![e] = "accountWait"]
            /\ UNCHANGED <<status, active, runs, transport, outbox, queued>>
       ELSE Supersede(e)
    /\ UNCHANGED <<lifecycle, closed, sequence, disposed, reservation, dispatch,
                   applied, serviceVars>>

QueryCancelled(e) ==
    /\ stage[e] = "running" /\ transport[e] = "cancelled"
    /\ CancelExpected(e)
    /\ Return(e, "cancelled")
    /\ UNCHANGED <<lifecycle, closed, sequence, disposed, reservation, dispatch,
                   applied, serviceVars>>

(* The catch clause for any other error. *)
FailOrSupersede(e) ==
    /\ IF IsCurrent(e)
       THEN /\ Fail(e)
            /\ Return(e, "failed")
            /\ UNCHANGED transport
       ELSE Supersede(e)
    /\ UNCHANGED <<lifecycle, closed, sequence, disposed, reservation, dispatch,
                   applied, serviceVars>>

QueryFailed(e) ==
    /\ stage[e] = "running" /\ transport[e] = "failed"
    /\ FailOrSupersede(e)

AccountRefreshed(e) ==
    /\ stage[e] = "accountWait"
    /\ IF IsCurrent(e)
       THEN /\ stage' = [stage EXCEPT ![e] = "connectionWait"]
            /\ UNCHANGED <<status, active, runs, transport, outbox, queued>>
       ELSE Supersede(e)
    /\ UNCHANGED <<lifecycle, closed, sequence, disposed, reservation, dispatch,
                   applied, serviceVars>>

-----------------------------------------------------------------------------
(* Admission of a result. *)

IsAdmissibleAnyAccount(e) ==                 \* mutant: the account is not compared
    IsCurrent(e) /\ IsCurrentOwner(ConnOf(e), reservation[e].owner)

IsAdmissible(e) ==
    /\ IsCurrent(e)
    /\ IsCurrentOwner(ConnOf(e), reservation[e].owner)
    /\ account[ConnOf(e)] = dispatch[e].account

(* cancelExpected at the end of the try, with the release after it.        *)
Discard(e) ==
    /\ Return(e, "superseded")
    /\ IF IsCurrent(e) THEN CancelExpected(e)
       ELSE runs' = Released(e) /\ UNCHANGED <<active, transport, outbox, queued>>

ConnectionsRefreshed(e) ==
    /\ stage[e] = "connectionWait"
    /\ IF IsAdmissible(e)
       THEN /\ stage' = [stage EXCEPT ![e] = "admitting"]
            /\ UNCHANGED <<status, active, runs, transport, outbox, queued>>
       ELSE Discard(e)
    /\ UNCHANGED <<lifecycle, closed, sequence, disposed, reservation, dispatch,
                   applied, serviceVars>>

MayPublishUnrevised(e) ==                    \* mutant: the generation is not compared
    /\ IsAdmissible(e)
    /\ lifecycle[BoxOf(e)] # None
    /\ SameTarget(lifecycle[BoxOf(e)], reservation[e])

MayPublish(e) ==
    /\ policy[ConnOf(e)] = dispatch[e].policy
    /\ IsAdmissible(e)
    /\ lifecycle[BoxOf(e)] # None
    /\ SameTarget(lifecycle[BoxOf(e)], reservation[e])

(* admitLeaveNoTraceRevision obtains the lock.  If everything the dispatch *)
(* captured still holds, succeed() finishes the execution and posts its    *)
(* result; the lock is kept until the publication settles.                 *)
Admit(e) ==
    /\ stage[e] = "admitting"
    /\ lock = None
    /\ IF MayPublish(e)
       THEN /\ lock' = e
            /\ active' = [active EXCEPT ![BoxOf(e)] = None]
            /\ runs' = Released(e)
            /\ Queue({e}, "result")
            /\ stage' = [stage EXCEPT ![e] = "publishing"]
            /\ UNCHANGED <<status, transport>>
       ELSE Discard(e) /\ UNCHANGED lock
    /\ UNCHANGED <<lifecycle, closed, sequence, disposed, reservation, dispatch,
                   applied, present, revision, account, policy, notices>>

(* The lock could not be obtained in time. *)
AdmitLockTimeout(e) ==
    /\ stage[e] = "admitting"
    /\ FailOrSupersede(e)

-----------------------------------------------------------------------------
(* deliver: a terminal is applied by the webview or it is not.  One that   *)
(* was not is followed by one cancellation; whoever awaits the delivery    *)
(* goes on when it settles.  After disposal nothing can be delivered.      *)
SettlesWhenApplied(m, ok) == ok              \* mutant: retried without limit

Settles(m, ok) == ok \/ m.attempt = 2

AlwaysSuccess(m) == "success"                \* mutant: admitted, though not applied

Outcome(m) == IF m.kind = "result" THEN "success" ELSE "superseded"

Deliver(m, ok) ==
    LET e == m.exec
        fallback == Terminal(e, "cancelled", 2)
    IN
    /\ m \in outbox
    /\ ok => ~disposed
    /\ outbox' = (outbox \ {m}) \cup (IF Settles(m, ok) THEN {} ELSE {fallback})
    /\ applied' = [applied EXCEPT ![e] = IF ok THEN @ \cup {m.kind} ELSE @]
    /\ IF Settles(m, ok) /\ stage[e] \in {"publishing", "rejecting"}
       THEN /\ Return(e, Outcome(m))
            /\ lock' = IF lock = e THEN None ELSE lock
       ELSE UNCHANGED <<handlerVars, lock>>
    /\ UNCHANGED <<coordinatorVars, runs, transport, queued, present, revision,
                   account, policy, notices>>

-----------------------------------------------------------------------------
(* Cancellation, revocation and disposal. *)

(* cancelQuery from the webview, or a host producer giving up. *)
CancelQuery(e) ==
    /\ IsCurrent(e)
    /\ Retire({e})
    /\ UNCHANGED <<lifecycle, closed, sequence, disposed, reservation, dispatch,
                   handlerVars, applied, serviceVars>>

OnConnection(c) == {e \in ActiveExecs : ConnOf(e) = c}

(* The notice that an account was established for the first time spares    *)
(* the executions dispatched with it (preserveAccountPartition).           *)
Spared(n) ==
    {e \in OnConnection(n.conn) :
        n.of = "account" /\ n.version = 1 /\ dispatch[e] # None /\ dispatch[e].account = 1}

(* A notice reaches the editor.  A physical change also takes the physical *)
(* owner from the targets on that connection, which then cannot reserve.   *)
NoticeDelivered(n) ==
    /\ n \in notices
    /\ notices' = notices \ {n}
    /\ Retire(OnConnection(n.conn) \ Spared(n))
    /\ lifecycle' = [b \in Boxes |->
                       IF /\ n.of = "physical"
                          /\ lifecycle[b] # None /\ lifecycle[b].conn = n.conn
                       THEN [lifecycle[b] EXCEPT !.owner = None] ELSE lifecycle[b]]
    /\ UNCHANGED <<closed, sequence, disposed, reservation, dispatch, handlerVars,
                   applied, present, revision, account, policy, lock>>

Dispose ==
    /\ ~disposed
    /\ disposed' = TRUE
    /\ active' = [b \in Boxes |-> None]
    /\ runs' = [b \in Boxes |-> None]
    /\ transport' = Cancelled(ActiveExecs)
    /\ Queue(ActiveExecs, "cancelled")
    /\ lifecycle' = [b \in Boxes |-> None]
    /\ closed' = {}
    /\ UNCHANGED <<sequence, reservation, dispatch, handlerVars, applied, serviceVars>>

-----------------------------------------------------------------------------
(* The services.  A change is visible to whoever reads the service at once *)
(* and its notice is delivered later.                                      *)
Notice(kind, c, v) == notices' = notices \cup {[of |-> kind, conn |-> c, version |-> v]}

UpdateConnection(c) ==
    /\ revision[c] < MaxRevision
    /\ c \in present
    /\ revision' = [revision EXCEPT ![c] = @ + 1]
    /\ Notice("physical", c, revision[c] + 1)
    /\ UNCHANGED <<coordinatorVars, runs, handlerVars, transport, deliveryVars,
                   present, account, policy, lock>>

RemoveConnection(c) ==
    /\ revision[c] < MaxRevision
    /\ c \in present
    /\ present' = present \ {c}
    /\ revision' = [revision EXCEPT ![c] = @ + 1]
    /\ Notice("physical", c, revision[c] + 1)
    /\ UNCHANGED <<coordinatorVars, runs, handlerVars, transport, deliveryVars,
                   account, policy, lock>>

(* The preferred account or its session changes; 0 is "never established". *)
ChangeAccount(c) ==
    /\ account[c] < MaxAccount
    /\ account' = [account EXCEPT ![c] = @ + 1]
    /\ Notice("account", c, account[c] + 1)
    /\ UNCHANGED <<coordinatorVars, runs, handlerVars, transport, deliveryVars,
                   present, revision, policy, lock>>

(* Any window protects or unprotects the cluster, under the policy lock.   *)
ChangePolicy(c) ==
    /\ policy[c] < MaxPolicy
    /\ lock = None
    /\ policy' = [policy EXCEPT ![c] = @ + 1]
    /\ Notice("policy", c, policy[c] + 1)
    /\ UNCHANGED <<coordinatorVars, runs, handlerVars, transport, deliveryVars,
                   present, revision, account, lock>>

(* Another engine registers a run in the box, or ends it. *)
ForeignRegister(b) ==
    /\ b \in SharedBoxes /\ ~disposed
    /\ runs[b] # None => runs[b].exec # Foreign
    /\ runs' = [runs EXCEPT ![b] = Run(Foreign, "transport")]
    /\ UNCHANGED <<coordinatorVars, handlerVars, transport, deliveryVars, serviceVars>>

ForeignUnregister(b) ==
    /\ runs[b] = Run(Foreign, "transport")
    /\ runs' = [runs EXCEPT ![b] = None]
    /\ UNCHANGED <<coordinatorVars, handlerVars, transport, deliveryVars, serviceVars>>

-----------------------------------------------------------------------------
Sections ==
    \E b \in Boxes :
        \/ \E i \in Instances : OpenSection(b, i)
        \/ \E i \in Instances, g \in 1 .. MaxGen, c \in Conns \cup {None} :
              AdoptTarget(b, i, g, c)
        \/ CloseSection(b)
        \/ ForeignRegister(b)
        \/ ForeignUnregister(b)

Submit ==
    \E e \in Execs, b \in Boxes, t \in Targets : Reserve(e, b, t) \/ Refuse(e, b, t)

(* What the handler of e does when what it awaits has settled. *)
Handler(e) ==
    \/ \E accepted \in BOOLEAN : ClaimAnswered(e, accepted)
    \/ \E ok \in BOOLEAN : SelectionSaved(e, ok)
    \/ ConnectionMissing(e) \/ StartRefused(e) \/ StartThrows(e)
    \/ StartTransport(e) \/ StartDisplaced(e)
    \/ QueryResolved(e) \/ QueryCancelled(e) \/ QueryFailed(e)
    \/ AccountRefreshed(e) \/ ConnectionsRefreshed(e)
    \/ Admit(e) \/ AdmitLockTimeout(e)

Transport(e) ==
    \/ stage[e] = "running" /\ \E a \in 1 .. account[ConnOf(e)] : Dispatch(e, a)
    \/ \E outcome \in {"resolved", "failed", "cancelled"} : TransportSettles(e, outcome)

Deliveries == \E m \in outbox, ok \in BOOLEAN : Deliver(m, ok)

Services ==
    \/ \E n \in notices : NoticeDelivered(n)
    \/ \E c \in Conns : UpdateConnection(c) \/ RemoveConnection(c)
                         \/ ChangeAccount(c) \/ ChangePolicy(c)

Next ==
    \/ Sections \/ Submit \/ Deliveries \/ Services \/ Dispose
    \/ \E e \in Execs : Handler(e) \/ Transport(e) \/ CancelQuery(e)

Spec == Init /\ [][Next]_vars

(* A promise the handler awaits settles: the claim has a timer, the state  *)
(* write, the account refresh and the lock settle or throw, and a query    *)
(* runs under the client timeout.  A publication settles by its deadline.  *)
Fairness ==
    /\ WF_vars(Deliveries)
    /\ \A e \in Execs :
        /\ WF_vars(Handler(e))
        /\ WF_vars(\E outcome \in {"resolved", "failed", "cancelled"} :
                       TransportSettles(e, outcome))

FairSpec == Spec /\ Fairness

-----------------------------------------------------------------------------
TypeOK ==
    /\ lifecycle \in [Boxes -> Lifecycles \cup {None}]
    /\ closed \subseteq Instances
    /\ active \in [Boxes -> Execs \cup {None}]
    /\ sequence \in Nat
    /\ disposed \in BOOLEAN
    /\ reservation \in [Execs -> Reservations \cup {None}]
    /\ dispatch \in [Execs -> Dispatches \cup {None}]
    /\ runs \in [Boxes -> Runs \cup {None}]
    /\ stage \in [Execs -> Stages]
    /\ status \in [Execs -> {"success", "failed", "cancelled", "superseded", None}]
    /\ transport \in [Execs -> {"none", "open", "resolved", "failed", "cancelled"}]
    /\ outbox \subseteq Terminals
    /\ queued \in [Execs -> Nat]
    /\ applied \in [Execs -> SUBSET Kinds]
    /\ present \subseteq Conns
    /\ revision \in [Conns -> Nat \ {0}]
    /\ account \in [Conns -> Nat]
    /\ policy \in [Conns -> Nat]
    /\ notices \subseteq Notices
    /\ lock \in Execs \cup {None}

(* Whatever the interleaving of handlers, cancellations, revocations and   *)
(* section lifecycles, a reservation that is no longer active has queued   *)
(* exactly one terminal and an active one none: no execution is left       *)
(* spinning in the section and none ends twice.  Holds in boxes no other   *)
(* engine uses.                                                            *)
ExactlyOneTerminal ==
    \A e \in Execs : reservation[e] # None /\ BoxOf(e) \notin SharedBoxes =>
        queued[e] = (IF IsCurrent(e) THEN 0 ELSE 1)

(* Even where another engine shares the registry, no execution queues a    *)
(* second terminal, and none is queued while it is active.                 *)
AtMostOneTerminal ==
    \A e \in Execs : /\ queued[e] <= 1
                     /\ IsCurrent(e) => queued[e] = 0

(* A query still running on the cluster belongs to the active execution of *)
(* its section: superseding, cancelling, closing, retargeting, revoking    *)
(* and disposing all reach the transport through the run registry.         *)
NoOrphanTransport ==
    \A e \in Execs : transport[e] = "open" /\ BoxOf(e) \notin SharedBoxes => IsCurrent(e)

(* The host tells the caller of an execution (Copilot, a tool) that it     *)
(* succeeded exactly when the section applied its result.                  *)
SuccessMeansApplied ==
    \A e \in Execs : stage[e] = "done" => (status[e] = "success" <=> "result" \in applied[e])

(* A result reaches the section only under the revocation generation its   *)
(* query was dispatched with: no protection change can come between the    *)
(* check of the generation and the application of the result.              *)
NoResultAfterRevocation ==
    [][\A e \in Execs : "result" \in applied'[e] /\ "result" \notin applied[e] =>
           /\ policy[ConnOf(e)] = dispatch[e].policy
           /\ policy' = policy]_vars

(* A result is queued only for a target, physical connection and account   *)
(* that are all still the ones the query was reserved and dispatched for.  *)
ResultIsForCurrentTarget ==
    [][\A e \in Execs : Terminal(e, "result", 1) \in outbox' \ outbox =>
           /\ SameTarget(lifecycle'[BoxOf(e)], reservation[e])
           /\ ConnOf(e) \in present'
           /\ reservation[e].owner = revision'[ConnOf(e)]
           /\ dispatch[e].account = account'[ConnOf(e)]]_vars

(* Every handler returns and every queued terminal leaves the outbox:      *)
(* no await waits for ever and the policy lock is given back.              *)
EveryExecutionSettles ==
    \A e \in Execs : (reservation[e] # None) ~>
        (stage[e] = "done" /\ ~IsCurrent(e) /\ lock # e /\ \A m \in outbox : m.exec # e)

(* The coordinator implements the slot it promises, where no other engine  *)
(* uses the box.                                                           *)
Slot == INSTANCE SectionSlot WITH
            Sections <- Boxes,
            holder <- active,
            home <- [e \in Execs |-> IF reservation[e] = None THEN None ELSE BoxOf(e)],
            answers <- queued

ImplementsSlot == Slot!SlotSpec
=============================================================================
