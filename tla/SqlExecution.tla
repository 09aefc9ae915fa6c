---------------------------- MODULE SqlExecution ----------------------------
(***************************************************************************)
(* One SQL section: the section in the webview, which runs one query at a  *)
(* time, the host's admission of its executions (SqlExecutionBroker), the  *)
(* manual runs of SqlSectionExecutionApplicationHandler and the runs of a  *)
(* Copilot request.  Manual and Copilot runs start on two sides of the     *)
(* message channel and meet in the broker, each of them interrupted by     *)
(* awaits during which the user cancels, the target changes, another       *)
(* window revokes its owner, or another run is admitted.                   *)
(*                                                                         *)
(* The broker keeps its maps per section and sections do not meet in them, *)
(* so one section is modelled.  Execution ids are unique; the generation   *)
(* of a preflight is abstracted by its id.  The connection, database,      *)
(* principal and policy generation of a section are one number, target.    *)
(***************************************************************************)
EXTENDS Naturals, Sequences

CONSTANTS
    Manual,             \* executions the user runs in the section
    Copilot,            \* executions of Copilot requests
    None,
    MaxTargets,         \* bound on changes of the section's target
    MaxSessions,        \* bound on restarts of the editor session
    MaxFaults           \* bound on starts that throw and waits for locks that time out

Executions == Manual \cup Copilot

ASSUME SqlExecutionAssumption ==
    /\ Manual \cap Copilot = {} /\ None \notin Executions
    /\ {MaxTargets, MaxSessions, MaxFaults} \subseteq Nat

VARIABLES
    generation, pending, preflight,     \* the broker's maps, of this section
    running,            \* the section's entry in QueryRunCoordinator
    stage,              \* of each execution in the host
    grant,              \* the generation it was admitted with
    owner,              \* the target it is to run against
    transport,          \* none, running, cancelled, settled
    outcome,            \* what it is to publish
    target,             \* the canonical owner of the section
    ownership,          \* current, revoked and not noticed, unpublished
    active,             \* webview: the execution the section shows as running
    token,              \* webview: the owner its token stands for, or None
    used,               \* executions that have begun
    toHost, toView,     \* the message channels
    told,               \* history: the terminals posted for each execution
    newest,             \* history: the execution promoted last and not superseded
    sessions, faults    \* used up of the bounds

broker == <<generation, pending, preflight, running>>
hostVars == <<stage, grant, owner, outcome>>
targetVars == <<target, ownership>>
view == <<active, token>>
bounds == <<sessions, faults>>
vars == <<broker, hostVars, transport, targetVars, view, used, toHost, toView, told, newest, bounds>>

Msg(type, value) == [type |-> type, value |-> value]
RunMsg(e, t) == [type |-> "execute", value |-> e, token |-> t]

Init ==
    /\ generation = 0 /\ pending = None /\ preflight = None /\ running = None
    /\ stage = [e \in Executions |-> "new"]
    /\ grant = [e \in Executions |-> 0]
    /\ owner = [e \in Executions |-> 0]
    /\ transport = [e \in Executions |-> "none"]
    /\ outcome = [e \in Executions |-> "none"]
    /\ target = 1 /\ ownership = "current"
    /\ active = None /\ token = 1
    /\ used = {}
    /\ toHost = <<>> /\ toView = <<>>
    /\ told = [e \in Executions |-> {}]
    /\ newest = None
    /\ sessions = 0 /\ faults = 0

Goto(e, s) == stage' = [stage EXCEPT ![e] = s]

-----------------------------------------------------------------------------
(* The broker and QueryRunCoordinator. *)

Notice(e) == IF e = None THEN <<>> ELSE <<Msg("cancelled", e)>>

(* postCancellation for each retired execution, in order. *)
Notify(first, second, third) ==
    /\ toView' = toView \o Notice(first) \o Notice(second) \o Notice(third)
    /\ told' = [e \in Executions |-> IF e \in {first, second, third}
                                     THEN told[e] \cup {"cancelled"} ELSE told[e]]

Publish(kind, e) ==
    /\ toView' = Append(toView, Msg(kind, e))
    /\ told' = [told EXCEPT ![e] = @ \cup {kind}]

CancelRunningKeepsEntry ==                   \* mutant: the entry is not deleted
    /\ UNCHANGED running
    /\ transport' = [e \in Executions |-> IF e = running /\ transport[e] = "running"
                                          THEN "cancelled" ELSE transport[e]]
CancelRunningForgets ==                      \* mutant: the entry is deleted, not cancelled
    running' = None /\ UNCHANGED transport

(* QueryRunCoordinator.cancel *)
CancelRunning ==
    /\ running' = None
    /\ transport' = [e \in Executions |-> IF e = running /\ transport[e] = "running"
                                          THEN "cancelled" ELSE transport[e]]

(* supersede tells the running execution only if it retired no pending one. *)
NoneRunning == None                          \* mutant: the running execution is not told
SupersededRunning == IF pending = None THEN running ELSE None

Supersede(notify) ==
    /\ generation' = generation + 1
    /\ pending' = None /\ preflight' = None
    /\ CancelRunning
    /\ newest' = None
    /\ IF notify THEN Notify(preflight, pending, SupersededRunning) ELSE UNCHANGED <<toView, told>>

(* promotePreflight and reservePending, which retires what was pending and *)
(* cancels what runs.                                                      *)
Promote(e, pendingAfter) ==
    /\ preflight' = None
    /\ generation' = generation + 1
    /\ grant' = [grant EXCEPT ![e] = generation + 1]
    /\ pending' = pendingAfter
    /\ newest' = e

(* cancelExpected with an execution id. *)
CancelExpected(e, notify) ==
    /\ preflight' = IF e = preflight THEN None ELSE preflight
    /\ IF e # preflight /\ e \in {pending, running}
       THEN /\ generation' = generation + 1
            /\ newest' = None
            /\ pending' = IF e = pending THEN None ELSE pending
            /\ IF e # pending THEN CancelRunning ELSE UNCHANGED <<running, transport>>
       ELSE UNCHANGED <<generation, pending, running, transport, newest>>
    /\ IF notify /\ e \in {preflight, pending, running}
       THEN Notify(e, None, None) ELSE UNCHANGED <<toView, told>>

IsPendingCurrent(e) == grant[e] = generation /\ pending = e

(* isStillActiveRun of a manual run, isCurrent of a Copilot run: by the     *)
(* preflight, by the lease, or by the admission if the start threw.        *)
IsStillActiveRun(e) ==
    IF stage[e] = "preflight" THEN preflight = e
    ELSE /\ grant[e] = generation
         /\ transport[e] # "none" => running = e

-----------------------------------------------------------------------------
(* The section in the webview. *)

(* _runQuery *)
Run(e) ==
    /\ e \in Manual \ used
    /\ active = None /\ token # None
    /\ used' = used \cup {e}
    /\ active' = e
    /\ toHost' = Append(toHost, RunMsg(e, token))
    /\ UNCHANGED <<broker, hostVars, transport, targetVars, token, toView, told, newest, bounds>>

(* _cancelQuery and _timeoutToolRun *)
Cancel ==
    /\ active # None
    /\ toHost' = Append(toHost, Msg("cancel", active))
    /\ active' = None
    /\ UNCHANGED <<broker, hostVars, transport, targetVars, token, used, toView, told, newest, bounds>>

(* The user picks another connection or database: _clearTargetData.        *)
Retarget ==
    /\ token # None /\ target < MaxTargets
    /\ toHost' = toHost \o (IF active # None THEN <<Msg("cancel", None)>> ELSE <<>>)
                        \o <<Msg("target", None)>>
    /\ active' = None /\ token' = None
    /\ UNCHANGED <<broker, hostVars, transport, targetVars, used, toView, told, newest, bounds>>

(* A terminal ends the execution it names if that is the active one, the    *)
(* start of a Copilot run is shown if none is, and a new owner clears the   *)
(* section.                                                                *)
ActiveAfterOwner(m) ==                       \* mutant: a new owner leaves the run active
    CASE m.type = "owner" -> active
      [] m.type = "executing" -> IF active = None THEN m.value ELSE active
      [] OTHER -> IF active = m.value THEN None ELSE active
ActiveAfter(m) ==
    CASE m.type = "owner" -> None
      [] m.type = "executing" -> IF active = None THEN m.value ELSE active
      [] OTHER -> IF active = m.value THEN None ELSE active

Receive ==
    /\ toView # <<>>
    /\ toView' = Tail(toView)
    /\ active' = ActiveAfter(Head(toView))
    /\ token' = IF Head(toView).type = "owner" THEN Head(toView).value ELSE token
    /\ UNCHANGED <<broker, hostVars, transport, targetVars, used, toHost, told, newest, bounds>>

-----------------------------------------------------------------------------
(* The host: owners. *)

Received(type) ==
    /\ toHost # <<>> /\ Head(toHost).type = type
    /\ toHost' = Tail(toHost)

(* adoptTarget *)
AdoptTarget ==
    /\ Received("target")
    /\ target' = target + 1 /\ ownership' = "unpublished"
    /\ Supersede(TRUE)
    /\ UNCHANGED <<hostVars, view, used, bounds>>

(* The connection, its principal or the policy changes, perhaps in another  *)
(* window: admission fails from now on, the event comes later.             *)
Revoke ==
    /\ target < MaxTargets
    /\ target' = target + 1 /\ ownership' = "revoked"
    /\ UNCHANGED <<broker, hostVars, transport, view, used, toHost, toView, told, newest, bounds>>

(* The handlers of the change events of connections, principals and policy. *)
Noticed ==
    /\ ownership = "revoked"
    /\ ownership' = "unpublished"
    /\ Supersede(TRUE)
    /\ UNCHANGED <<hostVars, target, view, used, toHost, bounds>>

(* The section learns of its new owner and token. *)
PublishOwner ==
    /\ ownership = "unpublished"
    /\ ownership' = "current"
    /\ toView' = Append(toView, Msg("owner", target))
    /\ UNCHANGED <<broker, hostVars, transport, target, view, used, toHost, told, newest, bounds>>

(* dispose and startSession: the webview is gone and the generations start  *)
(* again at zero, while what was under way goes on.                        *)
Restart ==
    /\ sessions < MaxSessions
    /\ sessions' = sessions + 1
    /\ generation' = 0 /\ pending' = None /\ preflight' = None
    /\ CancelRunning
    /\ newest' = None
    /\ target' = target + 1 /\ ownership' = "unpublished"
    /\ active' = None /\ token' = None
    /\ toHost' = <<>> /\ toView' = <<>>
    /\ UNCHANGED <<hostVars, used, told, faults>>

CancelMessage ==
    /\ Received("cancel")
    /\ IF Head(toHost).value = None THEN Supersede(TRUE) ELSE CancelExpected(Head(toHost).value, TRUE)
    /\ UNCHANGED <<hostVars, targetVars, view, used, bounds>>

-----------------------------------------------------------------------------
(* The host: executions. *)

(* reservePreflight *)
ReservePreflight(e) ==
    /\ Notify(preflight, None, None)
    /\ preflight' = e
    /\ Goto(e, "preflight")
    /\ UNCHANGED <<generation, pending, running, grant, transport, outcome, targetVars, view,
                   newest, bounds>>

(* executeSqlQuery up to its first await. *)
Execute ==
    /\ Received("execute")
    /\ ReservePreflight(Head(toHost).value)
    /\ owner' = [owner EXCEPT ![Head(toHost).value] = Head(toHost).token]
    /\ UNCHANGED used

(* startCopilotSqlExecution up to its first await. *)
ReserveCopilot(e) ==
    /\ e \in Copilot \ used
    /\ used' = used \cup {e}
    /\ ReservePreflight(e)
    /\ owner' = [owner EXCEPT ![e] = target]
    /\ UNCHANGED toHost

(* Validation of a manual run ends it: postCurrentError, or silence if it   *)
(* is not the current preflight.                                           *)
Refuse(e) ==
    /\ e \in Manual /\ stage[e] = "preflight"
    /\ IF IsStillActiveRun(e) THEN Publish("error", e) ELSE UNCHANGED <<toView, told>>
    /\ preflight' = IF preflight = e THEN None ELSE preflight
    /\ Goto(e, "done")
    /\ UNCHANGED <<generation, pending, running, grant, owner, transport, outcome, targetVars, view,
                   used, toHost, newest, bounds>>

(* A manual run is validated: it is promoted and started without an await. *)
StartManual(e) ==
    /\ e \in Manual /\ stage[e] = "preflight"
    /\ IsStillActiveRun(e) /\ owner[e] = target
    /\ Promote(e, None)
    /\ Notify(pending, running, None)
    /\ running' = e
    /\ transport' = [d \in Executions |-> IF d = e THEN "running"
                       ELSE IF d = running /\ transport[d] = "running" THEN "cancelled"
                       ELSE transport[d]]
    /\ Goto(e, "running")
    /\ UNCHANGED <<owner, outcome, targetVars, view, used, toHost, bounds>>

(* The same, but the client throws: the error is to be published.          *)
StartManualThrows(e) ==
    /\ e \in Manual /\ stage[e] = "preflight"
    /\ IsStillActiveRun(e) /\ owner[e] = target
    /\ faults < MaxFaults
    /\ faults' = faults + 1
    /\ Promote(e, None)
    /\ Notify(pending, running, None)
    /\ CancelRunning
    /\ outcome' = [outcome EXCEPT ![e] = "error"]
    /\ Goto(e, "posting")
    /\ UNCHANGED <<owner, targetVars, view, used, toHost, sessions>>

PromoteCopilot(e) ==
    /\ e \in Copilot /\ stage[e] = "preflight"
    /\ preflight = e /\ owner[e] = target
    /\ Promote(e, e)
    /\ Notify(pending, running, None)
    /\ CancelRunning
    /\ Goto(e, "admitted")
    /\ UNCHANGED <<owner, outcome, targetVars, view, used, toHost, bounds>>

(* The start is published before the transport exists.                     *)
PublishStart(e) ==
    /\ e \in Copilot /\ stage[e] = "admitted" /\ owner[e] = target
    /\ toView' = Append(toView, Msg("executing", e))
    /\ Goto(e, "announced")
    /\ UNCHANGED <<broker, grant, owner, outcome, transport, targetVars, view, used, toHost, told,
                   newest, bounds>>

StartCopilot(e) ==
    /\ stage[e] = "announced" /\ owner[e] = target
    /\ IsPendingCurrent(e)
    /\ pending' = None /\ running' = e
    /\ transport' = [transport EXCEPT ![e] = "running"]
    /\ Goto(e, "running")
    /\ UNCHANGED <<generation, preflight, grant, owner, outcome, targetVars, view, used, toHost,
                   toView, told, newest, bounds>>

(* It fails before the transport exists, because it is not current, its     *)
(* owner changed or its request was cancelled.                             *)
FailCopilot(e) ==
    /\ e \in Copilot /\ stage[e] \in {"preflight", "admitted", "announced"}
    /\ CancelExpected(e, FALSE)
    /\ Goto(e, IF stage[e] = "announced" THEN "retracting" ELSE "done")
    /\ UNCHANGED <<grant, owner, outcome, targetVars, view, used, toHost, bounds>>

(* settleExecution of a run that was announced, after the cancellation.    *)
Retract(e) ==
    /\ stage[e] = "retracting"
    /\ toView' = Append(toView, Msg("idle", e))
    /\ Goto(e, "done")
    /\ UNCHANGED <<broker, grant, owner, outcome, transport, targetVars, view, used, toHost, told,
                   newest, bounds>>

(* The Copilot request is cancelled: the end of the run is posted and the   *)
(* lease cancels its transport, which leaves the generation as it is.      *)
CancelCopilot(e) ==
    /\ e \in Copilot /\ running = e
    /\ toView' = Append(toView, Msg("idle", e))
    /\ newest' = None
    /\ CancelRunning
    /\ UNCHANGED <<generation, pending, preflight, hostVars, targetVars, view, used, toHost, told,
                   bounds>>

Release(e) == running' = IF running = e THEN None ELSE running

(* The promise of the transport settles; a cancelled one may still deliver. *)
Settle(e, kind) ==
    LET current == IsStillActiveRun(e) IN
    /\ stage[e] = "running"
    /\ transport' = [transport EXCEPT ![e] = "settled"]
    /\ outcome' = [outcome EXCEPT ![e] = kind]
    /\ Goto(e, IF ~current THEN "done" ELSE IF kind = "result" THEN "checking" ELSE "posting")
    /\ IF current THEN UNCHANGED running ELSE Release(e)
    /\ UNCHANGED <<generation, pending, preflight, grant, owner, targetVars, view, used, toHost,
                   toView, told, newest, bounds>>

(* assertResultOwnerAllowed or ...Protection *)
CheckOwner(e) ==
    /\ stage[e] = "checking"
    /\ IF IsStillActiveRun(e)
       THEN /\ Goto(e, "posting")
            /\ outcome' = [outcome EXCEPT ![e] = IF owner[e] = target THEN "result" ELSE "error"]
            /\ UNCHANGED running
       ELSE /\ Goto(e, "done") /\ Release(e) /\ UNCHANGED outcome
    /\ UNCHANGED <<generation, pending, preflight, grant, owner, transport, targetVars, view, used,
                   toHost, toView, told, newest, bounds>>

PostUnguarded(e) ==                          \* mutant: what changed while waiting is ignored
    /\ stage[e] = "posting"
    /\ Publish(outcome[e], e) /\ Goto(e, "posted")
    /\ UNCHANGED <<broker, grant, owner, transport, outcome, targetVars, view, used, toHost, newest,
                   bounds>>

(* dispatchResultOwnerAllowed or ...Protection: under the locks of the      *)
(* owner, what is current is posted.  A Copilot run that was cancelled by   *)
(* its transport posts its end, which the section treats as a cancellation. *)
Post(e) ==
    /\ stage[e] = "posting"
    /\ IF owner[e] = target /\ IsStillActiveRun(e)
       THEN Publish(outcome[e], e) /\ Goto(e, "posted") /\ UNCHANGED running
       ELSE Goto(e, "done") /\ Release(e) /\ UNCHANGED <<toView, told>>
    /\ UNCHANGED <<generation, pending, preflight, grant, owner, transport, outcome, targetVars, view,
                   used, toHost, newest, bounds>>

(* The wait for those locks times out, which throws: instead of a result   *)
(* the error is to be posted, an error or a cancellation is given up and   *)
(* the lease released.  A Copilot run waits for the same locks; its        *)
(* request is reported to be over, but not its execution.                  *)
PostTimesOut(e) ==
    /\ stage[e] = "posting" /\ IsStillActiveRun(e)
    /\ faults < MaxFaults
    /\ faults' = faults + 1
    /\ IF outcome[e] = "result"
       THEN outcome' = [outcome EXCEPT ![e] = "error"] /\ UNCHANGED <<stage, running>>
       ELSE /\ outcome' = [outcome EXCEPT ![e] = "suppressed"]
            /\ Goto(e, "done") /\ Release(e)
    /\ UNCHANGED <<generation, pending, preflight, grant, owner, transport, targetVars, view, used,
                   toHost, toView, told, newest, sessions>>

(* The locks are released, then the lease.                                 *)
Finish(e) ==
    /\ stage[e] = "posted"
    /\ Release(e)
    /\ Goto(e, "done")
    /\ UNCHANGED <<generation, pending, preflight, grant, owner, transport, outcome, targetVars, view,
                   used, toHost, toView, told, newest, bounds>>

-----------------------------------------------------------------------------
Kinds == {"result", "error", "cancelled"}

Validate(e) == Refuse(e) \/ StartManual(e) \/ StartManualThrows(e)
Prepare(e) == PromoteCopilot(e) \/ PublishStart(e) \/ StartCopilot(e) \/ FailCopilot(e) \/ Retract(e)
Conclude(e) ==
    \/ \E kind \in Kinds : Settle(e, kind)
    \/ CheckOwner(e) \/ Post(e) \/ PostTimesOut(e) \/ Finish(e)
HostReceives == Execute \/ CancelMessage \/ AdoptTarget

Next ==
    \/ Cancel \/ Retarget \/ Receive
    \/ HostReceives \/ Revoke \/ Noticed \/ PublishOwner \/ Restart
    \/ \E e \in Executions : Run(e) \/ ReserveCopilot(e) \/ Validate(e) \/ Prepare(e)
                             \/ CancelCopilot(e) \/ Conclude(e)

Spec == Init /\ [][Next]_vars

-----------------------------------------------------------------------------
Stages == {"new", "preflight", "admitted", "announced", "retracting", "running", "checking",
           "posting", "posted", "done"}
ToHostMsgs ==
    [type : {"execute"}, value : Manual, token : Nat]
    \cup [type : {"cancel", "target"}, value : Executions \cup {None}]
ToViewMsgs ==
    [type : Kinds \cup {"executing", "idle"}, value : Executions] \cup [type : {"owner"}, value : Nat]

TypeOK ==
    /\ generation \in Nat
    /\ {pending, preflight, running, active, newest} \subseteq Executions \cup {None}
    /\ stage \in [Executions -> Stages]
    /\ grant \in [Executions -> Nat] /\ owner \in [Executions -> Nat]
    /\ transport \in [Executions -> {"none", "running", "cancelled", "settled"}]
    /\ outcome \in [Executions -> Kinds \cup {"none", "suppressed"}]
    /\ target \in Nat /\ ownership \in {"current", "revoked", "unpublished"}
    /\ token \in Nat \cup {None} /\ used \subseteq Executions
    /\ toHost \in Seq(ToHostMsgs) /\ toView \in Seq(ToViewMsgs)
    /\ told \in [Executions -> SUBSET Kinds]
    /\ sessions \in 0 .. MaxSessions /\ faults \in 0 .. MaxFaults

(* Nothing runs while an admission is pending.  supersede relies on it: it  *)
(* tells the webview of one of the two only.                               *)
PendingExcludesRunning == pending # None => running = None

(* A transport that was not cancelled is the one cancellation would reach:  *)
(* no query goes on running on the server behind the section's back.       *)
NoOrphanTransport ==
    \A e \in Executions : transport[e] = "running" => running = e /\ stage[e] = "running"

(* Rows are posted only for the execution that was promoted last, after     *)
(* which nothing superseded, cancelled or retargeted the section, also      *)
(* when a new session counts its generations from zero again.              *)
OnlyNewestPublishes ==
    [][\A e \in Executions : "result" \in told'[e] \ told[e] => newest = e /\ owner[e] = target]_vars

(* A run ends without a terminal if its error or cancellation could not be *)
(* posted in time, or, a manual one, if it never started and another was   *)
(* admitted meanwhile, which finds it neither pending nor running.         *)
Unposted(e) ==
    \/ outcome[e] = "suppressed"
    \/ outcome[e] = "error" /\ transport[e] = "none"

(* The webview is otherwise never left unanswered: a manual run ends       *)
(* with a terminal, unless the owner it was sent with is no longer the      *)
(* section's.                                                              *)
NoSilentEnd ==
    \A e \in Manual : stage[e] = "done" /\ told[e] = {} => owner[e] # target \/ Unposted(e)

Quiet ==
    /\ toHost = <<>> /\ toView = <<>> /\ ownership = "current"
    /\ \A e \in Executions : stage[e] \in {"new", "done"}

(* Once every message has arrived and every execution has ended, the       *)
(* section shows none as executing, whatever was superseded, revoked,      *)
(* refused or restarted on the way, unless the run it shows was given up   *)
(* without a terminal, which only the user's own cancel clears.            *)
QuietMeansIdle == Quiet => active = None \/ Unposted(active)
=============================================================================
