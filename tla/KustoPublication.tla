-------------------------- MODULE KustoPublication --------------------------
(***************************************************************************)
(* How the host and the webview of one Kusto section agree on what was     *)
(* run and what was shown.                                                 *)
(*                                                                         *)
(* A run starts in the webview (a manual run, announced by executeQuery)   *)
(* or in the host (a Copilot run, claimed by kustoExecutionStarted).  Its  *)
(* terminal goes to the webview as a publication: staged, acknowledged,    *)
(* committed, acknowledged, or revoked after a deadline.  A terminal that  *)
(* is not known to be applied is followed by one cancellation.  Results,   *)
(* and the ready message of a standalone optimization, are published       *)
(* under the Leave-No-Trace lock, which every dispatch takes as well.      *)
(*                                                                         *)
(* Messages are delivered in order; those of at most MaxTroubled           *)
(* transactions may be lost, refused by the transport, or late.            *)
(***************************************************************************)
EXTENDS Integers, Sequences, FiniteSets, SequencesExt

CONSTANTS MaxRuns,          \* bound: runs started in the section
          MaxTroubled,      \* bound: publications and claims that meet a fault
          MaxEvents         \* bound: those, runs, target changes and the optimization

ASSUME BoundsAssumption == {MaxRuns, MaxTroubled, MaxEvents} \subseteq Nat

Runs == 1..MaxRuns
NoRun == 0

(* A publication is named by what it is about and by its attempt.          *)
Terminal(e, k) == <<"run", e, k>>
Ready == <<"optimize", 0, 1>>
ReadyFailed == <<"optimize", 0, 2>>
Claim(e) == <<"claim", e, 1>>
NoPublication == <<"none", 0, 0>>

Publications == {Terminal(e, k) : e \in Runs, k \in 1..2} \cup {Ready, ReadyFailed}

VARIABLES
    active,         \* host: the run that holds the section
    stage,          \* host: how far each run is
    kind,           \* host: the terminal a run ended with
    optimize,       \* host: the optimization
    target,         \* host: the generation of the section's target
    lock,           \* the publication that holds the policy lock
    phase,          \* host: what a publication waits for
    outcome,        \* host: what became of it
    toView, toHost, \* messages on their way
    generation,     \* webview: the generation of the section's target
    running,        \* webview: the run the section shows
    cancelling,     \* webview: its cancellation was asked for
    retired,        \* webview: runs replaced before their terminal came
    owner,          \* webview: the section waits for the optimization
    comparing,      \* webview: the run the ready message waits for, while it is applied
    staged,         \* webview: publications staged and not committed
    completed,      \* webview: publications acknowledged as applied
    late,           \* publications whose deadline has passed
    troubled,       \* publications and claims that met a fault
    applied         \* history: publications whose effect took place

hostVars == <<active, stage, kind, optimize, target, lock, phase, outcome>>
runVars  == <<running, cancelling, retired>>
viewVars == <<generation, runVars, owner, comparing, staged, completed>>
envVars  == <<late, troubled>>
vars == <<hostVars, toView, toHost, viewVars, envVars, applied>>

Stages == {"new", "sent", "claiming", "dispatching", "running", "ended"}
Phases == {"idle", "staging", "applying", "revoking", "settled"}
Outcomes == {"none", "unstaged", "applied", "refused", "unknown"}

-----------------------------------------------------------------------------
(* Messages *)

StageMsg(p)  == [type |-> "stage", pub |-> p]
CommitMsg(p) == [type |-> "commit", pub |-> p]
RevokeMsg(p) == [type |-> "revoke", pub |-> p]
StartedMsg(e, g, expected) ==
    [type |-> "started", exec |-> e, generation |-> g, expected |-> expected]

Ack(p, of, ok) == [type |-> "ack", pub |-> p, phase |-> of, ok |-> ok]
StartedAck(e, ok) == [type |-> "startedAck", exec |-> e, ok |-> ok]
ExecuteMsg(e) == [type |-> "execute", exec |-> e]
CancelMsg(e) == [type |-> "cancel", exec |-> e]
TargetMsg(g) == [type |-> "target", generation |-> g]
CancelOptimizeMsg == [type |-> "cancelOptimize"]

(* The transaction a message belongs to.  Requests of the webview are not  *)
(* lost: they have none.                                                   *)
TransactionOf(m) ==
    CASE m.type \in {"stage", "commit", "revoke", "ack"} -> m.pub
      [] m.type \in {"started", "startedAck"}            -> Claim(m.exec)
      [] OTHER                                           -> NoPublication

NextRun == Cardinality({e \in Runs : stage[e] # "new"}) + 1

MoreEvents ==
    NextRun - 1 + generation + Cardinality(troubled) + (IF optimize = "none" THEN 0 ELSE 1)
        < MaxEvents

Trouble(t) ==
    /\ t # NoPublication
    /\ t \in troubled \/ (Cardinality(troubled) < MaxTroubled /\ MoreEvents)
    /\ troubled' = troubled \cup {t}

NewRun(e) == e \in Runs /\ e = NextRun /\ MoreEvents

-----------------------------------------------------------------------------
Init ==
    /\ active = NoRun
    /\ stage = [e \in Runs |-> "new"]
    /\ kind = [e \in Runs |-> "none"]
    /\ optimize = "none"
    /\ target = 0 /\ generation = 0
    /\ lock = NoPublication
    /\ phase = [p \in Publications |-> "idle"]
    /\ outcome = [p \in Publications |-> "none"]
    /\ toView = <<>> /\ toHost = <<>>
    /\ running = NoRun /\ cancelling = FALSE /\ retired = {}
    /\ owner = FALSE
    /\ comparing = NoRun
    /\ staged = {} /\ completed = {}
    /\ late = {} /\ troubled = {} /\ applied = {}

-----------------------------------------------------------------------------
(* Host: publications *)

(* What is published next when p has settled.                              *)
NoFollowUp(p, o) == {}                       \* mutant: a lost terminal is not followed up

FollowUp(p, o) ==
    IF o = "applied" THEN {}
    ELSE {q \in Publications :
            \/ p[1] = "run" /\ p[3] = 1 /\ q = Terminal(p[2], 2)
            \/ p = Ready /\ optimize = "running" /\ q = ReadyFailed}

StageAll(P) == SetToSeq({StageMsg(p) : p \in P})

(* postKustoPublication resolves: the lock its caller holds is released,   *)
(* after the cancellation that follows a result.                           *)
Settle(p, o, sent) ==
    LET next == FollowUp(p, o) IN
    /\ phase' = [q \in Publications |-> IF q = p THEN "settled"
                                        ELSE IF q \in next THEN "staging" ELSE phase[q]]
    /\ outcome' = [outcome EXCEPT ![p] = o]
    /\ toView' = sent \o StageAll(next)
    /\ lock' = IF lock # p THEN lock
               ELSE IF Terminal(p[2], 2) \in next THEN Terminal(p[2], 2) ELSE NoPublication
    /\ optimize' = IF p = ReadyFailed \/ (p = Ready /\ o = "applied") THEN "ended" ELSE optimize
    /\ UNCHANGED <<active, stage, kind, target>>

(* settlePublicationAck: an acknowledgement nobody waits for is ignored.   *)
Acknowledged(m) ==
    CASE m.phase = "staged" /\ phase[m.pub] = "staging" /\ m.ok ->
            /\ phase' = [phase EXCEPT ![m.pub] = "applying"]
            /\ toView' = Append(toView, CommitMsg(m.pub))
            /\ UNCHANGED <<active, stage, kind, optimize, target, lock, outcome>>
      [] m.phase = "staged" /\ phase[m.pub] = "staging" /\ ~m.ok ->
            Settle(m.pub, "unstaged", toView)
      [] m.phase = "applied" /\ phase[m.pub] \in {"applying", "revoking"} ->
            Settle(m.pub, IF m.ok THEN "applied" ELSE "refused", toView)
      [] OTHER -> UNCHANGED <<hostVars, toView>>

(* The five seconds for the staged acknowledgement are over.               *)
StagedTimeout(p) ==
    /\ phase[p] = "staging" /\ p \in late
    /\ Settle(p, "unstaged", toView)
    /\ UNCHANGED <<toHost, viewVars, envVars, applied>>

(* The deadline has passed without an answer: revoke, and wait a second.   *)
Revoke(p) ==
    /\ phase[p] = "applying" /\ p \in late
    /\ phase' = [phase EXCEPT ![p] = "revoking"]
    /\ toView' = Append(toView, RevokeMsg(p))
    /\ UNCHANGED <<active, stage, kind, optimize, target, lock, outcome, toHost, viewVars, envVars, applied>>

GraceNeverEnds(p) == FALSE                   \* mutant: the revocation is awaited without limit

GraceEnds(p) ==
    /\ phase[p] = "revoking"
    /\ Trouble(p)
    /\ Settle(p, "unknown", toView)
    /\ UNCHANGED <<toHost, viewVars, late, applied>>

(* postMessage resolves false: the message was not delivered.              *)
Undelivered(p) ==
    /\ \E i \in 1..Len(toView) :
          LET m == toView[i] IN
          /\ TransactionOf(m) = p
          /\ <<m.type, phase[p]>> \in
                {<<"stage", "staging">>, <<"commit", "applying">>, <<"commit", "revoking">>,
                 <<"revoke", "revoking">>}
          /\ Settle(p, IF m.type = "stage" THEN "unstaged" ELSE "unknown", RemoveAt(toView, i))
    /\ Trouble(p)
    /\ UNCHANGED <<toHost, viewVars, late, applied>>

-----------------------------------------------------------------------------
(* Host: runs *)

(* The run that holds the section gives it up with terminal k.             *)
EndRun(e, k) ==
    /\ active' = NoRun
    /\ stage' = [stage EXCEPT ![e] = "ended"]
    /\ kind' = [kind EXCEPT ![e] = k]
    /\ phase' = [phase EXCEPT ![Terminal(e, 1)] = "staging"]
    /\ toView' = Append(toView, StageMsg(Terminal(e, 1)))

(* reserve: the run that held the section is cancelled.                    *)
Reserve(e, to, sent) ==
    /\ active' = e
    /\ IF active = NoRun
       THEN /\ stage' = [stage EXCEPT ![e] = to]
            /\ toView' = toView \o sent
            /\ UNCHANGED <<kind, phase>>
       ELSE /\ stage' = [stage EXCEPT ![active] = "ended", ![e] = to]
            /\ kind' = [kind EXCEPT ![active] = "cancelled"]
            /\ phase' = [phase EXCEPT ![Terminal(active, 1)] = "staging"]
            /\ toView' = Append(toView, StageMsg(Terminal(active, 1))) \o sent
    /\ UNCHANGED <<optimize, target, lock, outcome>>

(* A host producer starts a run and claims the section in the webview.     *)
StartClaimed ==
    /\ NewRun(NextRun)
    /\ Reserve(NextRun, "claiming", <<StartedMsg(NextRun, target, active)>>)
    /\ UNCHANGED <<toHost, viewVars, envVars, applied>>

CancelExpected(e) ==
    IF active = e
    THEN EndRun(e, "cancelled") /\ UNCHANGED <<optimize, target, lock, outcome>>
    ELSE UNCHANGED <<hostVars, toView>>

(* adoptTarget: the run for the previous target is retired.                *)
AdoptTarget(g) ==
    /\ target' = g
    /\ UNCHANGED <<optimize, lock, outcome>>
    /\ IF active # NoRun THEN EndRun(active, "cancelled")
       ELSE UNCHANGED <<active, stage, kind, phase, toView>>

(* settleExecutionStartAck and what claimKustoExecutionInWebview's caller  *)
(* does with the answer.                                                   *)
Claimed(e, ok) ==
    IF stage[e] # "claiming" THEN UNCHANGED <<hostVars, toView>>
    ELSE IF ok THEN /\ stage' = [stage EXCEPT ![e] = "dispatching"]
                    /\ UNCHANGED <<active, kind, optimize, target, lock, phase, outcome, toView>>
    ELSE CancelExpected(e)

(* The webview does not answer the claim in five seconds, or the claim     *)
(* could not be posted.                                                    *)
ClaimTimeout(e) ==
    /\ stage[e] = "claiming"
    /\ Trouble(Claim(e))
    /\ CancelExpected(e)
    /\ UNCHANGED <<toHost, viewVars, late, applied>>

(* The dispatch is prepared under the policy lock.                         *)
Dispatch(e) ==
    /\ stage[e] = "dispatching" /\ lock = NoPublication
    /\ stage' = [stage EXCEPT ![e] = "running"]
    /\ UNCHANGED <<active, kind, optimize, target, lock, phase, outcome, toView, toHost,
                   viewVars, envVars, applied>>

(* The query has been answered: its result is published under the lock.    *)
Admit(e) ==
    /\ stage[e] = "running" /\ lock = NoPublication
    /\ lock' = Terminal(e, 1)
    /\ EndRun(e, "result")
    /\ UNCHANGED <<optimize, target, outcome, toHost, viewVars, envVars, applied>>

Fail(e) ==
    /\ stage[e] \in {"dispatching", "running"}
    /\ EndRun(e, "error")
    /\ UNCHANGED <<optimize, target, lock, outcome, toHost, viewVars, envVars, applied>>

(* The model has answered: the optimized query is published under the lock. *)
PublishReady ==
    /\ optimize = "running" /\ phase[Ready] = "idle" /\ lock = NoPublication
    /\ lock' = Ready
    /\ phase' = [phase EXCEPT ![Ready] = "staging"]
    /\ toView' = Append(toView, StageMsg(Ready))
    /\ UNCHANGED <<active, stage, kind, optimize, target, outcome, toHost, viewVars, envVars, applied>>

(* The host takes the next message of the webview.                         *)
ReceiveHost ==
    /\ toHost # <<>>
    /\ toHost' = Tail(toHost)
    /\ LET m == Head(toHost) IN
       CASE m.type = "ack"        -> Acknowledged(m)
         [] m.type = "startedAck" -> Claimed(m.exec, m.ok)
         [] m.type = "execute"    -> Reserve(m.exec, "dispatching", <<>>)
         [] m.type = "cancel"     -> CancelExpected(m.exec)
         [] m.type = "cancelOptimize" ->
               /\ optimize' = "ended"
               /\ UNCHANGED <<active, stage, kind, target, lock, phase, outcome, toView>>
         [] m.type = "target" -> AdoptTarget(m.generation)
    /\ UNCHANGED <<viewVars, envVars, applied>>

-----------------------------------------------------------------------------
(* Webview: runs *)

(* beginQueryExecution                                                     *)
BeginInView(e) ==
    /\ running' = e
    /\ cancelling' = FALSE
    /\ retired' = IF running = NoRun THEN retired ELSE retired \cup {running}

RunManually ==
    /\ NewRun(NextRun)
    /\ stage' = [stage EXCEPT ![NextRun] = "sent"]
    /\ BeginInView(NextRun)
    /\ toHost' = Append(toHost, ExecuteMsg(NextRun))
    /\ UNCHANGED <<active, kind, optimize, target, lock, phase, outcome, toView, generation, owner, comparing,
                   staged, completed, envVars, applied>>

CancelQuery ==
    /\ running # NoRun /\ ~cancelling
    /\ cancelling' = TRUE
    /\ toHost' = Append(toHost, CancelMsg(running))
    /\ UNCHANGED <<hostVars, toView, generation, running, retired, owner, comparing, staged, completed,
                   envVars, applied>>

(* The section's target is changed: its run and its optimization are       *)
(* retired, and the host is told of all three.                             *)
ClearTargetBoundState ==
    /\ MoreEvents
    /\ generation' = generation + 1
    /\ running' = NoRun /\ cancelling' = FALSE /\ owner' = FALSE
    /\ retired' = IF running = NoRun THEN retired ELSE retired \cup {running}
    /\ toHost' = toHost \o (IF running = NoRun THEN <<>> ELSE <<CancelMsg(running)>>)
                        \o (IF owner THEN <<CancelOptimizeMsg>> ELSE <<>>)
                        \o <<TargetMsg(generation')>>
    /\ UNCHANGED <<hostVars, toView, comparing, staged, completed, envVars, applied>>

(* The model is asked to optimize the section's query.                     *)
RequestOptimize ==
    /\ optimize = "none" /\ MoreEvents
    /\ optimize' = "running"
    /\ owner' = TRUE
    /\ UNCHANGED <<active, stage, kind, target, lock, phase, outcome, toView, toHost, generation, runVars, comparing,
                   staged, completed, envVars, applied>>

(* kustoExecutionStarted: the claim names its target and the run it        *)
(* expects to replace.                                                        *)
AnyPredecessor(m) == TRUE                    \* mutant: whatever is running is replaced

PredecessorMatches(m) == running \in {NoRun, m.expected}

OnStarted(m) ==
    LET ok == m.generation = generation /\ PredecessorMatches(m) IN
    /\ IF ok THEN BeginInView(m.exec) ELSE UNCHANGED runVars
    /\ toHost' = Append(toHost, StartedAck(m.exec, ok))
    /\ UNCHANGED <<owner, comparing, staged, completed, applied>>

-----------------------------------------------------------------------------
(* Webview: publications *)

KindOf(p) == IF p[3] = 2 THEN "cancelled" ELSE kind[p[2]]

OnStage(p) ==
    /\ staged' = IF p \in late THEN staged ELSE staged \cup {p}
    /\ toHost' = Append(toHost, Ack(p, "staged", p \notin late))
    /\ UNCHANGED <<runVars, owner, comparing, completed, applied>>

(* The staged entry's timer: it is dropped, and the host is told.          *)
StagedExpires(p) ==
    /\ p \in staged /\ p \in late
    /\ staged' = staged \ {p}
    /\ toHost' = Append(toHost, Ack(p, "applied", FALSE))
    /\ UNCHANGED <<hostVars, toView, generation, runVars, owner, comparing, completed, envVars, applied>>

(* acknowledgeKustoPublication of an applied publication, recorded first.  *)
Confirm(P, acks) ==
    /\ applied' = applied \cup P
    /\ completed' = completed \cup P
    /\ toHost' = toHost \o acks

Refuse(p) == Confirm({}, <<Ack(p, "applied", FALSE)>>)

(* The terminal of run e is announced in the webview, and the application  *)
(* of the ready message that waits for it ends: with an acknowledgement if *)
(* the section still waits for this optimization.                          *)
Announce(e, P, acks) ==
    IF comparing = e
    THEN /\ comparing' = NoRun
         /\ owner' = FALSE
         /\ Confirm(P \cup {q \in {Ready} : owner}, Append(acks, Ack(Ready, "applied", owner)))
    ELSE /\ Confirm(P, acks)
         /\ UNCHANGED <<owner, comparing>>

(* A terminal of the run the section shows is displayed.                   *)
ApplyActive(p) ==
    /\ p[2] = running
    /\ running' = NoRun /\ cancelling' = FALSE
    /\ UNCHANGED retired
    /\ \/ Announce(p[2], {p}, <<Ack(p, "applied", TRUE)>>)
       \/ /\ KindOf(p) = "result"                 \* it could not be displayed
          /\ Refuse(p)
          /\ UNCHANGED <<owner, comparing>>

(* A terminal of a replaced run is announced as a cancellation.            *)
ApplyRetired(p) ==
    LET ok == KindOf(p) = "cancelled" IN
    /\ p[2] # running /\ p[2] \in retired
    /\ retired' = retired \ {p[2]}
    /\ Announce(p[2], {q \in {p} : ok}, <<Ack(p, "applied", ok)>>)
    /\ UNCHANGED <<running, cancelling>>

RejectTerminal(p) ==
    /\ p[2] # running /\ p[2] \notin retired
    /\ Refuse(p)
    /\ UNCHANGED <<runVars, owner, comparing>>

ApplyTerminal(p) == ApplyActive(p) \/ ApplyRetired(p) \/ RejectTerminal(p)

(* optimizeQueryReady: the comparison section is prepared and the source   *)
(* query is run; the message is acknowledged when that run has ended.      *)
ReadyRejected ==
    /\ Refuse(Ready)
    /\ UNCHANGED <<stage, runVars, owner, comparing>>

ReadyRunsSource ==
    /\ owner /\ NewRun(NextRun)
    /\ stage' = [stage EXCEPT ![NextRun] = "sent"]
    /\ BeginInView(NextRun)
    /\ comparing' = NextRun
    /\ Confirm({}, <<ExecuteMsg(NextRun)>>)
    /\ UNCHANGED owner

ReadyWithoutRun ==
    /\ owner
    /\ owner' = FALSE
    /\ Confirm({Ready}, <<Ack(Ready, "applied", TRUE)>>)
    /\ UNCHANGED <<stage, runVars, comparing>>

ApplyReady == ReadyRejected \/ ReadyRunsSource \/ ReadyWithoutRun

(* optimizeQueryError                                                      *)
ApplyReadyFailed ==
    /\ IF owner THEN Confirm({ReadyFailed}, <<Ack(ReadyFailed, "applied", TRUE)>>)
       ELSE Refuse(ReadyFailed)
    /\ owner' = FALSE
    /\ UNCHANGED <<runVars, comparing>>

OnCommit(p) ==
    /\ staged' = staged \ {p}
    /\ CASE p \notin staged \/ p \in late ->
              Refuse(p) /\ UNCHANGED <<stage, runVars, owner, comparing>>
         [] OTHER ->
              \/ p[1] = "run" /\ ApplyTerminal(p) /\ UNCHANGED stage
              \/ p = Ready /\ ApplyReady
              \/ p = ReadyFailed /\ ApplyReadyFailed /\ UNCHANGED stage

(* The answer to a revocation is the ledger's.                             *)
NeverCompleted(p) == FALSE                   \* mutant: the ledger is not consulted

KnownApplied(p) == p \in completed

OnRevoke(p) ==
    /\ staged' = staged \ {p}
    /\ toHost' = Append(toHost, Ack(p, "applied", KnownApplied(p)))
    /\ UNCHANGED <<runVars, owner, comparing, completed, applied>>

(* The webview takes the next message of the host.                         *)
ReceiveView ==
    /\ toView # <<>>
    /\ toView' = Tail(toView)
    /\ LET m == Head(toView) IN
       \/ m.type = "stage"   /\ OnStage(m.pub)  /\ UNCHANGED stage
       \/ m.type = "commit"  /\ OnCommit(m.pub)
       \/ m.type = "revoke"  /\ OnRevoke(m.pub) /\ UNCHANGED stage
       \/ m.type = "started" /\ OnStarted(m)    /\ UNCHANGED stage
    /\ UNCHANGED <<active, kind, optimize, target, lock, phase, outcome, generation, envVars>>

-----------------------------------------------------------------------------
(* The environment *)

Awaited(p) == phase[p] \in {"staging", "applying"} \/ p \in staged

(* Without a fault, only the ready message can outlast its deadline: its   *)
(* application waits for a query.                                          *)
DeadlinePasses(p) ==
    /\ p \notin late /\ Awaited(p)
    /\ late' = late \cup {p}
    /\ IF p = Ready /\ comparing # NoRun THEN UNCHANGED troubled ELSE Trouble(p)
    /\ UNCHANGED <<hostVars, toView, toHost, viewVars, applied>>

LoseToView ==
    /\ toView # <<>>
    /\ Trouble(TransactionOf(Head(toView)))
    /\ toView' = Tail(toView)
    /\ UNCHANGED <<hostVars, toHost, viewVars, late, applied>>

LoseToHost ==
    /\ toHost # <<>>
    /\ Trouble(TransactionOf(Head(toHost)))
    /\ toHost' = Tail(toHost)
    /\ UNCHANGED <<hostVars, toView, viewVars, late, applied>>

-----------------------------------------------------------------------------
Next ==
    \/ \E p \in Publications : StagedTimeout(p)
    \/ \E p \in Publications : Revoke(p)
    \/ \E p \in Publications : GraceEnds(p)
    \/ \E p \in Publications : Undelivered(p)
    \/ \E p \in Publications : StagedExpires(p)
    \/ \E p \in Publications : DeadlinePasses(p)
    \/ \E e \in Runs : ClaimTimeout(e)
    \/ \E e \in Runs : Dispatch(e)
    \/ \E e \in Runs : Admit(e)
    \/ \E e \in Runs : Fail(e)
    \/ StartClaimed
    \/ PublishReady
    \/ ReceiveHost
    \/ ReceiveView
    \/ RunManually
    \/ RequestOptimize
    \/ CancelQuery
    \/ ClearTargetBoundState
    \/ LoseToView
    \/ LoseToHost

Spec == Init /\ [][Next]_vars

(* Messages that are not lost arrive, queries end, and the lock is given   *)
(* to whoever polls for it.  A timer fires where a fault, or a query that  *)
(* is still running, lets it.  Every behaviour is finite, so fairness of   *)
(* the whole is enough.                                                    *)
Due(p) == p \in troubled \/ (p = Ready /\ comparing # NoRun)

Progress ==
    \/ ReceiveHost \/ ReceiveView
    \/ \E e \in Runs :
          \/ Dispatch(e) \/ Admit(e)
          \/ Claim(e) \in troubled /\ ClaimTimeout(e)
    \/ \E p \in Publications :
          \/ Due(p) /\ DeadlinePasses(p)
          \/ StagedTimeout(p) \/ Revoke(p) \/ StagedExpires(p)
          \/ p \in troubled /\ GraceEnds(p)

FairSpec == Spec /\ WF_vars(Progress)

-----------------------------------------------------------------------------
(* Properties *)

TypeOK ==
    /\ active \in Runs \cup {NoRun} /\ running \in Runs \cup {NoRun}
    /\ comparing \in Runs \cup {NoRun}
    /\ generation \in 0..MaxEvents /\ target \in 0..generation
    /\ stage \in [Runs -> Stages]
    /\ kind \in [Runs -> {"none", "result", "error", "cancelled"}]
    /\ lock \in Publications \cup {NoPublication}
    /\ phase \in [Publications -> Phases]
    /\ outcome \in [Publications -> Outcomes]
    /\ optimize \in {"none", "running", "ended"} /\ owner \in BOOLEAN /\ cancelling \in BOOLEAN
    /\ retired \subseteq Runs
    /\ staged \subseteq Publications /\ completed \subseteq Publications
    /\ late \subseteq Publications /\ applied \subseteq Publications
    /\ troubled \subseteq Publications \cup {Claim(e) : e \in Runs}

(* What postKustoPublication tells its caller is true, then and ever       *)
(* after: applied means the section shows the publication, refused or not  *)
(* staged that it never will, even if the acknowledgement of the commit    *)
(* was lost and the answer is that of the revocation.  A refusal of the    *)
(* ready message is left out: see NoSecondTerminal.                        *)
AnswerIsTruth ==
    \A p \in Publications :
        /\ outcome[p] = "applied" => p \in applied
        /\ outcome[p] \in {"refused", "unstaged"} /\ p # Ready => p \notin applied

(* The host does not go on with a run the user cannot see and stop: the    *)
(* section shows it, or what replaces, cancels or retires it is on its way *)
(* to the host.                                                            *)
NoInvisibleRun ==
    active # NoRun /\ stage[active] # "claiming" =>
        \/ running = active
        \/ \E i \in 1..Len(toHost) :
              \/ toHost[i] \in {CancelMsg(active)} \cup {ExecuteMsg(e) : e \in Runs}
              \/ toHost[i].type = "target"

(* Every publication settles, so its caller returns and the policy lock    *)
(* is released, whatever is lost or late.                                  *)
PublicationsSettle ==
    (\E p \in Publications : phase[p] = "staging")
        ~> \A p \in Publications : phase[p] \in {"idle", "settled"}

(* Every run ends on both sides: the host is done with it, and the section *)
(* no longer shows it as running, although a message of one transaction    *)
(* may be lost or late.                                                    *)
RunsEnd ==
    active # NoRun \/ running # NoRun
        ~> running = NoRun /\ \A e \in Runs : stage[e] \in {"new", "ended"}

(* The host does not send a second, contradictory terminal of an           *)
(* optimization while the webview is applying the first.                   *)
NoSecondTerminal == comparing # NoRun => phase[ReadyFailed] = "idle"
=============================================================================
