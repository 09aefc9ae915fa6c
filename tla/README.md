# A specification of Kusto Workbench

TLA+ modules for the parts of Kusto Workbench (a VS Code extension for Kusto and SQL notebooks)
that are hard to get right by testing: the admission, cancellation and answer of query
executions, the publication of their results to the webview, the server process SQL queries run
on, the Leave-No-Trace policy shared by all windows, the files it is kept in, the editor of a
file with a companion sidecar, and the notebook document that host and webview write together.
Each module is translated from the source it names and is model-checked by TLC on small
instances; the properties that matter most are proved for every instance, in modules of their
own that TLAPS checks.

Paths below are relative to `src/src/` unless they begin with `src/`.

## 1. The system

The extension host runs one process per VS Code window; each custom editor has a webview. Host
and webview talk by asynchronous messages. All host code of a window is one JavaScript thread:
what runs between two `await`s is atomic, and between them anything else may run. Windows share
files under the global storage directory and nothing else.

| Component | State it keeps | Operations | Talks to | Hard behaviour | What makes it correct |
|---|---|---|---|---|---|
| Kusto section execution: `host/kustoExecutionCoordinator.ts`, `host/kustoSectionExecutionApplicationHandler.ts`, `host/queryRunCoordinator.ts` | section lifecycles, active execution per box, closed instances, run registry | open, adopt target, close, reserve, capture dispatch, start, succeed, fail, cancel, revoke, dispose | client, policy, connection manager, auth preferences, webview | six awaits per execution, every one a place to be superseded, cancelled, retargeted, revoked | every reservation answered exactly once; nothing runs that cannot be cancelled; no stale result |
| Kusto start protocol and publication: `shared/kustoExecutionStartProtocol.ts`, `shared/kustoPublicationProtocol.ts`, `host/kustoSectionExecutionApplicationHandler.ts`, `webview/core/message-handler.ts` | claims, staged and completed publications, the run a section shows | claim, stage, commit, revoke, acknowledge, follow up | handler, webview, policy lock | deadlines race the answers; messages lost, refused or late; both sides start runs | what the host is told is true; no run goes on unseen; everything ends |
| Recoverable state files: `host/sql/sqlStateTransaction.ts` | primary, two backup slots, commit record, markers, file lock | transaction, write, rollback, read | both policy stores, SQL connections, account map | crash between writes, failed writes, unlocked readers | a committed snapshot stays readable; a reader gets the last commit or nothing |
| Kusto Leave-No-Trace policy: `host/kustoLeaveNoTracePolicyStore.ts` | snapshot per window, file, migration marker, generation per cluster | initialise, set, refresh, apply, dispatch, admit | connection manager, coordinators of all editors | several windows, recovery of a lost file, snapshots out of order | loss blocks; no admission across a change; windows converge |
| SQL Leave-No-Trace policy: `host/sql/sqlLeaveNoTracePolicyStore.ts` | the same for SQL connections | the same, and an unlocked refresh with repair | SQL lifecycle | the same | the same |
| SQL section execution: `host/sql/sqlExecutionBroker.ts`, `host/sqlSectionExecutionApplicationHandler.ts`, Copilot runs in `host/queryEditorCopilot.ts` | generation, preflight, pending admission, running entry | reserve, promote, start, cancel, supersede, post | SQL lifecycle, STS client, webview section | two kinds of run with different awaits meet in one box | one at a time, cancelled stays cancelled, the section is never left spinning |
| SQL editor lifecycle: `host/sql/sqlEditorLifecycleCoordinator.ts`, `host/sql/sqlEditorOwnershipRegistry.ts` | targets, owners, tokens, session epoch | adopt, retire, rotate, publish, restart | SQL broker, policy, connections | events late and out of order | no token or result of a retired owner is honoured |
| Copilot workflow: `host/queryEditorCopilot.ts` | one request per box, its history | tools, runs, retries | both execution paths | cancellation during tools | one run per request, none after cancellation |
| STS process and operation: `host/sql/stsProcessManager.ts`, `stsRuntime.ts`, `stsQueryService.ts` | process, connection, epoch, restart timer; where an operation and its cleanup stand | start, stop, request, exit; connect, execute, page, cancel, clean up | query and language services, protected sandboxes | exit and restart between request and answer; cancellation beside the main coroutine | nothing is left on a server that goes on; rows only after a protected server ended; disposal is final |
| SQL caches: `host/sqlSchemaCacheGeneration.ts`, `host/sqlDatabaseCache.ts` | files with a generation | publish, clear | policy | owner lost between check and rename | no cached trace of a protected connection |
| Companion sidecars: `host/compatSidecar*.ts`, `host/kqlCompatEditorProvider.ts`, `host/ownedFilePublication.ts` | persist queue, upgrade leases, draft and its baseline, pending projection, reload epoch, file identity | persist, upgrade, reload, roll back, save, repair, close | VS Code document, webview, files | queue against reload against save against close; compare-and-swap on a file | webview, document and draft come to agree; a save stores what is shown; no overwrite of a file changed elsewhere; no deadlock |
| Notebook documents: `host/kqlxEditorProvider.ts`, `shared/markdownDocumentAggregate.ts`, `webview/core/markdown-document-client.ts`, `webview/core/persistence.ts` | authority, projections, the owner's queue, expected edits; optimistic commands, snapshots | command, snapshot, projection, save, lease, rollback | VS Code document | two writers of one document, stale commands, edits elsewhere, saves in between | accepted commands are kept; outside edits are shown before they are replaced; both sides come to agree |
| Startup gateway: `host/mainWebviewStartupGateway.ts` | inbound and outbound queues | drain, retire, dispose | every handler | messages during the drain | in order, each once, none after retirement |
| First launch: `host/firstLaunch/*` | journal, lease, state record | commit, resume | settings | crash while applying; two windows | applied wholly, by one window |
| Schema coordination, Python runs, CSV artifacts, tutorials, dashboards, persisted results | sequence numbers of requests | request, answer | webview | late answers | only the latest answer counts |
| KQL language service, viewers, Power BI export, browser extension, webview rendering | none to speak of, or UI | | | | not modelled |

`PROJECT.json` lists every component with its status and, under `hazards`, the lines at which
it can go wrong and the properties that guard each.

## 2. The modules

    SectionSlot            what a caller of the Kusto coordinator may rely on
      ^ refined by
    KustoExecution         coordinator, run registry, handler, services, notices
      KustoExecutionProofs   proofs: types, one terminal each, the refinement; what is reached,
                             told and published
      MCKustoExecution       constants for TLC

    KustoPublication       claims, runs and publications between host and webview
      KustoPublicationProofs proofs

    AtomicRegister         what a user of the state files may rely on
      ^ refined by
    RecoverableState       the files, the lock, writers, readers, crashes
      RecoverableStateProofs proofs
      MCRecoverableState     symmetry for TLC

    KustoLntPolicy         windows, snapshots, admission, on top of an atomic register
      KustoLntPolicyProofs   proofs
      MCKustoLntPolicy       constants for TLC

    SqlExecution           webview section, messages, broker, manual and Copilot runs
      SqlExecutionProofs     proofs

    StsProcess             the server process: manager, runtime, epochs, restarts, stops
      ^ extended by
    StsOperation           one query on it: connect, execute, pages, cancel, cleanup; the server
      StsProcessProofs       proofs

    SidecarSession         webview, messages, session, persists, projections, save, repair, close
      SidecarSessionProofs   proofs
      MCSidecarSession       constants for TLC

    NotebookDocument       webview, messages, the owner's queue, projections, saves, the document
      NotebookDocumentProofs proofs

### KustoExecution

One editor. `lifecycle`, `closed`, `active`, `sequence`, `reservation` and `dispatch` are the
maps of `KustoExecutionCoordinator`; `runs` is `QueryRunCoordinator`'s map; `stage` is where the
handler invocation of an execution is suspended. Each handler action is what
`executeKustoSectionQuery` does between two awaits:

| stage | await | actions that leave it |
|---|---|---|
| `claiming` | the webview's claim of a host-started run, with its 5 s timer | `ClaimAnswered` |
| `saving` | the selection is saved | `SelectionSaved`, `ConnectionMissing` |
| `starting` | dispatch is prepared | `StartTransport`, `StartDisplaced`, `StartThrows`, `StartRefused` |
| `running` | the query | `QueryResolved`, `QueryFailed`, `QueryCancelled` |
| `accountWait`, `connectionWait` | account and connections are read again | `AccountRefreshed`, `ConnectionsRefreshed` |
| `admitting` | the policy lock | `Admit`, `AdmitLockTimeout` |
| `publishing` | the publication of the result | `Deliver` and the return to the caller |

`revision`, `account` and `policy` are what a target depends on outside the editor: a change is
immediate, its `notice` is delivered later. A publication (stage, commit, acknowledge, revoke) is
one delivery here that is applied or is not; `KustoPublication` is about what that step hides.

`SectionSlot` is the promise: a section is a slot held by one execution at a time, and each
execution is answered exactly once, when it gives the slot up or loses it.
`SharedBoxes` are boxes in which another engine registers runs as well. In those a defensive
branch of `releaseReservation` retires an execution without a terminal, so there only
`AtMostOneTerminal` is claimed.

### KustoPublication

One section, host and webview. `active`, `stage` and `kind` are the host's view of the runs,
`running`, `cancelling` and `retired` the webview's; `toView` and `toHost` are the channels.
A publication is named by what it is about (the terminal of a run, the ready message of an
optimization) and its attempt; `phase` is where `postKustoPublication` stands and `outcome` what
it returned:

| phase | waits for | actions that leave it |
|---|---|---|
| `staging` | the webview has staged the message | `ReceiveHost` (`Acknowledged`), `StagedTimeout`, `Undelivered` |
| `applying` | the committed message is applied | `ReceiveHost`, `Revoke`, `Undelivered` |
| `revoking` | the answer to the revocation, with a grace of its own | `ReceiveHost`, `GraceEnds`, `Undelivered` |
| `settled` | nothing | |

`staged` and `completed` are the webview's ledgers (`stageKustoPublication`,
`completedKustoPublications`). A deadline is a time both sides were told: once it is in `late`,
host and webview act on it in either order. `FollowUp` is the cancellation the host sends after a
terminal that is not known to be applied, `lock` the policy lock a result and the ready message
are published under and every dispatch takes. A run that starts in the host (`StartClaimed`) is a
claim that the webview answers (`OnStarted`). `comparing` is the one place where the webview
applies a publication in more than one step: the ready message of an optimization runs the source
query and waits for it. Messages arrive in order; those of `MaxTroubled` transactions may be
lost, refused by the transport or late. Requests the webview makes itself are not lost.

### RecoverableState

`primary`, `slot`, `commit` and `marker` are files; a write is an atomic rename and happens or
fails. A transaction takes the lock, writes the backup in the slot the commit does not name,
then the primary, the commit record and the marker; if the commit record cannot be written the
primary is put back. A window may crash before any step. `ReadPrimary`, `ReadCommit`,
`VerifySlot`, `ParseSlot` are the file reads of a refresh that holds no lock, `Repair` its write.
The hash of a text is the text. `legacy`, `last` and `recent` are history.

`AtomicRegister` is the promise: a register whose value changes at once, from one commit to the
next, and never to an offer that was withdrawn.

### KustoLntPolicy

Windows over one register `durable`. `snapshot` is a window's copy; `pending` holds the snapshots
it has read under the lock and not applied yet, which it applies in any order, as `applySnapshot`
is reached by three paths that do not wait for each other. `query` is an execution between
`prepareDispatch` and the end of its publication. `touched`, `orphaned`, `told` and `unmarked` are
history. The migration marker is written after the commit and on a best effort
(`writeSqlStateMarkerIfMissing`): a commit may leave it missing, and a policy lost then is
migrated over as if there had been none; `unmarked` counts such losses, `orphaned` marks the
queries under way at one (section 5). `applySnapshot` awaits the mirror in VS Code's global state
before it fires its event; the two are one step here. A dispatch while recovery is blocked is
allowed, as in the code: admission is what is refused.

### SqlExecution

One section. `generation`, `pending`, `preflight` are `SqlExecutionBroker`'s maps, `running` the
entry of the run registry; `toHost` and `toView` are the message channels; `active` and `token`
the webview section's. Manual runs go `preflight` - `running` - `checking` - `posting` - `posted`,
Copilot runs `preflight` - `admitted` - `announced` - `running` and on. `target` is a number for
the connection, database, principal and policy generation of the section's owner. A change made
elsewhere is `Revoke` at once, `Noticed` later and `PublishOwner` after that. A Copilot run whose
transport was cancelled posts the end of its execution where a manual run posts a cancellation;
the section treats both alike, and so does the model.

### StsProcess and StsOperation

`StsProcess` is one runtime of the SQL Tools Service: the one the extension shares, or the
protected one that a Leave-No-Trace operation has to itself (`protected`). `process`, `ready`,
`activeEpoch`, `restarts`, `timer` and `stopped` are `StsProcessManager`'s fields; `start` and
`stop` are where its two coroutines are suspended, `published`, `starting`, `attempt` and
`disposal` the same for `StsRuntime`. `manager` counts the managers created: one that has used up
its restarts is replaced. A process is a number, and names its epoch; `alive` is what the
operating system still runs.

| step of the code | action |
|---|---|
| `startCore` creates a manager, which spawns and records its process | `Install`, `Recorded`, `RecordFails` |
| the handshake is answered | `Initialized` |
| the process exits, and its exit is handled | `Crash`, `Exit` (`HandleExit`) |
| the restart timer, the timer that forgets old restarts | `Restart`, `Stable` |
| `stop()`: shutdown request, exit | `BeginStop`, `Shutdown`, `Stopped` |
| `dispose()` | `DisposeRuntime` |

`StsOperation` runs one `StsExecutionOperation` of `StsQueryService` on it. `op.stage` is the
await of the main coroutine, `op.clean` the one of the cleanup, which a cancellation starts
beside it: until the main coroutine notices, both run. `wire` and `answers` are requests and
responses in flight to each process, `connecting`, `sessions`, `running` and `held` what each
server does and keeps for this operation. A request may time out, its server may die under it and
a new one be started, other users may start the shared runtime, the service may be disposed
(`Close`, `CloseRuntime`). The actions follow the code's order: `Begin`, `Checked`, `Created`,
`Capture`, `OptionsBuilt`, `ConnectDispatched`, `Connected`, `Execute`, `ExecuteDispatched`,
`Accepted`, `Completed`, `NextPage`, `PageDispatched`, `PageRead`; `Throws` and `TimesOut` leave
any of them; `Leave` ends with the result once `CleanupSends`, `CleanupAnswered`,
`CleanupTimesOut`, `CleanupEnds` and `RuntimeDisposed` have settled. What a server does
with a request (`ServerReceives`, `ServerConnects`, `ServerCompletes`) is outside the repository
and modelled from how the service uses it.

### SidecarSession

One editor on a `.kql` file with an existing, linked sidecar. `doc` is the text of the VS Code
document, `file` the sidecar on disk, `view` what the webview shows with its revision `viewRev`
and source generation `viewGen`. `editRev`, `stateRev`, `sequence`, `dirty`, `base`, `closing`
and `flush` (final snapshots) are `CompatSidecarSession`'s; `known`, `sidecar` and `written` the
provider's `lastKnownSidecarState`, `sidecarFile` and `lastWrittenSidecarText`; `projGen`,
`activeGen`, `activeText`, `pending`, `epoch`, `authority` and `candidate` the projection
coordinator's. `jobs` is the promise chain `persistTail`: persists, saves and repairs run one
after the other, and a job's `stage` is the await it is in:

| job | stages | actions |
|---|---|---|
| persist | `queued`, `sanitizing`, `materializing`, `applying`, `applied`, `restoring` | `StartPersist`, `SanitizeState`, `MaterializeState`, `ApplySourceText`, `ResumeApplied`, `RestoreSourceText`; `PreparationFails` |
| save | `queued` | `SaveSidecar` |
| repair | `queued`, `repaired`, `projecting` | `RepairFile`, `AdoptRepair`, `RepairProjected`; `RepairFails` |

A persist that is no longer current is given up at every one of these steps (`IsCurrent`); if it
has already edited the source and a reload came meanwhile, it puts the reload's text back
(`MustRollBack`, `RestoreSourceText`). A projection is `preparing` (state is being sanitized),
`posted`, or `stalled`: one that timed out, was refused or overtaken stays in
`pendingProjection`, as in the code. `save` is the save of the source, from
`onWillSaveTextDocument` to `onDidSaveTextDocument`: `flushing` waits for the last snapshot,
`draining` for the queue, `storing` is a save that was prepared, and `forced` one that was not:
refused at once (`WillSave`), its snapshot failed (`SaveFlushed`), or too slow for the editor
(`SaveTimesOut`). `close` is the steps of `runClose`.
`unseen` and `save.at` are history; `known.by` stands for the object identity of
`lastKnownSidecarState`.

Taken from outside the code: VS Code refuses an edit made for an older version of the document;
it writes a document also when the promise given to `waitUntil` is rejected or takes too long
(there is no veto); messages of a webview arrive in order; a webview
that is torn down may or may not send a last snapshot. An edit changes the text or the metadata.
Texts are not blank, which leaves out the rule that a blank snapshot does not blank the file.

### NotebookDocument

A notebook file open in one panel. A text has two parts: the owned sections, which the host
writes on command of the webview, and the rest, which the webview sends as snapshots. An owned
part is the number of the last edit made elsewhere and the commands applied since; a rest is a
number.

| part | code | actions |
|---|---|---|
| commands: `view`, `optimistic`, `pending`, `blocked` | `webview/core/markdown-document-client.ts` | `DispatchCommand`, `ReceiveResult`, `CommandTimesOut` |
| the rest: `rest`, `clean`, `timer`, `unacked` | `webview/core/persistence.ts` | `EditRest`, `SendSnapshot`, `ReceiveAck`, `ReceiveData` |
| the owner's queue `host.queue` | `host/kqlxEditorProvider.ts` | commands: `AdmitCommand`, `RunCommand`, `ResumeCommand`; snapshots: `AdmitSnapshot`, `RunSnapshot`, `PrepareSnapshot`, `ResumeSnapshot`; both: `Apply`, `ApplyRollback`, `ResumeCommandRollback`, `ResumeSnapshotRollback` |
| projections `host.posts` and the active one | `postDocument`, `postInitialDocument`, `ensureInitialDocument` | `Post`, `ReloadResult`, `ReloadTimesOut` |
| a save: `host.save` | `onWillSaveTextDocument` to `onDidSaveTextDocument`, its lease in the queue | `WillSave`, `BarrierResult`, `SaveDrained`, `FinalSnapshot`, `StoreDocument`, `DidSave`, and their timers |

`host.authority` is `latestAuthority`; another text is a new authority (`Fence`), which revokes
the snapshots in the queue and refuses a save that waits for commands (`Retire`).
`host.expected` is `ownedDocumentEdits`, the texts whose change event the panel will take for its
own. The constants 3 and 4 of attempts are the code's. `kept`, `replaced`, `owed`, `missed` and
`unsent` are history. Taken from outside the code: VS Code applies an edit only to the document
version it was made for, fires a change event for a replacement by the same text too, and writes
the document as it stands when the promise given to `waitUntil` is rejected, which changes nothing
the model keeps: the document is the same and the host has given the save up (`Refused`).
`isPersistCurrent` also compares
`persistRequestGeneration`; that is not kept, since a final snapshot comes only while its save's
lease holds the queue and no other snapshot runs.

## 3. The runs

Every run finishes within its five minutes on two workers.

| run | question | bounds and why they are enough |
|---|---|---|
| `execution_sections` | can two executions of a section be answered twice, never, or leave a query running, while the section opens, moves and closes | 1 box, 2 instances, 1 webview-started and 1 host-started execution, 1 generation. Boxes share only `sequence`, so one is enough; replacement needs two executions; reopening needs two instance ids |
| `execution_services` | can a result of an old connection, account or protection be published; what another engine in the same box can break; does every execution end | 1 host-started execution and foreign runs in a shared box, 2 generations, 2 revisions, 2 account changes, 1 policy change: each change once before and once after each await |
| `kusto_publication` | is what the host believes of a publication true; does a run go on unseen; does every publication and every run end | 3 runs started by either side, 1 transaction whose messages may be lost, refused or late, 3 events in all. Safety held with 4 events as well (6.3 million states) |
| `optimize_second_terminal` | is an optimization ended twice (a violation, see below) | 1 run and the optimization, no faults |
| `state_files` | crashes, failed writes and damage between any two writes, and readers without a lock | 2 windows, 1 reader, 3 texts, 2 faults, 1 damaged file: two transactions alternate the slots, a third would reuse the first's; a fault during a write and one during its rollback; with one damaged file the other copies remain |
| `lnt_windows` | can a query dispatched before a change be admitted after it; can a loss open what was protected; can a window miss a revocation; do windows converge | 2 windows, 1 cluster, 1 query, 2 versions (protect and unprotect between two reads), 3 starts, 1 loss (with or without the marker), 1 lock timeout |
| `sql_sections` | two kinds of run, cancellation, retargeting, revocation, a restart of the session | 1 manual and 1 Copilot run, 2 targets, 1 restart, 1 fault (a start that throws or a lock that times out). The properties speak of two executions at a time, so a third would only repeat a pair |
| `sts_operation` | what is left on a server when an operation has ended; when a protected result is given out; does disposal stop everything; does every operation end | 1 restart and 2 crashes (one to restart from, one that uses the restarts up, so the manager is replaced), 1 page, 1 timeout |
| `sts_protected_leak` | does a protected process outlive its operation (a violation, see below) | no crash, no timeout |
| `sidecar` | do webview, document and draft come to agree; does a prepared save store what is shown; does a close drop nothing unasked; do protected rows come back; is a save or a close ever stuck | 1 edit in the webview, 2 of the source elsewhere (the second is what makes a rollback have an authority newer than its admission), 1 foreign write, 1 final snapshot, 1 policy change, 1 failure or timeout, 4 of these together. Two edits in the webview, and without foreign writes and policy changes two with two final snapshots, held as well (12.5 and 8.2 million states) |
| `sidecar_overwrite` | is metadata ever replaced by a window that has not seen it (a violation, see below) | 1 edit, 1 foreign write, 1 policy change |
| `notebook` | is an accepted command ever lost; is an edit made elsewhere replaced unseen; do webview, host and document come to agree | 2 commands, 2 edits of the rest, 2 edits elsewhere, 2 saves, 2 faults, 4 of these together: any two writers twice. 5 together, with 1 save and 1 fault, held as well (11.2 million states) |

`MaxGen`, `MaxRevision`, `MaxAccount`, `MaxPolicy`, `MaxRuns`, `MaxTroubled`, `MaxFaults`,
`MaxDamage`, `MaxVersion`, `MaxStarts`, `MaxLosses`, `MaxTimeouts`, `MaxTargets`, `MaxSessions`,
`MaxCrashes`, `MaxPages`, `MaxEdits`, `MaxExternal`, `MaxForeign`, `MaxFlushes`, `MaxPolicies`,
`MaxCommands`, `MaxSaves` and `MaxEvents` (several of the others together) bound counters in the
guards of the actions that count. `MaxRestarts` is the code's `MAX_RESTARTS`, made small.
Deadlock is not checked: when the user does nothing more and every execution has ended, the
system rests. `sidecar` checks by `NeverStuck` that this is the only way it rests: a save or a
close under way always has an enabled step, and the steps of the program are finitely many
between two events from outside, so it comes to its end.

What each property says is stated above its definition. Every property of every run is paired in
`PROJECT.json` with a plausible fault of the code (`mutants`; the faulty definitions stand beside
the right ones, marked `mutant:`) that makes TLC find it violated.

### Disagreements between the code and what it says of itself

`sidecar_overwrite` finds `NoBlindOverwrite` violated. A sidecar that changed elsewhere is to be
refused: "The companion sidecar changed in another window. Reopen it before saving metadata."
(`host/compatSidecarStore.ts:34`). But a repair, which follows a change of the Leave-No-Trace
policy, takes whatever the file holds as `lastWrittenSidecarText`
(`host/kqlCompatEditorProvider.ts:682`), also what another window has just written; a snapshot
of the webview that is on its way then becomes a draft on that baseline, and the save replaces
what the other window wrote. `DraftKeepsItsBaseline` is what does hold: a draft that existed when
the other window wrote keeps its own baseline (`rebaseDraftBase`) and is refused.

`sts_protected_leak` finds `NoProcessLeft` violated. A protected runtime is private to its
operation and is to be shut down with it (`src/ARCHITECTURE.md:850`). `createProtectedRuntime`
(`host/sql/stsQueryService.ts:466`) awaits the sandbox directory before the operation holds the
runtime; an operation that is cancelled in that await has ended, with a cleanup that found no
runtime, when the directory is there, and the process started then has nobody to stop it.

`optimize_second_terminal` finds `NoSecondTerminal` violated. A lost acknowledgement is to converge
"instead of producing a contradictory cancellation or second terminal" (`src/ARCHITECTURE.md:737`).
The ready message of a standalone optimization is published under the policy lock
(`host/queryEditorCopilot.ts:2908`); the webview acknowledges it after it has run the source
query, whose dispatch waits for the same lock. So the publication is revoked at its deadline and
an error is sent while the webview is still applying the ready message. The refusal of that
message is therefore left out of `AnswerIsTruth`.

### Fairness

Only what the code or its platform promises:

- `KustoExecution`: the claim has a 5 s timer; saving, account refresh and lock waits settle or
  throw; a query runs under the client's timeout; a publication settles by its deadline. Users,
  services and other engines are under no obligation.
- `KustoPublication`: messages that are not lost arrive, queries end, the lock is given to whoever
  polls for it, and timers fire. One weak fairness of all these steps together is enough, as
  every behaviour is finite. `RunsEnd` holds for one transaction in trouble; with two, both
  attempts at the terminal may be lost, and the section shows the run until the user cancels it.
- `KustoLntPolicy`: a window that started initialises; the file watcher polls, so a refresh that
  is possible again and again happens (strong fairness: the lock comes and goes); what was read
  is applied; a publication settles.
- `StsOperation`: the process manager's steps happen, messages are delivered, and each await of
  the operation settles, by its timeout at the latest.

`SqlExecution`, `SidecarSession` and `NotebookDocument` state no fairness. What must not be
forgotten there is an invariant of the states in which nothing is left to do: `QuietMeansIdle`,
`QuietMeansAgreed`, `QuietMeansShown`.

## 4. The proofs

Each theorem holds for all values of the constants that satisfy the named `ASSUME`s of the
modules (sets of distinct values, natural bounds; `NoneIsNoProjection` says that `None`, the
`undefined` of `pendingProjection`, is no projection).

`KustoExecutionProofs`:

- `TypeCorrect`: `TypeOK`, strengthened by `StageInv`: a handler past its reservation has one.
- `OneTerminal`: every reservation is answered exactly once. `ExactlyOneTerminal` alone is not
  inductive: it must also be known that an execution that has not been submitted has no
  reservation and no terminal (`IdleInv`), that an active execution is active in its own box
  (`HomeInv`), and that the run of a box belongs to its active execution where no other engine
  uses it (`RunInv`), because the handler asks the registry whether it was displaced. The proof
  groups the actions by what they do to the slot: all but the submission are instances of
  `Ends(D)`, "the executions of D stop being active and are answered once".
- `CoordinatorIsSlot`: with no shared box, `KustoExecution` implements `SectionSlot`: each
  `Ends(D)` is a `Release` or a stutter, a submission a `Take` or a `Refuse`.
- `QueriesAreReached`: a query that runs is awaited by its handler and, where no other engine
  uses the box, is the run of its box, so the user can stop it (`OpenInv`; every step but a
  reservation and a start is `Reached`: who runs ran before).
- `AnsweredOnce`, `SuccessIsTrue`, `ResultIsNotRevoked`, `ResultFitsTarget`: the last two are
  action properties. The invariant `AnswerInv` says that an execution has at most one terminal on
  its way, a result only while its handler awaits it (`ChainInv`), that who is publishing holds
  the policy lock and was admitted under the policy of now (`LockInv`), and that a success was
  applied (`AppliedInv`). Every step is one of three forms (`StepForms`): it ends executions that
  were told nothing so far, without a result (`Calm`), it is the admission of a publication, or
  it is a delivery.

`RecoverableStateProofs`:

- `LastCommitIsRead`: a durable read gives the last commit or nothing, whatever is damaged. The
  invariant adds mutual exclusion by the lock and that a valid commit record carries `last`.
- `CommitIsForEver`: without damage a commit stays readable. The invariant says that a
  transaction under way writes into the slot the commit does not name.
- `FilesAreRegister`: the files implement the register.
- `RefreshIsRecent`: without damage, a refresh that takes no lock returns a snapshot that was the
  committed one at some moment of the refresh, or nothing. `RecentInv` says what its reads have
  established: the commit record they found named a commit of the time of the refresh.

`KustoLntPolicyProofs`:

- `LossIsClosed`, `AdmissionIsCurrent`: a loss that found the marker was of a policy, and the
  marker stays, so what is recovered is blocked (`Marked`). The generation a query was dispatched
  at is not ahead of the register and behind it once its cluster was changed, unless the policy
  it was dispatched under was lost without a marker (`Waiting`, `Dispatched`), and who publishes
  holds the lock (`Publishing`).
- `RevocationIsHeard`: a window that read the last change has told its editors, or is about to, as
  long as no loss was migrated over (`RevocationsKnown`). The invariant says that no snapshot of a
  window, applied or waiting, is ahead of the register, and that generations grow with the version
  (`AllBehind`), that the editors were told of the window's snapshot (`ToldOfSnapshot`), and that
  the last change is told or waits (`Heard`).

`SqlExecutionProofs`:

- `TypeCorrect`, and `OneOfTwo`: nothing is pending beside a running query.
- `RunningIsReachable`: a running query is the running entry of the section or was cancelled.
- `RowsAreOfTheNewest`: rows are posted only by the execution that was promoted last. `BrokerInv`
  carries it: superseding and promoting raise `generation`, so older grants are stale; a restart
  raises the target, so older owners differ; requests are unique, so a stage entered is entered
  once; and what is pending or running is the newest.
- `EndsAreTold`: a manual run that has ended was told how, with the exceptions of `NoSilentEnd`.
  `HeldInv` says that whoever the broker holds is at the stage it is held for, and that a run that
  was told nothing is held, so that whoever takes its place tells it (`BrokerStages`, `Answered`).
- `QuietSectionIsIdle`: when nothing is under way the section shows nothing as running. `ShownInv`
  is about the two message queues: what the section shows was sent under the token it has, or its
  end is under way or already posted behind what keeps it shown, or it was given up without one
  (`ShownManual`, `ShownCopilot`, `GivenUp`), and a token that is not the host's is followed by
  the one that is (`TokenFollows`).

`StsProcessProofs`:

- `DisposalIsFinal`: when a shared runtime has been disposed, no process runs, whatever exits,
  restart timers and starts were under way. The invariant says that at most one process runs and
  the manager knows it (`OneProcess`), that a restart timer is set only by a published manager
  without a process (`TimerInv`), that a stop is of the process the manager has and ends restarts
  and the start under way (`StopInv`), and that where the runtime neither has nor starts a manager
  there is no process (`RuntimeInv`). The operation's own steps are stutters of the process, or
  start or dispose of it.
- `RowsAfterShutdown`: under a protected policy rows are delivered only after their server has
  ended. A result is that of an operation that held its runtime to the end (`HoldInv`,
  `OutcomeInv`), and the epoch of a ready manager is that of its process (`ReadyInv`, `EpochInv`).
- `NothingIsLeft`: when an operation has ended and the channel to the server is empty, nothing of
  it is left on a server that goes on. `WireInv` reads that channel, which is first in, first
  out: a request that releases a query or a connection is behind the one that made it; what is
  not released yet the cleanup still owes (`ReleaseInv`), also if a request of it is never
  answered.

`KustoPublicationProofs`:

- `AnswersAreTrue`: what the host reports of a publication is true then and ever after.
  `PublicationInv` reads the two message queues as sets in which what is said once occurs once.
  Its parts: a publication is staged once, committed once, and a refusal is final (`PubInv`);
  only what took place is acknowledged (`TruthInv`); a run ends once, and a follow-up starts after
  what it follows has settled (`OrderInv`); runs are numbered as they begin (`BegunInv`), and a
  run that has begun is the one running or has ended (`RunningInv`). The parts are needed together:
  that an acknowledgement still on its way tells the truth depends on nothing having begun, ended
  or been revoked between its sending and its arrival.

- `NoRunIsInvisible`: the host does not go on with a run that the user can neither see nor stop.
  `SeenInv` speaks of positions in the queue to the host: behind every message that makes the
  host take up a run, or go on with it, there is one that stops it, unless the section shows the
  run. It needs that a claim names a run that has ended (`ClaimInv`), so replacing that run in the
  webview hides nothing; that only the active run can be held (`HeldInv`); and, from
  `PublicationInv`, that what is committed of a run is committed after its end.

`SidecarSessionProofs`:

- `RowsStayGone`: after the repair that follows a policy change, protected rows are not written
  again. Each writer sanitizes under the policy of the moment of the write; what has to be shown
  is that a repair waiting in the queue is not lost among the persists, saves and closes that
  share it (`KeepsRepair`, an action that every step but the change of policy and the repair is).
- `TypeCorrect`: `TypeOK`, of the state, the last snapshot of a save, and the messages (`TypeInv`).
- `SavesWhatIsShown`: what a prepared save stores is what the webview shows. `SavedInv` follows
  the last snapshot of a save (`SaveInv`): while it is asked for, it and every snapshot behind it
  is of what the webview shows; when it is in, so is the document, and nothing under way takes
  that back. That a later persist, reload or rollback does not needs the order of the admissions,
  of which only the last is current, and none while a projection is pending (`QueueInv`); that
  without a pending projection the webview has the latest, so its snapshot is not of an older one
  (`GenInv`); and that whatever carries the number of a request comes after the request
  (`AskInv`). It is about panels that have met neither a fault nor a change of policy (`Calm`), as
  the property is.
- `QuietIsAgreed`: when an open panel has settled, webview and host agree. `AgreedInv` says at
  every moment what will put it right: the last edit on its way carries what the webview shows,
  else the current persist does, else document and sidecar have it already (`CarriedInv`, of a
  webview that has the latest projection). A pending projection is of the document and will be
  taken (`ReloadInv`), since a source edit that makes it stale begins another. The hard part is
  the edit that a reload overtakes while the editor applies it: a job's epoch tells whether the
  document holds its text or the authority's (`HeadInv`), and the persist admitted since the last
  reload is the current one or followed by it (`WorkInv`), so a rollback puts back the text the
  reload shows and takes out no edit admitted after it. Revisions grow along the way of a
  snapshot, so the one that carries is never stale (`RevInv`). It uses `SavedInv`. TLC checked
  `AgreedInv` with four events, and five in part, before it was proved.
- `ClosesOnlyWhatIsSaved`: a panel that closes without a question leaves on disk the metadata it
  showed. An action property, from `ClosedInv`. What is persisted last must be what was shown
  last, and the host compares only numbers (sequence, generation, revision), so `OrderInv` says
  that the numbers tell the truth: jobs are admitted in order and only the first has started
  (`LineInv`);
  generations grow along both channels, and an answer that a projection was not applied comes
  before any snapshot of it (`WayInv`); what is still to come of a generation is of no earlier
  revision than what the host has of it (`FreshInv`). It holds after every fault and change of
  policy. With it, the snapshot of unload is the last message of the panel, of what the webview
  shows, and no repair waits for an answer that a disposed webview will not give (`UnloadInv`).
  Once it is in, the current persist carries it to the end, or nothing is left to persist and the
  host knows the metadata the webview shows; or else the source was edited elsewhere and does not
  have the webview's text (`LastInv`). Until a close is decided, a session without a draft
  knows what it wrote, and a repair rewrites the file in its own terms (`DraftInv`).
  `Sanitize` stays an operator of the policy throughout: texts are compared as they would be
  written (`Kin`). TLC checked `ClosedInv` before it was proved.

`NotebookDocumentProofs`:

- `AcceptedStays`: what the webview saw accepted stays in the document. That the document has
  every accepted command is far from inductive, as the host keeps texts that it may write much
  later: the authority's, the base, the edit and the rollback of the job under way, the text a
  revoked snapshot goes back to, and the edit of a save. `KeptInv` says that each of them has
  every command accepted and not edited over elsewhere, also those whose acceptance is still on
  its way to the webview (`Live`). A rollback of a snapshot needs that a snapshot not revoked is
  of the active projection and the current authority (`Revoked`), which rests on generations and
  authorities that are never used twice (`Generations`); a save's edit needs that the lease keeps
  the owner's entry as it was when the text was taken (`Flushing`, `Committing`); and when a
  command is accepted, no other job has started (`QueueHolds`), so nothing under way lacks it. The
  functions of the host are lemmas of their own: each keeps this of any state of the host.
- `OutsideStaysUntilShown`: what another editor wrote is shown before the panel replaces it. A
  text is known here by its marks, which edit elsewhere its owned part and its rest are of;
  `owed` is the history of the marks not shown yet. That a step replaces none of them depends on
  what was decided several awaits before, so `OwedInv` says it of everything under way: the
  document and the authority have all that is owed, and nothing is owed once the active
  projection is of the current authority (`AuthorityOwes`); a posted projection shows what it was
  made of, and when it has been applied, nothing in it is owed (`PostOwes`; it needs that no
  message is of a generation still to come, `MailBehind`); an edit that is still fresh writes over
  nothing owed, and a rollback goes to a text that has it (`HeadOwes`); a revoked snapshot goes
  back to a text that has it, also while it waits in the queue (`LossOwes`); a save makes its edit
  only while nothing is owed (`SaveOwes`). It uses `KeptInv` for the types, the generations and the
  authorities that are never used twice. TLC checked `OwedInv` with up to five events before it
  was proved, and found the exception of section 5 that the property now names.

Model-checked only: all liveness (`EveryExecutionSettles`, `WindowsConverge`, `PublicationsSettle`,
`RunsEnd`, `OperationSettles`) and `NeverStuck`, which contains ENABLED: TLAPS does not reach
them. Also `DraftKeepsItsBaseline` of `SidecarSession` and `QuietMeansShown` of
`NotebookDocument`.

## 5. What is not modelled

- Kusto: `runWithSnapshotLock`; an initialisation that is rejected; the gateway as a reason to
  refuse a publication, snapshots of connections, the invalidation of a document's runtime and
  the disposal of the host between stage and commit; the status and options messages of an
  optimization; a policy lock that times out during a publication. The webview's staged ledger
  forgets an entry after 10 s, which nobody can see: the host gives up after 6.
- State files: the theft of a stale lock from a live process; a torn write within one file
  (writes are renames).
- SQL: section instance ids and closing a section; the last sixteen cancelled ids the section
  remembers; comparisons and tool runs; the retries of the lifecycle's publications.
- STS: several operations at once (the others appear as users who start the shared runtime);
  database listing; the content of pages.
- Sidecars: the upgrade of a plain file and its leases; the recovery of a first projection that
  fails; the inside of the store (`writeFresh` and `repair` are one compare-and-swap each);
  `sqlCompatEditorProvider.ts`, which follows the same protocol.
- Notebooks: disposal of the panel, the session file, linked query files, malformed texts,
  protected rows restored after a save, several panels on one document, the publish commands.
- Everything listed as `not_modelled` in `PROJECT.json`: user interface, rendering, language
  services and exports keep no state two actors share; the remaining protocols are in the plan.

### Behaviours a reader may not expect

The models keep these; where a property makes an exception, one of them is the reason.

SQL. A manual run whose start throws waits for its owner's locks to post the error, neither
pending nor running; if another run is admitted meanwhile, the error is dropped and nobody tells
the section (`Unposted`; the user's own cancel clears it). The error or cancellation of any run
is posted under the same locks (`queryEditorCopilot.ts:3921`, `3945`, `3954` for Copilot's); when
they time out it is given up. A Copilot run then releases its lease and posts
`copilotWriteQueryDone`, which ends the request and not the execution: the section goes on showing
it as executing until the user cancels it. A `cancelled` may follow a `result` of
the same execution while the locks of its posting are still held; the section ignores it, as it
no longer shows that execution.

State files. A crash in the very first transaction over the files of an older release makes the
uncommitted primary unreadable, which the Leave-No-Trace stores take as lost, and block.

Kusto policy; why `NoAdmissionAcrossChange` and `LossFailsClosed` have their exceptions. The docs
say "If committed state and backup are unrecoverable after migration, recovery remains globally
fail closed" (`src/ARCHITECTURE.md:741`). The code knows of the migration by its marker, which is
written after the commit; a crash in between or a failed write, which is swallowed
(`sqlStateTransaction.ts:187`, `190-201`), leaves it missing until the next commit writes it. If
primary, backup and commit record are lost before that, a window that starts finds no marker
(`kustoLeaveNoTracePolicyStore.ts:245`) and migrates the global state again, unblocked and with
generations counted anew (`260-269`), so a query dispatched before the loss may be admitted after
it. It takes two faults at once, a lost write of the marker and the loss of every copy of the
policy. Windows that saw the lost policy keep their newer snapshot of it, and miss what is changed
after the migration until its version has passed theirs.

Saves of sidecars. `onWillSaveTextDocument` rejects a save "because a source update is still
settling" (`kqlCompatEditorProvider.ts:808`), and one whose last snapshot fails; the editor writes
the file all the same, and `onDidSaveTextDocument` saves the sidecar after it. What goes to disk
is then the document as it stands, which may be a text that is about to be rolled back or lack the
webview's last edit; it stays so until the next save. `SavedIsShown` is therefore about prepared
saves; all other properties of `SidecarSession` hold for every save.

Sidecars; why `QuietMeansAgreed` and `SavedIsShown` leave out policy changes. The webview refuses
the reload of a repair when it has a newer edit; if the source was edited since the last
projection too, the snapshot of that edit does not supersede the reload
(`pending.sourceText === activeSourceText` fails), which stays pending, and every later snapshot
is rejected until the source is reloaded again. After a repair that kept a dirty draft, a reload
of the source shows the repaired file and not the draft. A snapshot made before a reload may
supersede the projection of a repair when the source went back to its earlier text. And a
repair's projection may replace a reload that is shown and not acknowledged, after which an older
snapshot is admitted over it.

Notebooks; why `QuietMeansShown` and `OutsideIsShown` have their exceptions:

- A reload overtaken by the panel's own edit is dropped, and own edits post nothing (`missed`). A
  command whose answer times out while its edit is in flight blocks the webview's queue; if the
  reload it asks for is dropped this way, later commands are refused until something else reloads.
- After a rollback that restored an identical text, saves are refused although the document is
  what the authority holds; after a rollback that was refused, the document keeps the rejected
  command and saves are refused (`host.unrestored`).
- The webview compares a text only with the last one acknowledged. If the user returns to that
  text while another snapshot, or the last one of a save, is on its way, nothing is sent, and the
  file keeps the edit that was undone (`unsent`).
- A snapshot queued behind the lease of a save is applied after the save, and may put back an
  older rest. If a save's last snapshot comes late, it is ignored, and the webview's timer was
  cancelled for it: the edit stays in the webview until the next.
- An edit made elsewhere that equals an expected edit of the panel is taken for it; one made
  before the webview is initialized is not fenced; and one that returns to the authority's text
  is no new authority.
- The rollback of a revoked snapshot is tried up to three times while the document has the
  snapshot's text (`document.getText() !== candidateText` ends the loop). If another editor puts
  that very text back in between, say by undoing to what is on disk, it is rolled back too,
  unseen (`RolledBack`).

## 6. Plan

Done: the Kusto execution with its slot, answers and publications, the state files with their
register, the Kusto policy, the SQL section, the server process and one operation on it, the
sidecar session, the notebook document.

1. To prove next: `QuietMeansShown`. `DraftKeepsItsBaseline` is not a candidate: it compares
   texts, and with two foreign edits the sidecar may return to an earlier one.
2. `SidecarStore`: upgrade leases, the first projection's recovery, and the compare-and-swap of
   the file against other windows and crashes (`ownedFilePublication.ts`).
3. `StartupGateway` (the two queues and retirement) composed with `NotebookDocument`; several
   panels on one notebook.
4. `FirstLaunch` (journal and lease), the SQL policy store with its cache generation, the schema
   coordinators, Python runs.
