--------------------------- MODULE NotebookDocument ---------------------------
(***************************************************************************)
(* A notebook file (.kqlx, .sqlx, .mdx) open in one panel.  Two writers    *)
(* share its VS Code document.  The Markdown, chart and other "owned"      *)
(* sections belong to the host: the webview sends a command for each       *)
(* change and shows its outcome at once.  The rest of the notebook belongs *)
(* to the webview, which sends snapshots of it.  The host works through    *)
(* commands, snapshots and the leases of saves in one queue, posts a       *)
(* projection of the document whenever it changes elsewhere, and revokes   *)
(* what was made against an older text.                                    *)
(*                                                                         *)
(* A step ends where the code awaits something outside the extension host. *)
(***************************************************************************)
EXTENDS Naturals, Sequences, FiniteSets, Bags

CONSTANTS
    MaxCommands,          \* bound on commands of the webview
    MaxEdits,             \* ... on its edits of the rest
    MaxExternal,          \* ... on edits of the document elsewhere
    MaxSaves,             \* ... on saves
    MaxFaults,            \* ... on refused edits and on timers that beat an answer
    MaxEvents,            \* ... on all of these together
    None

(* A text: its owned part is what an edit elsewhere left (a number) and    *)
(* the commands applied since, its rest what an edit of either side left.  *)
Owned == [base : Nat, cmds : Seq(Nat)]

Texts == [owned : Owned, rest : Nat]

ASSUME NotebookAssumption ==
    /\ {MaxCommands, MaxEdits, MaxExternal, MaxSaves, MaxFaults, MaxEvents} \subseteq Nat
    /\ None \notin Nat \cup Texts

InitialAttempts == 4                         \* INITIAL_PROJECTION_MAX_ATTEMPTS
EditAttempts == 3

VARIABLES
    doc, saved,           \* the document's text, and what is on disk
    view, optimistic,     \* webview: the projection it adopted, and with its commands
    pending, blocked,     \* webview: commands without an answer, is the queue blocked?
    waiting,              \* webview: a save that waits for the commands
    rest, clean,          \* webview: its own part of the notebook, and as last acknowledged
    timer, unacked,       \* webview: is a snapshot due? the snapshots without an answer
    toHost, toView,       \* messages in flight
    host,                 \* the host's side of the panel (see Init)
    issued, edits, externals, saves, faults,
    kept, replaced,       \* history: commands seen accepted; edited over elsewhere;
    owed, missed,         \* what the webview is still to be shown of those edits; was
    unsent                \* one not shown in time? did the webview drop its text as not new?

commandVars == <<view, optimistic, pending, blocked, waiting>>
restVars == <<rest, clean, timer, unacked>>
webVars == <<commandVars, restVars>>
channelVars == <<toHost, toView>>
boundVars == <<issued, edits, externals, saves, faults>>
historyVars == <<kept, replaced, owed, missed, unsent>>
vars == <<doc, saved, webVars, channelVars, host, boundVars, historyVars>>

FirstText == [owned |-> [base |-> 0, cmds |-> <<>>], rest |-> 0]

NoSave == [stage |-> "none", id |-> 0, gen |-> 0, rev |-> 0, token |-> 0, text |-> None,
           edit |-> FALSE, fresh |-> FALSE, atomic |-> FALSE]

Room == issued + edits + externals + saves + faults < MaxEvents

Fault == faults < MaxFaults /\ Room /\ faults' = faults + 1

Init ==
    /\ doc = FirstText /\ saved = FirstText
    /\ view = [gen |-> 1, rev |-> 0, owned |-> FirstText.owned]
    /\ optimistic = [rev |-> 0, owned |-> FirstText.owned]
    /\ pending = <<>> /\ blocked = FALSE /\ waiting = None
    /\ rest = FirstText.rest /\ clean = FirstText.rest /\ timer = FALSE /\ unacked = {}
    /\ toHost = <<>> /\ toView = <<>>
    /\ host = [authority |-> [token |-> 1, text |-> FirstText],  \* latestAuthority
               observed |-> 0,                   \* sourceObservationSequence
               postGen |-> 1,                    \* postDocumentGeneration
               activeGen |-> 1, activeToken |-> 1,  \* the active projection
               entry |-> [rev |-> 0, owned |-> FirstText.owned, text |-> FirstText],
               posts |-> {},                     \* calls of postDocument under way
               initialized |-> TRUE,             \* webviewInitialized
               recovery |-> None,                \* initialProjectionRecovery
               expected |-> EmptyBag,            \* ownedDocumentEdits
               unrestored |-> None,              \* sourceRollbackFailedCandidate
               queue |-> <<>>,                   \* the owner's queue
               save |-> NoSave]                  \* the save under way
    /\ issued = 0 /\ edits = 0 /\ externals = 0 /\ saves = 0 /\ faults = 0
    /\ kept = {} /\ replaced = {} /\ owed = {} /\ missed = FALSE /\ unsent = FALSE

(* What an edit elsewhere may have put into a text. *)
Marks(text) == {<<"owned", text.owned.base>>, <<"rest", text.rest>>}

Elements(q) == {q[i] : i \in DOMAIN q}

-----------------------------------------------------------------------------
(* The host's projections, as functions of the state of the host.          *)

(* Another text or another projection revokes the snapshots in the queue   *)
(* and refuses a save that waits for the webview's commands.               *)
Retire(h) ==
    [h EXCEPT !.queue = [i \in DOMAIN h.queue |->
                           IF h.queue[i].kind = "snapshot"
                           THEN [h.queue[i] EXCEPT !.lost = h.authority.text] ELSE h.queue[i]],
              !.save = IF @.stage \in {"barrier", "draining"} THEN NoSave ELSE @]

(* fencePersistenceForProjection: another text is a new authority. *)
Fence(h, text) ==
    LET f == IF h.authority.text = text THEN h
             ELSE [h EXCEPT !.authority = [token |-> @.token + 1, text |-> text]]
    IN IF f.authority.token = f.activeToken THEN f ELSE Retire(f)

(* postDocument, up to its preparations. *)
StartPost(h, text, force, origin, retry) ==
    LET f == Fence(h, text)
        p == [gen |-> f.postGen + 1, stage |-> "preparing", text |-> text,
              token |-> f.authority.token, epoch |-> f.observed, force |-> force,
              origin |-> origin, retry |-> retry, made |-> None]
    IN [f EXCEPT !.postGen = @ + 1, !.posts = @ \cup {p}]

Reload(h, text) == StartPost(h, text, TRUE, "change", FALSE)

StartRecovery(h, text, followUp) ==
    StartPost([h EXCEPT !.recovery = [attempt |-> 1, restart |-> FALSE, followUp |-> followUp]],
              text, FALSE, "initial", FALSE)

(* ensureInitialDocument, of a webview that is not initialized *)
EnsureInitial(h, text) ==
    IF h.recovery # None THEN [h EXCEPT !.recovery.restart = TRUE]
    ELSE StartRecovery(h, text, TRUE)

(* postInitialDocument and settleInitialProjection, when an attempt ended *)
EndAttempt(h, delivered) ==
    IF delivered
    THEN [h EXCEPT !.initialized = TRUE, !.recovery = None]
    ELSE IF h.recovery.attempt < InitialAttempts
    THEN StartPost([h EXCEPT !.recovery.attempt = @ + 1], doc, TRUE, "initial", FALSE)
    ELSE IF ~h.initialized /\ h.recovery.restart /\ h.recovery.followUp
    THEN StartRecovery(h, doc, FALSE)
    ELSE [h EXCEPT !.recovery = None]

(* postDocument returns to its caller. *)
Return(h, p, delivered) ==
    LET g == [h EXCEPT !.posts = @ \ {p}] IN
    CASE p.origin = "change" -> g
      [] p.origin = "request" -> [g EXCEPT !.initialized = delivered]
      [] p.origin = "initial" -> EndAttempt(g, delivered)

(* The reload has been answered or given up; a text that is not the active *)
(* one is posted once more.                                                *)
EndReload(h, p, accepted) ==
    IF /\ ~accepted /\ ~p.retry
       /\ p.token # h.activeToken /\ p.gen = h.postGen
       /\ h.authority.token = p.token /\ doc = p.text
    THEN StartPost([h EXCEPT !.posts = @ \ {p}], doc, TRUE, p.origin, TRUE)
    ELSE Return(h, p, accepted)

(* onDidChangeTextDocument: a change this panel expected is its own. *)
Changed(h, text) ==
    LET own == BagIn(text, h.expected)
        g == IF own THEN [h EXCEPT !.expected = @ (-) SetToBag({text})] ELSE h
    IN IF ~g.initialized THEN EnsureInitial(g, text)
       ELSE IF own THEN g
       ELSE Reload(g, text)

(* An edit under way is not made in a document that has changed since. *)
Outdate(h) ==
    [h EXCEPT !.queue = [i \in DOMAIN h.queue |-> [h.queue[i] EXCEPT !.fresh = FALSE]],
              !.save.fresh = FALSE]

Expect(h, text) == [h EXCEPT !.expected = @ (+) SetToBag({text})]

Cancel(h, text) == [h EXCEPT !.expected = @ (-) SetToBag({text})]

SameOwned(entry, text) == entry.owned = text.owned

(* ensureMarkdownDocumentOwner: a change of the owned part is a revision. *)
Materialize(entry, text) ==
    [rev |-> IF SameOwned(entry, text) THEN entry.rev ELSE entry.rev + 1,
     owned |-> text.owned, text |-> text]

(* postDocument, after its preparations. *)
Post(p) ==
    /\ p.stage = "preparing"
    /\ IF p.gen = host.postGen /\ doc = p.text
       THEN LET made == Materialize(host.entry, p.text) IN
            /\ host' = [host EXCEPT !.posts = (@ \ {p}) \cup
                           {[p EXCEPT !.stage = "posted", !.made = made]}]
            /\ toView' = Append(toView, [type |-> "data", gen |-> p.gen, force |-> p.force,
                                         rev |-> made.rev, owned |-> made.owned,
                                         rest |-> p.text.rest])
       ELSE host' = Return(host, p, FALSE) /\ UNCHANGED toView
    /\ missed' = (missed \/ (p.gen = host.postGen /\ doc # p.text))
    /\ UNCHANGED <<doc, saved, webVars, toHost, boundVars, kept, replaced, owed, unsent>>

ReloadTimesOut(p) ==
    /\ p.stage = "posted" /\ Fault
    /\ host' = EndReload(host, p, FALSE)
    /\ UNCHANGED <<doc, saved, webVars, channelVars, issued, edits, externals, saves,
                   historyVars>>

(* activateProjection *)
Activate(p) ==
    [Retire(host) EXCEPT !.activeGen = p.gen, !.activeToken = p.token, !.entry = p.made,
                         !.unrestored = IF p.text = @ THEN @ ELSE None]

SourceNotRead(p) == TRUE                     \* mutant: the document is not looked at again

SourceCurrent(p) == host.observed = p.epoch /\ doc = p.text

(* documentReloadResult *)
ReloadResult(m) ==
    LET found == {p \in host.posts : p.stage = "posted" /\ p.gen = m.gen} IN
    IF found = {} THEN host
    ELSE LET p == CHOOSE q \in found : TRUE
             latest == p.gen = host.postGen /\ host.authority.token = p.token
         IN IF m.applied /\ latest /\ SourceCurrent(p)
            THEN EndReload(Activate(p), p, TRUE)
            ELSE IF m.applied /\ latest
            THEN EndReload(Reload(host, doc), p, FALSE)
            ELSE EndReload(host, p, FALSE)

-----------------------------------------------------------------------------
(* The webview: commands.                                                  *)

WithCommand(owned, id) == [owned EXCEPT !.cmds = Append(@, id)]

(* dispatchCommand *)
DispatchCommand ==
    /\ ~blocked /\ issued < MaxCommands /\ Room
    /\ LET id == issued + 1
           expected == [rev |-> optimistic.rev + 1, owned |-> WithCommand(optimistic.owned, id)]
       IN /\ optimistic' = expected
          /\ pending' = Append(pending, [id |-> id, gen |-> view.gen, expected |-> expected])
          /\ toHost' = Append(toHost, [type |-> "command", id |-> id, gen |-> view.gen,
                                       rev |-> optimistic.rev])
    /\ issued' = issued + 1
    /\ UNCHANGED <<doc, saved, view, blocked, waiting, restVars, toView, host,
                   edits, externals, saves, faults, historyVars>>

BarrierReply(id, accepted, v) ==
    [type |-> "barrier", id |-> id, gen |-> v.gen, rev |-> v.rev, accepted |-> accepted]

(* The commands still pending become left, the queue blocked or not;       *)
(* failed says that commands have been given up, and v is the projection.  *)
(* A save that waits for the commands is answered (notifyQueueWaiters).    *)
Settle(left, isBlocked, failed, v, sent) ==
    /\ pending' = left /\ blocked' = isBlocked /\ view' = v
    /\ IF waiting = None
       THEN toHost' = toHost \o sent /\ UNCHANGED waiting
       ELSE IF left = <<>>
       THEN /\ toHost' = (toHost \o sent) \o
                   <<BarrierReply(waiting.id, ~isBlocked /\ ~failed /\ ~waiting.failed, v)>>
            /\ waiting' = None
       ELSE /\ toHost' = toHost \o sent
            /\ waiting' = [waiting EXCEPT !.failed = @ \/ failed]

(* blockQueueAndReload *)
BlockQueueAndReload == Settle(<<>>, TRUE, TRUE, view, <<[type |-> "request"]>>)

CommandTimesOut ==
    /\ pending # <<>> /\ Fault
    /\ BlockQueueAndReload
    /\ UNCHANGED <<doc, saved, optimistic, restVars, toView, host,
                   issued, edits, externals, saves, historyVars>>

Projection(m) == [rev |-> m.rev, owned |-> m.owned]

(* handleHostOwnedMarkdownCommandResult *)
ReceiveResult(m) ==
    LET found == {i \in DOMAIN pending : pending[i].id = m.id}
        adopted == [view EXCEPT !.rev = m.rev, !.owned = m.owned]
    IN IF found = {} THEN UNCHANGED <<commandVars, toHost, kept>>
       ELSE LET i == CHOOSE k \in found : TRUE
                left == SelectSeq(pending, LAMBDA q : q.id # m.id)
                asExpected == m.gen = pending[i].gen /\ Projection(m) = pending[i].expected
            IN CASE m.ok /\ asExpected ->
                      /\ Settle(left, blocked, FALSE, adopted, <<>>)
                      /\ optimistic' = IF left = <<>> THEN Projection(m) ELSE optimistic
                      /\ kept' = kept \cup {m.id}
                 [] ~m.ok /\ m.gen = view.gen ->
                      /\ Settle(<<>>, FALSE, TRUE, adopted, <<>>)
                      /\ optimistic' = Projection(m)
                      /\ UNCHANGED kept
                 [] OTHER -> BlockQueueAndReload /\ UNCHANGED <<optimistic, kept>>

(* requestMarkdownCommandBarrier *)
ReceiveBarrier(m) ==
    /\ UNCHANGED <<view, optimistic, pending, blocked>>
    /\ IF m.gen # view.gen
       THEN toHost' = Append(toHost, BarrierReply(m.id, FALSE, view)) /\ UNCHANGED waiting
       ELSE IF pending = <<>>
       THEN toHost' = Append(toHost, BarrierReply(m.id, ~blocked, view)) /\ UNCHANGED waiting
       ELSE waiting' = [id |-> m.id, failed |-> FALSE] /\ UNCHANGED toHost

-----------------------------------------------------------------------------
(* The webview: the rest of the notebook.                                  *)

(* The user changes the rest, perhaps back to what was acknowledged last.  *)
EditRest ==
    /\ edits < MaxEdits /\ Room
    /\ rest' \in {MaxExternal + edits + 1, clean} \ {rest}
    /\ timer' = TRUE
    /\ edits' = edits + 1
    /\ UNCHANGED <<doc, saved, commandVars, clean, unacked, channelVars, host,
                   issued, externals, saves, faults, historyVars>>

(* A snapshot holds the owned sections too, as the host acknowledged them. *)
State == [owned |-> view.owned, rest |-> rest]

(* schedulePersist's timer: what is not new is not sent. *)
SendSnapshot ==
    /\ timer /\ timer' = FALSE
    /\ unsent' = (rest = clean)
    /\ IF rest = clean THEN UNCHANGED <<toHost, unacked>>
       ELSE /\ toHost' = Append(toHost, [type |-> "snapshot", id |-> edits, gen |-> view.gen,
                                         state |-> State])
            /\ unacked' = unacked \cup {[id |-> edits, rest |-> rest]}
    /\ UNCHANGED <<doc, saved, commandVars, rest, clean, toView, host, boundVars,
                   kept, replaced, owed, missed>>

(* acknowledgePersistDocument *)
ReceiveAck(m) ==
    LET found == {s \in unacked : s.id = m.id} IN
    /\ UNCHANGED <<rest, timer>>
    /\ IF found = {} THEN UNCHANGED <<clean, unacked>>
       ELSE /\ clean' = (CHOOSE s \in found : TRUE).rest
            /\ unacked' = {s \in unacked : s.id > m.id}

(* handleDocumentDataMessage: after the first one only with forceReload. *)
ReceiveData(m) ==
    LET reply(applied) == <<[type |-> "reload", gen |-> m.gen, applied |-> applied]>> IN
    IF ~m.force
    THEN toHost' = toHost \o reply(m.gen = view.gen) /\ UNCHANGED <<webVars, owed, unsent>>
    ELSE /\ Settle(<<>>, FALSE, pending # <<>>,
                   [gen |-> m.gen, rev |-> m.rev, owned |-> m.owned], reply(TRUE))
         /\ optimistic' = Projection(m)
         /\ rest' = m.rest /\ clean' = m.rest /\ timer' = FALSE /\ unacked' = {} /\ unsent' = FALSE
         /\ owed' = owed \ Marks(m)

ReceiveView ==
    /\ toView # <<>> /\ toView' = Tail(toView)
    /\ LET m == Head(toView) IN
       CASE m.type = "data" -> ReceiveData(m) /\ UNCHANGED kept
         [] m.type = "result" -> ReceiveResult(m) /\ UNCHANGED <<restVars, owed, unsent>>
         [] m.type = "barrier" -> ReceiveBarrier(m) /\ UNCHANGED <<restVars, kept, owed, unsent>>
         [] m.type = "ack" -> ReceiveAck(m) /\ UNCHANGED <<commandVars, toHost, kept, owed, unsent>>
         [] m.type = "flush" ->
              /\ toHost' = Append(toHost, [type |-> "flush", id |-> m.id, gen |-> view.gen,
                                           state |-> State])
              /\ timer' = FALSE /\ unsent' = FALSE
              /\ UNCHANGED <<commandVars, rest, clean, unacked, kept, owed>>
    /\ UNCHANGED <<doc, saved, host, boundVars, replaced, missed>>

-----------------------------------------------------------------------------
(* The owner's queue: a command (ask is the revision it expects) or a      *)
(* snapshot (ask is the state) is worked on while it is the head.           *)

NewJob(kind, id, ask, h) ==
    [kind |-> kind, id |-> id, ask |-> ask, gen |-> h.activeGen, token |-> h.activeToken,
     stage |-> "queued", base |-> None, want |-> None, to |-> None, lost |-> None,
     fresh |-> FALSE, tries |-> 0, seen |-> 0]

Result(id, ok, h) ==
    [type |-> "result", id |-> id, ok |-> ok, gen |-> h.activeGen, rev |-> h.entry.rev,
     owned |-> h.entry.owned]

Answer(id, ok, h) == toView' = Append(toView, Result(id, ok, h))

Job == host.queue[1]

Running(kind, stage) == host.queue # <<>> /\ Job.kind = kind /\ Job.stage = stage

AuthorityIgnored(j) == j.gen = host.activeGen /\ j.lost = None    \* mutant

(* isCommandCurrent; for a snapshot, isPersistCurrent *)
IsCurrent(j) ==
    /\ j.gen = host.activeGen /\ j.token = host.activeToken
    /\ host.authority.token = j.token
    /\ j.lost = None

Now(h, j) == [h EXCEPT !.queue[1] = j]

Done(h) == [h EXCEPT !.queue = Tail(@)]

(* markdownDocumentCommand, up to the queue *)
AdmitCommand(m) ==
    LET j == NewJob("command", m.id, m.rev, host) IN
    IF m.gen = host.activeGen /\ IsCurrent(j)
    THEN host' = [host EXCEPT !.queue = Append(@, j)] /\ UNCHANGED toView
    ELSE Answer(m.id, FALSE, host) /\ UNCHANGED host

(* persistDocument, up to the queue: nobody hears of a snapshot dropped. *)
AdmitSnapshot(m) ==
    host' = LET j == NewJob("snapshot", m.id, m.state, host) IN
            IF m.gen = host.activeGen /\ IsCurrent(j)
            THEN [host EXCEPT !.queue = Append(@, j)] ELSE host

(* The owner follows a text that differs only in the rest                  *)
(* (rebaseMarkdownOwnerFromSource), and the job starts on it.              *)
Begin(want) ==
    Expect(Now([host EXCEPT !.entry.text = doc],
               [Job EXCEPT !.stage = "applying", !.base = doc, !.want = want, !.fresh = TRUE]),
           want)

Fail(h) == host' = Done(h) /\ Answer(Job.id, FALSE, h)

JobSide == <<saved, webVars, toHost, issued, edits, externals, saves, historyVars>>

RunCommand ==
    /\ Running("command", "queued")
    /\ IF ~IsCurrent(Job) \/ ~SameOwned(host.entry, doc)
       THEN Fail(host)
       ELSE IF Job.ask # host.entry.rev
       THEN Fail([host EXCEPT !.entry.text = doc])
       ELSE /\ host' = Begin([doc EXCEPT !.owned = WithCommand(@, Job.id)])
            /\ UNCHANGED toView
    /\ UNCHANGED <<JobSide, doc, faults>>

AsSent(state, entry) == state                \* mutant: the owned sections are not overlaid

(* overlayOwnedMarkdownState: the owner's sections, in the webview's rest. *)
Overlay(state, entry) == [state EXCEPT !.owned = entry.owned]

RunSnapshot ==
    /\ Running("snapshot", "queued")
    /\ host' = IF ~IsCurrent(Job) \/ ~SameOwned(host.entry, doc) THEN Done(host)
               ELSE Now([host EXCEPT !.entry.text = doc],
                        [Job EXCEPT !.stage = "preparing", !.base = doc,
                                    !.want = Overlay(Job.ask, host.entry)])
    /\ UNCHANGED <<JobSide, doc, toView, faults>>

(* commitCurrentAuthorityText *)
Commit(h, text) == [h EXCEPT !.authority.text = text, !.observed = @ + 1]

Acknowledge ==
    /\ host' = Done([Commit(host, Job.want) EXCEPT !.entry.text = Job.want])
    /\ toView' = Append(toView, [type |-> "ack", id |-> Job.id])

(* The snapshot's last awaits before its edit.  What changes nothing is    *)
(* acknowledged if the text is still there; an edit whose base has drifted *)
(* is tried again.                                                         *)
PrepareSnapshot ==
    /\ Running("snapshot", "preparing")
    /\ IF ~IsCurrent(Job) \/ Job.tries = EditAttempts
       THEN host' = Done(host) /\ UNCHANGED toView
       ELSE IF Job.tries = 0 /\ Job.want = Job.base
       THEN IF doc = Job.base THEN Acknowledge
            ELSE host' = Reload(Done(host), doc) /\ UNCHANGED toView
       ELSE /\ UNCHANGED toView
            /\ host' = IF doc # Job.base
                       THEN Now(host, [Job EXCEPT !.base = doc, !.tries = @ + 1])
                       ELSE Expect(Now(host, [Job EXCEPT !.stage = "applying", !.fresh = TRUE]),
                                   Job.want)
    /\ UNCHANGED <<JobSide, doc, faults>>

(* The editor applies the edit, unless the document has changed since. *)
Apply ==
    /\ Running("command", "applying") \/ Running("snapshot", "applying")
    /\ \/ /\ Job.fresh
          /\ doc' = Job.want
          /\ LET h == Changed(Outdate(host), Job.want)
             IN host' = [h EXCEPT !.queue[1].stage = "applied"]
          /\ UNCHANGED <<toView, faults>>
       \/ /\ IF Job.fresh THEN Fault ELSE UNCHANGED faults
          /\ IF Job.kind = "command"
             THEN Fail(Cancel(host, Job.want))
             ELSE /\ host' = Now(Cancel(host, Job.want),
                                 [Job EXCEPT !.stage = "preparing", !.tries = @ + 1])
                  /\ UNCHANGED toView
          /\ UNCHANGED doc
    /\ UNCHANGED JobSide

StartRollback(h, j, to, tries) ==
    Expect(Now(h, [j EXCEPT !.stage = "restoring", !.to = to, !.tries = tries,
                            !.fresh = TRUE, !.seen = host.authority.token]), to)

Superseding(j) == host.authority.token > j.token

(* The edit has been applied: is what it was made against still current?   *)
ResumeCommand ==
    /\ Running("command", "applied")
    /\ IF doc # Job.want
       THEN Fail(host)
       ELSE IF IsCurrent(Job)
       THEN LET h == [Commit(host, Job.want) EXCEPT
                         !.entry = [rev |-> @.rev + 1, owned |-> Job.want.owned, text |-> Job.want]]
            IN host' = Done(h) /\ Answer(Job.id, TRUE, h)
       ELSE /\ host' = StartRollback(host, Job,
                           IF Superseding(Job) THEN host.authority.text ELSE Job.base, 1)
            /\ UNCHANGED toView
    /\ UNCHANGED <<JobSide, doc, faults>>

ResumeSnapshot ==
    /\ Running("snapshot", "applied")
    /\ IF doc # Job.want
       THEN host' = Reload(Done(host), doc) /\ UNCHANGED toView
       ELSE IF IsCurrent(Job)
       THEN Acknowledge
       ELSE /\ host' = StartRollback([host EXCEPT !.unrestored = Job.want], Job, Job.lost, 1)
            /\ UNCHANGED toView
    /\ UNCHANGED <<JobSide, doc, faults>>

(* An attempt of a rollback; nobody looks whether it was refused. *)
ApplyRollback ==
    /\ Running("command", "restoring") \/ Running("snapshot", "restoring")
    /\ \/ /\ Job.fresh
          /\ doc' = Job.to
          /\ LET h == Changed(Outdate(host), Job.to)
             IN host' = [h EXCEPT !.queue[1].stage = "restored"]
          /\ UNCHANGED faults
       \/ /\ IF Job.fresh THEN Fault ELSE UNCHANGED faults
          /\ host' = Now(Cancel(host, Job.to), [Job EXCEPT !.stage = "restored"])
          /\ UNCHANGED doc
    /\ UNCHANGED <<JobSide, toView>>

(* A command is rolled back again, to an authority that is newer still.    *)
ResumeCommandRollback ==
    /\ Running("command", "restored")
    /\ IF /\ ~(host.authority.token = Job.seen /\ doc = Job.to)
          /\ Job.tries < EditAttempts /\ Superseding(Job) /\ doc = Job.to
       THEN /\ host' = StartRollback(host, Job, host.authority.text, Job.tries + 1)
            /\ UNCHANGED toView
       ELSE Fail(IF doc = host.authority.text THEN host
                 ELSE [host EXCEPT !.unrestored = Job.want])
    /\ UNCHANGED <<JobSide, doc, faults>>

ResumeSnapshotRollback ==
    /\ Running("snapshot", "restored")
    /\ host' = IF doc # Job.to /\ doc = Job.want /\ Job.tries < EditAttempts
               THEN StartRollback(host, Job, Job.to, Job.tries + 1)
               ELSE Done([host EXCEPT !.unrestored = IF doc = Job.want THEN doc ELSE None])
    /\ UNCHANGED <<JobSide, doc, toView, faults>>

-----------------------------------------------------------------------------
(* Saving.                                                                 *)

SaveSide == <<webVars, toHost, issued, edits, externals, historyVars>>

(* The preparation is refused or fails.  The editor cannot be stopped by   *)
(* this and writes the document as it stands, which changes nothing here   *)
(* (`saved' is what a prepared save wrote).                                *)
Refused(h) == [h EXCEPT !.save = NoSave]

(* onWillSaveTextDocument asks the webview to settle its commands. *)
WillSave ==
    /\ host.save.stage = "none" /\ saves < MaxSaves /\ Room
    /\ host.unrestored = None
    /\ host' = [host EXCEPT !.save = [NoSave EXCEPT !.stage = "barrier", !.id = saves + 1,
                                                    !.gen = host.activeGen]]
    /\ toView' = Append(toView, [type |-> "barrier", id |-> saves + 1, gen |-> host.activeGen])
    /\ saves' = saves + 1
    /\ UNCHANGED <<SaveSide, doc, saved, faults>>

BarrierTimesOut ==
    /\ host.save.stage \in {"barrier", "draining"} /\ Fault
    /\ host' = Refused(host)
    /\ UNCHANGED <<SaveSide, doc, saved, toView, saves>>

(* markdownDocumentCommandBarrierResult *)
BarrierResult(m) ==
    IF host.save.stage # "barrier" \/ m.id # host.save.id THEN host
    ELSE IF m.accepted /\ m.gen = host.save.gen /\ host.save.gen = host.activeGen
    THEN [host EXCEPT !.save.stage = "draining", !.save.rev = m.rev]
    ELSE Refused(host)

Lease == NewJob("lease", 0, None, host)

HasLease(h) == h.queue # <<>> /\ h.queue[1].kind = "lease"

WithoutLease(h) == IF HasLease(h) THEN Done(h) ELSE h

(* The save goes on without the webview's last snapshot, with the text the *)
(* document has.                                                           *)
FailClosed(h) ==
    [h EXCEPT !.save.stage = "committing", !.save.text = doc, !.save.fresh = TRUE]

(* The queue is empty: the save takes the lease, which blocks the queue,   *)
(* and asks for the webview's final snapshot.                              *)
SaveDrained ==
    /\ host.save.stage = "draining" /\ host.queue = <<>>
    /\ LET h == [host EXCEPT !.queue = <<Lease>>, !.save.token = host.activeToken] IN
       IF host.save.gen # host.activeGen \/ host.save.rev > host.entry.rev
       THEN host' = Refused(host) /\ UNCHANGED toView
       ELSE IF host.authority.token = host.activeToken /\ SameOwned(host.entry, doc)
       THEN /\ host' = [h EXCEPT !.entry.text = doc, !.save.stage = "flushing",
                                 !.save.text = doc]
            /\ toView' = Append(toView, [type |-> "flush", id |-> host.save.id])
       ELSE host' = FailClosed(h) /\ UNCHANGED toView
    /\ UNCHANGED <<SaveSide, doc, saved, saves, faults>>

(* saveOwnerIsCurrent *)
SaveOwnerIsCurrent ==
    /\ host.activeGen = host.save.gen
    /\ host.activeToken = host.save.token /\ host.authority.token = host.save.token
    /\ doc = host.save.text

(* requestFinalPersist is answered (persistDocument with flushRequestId). *)
FinalSnapshot(m) ==
    IF host.save.stage # "flushing" \/ m.id # host.save.id THEN host
    ELSE IF host.authority.token # host.activeToken \/ m.gen # host.activeGen
    THEN FailClosed(host)
    ELSE IF ~SaveOwnerIsCurrent
    THEN WithoutLease(Refused(host))
    ELSE LET want == Overlay(m.state, host.entry)
             h == [host EXCEPT !.save.stage = "committing", !.save.text = want,
                               !.save.edit = want # doc, !.save.fresh = TRUE,
                               !.save.atomic = TRUE]
         IN IF want = doc THEN h ELSE Expect(h, want)

FinalSnapshotTimesOut ==
    /\ host.save.stage = "flushing" /\ Fault
    /\ host' = FailClosed(host)
    /\ UNCHANGED <<SaveSide, doc, saved, toView, saves>>

Stored(h) == [h EXCEPT !.save.stage = "stored"]

(* The editor applies the save's edit, unless the document has changed     *)
(* since, and writes the document to disk.                                 *)
StoreDocument ==
    /\ host.save.stage = "committing"
    /\ \/ /\ host.save.edit /\ host.save.fresh
          /\ doc' = host.save.text
          /\ host' = Stored(Changed(Outdate(host), host.save.text))
          /\ UNCHANGED faults
       \/ /\ IF host.save.edit /\ host.save.fresh THEN Fault ELSE UNCHANGED faults
          /\ host' = Stored(host)
          /\ UNCHANGED doc
    /\ saved' = doc'
    /\ UNCHANGED <<SaveSide, toView, saves>>

(* onDidSaveTextDocument: what has been stored is committed, and the lease *)
(* is settled when it was for this text.                                   *)
DidSave ==
    /\ host.save.stage = "stored"
    /\ LET h == Refused(host) IN
       host' = IF doc # host.save.text THEN h
               ELSE IF host.save.atomic /\ host.authority.token = host.save.token
               THEN WithoutLease([Commit(h, doc) EXCEPT !.entry.text = doc])
               ELSE WithoutLease(h)
    /\ UNCHANGED <<SaveSide, doc, saved, toView, saves, faults>>

(* NATIVE_SAVE_COMMIT_LEASE_TIMEOUT_MS *)
LeaseTimesOut ==
    /\ HasLease(host)
    /\ host.save.stage # "flushing"
    /\ IF host.save.stage \in {"committing", "stored"} THEN Fault ELSE UNCHANGED faults
    /\ host' = WithoutLease(host)
    /\ UNCHANGED <<SaveSide, doc, saved, toView, saves>>

-----------------------------------------------------------------------------
ReceiveHost ==
    /\ toHost # <<>> /\ toHost' = Tail(toHost)
    /\ LET m == Head(toHost) IN
       CASE m.type = "command" -> AdmitCommand(m)
         [] m.type = "snapshot" -> AdmitSnapshot(m) /\ UNCHANGED toView
         [] m.type = "reload" -> host' = ReloadResult(m) /\ UNCHANGED toView
         [] m.type = "barrier" -> host' = BarrierResult(m) /\ UNCHANGED toView
         [] m.type = "flush" -> host' = FinalSnapshot(m) /\ UNCHANGED toView
         [] m.type = "request" ->
              /\ host' = IF host.initialized
                         THEN StartPost(host, doc, TRUE, "request", FALSE)
                         ELSE EnsureInitial(host, doc)
              /\ UNCHANGED toView
    /\ UNCHANGED <<doc, saved, webVars, boundVars, historyVars>>

(* The document is edited elsewhere: its owned part, its rest, or back to  *)
(* what is on disk.                                                        *)
ExternalTexts ==
    {[doc EXCEPT !.owned = [base |-> externals + 1, cmds |-> <<>>]],
     [doc EXCEPT !.rest = externals + 1], saved} \ {doc}

(* A snapshot that is being rolled back is rolled back again if it is still *)
(* there, whoever put it there.                                             *)
RolledBack(text) ==
    /\ Running("snapshot", "restoring") \/ Running("snapshot", "restored")
    /\ Job.want = text

(* History: the panel owes the webview what such an edit wrote, unless it   *)
(* takes the edit for its own, already has the text as the authority, is    *)
(* still initializing the webview, or rolls the text back as its own.       *)
Owes(text) ==
    LET written == IF \/ BagIn(text, host.expected) \/ ~host.initialized
                      \/ text = host.authority.text
                   THEN {} ELSE Marks(text) \ Marks(doc)
    IN {x \in (owed \cap Marks(text)) \cup written : RolledBack(text) => x \in Marks(Job.to)}

ExternalEdit(text) ==
    /\ externals < MaxExternal /\ Room
    /\ doc' = text
    /\ host' = Changed(Outdate(host), text)
    /\ externals' = externals + 1
    /\ replaced' = replaced \cup (Elements(doc.owned.cmds) \ Elements(text.owned.cmds))
    /\ missed' = (missed \/ BagIn(text, host.expected) \/ ~host.initialized)
    /\ owed' = Owes(text)
    /\ UNCHANGED <<saved, webVars, channelVars, issued, edits, saves, faults,
                   kept, unsent>>

Work ==
    \/ ReceiveView \/ ReceiveHost \/ SendSnapshot \/ \E p \in host.posts : Post(p)
    \/ RunCommand \/ RunSnapshot \/ PrepareSnapshot \/ Apply
    \/ ResumeCommand \/ ResumeSnapshot
    \/ ApplyRollback \/ ResumeCommandRollback \/ ResumeSnapshotRollback
    \/ SaveDrained \/ StoreDocument \/ DidSave \/ LeaseTimesOut

Timers ==
    \/ CommandTimesOut \/ BarrierTimesOut \/ FinalSnapshotTimesOut
    \/ \E p \in host.posts : ReloadTimesOut(p)

Next ==
    \/ Work \/ Timers
    \/ DispatchCommand \/ EditRest \/ WillSave
    \/ \E text \in ExternalTexts : ExternalEdit(text)

Spec == Init /\ [][Next]_vars

-----------------------------------------------------------------------------
(* Properties *)

(* A command the webview saw accepted is in the document until an edit made *)
(* elsewhere removes it: no snapshot, rollback or save of the same panel    *)
(* takes it out again, whatever was in flight beside it.                    *)
AcknowledgedIsKept == kept \subseteq Elements(doc.owned.cmds) \cup replaced

(* What another editor wrote is shown in the webview before anything made   *)
(* in this panel replaces it.  Left out is what Owes leaves out: what the   *)
(* host takes for its own edit or rollback, what it already has as the      *)
(* authority, what is written before it has initialized the webview, and    *)
(* an edit that puts back a snapshot while that is being rolled back.       *)
OutsideIsShown ==
    [][externals' = externals =>
          (Marks(doc) \ Marks(doc')) \cap owed = {}]_vars

Quiet ==
    /\ toHost = <<>> /\ toView = <<>> /\ ~timer
    /\ host.queue = <<>> /\ host.posts = {} /\ host.save.stage = "none"

(* When everything has arrived, webview, host and document agree.  A        *)
(* webview that is blocked or shows another generation than the active one  *)
(* has lost an answer, or its reload was overtaken by an edit of the panel; *)
(* of its own part nothing is promised after a fault, after a save (a       *)
(* snapshot may wait behind it) or if it dropped a text as not new.         *)
QuietMeansShown ==
    Quiet =>
        /\ (view.gen = host.activeGen /\ ~blocked /\ ~missed /\ host.unrestored = None) =>
               /\ view.owned = doc.owned /\ optimistic.owned = doc.owned
               /\ rest = doc.rest \/ unsent \/ faults + saves > 0
        /\ (faults = 0 /\ ~missed) => view.gen = host.activeGen /\ ~blocked
=============================================================================
