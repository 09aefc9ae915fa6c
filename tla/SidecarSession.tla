---------------------------- MODULE SidecarSession ----------------------------
(***************************************************************************)
(* A .kql or .sql editor with a companion sidecar file: the source text is *)
(* a VS Code document, the rest of the notebook is metadata in the         *)
(* sidecar, and a webview edits both.  compatSidecarSession.ts keeps the   *)
(* revisions, the persist queue and the dirty draft,                       *)
(* compatSidecarPersistCoordinator.ts applies a snapshot of the webview,   *)
(* compatSidecarProjectionCoordinator.ts reloads the webview from the      *)
(* source, compatSidecarCloseCoordinator.ts closes the panel, and the      *)
(* provider (kqlCompatEditorProvider.ts) saves and repairs the sidecar.    *)
(*                                                                         *)
(* Each await of the code is a step boundary: the handler of a message     *)
(* runs until it is queued, and a queued job runs one step at a time while *)
(* messages, edits of the file elsewhere, policy changes and the disposal  *)
(* of the panel happen in between.  The panel is open on an existing,      *)
(* linked sidecar and its first projection has been applied; a compat file *)
(* without a sidecar, and the upgrade that creates one, are not modelled.  *)
(* No text is blank and every snapshot of the webview is valid.            *)
(***************************************************************************)
EXTENDS Naturals, Sequences, FiniteSets

CONSTANTS
    Texts, FirstText,     \* source texts
    Metas, FirstMeta,     \* sidecar metadata
    Protected, Redacted,  \* metadata with protected rows, and its sanitized form
    None,
    MaxEdits,             \* bound on edits in the webview
    MaxExternal,          \* ... on edits of the source elsewhere
    MaxForeign,           \* ... on writes of the sidecar by other windows
    MaxFlushes,           \* ... on requests for a final snapshot
    MaxPolicies,          \* ... on policy changes: 0 or 1
    MaxFaults,            \* ... on failures and on timeouts that beat an answer
    MaxEvents             \* ... on all of these together

ASSUME SidecarAssumption ==
    /\ FirstText \in Texts /\ FirstMeta \in Metas \ Protected
    /\ Protected \subseteq Metas /\ Redacted \in Metas \ Protected
    /\ None \notin Texts \cup Metas \cup Nat
    /\ {MaxEdits, MaxExternal, MaxForeign, MaxFlushes, MaxFaults, MaxEvents} \subseteq Nat
    /\ MaxPolicies \in {0, 1}

RollbackAttempts == 3                        \* SOURCE_ROLLBACK_MAX_ATTEMPTS

VARIABLES
    view, viewRev, viewGen,          \* the webview: what it shows, its revision and generation
    toHost, toView,                  \* messages in flight
    doc, file, policy,               \* the source document, the sidecar on disk, protection
    known, sidecar, written,         \* provider: last state, sidecar in memory and as written
    editRev, stateRev, sequence, dirty, base, jobs, closing, unloaded, flush,  \* session
    projGen, activeGen, activeText, pending, epoch, authority, candidate,      \* projection
    save, close, visible, \* the save of the source, the closing of the panel
    edits, externals, foreigns, faults,
    unseen                           \* history: is the file another window's, unread here?

webVars == <<view, viewRev, viewGen>>
channelVars == <<toHost, toView>>
fileVars == <<file, policy>>
draftVars == <<known, sidecar, written, stateRev, dirty, base>>
projVars == <<projGen, activeGen, activeText, pending, epoch, authority, candidate>>
closeVars == <<close, visible, closing, unloaded>>
boundVars == <<edits, externals, foreigns>>
vars == <<webVars, channelVars, doc, fileVars, draftVars, unseen, editRev, sequence, jobs, flush,
          projVars, save, closeVars, boundVars, faults>>

Contents == [text : Texts, meta : Metas]

Disposed == close # "open"

SanitizeToNothing(m) ==                      \* mutant: protected metadata is dropped whole
    IF policy # "off" /\ m \in Protected THEN None ELSE m

(* sanitizeSqlLeaveNoTraceStateFresh *)
Sanitize(m) == IF policy # "off" /\ m \in Protected THEN Redacted ELSE m

Newer(a, b) == IF a > b THEN a ELSE b

Room ==
    edits + externals + foreigns + faults + Len(flush) + save.refused
        + (IF policy = "off" THEN 0 ELSE 1) < MaxEvents

Fault == faults < MaxFaults /\ Room /\ faults' = faults + 1

Init ==
    /\ view = [text |-> FirstText, meta |-> FirstMeta]
    /\ viewRev = 0 /\ viewGen = 1
    /\ toHost = <<>> /\ toView = <<>>
    /\ doc = FirstText /\ file = FirstMeta /\ policy = "off" /\ unseen = "no"
    /\ known = [meta |-> FirstMeta, by |-> 0]
    /\ sidecar = FirstMeta /\ written = FirstMeta
    /\ editRev = 0 /\ stateRev = 0 /\ sequence = 1
    /\ dirty = FALSE /\ base = None
    /\ jobs = <<>> /\ flush = <<>>
    /\ projGen = 1 /\ activeGen = 1 /\ activeText = FirstText
    /\ pending = None
    /\ epoch = 1 /\ authority = FirstText /\ candidate = None
    /\ save = [stage |-> "none", id |-> 0, at |-> 0, refused |-> 0]
    /\ close = "open" /\ visible = TRUE
    /\ closing = FALSE /\ unloaded = FALSE
    /\ edits = 0 /\ externals = 0 /\ foreigns = 0 /\ faults = 0

-----------------------------------------------------------------------------
(* The session: revisions, queue, final snapshots.                         *)

IsStale(rev) == rev < editRev

Settled(i) == flush[i] \in {"done", "failed"}

IsPending(i) == i # None /\ flush[i] = "pending"

(* mutant: a refused snapshot leaves its request pending *)
SettleFinalWhenTaken(i, ok) ==
    flush' = IF ok /\ IsPending(i) THEN [flush EXCEPT ![i] = "done"] ELSE flush

(* mutant: the error of a refused snapshot is dropped *)
SettleFinalAsDone(i, ok) ==
    flush' = IF IsPending(i) THEN [flush EXCEPT ![i] = "done"] ELSE flush

(* completeFinalPersist: only a pending request is settled. *)
SettleFinal(i, ok) ==
    flush' = IF IsPending(i)
             THEN [flush EXCEPT ![i] = IF ok THEN "done" ELSE "failed"]
             ELSE flush

Head1 == jobs[1]
Running(kind, stage) == jobs # <<>> /\ Head1.kind = kind /\ Head1.stage = stage
Advance(stage) == jobs' = [jobs EXCEPT ![1].stage = stage]

(* queuePersist's isCurrent *)
IsCurrentAnySequence(j) == ~IsStale(j.rev)   \* mutant: a reload does not retire it

IsCurrent(j) == j.sn = sequence /\ ~IsStale(j.rev)

(* The queued work is over, and a waiting final snapshot is settled. *)
EndPersist(ok) ==
    /\ jobs' = Tail(jobs)
    /\ SettleFinal(Head1.flush, ok)

-----------------------------------------------------------------------------
(* The projection coordinator.                                             *)

PendingAt(stage) == pending # None /\ pending.stage = stage

(* isProjectionCurrent, of the pending projection *)
IsProjectionCurrent == ~Disposed /\ doc = pending.text

(* project: a projection replaces the pending one; a reload of the source  *)
(* also retires the persists and becomes the authority of a rollback.      *)
Project(retire, text, expected, meta) ==
    IF Disposed
    THEN UNCHANGED <<projVars, sequence>>
    ELSE /\ projGen' = projGen + 1
         /\ pending' = [gen |-> projGen + 1, text |-> text, expected |-> expected,
                        meta |-> meta, stage |-> "preparing"]
         /\ IF retire
            THEN /\ sequence' = sequence + 1
                 /\ epoch' = epoch + 1
                 /\ authority' = text
                 /\ candidate' = IF candidate = text THEN candidate ELSE None
            ELSE UNCHANGED <<sequence, epoch, authority, candidate>>
         /\ UNCHANGED <<activeGen, activeText>>

(* admitPersist: a newer edit retires a pending projection of the source   *)
(* the webview has; otherwise a snapshot has to be of the active           *)
(* generation, and of no source that is being replaced.                    *)
Supersedes(m) ==
    /\ pending # None /\ pending.expected # None
    /\ m.rev > pending.expected
    /\ m.gen = activeGen
    /\ pending.text = activeText /\ doc = activeText

Admitted(m) == (Supersedes(m) \/ pending = None) /\ m.gen = activeGen

RetireProjection(m) ==
    IF Supersedes(m)
    THEN /\ pending' = None
         /\ projGen' = projGen + 1
         /\ UNCHANGED <<activeGen, activeText, epoch, authority, candidate>>
    ELSE UNCHANGED projVars

(* The state has been sanitized: the reload is posted, if it still is the  *)
(* current one.  A projection that is given up stays in pendingProjection. *)
PostProjection ==
    /\ PendingAt("preparing")
    /\ IF IsProjectionCurrent
       THEN /\ pending' = [pending EXCEPT !.stage = "posted"]
            /\ toView' = Append(toView,
                 [type |-> "data", gen |-> pending.gen, text |-> pending.text,
                  meta |-> Sanitize(pending.meta), rev |-> editRev,
                  expected |-> pending.expected])
       ELSE /\ pending' = [pending EXCEPT !.stage = "stalled"]
            /\ UNCHANGED toView
    /\ UNCHANGED <<webVars, toHost, doc, fileVars, draftVars, unseen, editRev, sequence, jobs,
                   flush,
                   projGen, activeGen, activeText, epoch, authority, candidate,
                   save, closeVars, boundVars, faults>>

(* The reload deadline, or a delivery that failed with the panel. *)
ProjectionTimesOut ==
    /\ PendingAt("posted")
    /\ pending' = [pending EXCEPT !.stage = "stalled"]
    /\ IF Disposed THEN UNCHANGED faults ELSE Fault
    /\ UNCHANGED <<webVars, channelVars, doc, fileVars, draftVars, unseen, editRev, sequence, jobs,
                   flush, projGen, activeGen, activeText, epoch, authority, candidate,
                   save, closeVars, boundVars>>

(* completeReload and the end of project *)
CompleteReload(m) ==
    /\ IF PendingAt("posted") /\ pending.gen = m.gen /\ IsProjectionCurrent
       THEN /\ editRev' = Newer(editRev, m.rev)
            /\ IF m.applied
               THEN /\ activeGen' = pending.gen
                    /\ activeText' = pending.text
                    /\ pending' = None
               ELSE /\ pending' = [pending EXCEPT !.stage = "stalled"]
                    /\ UNCHANGED <<activeGen, activeText>>
       ELSE /\ pending' = IF PendingAt("posted") /\ pending.gen = m.gen
                          THEN [pending EXCEPT !.stage = "stalled"] ELSE pending
            /\ UNCHANGED <<editRev, activeGen, activeText>>
    /\ UNCHANGED <<sequence, jobs, flush, projGen, epoch, authority, candidate, unloaded>>

-----------------------------------------------------------------------------
(* The webview.                                                            *)

Snapshot(c, rev, flushId, unload) ==
    [type |-> "persist", text |-> c.text, meta |-> c.meta, gen |-> viewGen, rev |-> rev,
     flush |-> flushId, unload |-> unload]

HostSide == <<doc, file, policy, draftVars, editRev, sequence, jobs, flush, projVars, save,
              closeVars, faults>>

(* History: a webview that shows what the file holds has read it. *)
ReadBy(c) == IF c.meta = file THEN "no" ELSE unseen

(* schedulePersist: every edit is sent at once, under a revision of its    *)
(* own (preparePersistRevision); it changes the text or the metadata.      *)
EditView(c) ==
    /\ ~Disposed /\ edits < MaxEdits /\ Room
    /\ c # view /\ (c.text = view.text \/ c.meta = view.meta)
    /\ view' = c /\ viewRev' = viewRev + 1
    /\ toHost' = Append(toHost, Snapshot(c, viewRev + 1, None, FALSE))
    /\ edits' = edits + 1
    /\ unseen' = ReadBy(c)
    /\ UNCHANGED <<viewGen, toView, externals, foreigns, HostSide>>

Reply(m, applied, rev) ==
    toHost' = Append(toHost, [type |-> "reload", gen |-> m.gen, applied |-> applied, rev |-> rev])

(* documentData: an older generation, or one made for another revision, is *)
(* refused; any other replaces what the webview shows.                     *)
ReceiveData(m) ==
    IF m.gen < viewGen \/ (m.expected # None /\ m.expected # viewRev)
    THEN Reply(m, FALSE, viewRev) /\ UNCHANGED <<webVars, unseen>>
    ELSE /\ view' = [text |-> m.text, meta |-> m.meta]
         /\ viewRev' = m.rev
         /\ viewGen' = m.gen
         /\ Reply(m, TRUE, m.rev)
         /\ unseen' = ReadBy(m)

ReceiveView ==
    /\ ~Disposed /\ toView # <<>>
    /\ toView' = Tail(toView)
    /\ LET m == Head(toView) IN
       CASE m.type = "data" -> ReceiveData(m)
         [] m.type = "flush" ->     \* flushCompatibilityPersist
              /\ toHost' = Append(toHost, Snapshot(view, viewRev, m.id, FALSE))
              /\ UNCHANGED <<webVars, unseen>>
    /\ UNCHANGED <<HostSide, boundVars>>

-----------------------------------------------------------------------------
(* A message arrives at the host.                                          *)

Job(m) == [kind |-> "persist", text |-> m.text, meta |-> m.meta, copy |-> m.meta,
           rev |-> m.rev, sn |-> sequence + 1, epoch |-> epoch, flush |-> m.flush,
           late |-> Disposed, stage |-> "queued", version |-> 0, tries |-> 0]

(* persist, up to the queue. *)
Persist(m) ==
    IF m.flush # None /\ ~IsPending(m.flush)
    THEN UNCHANGED <<sequence, jobs, flush, projVars, unloaded>>
    ELSE /\ RetireProjection(m)
         /\ unloaded' = (unloaded \/ (m.unload /\ Admitted(m) /\ ~closing))
         /\ IF Admitted(m) /\ ~closing /\ ~IsStale(m.rev)
            THEN /\ sequence' = sequence + 1
                 /\ jobs' = Append(jobs, Job(m))
                 /\ UNCHANGED flush
            ELSE /\ SettleFinal(m.flush, FALSE)
                 /\ UNCHANGED <<sequence, jobs>>

(* After the panel is gone only its last snapshots are let in, one at a    *)
(* time (allowRetiredInbound, enqueueRetiredInbound).                      *)
Retained(m) == m.type = "persist" /\ (m.unload \/ IsPending(m.flush))

LateJobs == \E i \in DOMAIN jobs : jobs[i].kind = "persist" /\ jobs[i].late

ReceiveHost ==
    /\ toHost # <<>>
    /\ toHost' = Tail(toHost)
    /\ LET m == Head(toHost) IN
       CASE Disposed /\ ~Retained(m) ->
              UNCHANGED <<sequence, jobs, flush, projVars, unloaded, editRev>>
         [] Disposed /\ Retained(m) -> ~LateJobs /\ Persist(m) /\ UNCHANGED editRev
         [] ~Disposed /\ m.type = "persist" -> Persist(m) /\ UNCHANGED editRev
         [] OTHER -> CompleteReload(m)
    /\ UNCHANGED <<webVars, toView, doc, fileVars, draftVars, unseen, save, close, visible, closing,
                   boundVars, faults>>

-----------------------------------------------------------------------------
(* The work of a persist, from one await to the next.                      *)

JobSide == <<webVars, channelVars, fileVars, save, closeVars, boundVars>>

StartPersist ==
    /\ Running("persist", "queued")
    /\ IF IsCurrent(Head1)
       THEN editRev' = Newer(editRev, Head1.rev) /\ Advance("sanitizing") /\ UNCHANGED flush
       ELSE EndPersist(FALSE) /\ UNCHANGED editRev
    /\ UNCHANGED <<JobSide, doc, draftVars, unseen, sequence, projVars, faults>>

SanitizeState ==
    /\ Running("persist", "sanitizing")
    /\ IF IsCurrent(Head1)
       THEN /\ jobs' = [jobs EXCEPT ![1].stage = "materializing",
                                    ![1].meta = Sanitize(Head1.meta)]
            /\ UNCHANGED flush
       ELSE EndPersist(FALSE)
    /\ UNCHANGED <<JobSide, doc, draftVars, unseen, editRev, sequence, projVars, faults>>

(* setKnownState and setMaterializedDirty; a failed materialization keeps  *)
(* the sidecar in memory.                                                  *)
DirtyAfterAnEdit(copy) == copy # sidecar     \* mutant: compared with the copy in memory

DirtyAfter(copy) == copy # written

BaseAfter(copy) ==
    IF ~DirtyAfter(copy) THEN None ELSE IF dirty THEN base ELSE written

SetDraft(j, copy) ==
    /\ known' = [meta |-> j.meta, by |-> j.sn]
    /\ stateRev' = j.rev
    /\ dirty' = DirtyAfter(copy)
    /\ base' = BaseAfter(copy)
    /\ unseen' = IF ~DirtyAfter(copy) /\ unseen = "draft" THEN "clean" ELSE unseen
    /\ UNCHANGED written

Commit(copy) ==
    /\ SetDraft(Head1, copy)
    /\ sidecar' = copy
    /\ EndPersist(TRUE)

MaterializeState ==
    /\ Running("persist", "materializing")
    /\ LET copy == Sanitize(Head1.meta) IN
       IF ~IsCurrent(Head1)
       THEN EndPersist(FALSE) /\ UNCHANGED <<draftVars, unseen>>
       ELSE IF Head1.text = doc
       THEN Commit(copy)
       ELSE /\ jobs' = [jobs EXCEPT ![1].stage = "applying", ![1].copy = copy,
                                    ![1].version = externals]
            /\ UNCHANGED <<flush, draftVars, unseen>>
    /\ UNCHANGED <<JobSide, doc, editRev, sequence, projVars, faults>>

(* Either preparation fails; a draft whose text is the source's is kept. *)
PreparationFails ==
    /\ Running("persist", "sanitizing") \/ Running("persist", "materializing")
    /\ Fault
    /\ IF Head1.stage = "materializing" /\ IsCurrent(Head1) /\ Head1.text = doc
       THEN SetDraft(Head1, Head1.meta) /\ UNCHANGED sidecar
       ELSE UNCHANGED <<draftVars, unseen>>
    /\ EndPersist(FALSE)
    /\ UNCHANGED <<JobSide, doc, editRev, sequence, projVars>>

(* The editor applies the edit, or refuses it: it does when the document   *)
(* has changed since the edit was made.                                    *)
ApplySourceText ==
    /\ Running("persist", "applying")
    /\ \/ /\ Head1.version = externals
          /\ doc' = Head1.text
          /\ Advance("applied")
          /\ UNCHANGED <<flush, faults>>
       \/ /\ IF Head1.version = externals THEN Fault ELSE UNCHANGED faults
          /\ EndPersist(FALSE)
          /\ UNCHANGED doc
    /\ UNCHANGED <<JobSide, draftVars, unseen, editRev, sequence, projVars>>

(* rollbackSupersededSourceEdit: a reload of the source that came after    *)
(* the admission has the last word over the text just applied.             *)
MustRollBack(j) == epoch > j.epoch /\ doc = j.text

ResumeApplied ==
    /\ Running("persist", "applied")
    /\ IF doc # Head1.text
       THEN /\ Project(TRUE, doc, None, sidecar)
            /\ EndPersist(FALSE)
            /\ UNCHANGED <<draftVars, unseen>>
       ELSE IF IsCurrent(Head1)
       THEN Commit(Head1.copy) /\ UNCHANGED <<projVars, sequence>>
       ELSE IF MustRollBack(Head1)
       THEN /\ candidate' = Head1.text
            /\ jobs' = [jobs EXCEPT ![1].stage = "restoring", ![1].epoch = epoch,
                                    ![1].version = externals]
            /\ UNCHANGED <<flush, draftVars, unseen, sequence, projGen, activeGen, activeText,
                           pending, epoch, authority>>
       ELSE EndPersist(FALSE) /\ UNCHANGED <<projVars, sequence, draftVars, unseen>>
    /\ UNCHANGED <<JobSide, doc, editRev, faults>>

(* One attempt to put the authority's text back. *)
RestoreSourceText ==
    /\ Running("persist", "restoring")
    /\ \/ /\ Head1.version = externals
          /\ doc' = authority
          /\ candidate' = IF authority = Head1.text THEN candidate ELSE None
          /\ EndPersist(FALSE)
          /\ UNCHANGED faults
       \/ /\ IF Head1.version = externals THEN Fault ELSE UNCHANGED faults
          /\ UNCHANGED doc
          /\ IF Head1.tries + 1 < RollbackAttempts /\ epoch = Head1.epoch /\ doc = Head1.text
             THEN /\ jobs' = [jobs EXCEPT ![1].tries = @ + 1]
                  /\ UNCHANGED <<flush, candidate>>
             ELSE /\ candidate' = IF doc = Head1.text THEN candidate ELSE None
                  /\ EndPersist(FALSE)
    /\ UNCHANGED <<JobSide, draftVars, unseen, editRev, sequence, projGen, activeGen, activeText,
                   pending, epoch, authority>>

-----------------------------------------------------------------------------
(* Final snapshots, one request at a time (requestFinalPersist).           *)

RequestFinalPersist == flush' = Append(flush, "waiting")

StartFlush(i) ==
    /\ flush[i] = "waiting" /\ \A k \in 1 .. i - 1 : Settled(k)
    /\ flush' = [flush EXCEPT ![i] = IF Disposed THEN "failed" ELSE "pending"]
    /\ toView' = IF Disposed THEN toView ELSE Append(toView, [type |-> "flush", id |-> i])
    /\ UNCHANGED <<webVars, toHost, doc, fileVars, draftVars, unseen, editRev, sequence, jobs,
                   projVars, save, closeVars, boundVars, faults>>

FlushTimesOut(i) ==
    /\ flush[i] = "pending"
    /\ IF Disposed THEN UNCHANGED faults ELSE Fault
    /\ SettleFinal(i, FALSE)
    /\ UNCHANGED <<webVars, channelVars, doc, fileVars, draftVars, unseen, editRev, sequence, jobs,
                   projVars, save, closeVars, boundVars>>

(* The panel is hidden: its last state is asked for. *)
Hide ==
    /\ ~Disposed /\ visible /\ Len(flush) < MaxFlushes /\ Room
    /\ visible' = FALSE
    /\ RequestFinalPersist
    /\ UNCHANGED <<webVars, channelVars, doc, fileVars, draftVars, unseen, editRev, sequence, jobs,
                   projVars, save, close, closing, unloaded, boundVars, faults>>

-----------------------------------------------------------------------------
(* Saving the source document.                                             *)

SaveSide == <<webVars, channelVars, doc, projVars, closeVars, boundVars>>

(* onWillSaveTextDocument.  The editor waits for the promise it is handed  *)
(* and gives it no veto: a preparation that is rejected, or takes longer   *)
(* than the editor waits, is followed by the save all the same ("forced"). *)
(* save.at is history: the edits made so far.                              *)
SourceUnsettled ==
    \/ candidate # None
    \/ \E stage \in {"applying", "applied", "restoring"} : Running("persist", stage)

NoLongerAwaited(stage) == [save EXCEPT !.stage = stage, !.id = 0, !.at = 0]

WillSave ==
    /\ save.stage = "none" /\ ~closing /\ Room
    /\ \/ /\ ~SourceUnsettled /\ Len(flush) < MaxFlushes
          /\ RequestFinalPersist
          /\ save' = [save EXCEPT !.stage = "flushing", !.id = Len(flush) + 1,
                                  !.at = edits + externals]
       \/ /\ SourceUnsettled
          /\ save' = [NoLongerAwaited("forced") EXCEPT !.refused = @ + 1]
          /\ UNCHANGED flush
    /\ UNCHANGED <<SaveSide, fileVars, draftVars, unseen, editRev, sequence, jobs, faults>>

(* The queue is worked off when the final snapshot is in. *)
SaveFlushed ==
    /\ save.stage = "flushing" /\ Settled(save.id)
    /\ save' = IF flush[save.id] = "done" THEN [save EXCEPT !.stage = "draining"]
                ELSE NoLongerAwaited("forced")
    /\ UNCHANGED <<SaveSide, fileVars, draftVars, unseen, editRev, sequence, jobs, flush, faults>>

(* The editor stops waiting; the final snapshot and the queue go on. *)
SaveTimesOut ==
    /\ save.stage \in {"flushing", "draining"}
    /\ save' = NoLongerAwaited("forced")
    /\ UNCHANGED <<SaveSide, fileVars, draftVars, unseen, editRev, sequence, jobs, flush, faults>>

SaveDrained ==
    /\ save.stage = "draining" /\ jobs = <<>>
    /\ save' = [save EXCEPT !.stage = "storing"]
    /\ UNCHANGED <<SaveSide, fileVars, draftVars, unseen, editRev, sequence, jobs, flush, faults>>

(* The text is on disk (onDidSaveTextDocument): the sidecar is next. *)
DidSave ==
    /\ save.stage \in {"storing", "forced"}
    /\ save' = NoLongerAwaited("none")
    /\ jobs' = IF closing THEN jobs ELSE Append(jobs, [kind |-> "save", stage |-> "queued"])
    /\ UNCHANGED <<SaveSide, fileVars, draftVars, unseen, editRev, sequence, flush, faults>>

(* writeFresh: the draft replaces the file it was made from, under the     *)
(* file's lock; any other content is a conflict.                           *)
Expected == IF base # None THEN base ELSE written

PublishedAsKept == known.meta                \* mutant: what was sanitized once stays sanitized

Published == Sanitize(known.meta)            \* publishFresh

WriteFresh ==
    /\ file = Expected
    /\ file' = Published /\ sidecar' = Published /\ written' = Published
    /\ dirty' = FALSE /\ base' = None /\ stateRev' = editRev
    /\ UNCHANGED <<known, policy, unseen>>

WriteFreshFails ==
    /\ IF file # Expected THEN UNCHANGED faults ELSE Fault
    /\ UNCHANGED <<fileVars, draftVars, unseen>>

SaveSidecar ==
    /\ Running("save", "queued")
    /\ jobs' = Tail(jobs)
    /\ \/ ~dirty /\ UNCHANGED <<fileVars, draftVars, unseen, faults>>
       \/ dirty /\ WriteFresh /\ UNCHANGED faults
       \/ dirty /\ WriteFreshFails
    /\ UNCHANGED <<SaveSide, editRev, sequence, flush, save>>

-----------------------------------------------------------------------------
(* The world outside the panel.                                            *)

OutsideVars == <<webVars, toHost, toView, draftVars, editRev, flush, save, closeVars>>

(* The source is edited elsewhere (onDidChangeTextDocument).  The text of  *)
(* the panel's own edit in flight is taken for that edit; it is left out.  *)
ExternalEdit(t) ==
    /\ externals < MaxExternal /\ Room
    /\ t # doc /\ ~(Running("persist", "applying") /\ Head1.text = t)
    /\ doc' = t
    /\ externals' = externals + 1
    /\ IF closing THEN UNCHANGED <<projVars, sequence>> ELSE Project(TRUE, t, None, sidecar)
    /\ UNCHANGED <<OutsideVars, fileVars, unseen, jobs, edits, foreigns, faults>>

(* Another window writes the sidecar in place.  The history keeps whether  *)
(* there was a draft here when it did.                                     *)
ForeignWrite(m) ==
    /\ foreigns < MaxForeign /\ Room
    /\ Sanitize(m) # file
    /\ file' = Sanitize(m)
    /\ unseen' = IF dirty THEN "draft" ELSE "clean"
    /\ foreigns' = foreigns + 1
    /\ UNCHANGED <<OutsideVars, doc, policy, jobs, sequence, projVars, edits, externals, faults>>

(* The metadata becomes protected; the provider is told later. *)
ProtectPolicy ==
    /\ MaxPolicies = 1 /\ policy = "off" /\ Room
    /\ policy' = "set"
    /\ UNCHANGED <<OutsideVars, doc, file, unseen, jobs, sequence, projVars, boundVars, faults>>

(* repairInvalidatedPersistence *)
PolicyNotice ==
    /\ policy = "set"
    /\ policy' = IF closing THEN "missed" ELSE "told"
    /\ jobs' = IF closing THEN jobs
               ELSE Append(jobs, [kind |-> "repair", stage |-> "queued", by |-> known.by,
                                  rev |-> editRev, sn |-> sequence,
                                  input |-> file, output |-> file, gen |-> 0])
    /\ UNCHANGED <<OutsideVars, doc, file, unseen, sequence, projVars, boundVars, faults>>

RepairSide == <<webVars, toHost, toView, doc, editRev, flush, save, closeVars, boundVars>>

(* repair: whatever the file holds is sanitized in place. *)
RepairFile ==
    /\ Running("repair", "queued")
    /\ file' = Sanitize(file)
    /\ jobs' = [jobs EXCEPT ![1].stage = "repaired", ![1].input = file,
                            ![1].output = Sanitize(file)]
    /\ UNCHANGED <<RepairSide, policy, unseen, draftVars, sequence, projVars, faults>>

(* The repair is given up (another writer won each attempt, and only what  *)
(* is in memory is sanitized) or fails altogether.                         *)
RepairFails ==
    /\ Running("repair", "queued") /\ Fault
    /\ \/ known' = IF sequence = Head1.sn /\ known.by = Head1.by
                   THEN [known EXCEPT !.meta = Sanitize(@)] ELSE known
       \/ UNCHANGED known
    /\ jobs' = Tail(jobs)
    /\ UNCHANGED <<RepairSide, fileVars, unseen, sidecar, written, stateRev, dirty, base,
                   sequence, projVars>>

Unchanged(j) == sequence = j.sn /\ known.by = j.by

(* rebaseDraftBase: only a draft made from what was repaired is rebased. *)
RebaseAlways(j) == IF dirty THEN j.output ELSE base     \* mutant: whatever the draft's base

Rebase(j) == IF dirty /\ base = j.input THEN j.output ELSE base

(* The repaired file becomes the baseline; a panel without a draft, and    *)
(* without edits since, is reloaded from it.                               *)
AdoptRepair ==
    /\ Running("repair", "repaired")
    /\ known' = IF Unchanged(Head1) THEN [known EXCEPT !.meta = Sanitize(@)] ELSE known
    /\ base' = Rebase(Head1)
    /\ sidecar' = Head1.output /\ written' = Head1.output
    /\ IF ~dirty /\ Unchanged(Head1) /\ stateRev = Head1.rev /\ editRev = Head1.rev /\ ~Disposed
       THEN /\ Project(FALSE, doc, editRev, Head1.output)
            /\ jobs' = [jobs EXCEPT ![1].stage = "projecting", ![1].gen = projGen + 1]
       ELSE /\ jobs' = Tail(jobs)
            /\ UNCHANGED <<projVars, sequence>>
    /\ UNCHANGED <<RepairSide, fileVars, unseen, stateRev, dirty, faults>>

RepairProjected ==
    /\ Running("repair", "projecting")
    /\ ~(pending # None /\ pending.gen = Head1.gen /\ pending.stage # "stalled")
    /\ jobs' = Tail(jobs)
    /\ IF pending = None /\ activeGen = Head1.gen
          /\ sequence = Head1.sn /\ editRev = Head1.rev
       THEN /\ known' = [known EXCEPT !.meta = Head1.output]
            /\ dirty' = FALSE /\ base' = None /\ stateRev' = Head1.rev
       ELSE UNCHANGED <<known, dirty, base, stateRev>>
    /\ UNCHANGED <<RepairSide, fileVars, unseen, sidecar, written, sequence, projVars, faults>>

-----------------------------------------------------------------------------
(* Closing the panel (runClose).                                           *)

CloseSide == <<webVars, toView, doc, unseen, editRev, sequence, projVars, save, visible,
               boundVars>>

(* The panel is gone; a webview that is torn down may send a last snapshot *)
(* (beforeunload), under the revision it has.                              *)
DisposePanel ==
    /\ close = "open"
    /\ close' = "finals"
    /\ toView' = <<>>
    /\ \/ UNCHANGED toHost
       \/ toHost' = Append(toHost, Snapshot(view, viewRev, None, TRUE))
    /\ UNCHANGED <<webVars, doc, fileVars, draftVars, unseen, editRev, sequence, jobs, flush,
                   projVars, save, visible, closing, unloaded, boundVars, faults>>

(* waitForFinalPersists *)
CloseFinals ==
    /\ close = "finals" /\ \A i \in DOMAIN flush : Settled(i)
    /\ close' = "unload"
    /\ UNCHANGED <<CloseSide, toHost, fileVars, draftVars, jobs, flush, closing, unloaded, faults>>

UnloadOnItsWay == \E i \in DOMAIN toHost : toHost[i].type = "persist" /\ toHost[i].unload

(* waitForBeforeUnload, for a visible panel; then no message is let in any *)
(* more, and those already in are worked off.                              *)
CloseUnload ==
    /\ close = "unload"
    /\ IF visible /\ ~unloaded /\ UnloadOnItsWay THEN Fault ELSE UNCHANGED faults
    /\ close' = "admission"
    /\ \E n \in 0 .. Len(toHost) : toHost' = SubSeq(toHost, 1, n)
    /\ UNCHANGED <<CloseSide, fileVars, draftVars, jobs, flush, closing, unloaded>>

(* closeRetiredInboundAdmission is done: beginClose *)
CloseAdmission ==
    /\ close = "admission" /\ toHost = <<>> /\ ~LateJobs
    /\ closing' = TRUE
    /\ close' = "draining"
    /\ UNCHANGED <<CloseSide, toHost, fileVars, draftVars, jobs, flush, unloaded, faults>>

(* waitForPersists; a dirty session asks the user. *)
CloseDrained ==
    /\ close = "draining" /\ jobs = <<>>
    /\ close' = IF dirty THEN "prompt" ELSE "repair"
    /\ UNCHANGED <<CloseSide, toHost, fileVars, draftVars, jobs, flush, closing, unloaded, faults>>

(* A prompt that ends without a choice counts as a failed save. *)
AnswerPrompt(choice) ==
    /\ close = "prompt"
    /\ close' = CASE choice = "Save" -> "saving"
                  [] choice = "Discard" -> "repair"
                  [] choice = None -> "recovering"
    /\ UNCHANGED <<CloseSide, toHost, fileVars, draftVars, jobs, flush, closing, unloaded, faults>>

SaveDraft ==
    /\ close = "saving"
    /\ \/ WriteFresh /\ close' = "repair" /\ UNCHANGED faults
       \/ WriteFreshFails /\ close' = "recovering"
    /\ UNCHANGED <<CloseSide, toHost, jobs, flush, closing, unloaded>>

(* The draft goes to a recovery file, or the user is told it could not. *)
RecoverDraft ==
    /\ close = "recovering"
    /\ close' = "repair"
    /\ UNCHANGED <<CloseSide, toHost, fileVars, draftVars, jobs, flush, closing, unloaded, faults>>

(* repair and settleClose *)
SettleClose ==
    /\ close = "repair"
    /\ close' = "closed"
    /\ \/ /\ file' = Sanitize(file)
          /\ sidecar' = Sanitize(file) /\ written' = Sanitize(file)
          /\ UNCHANGED faults
       \/ Fault /\ UNCHANGED <<file, sidecar, written>>
    /\ flush' = [i \in DOMAIN flush |-> IF flush[i] = "pending" THEN "failed" ELSE flush[i]]
    /\ pending' = IF PendingAt("posted") THEN [pending EXCEPT !.stage = "stalled"] ELSE pending
    /\ UNCHANGED <<webVars, toHost, toView, doc, editRev, sequence, save, visible, boundVars,
                   policy, unseen, known, stateRev, dirty, base, jobs, closing, unloaded,
                   projGen, activeGen, activeText, epoch, authority, candidate>>

-----------------------------------------------------------------------------
PersistStep ==
    \/ StartPersist \/ SanitizeState \/ MaterializeState
    \/ ApplySourceText \/ ResumeApplied \/ RestoreSourceText

RepairStep == RepairFile \/ AdoptRepair \/ RepairProjected

SaveStep == SaveFlushed \/ SaveDrained \/ DidSave \/ SaveSidecar

CloseStep ==
    \/ CloseFinals \/ CloseUnload \/ CloseAdmission \/ CloseDrained
    \/ SaveDraft \/ RecoverDraft \/ SettleClose

(* What the program does by itself. *)
Work ==
    \/ PostProjection \/ ReceiveView \/ ReceiveHost
    \/ PersistStep \/ RepairStep \/ SaveStep \/ CloseStep \/ PolicyNotice
    \/ \E i \in DOMAIN flush : StartFlush(i)

(* What users and other programs do, and what goes wrong. *)
Outside ==
    \/ \E c \in Contents : EditView(c)
    \/ \E t \in Texts : ExternalEdit(t)
    \/ \E m \in Metas : ForeignWrite(m)
    \/ ProtectPolicy \/ Hide \/ WillSave \/ SaveTimesOut \/ DisposePanel
    \/ \E choice \in {"Save", "Discard", None} : AnswerPrompt(choice)
    \/ PreparationFails \/ RepairFails

Next ==
    \/ Work
    \/ Outside
    \/ ProjectionTimesOut
    \/ \E i \in DOMAIN flush : FlushTimesOut(i)

Spec == Init /\ [][Next]_vars

-----------------------------------------------------------------------------
(* Properties.                                                             *)

Messages ==
    [type : {"persist"}, text : Texts, meta : Metas, gen : Nat, rev : Nat,
     flush : {None} \cup DOMAIN flush, unload : BOOLEAN]
    \cup [type : {"reload"}, gen : Nat, applied : BOOLEAN, rev : Nat]

Requests ==
    [type : {"data"}, gen : Nat, text : Texts, meta : Metas, rev : Nat, expected : Nat \cup {None}]
    \cup [type : {"flush"}, id : DOMAIN flush]

PersistStages == {"queued", "sanitizing", "materializing", "applying", "applied", "restoring"}

Jobs ==
    [kind : {"persist"}, text : Texts, meta : Metas, copy : Metas, rev : Nat, sn : Nat,
     epoch : Nat, flush : {None} \cup DOMAIN flush, late : BOOLEAN, stage : PersistStages,
     version : Nat, tries : 0 .. RollbackAttempts]
    \cup [kind : {"save"}, stage : {"queued"}]
    \cup [kind : {"repair"}, stage : {"queued", "repaired", "projecting"}, by : Nat,
          rev : Nat, sn : Nat, input : Metas, output : Metas, gen : Nat]

Projections ==
    [gen : Nat, text : Texts, expected : Nat \cup {None}, meta : Metas,
     stage : {"preparing", "posted", "stalled"}]

(* pendingProjection is undefined or a projection. *)
ASSUME NoneIsNoProjection == None \notin Projections

IsSeqOf(S, q) == \A i \in DOMAIN q : q[i] \in S

(* Type: the state of the panel is well formed. *)
TypeOK ==
    /\ view \in Contents /\ {viewRev, viewGen, editRev, stateRev, sequence} \subseteq Nat
    /\ IsSeqOf(Messages, toHost) /\ IsSeqOf(Requests, toView)
    /\ doc \in Texts /\ {file, sidecar, written, known.meta} \subseteq Metas
    /\ policy \in {"off", "set", "told", "missed"} /\ unseen \in {"no", "clean", "draft"}
    /\ known.by \in Nat /\ base \in Metas \cup {None}
    /\ IsSeqOf(Jobs, jobs) /\ IsSeqOf({"waiting", "pending", "done", "failed"}, flush)
    /\ {projGen, activeGen, epoch} \subseteq Nat /\ activeText \in Texts
    /\ pending \in Projections \cup {None}
    /\ authority \in Texts /\ candidate \in Texts \cup {None}
    /\ save \in [stage : {"none", "flushing", "draining", "storing", "forced"},
                 id : DOMAIN flush \cup {0}, at : Nat, refused : Nat]
    /\ close \in {"open", "finals", "unload", "admission", "draining", "prompt",
                  "saving", "recovering", "repair", "closed"}
    /\ {dirty, visible, closing, unloaded} \subseteq BOOLEAN
    /\ edits <= MaxEdits /\ externals <= MaxExternal /\ foreigns <= MaxForeign
    /\ faults <= MaxFaults

(* Nothing is left to be done for the open panel. *)
Quiet ==
    /\ toHost = <<>> /\ toView = <<>> /\ jobs = <<>>
    /\ pending = None \/ pending.stage = "stalled"
    /\ policy # "set" /\ save.stage = "none"
    /\ \A i \in DOMAIN flush : Settled(i)

ShownMeta == IF dirty THEN known.meta ELSE sidecar

(* When everything has settled without a failure, the webview and the      *)
(* source document show the same text, the webview's next edit will be     *)
(* admitted, and what the host holds to be saved is what the webview       *)
(* shows; whatever raced with whatever.  A policy change is the exception: *)
(* the webview may refuse the reload of a repair, which then stays         *)
(* pending, and the repaired metadata replaces the copy in memory.         *)
QuietMeansAgreed ==
    (Quiet /\ close = "open" /\ faults = 0 /\ policy = "off") =>
        /\ pending = None
        /\ viewGen = activeGen /\ viewRev >= editRev
        /\ doc = view.text /\ ShownMeta = view.meta

(* When the preparation of a save has succeeded, the text that goes to     *)
(* disk is the one the webview shows, and the metadata saved next is the   *)
(* webview's, unless there were edits after the save began.  (A save whose *)
(* preparation failed, was refused or took too long is written as the      *)
(* document stands.)  A policy change is the exception again: its repair   *)
(* replaces a reload of the source that is shown and not acknowledged yet, *)
(* and an older snapshot is then admitted over it.                         *)
SavedIsShown ==
    (/\ save.stage = "storing" /\ save.at = edits + externals
     /\ ~closing /\ faults = 0 /\ policy = "off")
        => doc = view.text /\ ShownMeta = view.meta

(* A panel whose last snapshot came in is closed without a question only   *)
(* when what it showed is on disk.  (Left out: another window's metadata,  *)
(* and a source edited elsewhere and back again while the panel closes,    *)
(* which drops the snapshot.)                                              *)
ClosedUnaskedIsSaved ==
    [][(close = "draining" /\ close' = "repair" /\ unloaded /\ faults = 0
          /\ doc = view.text /\ externals < 2 /\ foreigns = 0)
         => Sanitize(view.meta) = Sanitize(written)]_vars

Publishes == dirty /\ ~dirty' /\ written' # written

(* A draft never replaces what another window wrote while it existed,      *)
(* whatever repairs did to the baseline in between.                        *)
DraftKeepsItsBaseline == [][Publishes => unseen # "draft"]_vars

(* Sidecar metadata another window wrote is never replaced by someone who  *)
(* has not seen it: "The companion sidecar changed in another window.      *)
(* Reopen it before saving metadata."                                      *)
NoBlindOverwrite == [][Publishes => unseen = "no"]_vars

(* Once the repair that follows a policy change has run, no later write of *)
(* this panel brings protected rows back to disk.                          *)
ProtectedRowsGone ==
    (policy = "told" /\ faults = 0 /\ ~(\E i \in DOMAIN jobs : jobs[i].kind = "repair"
                                          /\ jobs[i].stage = "queued"))
        => file \notin Protected

Waiting == save.stage # "none" \/ close \notin {"open", "prompt", "closed"}

(* A timer that nothing can beat any more, since the panel is gone. *)
TimerLeft == Disposed /\ (PendingAt("posted") \/ \E i \in DOMAIN flush : flush[i] = "pending")

(* A save or a close that is under way always has a next step: it is never *)
(* left waiting for a snapshot, a queue or a reload that nobody will end.  *)
(* (The steps of Work are finitely many after every event from outside, so *)
(* it comes to its end.)                                                   *)
NeverStuck == Waiting => TimerLeft \/ ENABLED <<Work>>_vars
=============================================================================
