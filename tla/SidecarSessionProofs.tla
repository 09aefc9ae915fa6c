------------------------ MODULE SidecarSessionProofs ------------------------
(***************************************************************************)
(* Theorems about SidecarSession, for any texts, metadata and bounds:      *)
(* after the repair that follows a policy change, protected rows are not   *)
(* written again; every variable of the panel keeps its type; what a save  *)
(* writes is what the webview shows; when all is quiet, the webview and    *)
(* the host agree; and a panel that closes without a question leaves on    *)
(* disk the metadata it showed.                                            *)
(*                                                                         *)
(* Every writer sanitizes what it writes under the policy of the moment of *)
(* the write, so what is left to show of the first is that the queued      *)
(* repair is not lost among the persists and saves it shares the queue     *)
(* with.  The third is about the way of a final snapshot, from the webview *)
(* through the channel and the queue to the document: it needs the order   *)
(* of the generations and of the admissions (SavedInv).  The fourth is     *)
(* about every way a text can be replaced and put back: it needs to know   *)
(* what is still on its way to whom (AgreedInv).  The last is about the    *)
(* snapshot sent at unload, which overtakes nothing and is overtaken by    *)
(* nothing: it needs the order of the channel and of the queue whatever    *)
(* fails, and that the last snapshot admitted is the last one persisted    *)
(* (ClosedInv).                                                            *)
(***************************************************************************)
EXTENDS SidecarSession, SequenceTheorems, TLAPS

RepairQueued == \E i \in DOMAIN jobs : jobs[i].kind = "repair" /\ jobs[i].stage = "queued"

IsQueue(q) == q \in Seq({q[i] : i \in 1 .. Len(q)})

RepairInv ==
    /\ IsQueue(jobs) /\ faults \in Nat
    /\ policy = "told" /\ faults = 0 /\ ~RepairQueued => file \notin Protected

-----------------------------------------------------------------------------
(* The queue of the session. *)

LEMMA QueueOf == ASSUME NEW S, NEW q \in Seq(S) PROVE IsQueue(q)
BY DEF IsQueue

LEMMA AppendJob ==
    ASSUME IsQueue(jobs), NEW x, jobs' = Append(jobs, x)
    PROVE  /\ IsQueue(jobs')
           /\ RepairQueued => RepairQueued'
           /\ x.kind = "repair" /\ x.stage = "queued" => RepairQueued'
<1> DEFINE S == {jobs[i] : i \in 1 .. Len(jobs)} \cup {x}
<1>1. jobs \in Seq(S) /\ x \in S
  BY DEF IsQueue
<1> HIDE DEF S
<1>2. /\ jobs' \in Seq(S) /\ Len(jobs') = Len(jobs) + 1 /\ Len(jobs) \in Nat
      /\ \A i \in 1 .. Len(jobs) : jobs'[i] = jobs[i]
      /\ jobs'[Len(jobs) + 1] = x
  BY <1>1
<1>3. DOMAIN jobs = 1 .. Len(jobs) /\ DOMAIN jobs' = 1 .. Len(jobs')
  BY <1>1, <1>2
<1>4. IsQueue(jobs')
  BY <1>2, QueueOf
<1>5. RepairQueued => RepairQueued'
  BY <1>2, <1>3 DEF RepairQueued
<1>6. Len(jobs) + 1 \in DOMAIN jobs'
  BY <1>2, <1>3
<1> QED
  BY <1>2, <1>4, <1>5, <1>6 DEF RepairQueued

AtHead == jobs # <<>> /\ jobs[1].kind = "repair" /\ jobs[1].stage = "queued"

LEMMA TailJob ==
    ASSUME IsQueue(jobs), jobs # <<>>, jobs' = Tail(jobs)
    PROVE  IsQueue(jobs') /\ (~AtHead /\ RepairQueued => RepairQueued')
<1> DEFINE S == {jobs[i] : i \in 1 .. Len(jobs)}
<1>1. jobs \in Seq(S)
  BY DEF IsQueue
<1> HIDE DEF S
<1>2. /\ jobs' \in Seq(S) /\ Len(jobs') = Len(jobs) - 1 /\ Len(jobs) \in Nat /\ Len(jobs) > 0
      /\ \A i \in 1 .. Len(jobs') : jobs'[i] = jobs[i + 1]
  BY <1>1
<1>3. DOMAIN jobs = 1 .. Len(jobs) /\ DOMAIN jobs' = 1 .. Len(jobs')
  BY <1>1, <1>2
<1>4. ASSUME NEW i \in DOMAIN jobs, i # 1 PROVE i - 1 \in DOMAIN jobs' /\ jobs'[i - 1] = jobs[i]
  BY <1>2, <1>3, <1>4
<1> QED
  BY <1>2, <1>4, QueueOf DEF RepairQueued, AtHead

(* The job at the head goes on: the others stay as they are. *)
HeadGoesOn ==
    /\ jobs' = [i \in DOMAIN jobs |-> jobs'[i]]
    /\ \A i \in DOMAIN jobs : i # 1 => jobs'[i] = jobs[i]

LEMMA HeadJob ==
    ASSUME IsQueue(jobs), HeadGoesOn
    PROVE  IsQueue(jobs') /\ (~AtHead /\ RepairQueued => RepairQueued')
<1> DEFINE S == {jobs'[i] : i \in DOMAIN jobs}
<1>1. Len(jobs) \in Nat /\ DOMAIN jobs = 1 .. Len(jobs)
  BY DEF IsQueue
<1>2. jobs' \in [1 .. Len(jobs) -> S]
  BY <1>1 DEF HeadGoesOn
<1> HIDE DEF S
<1>3. jobs' \in Seq(S)
  BY <1>1, <1>2
<1>4. DOMAIN jobs' = DOMAIN jobs
  BY DEF HeadGoesOn
<1>5. ASSUME ~AtHead, RepairQueued PROVE RepairQueued'
  <2>1. PICK i \in DOMAIN jobs : jobs[i].kind = "repair" /\ jobs[i].stage = "queued"
    BY <1>5 DEF RepairQueued
  <2>2. i # 1
    BY <1>1, <1>5, <2>1 DEF AtHead
  <2> QED
    BY <1>4, <2>1, <2>2 DEF HeadGoesOn, RepairQueued
<1> QED
  BY <1>3, <1>5, QueueOf

LEMMA Goes ==
    ASSUME IsQueue(jobs)
    PROVE  /\ \A s : Advance(s) => HeadGoesOn
           /\ \A s, m : jobs' = [jobs EXCEPT ![1].stage = s, ![1].meta = m] => HeadGoesOn
           /\ \A s, m, n : \/ jobs' = [jobs EXCEPT ![1].stage = s, ![1].copy = m, ![1].version = n]
                           \/ jobs' = [jobs EXCEPT ![1].stage = s, ![1].epoch = m, ![1].version = n]
                        => HeadGoesOn
           /\ jobs' = [jobs EXCEPT ![1].tries = @ + 1] => HeadGoesOn
           /\ \A s, m : jobs' = [jobs EXCEPT ![1].stage = s, ![1].gen = m] => HeadGoesOn
           /\ \A s, m, n : jobs' = [jobs EXCEPT ![1].stage = s, ![1].input = m, ![1].output = n]
                        => HeadGoesOn
BY DEF HeadGoesOn, Advance, IsQueue

-----------------------------------------------------------------------------
(* The steps. *)

(* A queued repair stays in the queue, and any write is sanitized. *)
KeepsRepair ==
    \/ UNCHANGED jobs
    \/ \E x : jobs' = Append(jobs, x)
    \/ jobs # <<>> /\ ~AtHead /\ (jobs' = Tail(jobs) \/ HeadGoesOn)

Counts == UNCHANGED faults \/ faults' = faults + 1

Writes == UNCHANGED file \/ \E m : file' = Sanitize(m)

LEMMA SanitizedIsFree == ASSUME NEW m, policy # "off" PROVE Sanitize(m) \notin Protected
BY SidecarAssumption DEF Sanitize

LEMMA CountsUp == ASSUME faults \in Nat, Counts PROVE faults' \in Nat /\ (faults' = 0 => faults = 0)
BY DEF Counts

LEMMA KeepsRepairInv ==
    ASSUME RepairInv, KeepsRepair, Counts, Writes, UNCHANGED policy
    PROVE  RepairInv'
<1>1. IsQueue(jobs') /\ (RepairQueued => RepairQueued')
  <2>1. CASE UNCHANGED jobs
    BY <2>1 DEF RepairInv, RepairQueued, IsQueue
  <2>2. CASE \E x : jobs' = Append(jobs, x)
    <3>1. PICK x : jobs' = Append(jobs, x)
      BY <2>2
    <3>2. IsQueue(jobs)
      BY DEF RepairInv
    <3> QED
      BY <3>1, <3>2, AppendJob
  <2>3. CASE jobs # <<>> /\ ~AtHead /\ (jobs' = Tail(jobs) \/ HeadGoesOn)
    BY <2>3, TailJob, HeadJob DEF RepairInv
  <2> QED
    BY <2>1, <2>2, <2>3 DEF KeepsRepair
<1>2. faults' \in Nat /\ (faults' = 0 => faults = 0)
  BY CountsUp DEF RepairInv
<1>3. ASSUME policy' = "told", faults' = 0, ~RepairQueued' PROVE file' \notin Protected
  <2>1. policy # "off" /\ file \notin Protected
    BY <1>1, <1>2, <1>3 DEF RepairInv
  <2> QED
    BY <2>1, SanitizedIsFree DEF Writes
<1> QED
  BY <1>1, <1>2, <1>3 DEF RepairInv
(* What a step does that keeps the repair. *)
Keeps == KeepsRepair /\ Counts /\ Writes /\ UNCHANGED policy

LEMMA AnotherJob ==
    ASSUME NEW kind, NEW stage, Running(kind, stage), kind # "repair" \/ stage # "queued"
    PROVE  jobs # <<>> /\ ~AtHead
BY DEF Running, Head1, AtHead

LEMMA FaultCounts == Fault => Counts
BY DEF Fault, Counts

LEMMA WriteFreshWrites == WriteFresh => Writes /\ UNCHANGED policy
BY DEF WriteFresh, Writes, Published

(* The steps that leave the queue to itself or put a job into it. *)
LEMMA OutsideKeeps ==
    ASSUME \/ \E c \in Contents : EditView(c)
           \/ \E t \in Texts : ExternalEdit(t)
           \/ \E m \in Metas : ForeignWrite(m)
           \/ Hide \/ WillSave \/ SaveTimesOut \/ DisposePanel \/ ProjectionTimesOut
           \/ \E choice \in {"Save", "Discard", None} : AnswerPrompt(choice)
           \/ \E i \in DOMAIN flush : FlushTimesOut(i) \/ StartFlush(i)
    PROVE  Keeps
<1> USE DEF Keeps, KeepsRepair, Counts, Writes, fileVars
<1>1. CASE \E c \in Contents : EditView(c)
  BY <1>1 DEF EditView, HostSide
<1>2. CASE \E t \in Texts : ExternalEdit(t)
  BY <1>2 DEF ExternalEdit
<1>3. CASE \E m \in Metas : ForeignWrite(m)
  BY <1>3 DEF ForeignWrite
<1>4. CASE Hide \/ WillSave \/ SaveTimesOut \/ DisposePanel
  BY <1>4 DEF Hide, WillSave, SaveTimesOut, DisposePanel
<1>5. CASE ProjectionTimesOut
  BY <1>5, FaultCounts DEF ProjectionTimesOut
<1>6. CASE \E choice \in {"Save", "Discard", None} : AnswerPrompt(choice)
  BY <1>6 DEF AnswerPrompt, CloseSide
<1>7. CASE \E i \in DOMAIN flush : FlushTimesOut(i)
  BY <1>7, FaultCounts DEF FlushTimesOut
<1>8. CASE \E i \in DOMAIN flush : StartFlush(i)
  BY <1>8 DEF StartFlush
<1> QED
  BY <1>1, <1>2, <1>3, <1>4, <1>5, <1>6, <1>7, <1>8

LEMMA MessagesKeep ==
    ASSUME PostProjection \/ ReceiveView \/ ReceiveHost
    PROVE  Keeps
<1> USE DEF Keeps, KeepsRepair, Counts, Writes, fileVars
<1>1. CASE PostProjection
  BY <1>1 DEF PostProjection
<1>2. CASE ReceiveView
  BY <1>2 DEF ReceiveView, HostSide
<1>3. CASE ReceiveHost
  <2>1. UNCHANGED <<file, policy, faults>>
    BY <1>3 DEF ReceiveHost
  <2>2. ASSUME NEW m, Persist(m) PROVE UNCHANGED jobs \/ \E x : jobs' = Append(jobs, x)
    BY <2>2 DEF Persist
  <2>3. UNCHANGED jobs \/ \E x : jobs' = Append(jobs, x)
    <3> DEFINE m == Head(toHost)
    <3>1. UNCHANGED jobs \/ Persist(m) \/ CompleteReload(m)
      BY <1>3 DEF ReceiveHost
    <3>2. CompleteReload(m) => UNCHANGED jobs
      BY DEF CompleteReload
    <3> HIDE DEF m
    <3> QED
      BY <2>2, <3>1, <3>2
  <2> QED
    BY <2>1, <2>3
<1> QED
  BY <1>1, <1>2, <1>3

LEMMA PersistKeeps ==
    ASSUME IsQueue(jobs), PersistStep \/ PreparationFails
    PROVE  Keeps
<1> USE DEF Keeps, Counts, Writes, JobSide, fileVars, EndPersist
<1>1. ASSUME NEW stage, Running("persist", stage), jobs' = Tail(jobs) \/ HeadGoesOn
      PROVE  KeepsRepair
  BY <1>1, AnotherJob DEF KeepsRepair
<1>2. CASE StartPersist
  <2>1. jobs' = Tail(jobs) \/ HeadGoesOn
    BY <1>2, Goes DEF StartPersist
  <2> QED
    BY <1>1, <1>2, <2>1 DEF StartPersist
<1>3. CASE SanitizeState
  <2>1. jobs' = Tail(jobs) \/ HeadGoesOn
    BY <1>3, Goes DEF SanitizeState
  <2> QED
    BY <1>1, <1>3, <2>1 DEF SanitizeState
<1>4. CASE MaterializeState
  <2>1. jobs' = Tail(jobs) \/ HeadGoesOn
    BY <1>4, Goes DEF MaterializeState, Commit
  <2> QED
    BY <1>1, <1>4, <2>1 DEF MaterializeState
<1>5. CASE ApplySourceText
  <2>1. jobs' = Tail(jobs) \/ HeadGoesOn
    BY <1>5, Goes DEF ApplySourceText
  <2>2. Counts
    BY <1>5, FaultCounts DEF ApplySourceText
  <2> QED
    BY <1>1, <1>5, <2>1, <2>2 DEF ApplySourceText
<1>6. CASE ResumeApplied
  <2>1. jobs' = Tail(jobs) \/ HeadGoesOn
    <3>1. CASE doc # Head1.text
      BY <1>6, <3>1 DEF ResumeApplied
    <3>2. CASE doc = Head1.text /\ IsCurrent(Head1)
      BY <1>6, <3>2 DEF ResumeApplied, Commit
    <3>3. CASE doc = Head1.text /\ ~IsCurrent(Head1) /\ MustRollBack(Head1)
      <4>1. jobs' = [jobs EXCEPT ![1].stage = "restoring", ![1].epoch = epoch,
                                 ![1].version = externals]
        BY <1>6, <3>3 DEF ResumeApplied
      <4> QED
        BY <4>1, Goes
    <3>4. CASE doc = Head1.text /\ ~IsCurrent(Head1) /\ ~MustRollBack(Head1)
      BY <1>6, <3>4 DEF ResumeApplied
    <3> QED
      BY <3>1, <3>2, <3>3, <3>4
  <2> QED
    BY <1>1, <1>6, <2>1 DEF ResumeApplied
<1>7. CASE RestoreSourceText
  <2>1. jobs' = Tail(jobs) \/ HeadGoesOn
    BY <1>7, Goes DEF RestoreSourceText
  <2>2. Counts
    BY <1>7, FaultCounts DEF RestoreSourceText
  <2> QED
    BY <1>1, <1>7, <2>1, <2>2 DEF RestoreSourceText
<1>8. CASE PreparationFails
  <2>1. jobs' = Tail(jobs) \/ HeadGoesOn
    BY <1>8 DEF PreparationFails
  <2>2. Counts
    BY <1>8, FaultCounts DEF PreparationFails
  <2> QED
    BY <1>1, <1>8, <2>1, <2>2 DEF PreparationFails
<1> QED
  BY <1>2, <1>3, <1>4, <1>5, <1>6, <1>7, <1>8 DEF PersistStep

LEMMA SaveKeeps ==
    ASSUME SaveStep
    PROVE  Keeps
<1> USE DEF Keeps, SaveSide, fileVars
<1>1. CASE SaveFlushed \/ SaveTimesOut \/ SaveDrained \/ DidSave
  BY <1>1 DEF SaveFlushed, SaveTimesOut, SaveDrained, DidSave, KeepsRepair, Counts, Writes
<1>2. CASE SaveSidecar
  <2>1. KeepsRepair
    BY <1>2, AnotherJob DEF SaveSidecar, KeepsRepair
  <2>2. Counts
    BY <1>2, FaultCounts DEF SaveSidecar, WriteFreshFails, Counts
  <2>3. Writes /\ UNCHANGED policy
    BY <1>2, WriteFreshWrites DEF SaveSidecar, WriteFreshFails, Writes
  <2> QED
    BY <2>1, <2>2, <2>3
<1> QED
  BY <1>1, <1>2 DEF SaveStep

LEMMA CloseKeeps ==
    ASSUME CloseStep
    PROVE  Keeps
<1> USE DEF Keeps, KeepsRepair, CloseSide, fileVars
<1>1. CASE CloseFinals \/ CloseAdmission \/ CloseDrained \/ RecoverDraft
  BY <1>1 DEF CloseFinals, CloseAdmission, CloseDrained, RecoverDraft, Counts, Writes
<1>2. CASE CloseUnload
  BY <1>2, FaultCounts DEF CloseUnload, Counts, Writes
<1>3. CASE SaveDraft
  <2>1. Counts
    BY <1>3, FaultCounts DEF SaveDraft, WriteFreshFails, Counts
  <2>2. Writes /\ UNCHANGED policy
    BY <1>3, WriteFreshWrites DEF SaveDraft, WriteFreshFails, Writes
  <2> QED
    BY <1>3, <2>1, <2>2 DEF SaveDraft
<1>4. CASE SettleClose
  <2>1. Counts
    BY <1>4, FaultCounts DEF SettleClose, Counts
  <2> QED
    BY <1>4, <2>1 DEF SettleClose, Writes
<1> QED
  BY <1>1, <1>2, <1>3, <1>4 DEF CloseStep

LEMMA RepairKeeps ==
    ASSUME IsQueue(jobs), AdoptRepair \/ RepairProjected
    PROVE  Keeps
<1> USE DEF Keeps, RepairSide, fileVars, Counts, Writes
<1>1. CASE AdoptRepair
  <2>1. jobs' = Tail(jobs) \/ HeadGoesOn
    BY <1>1, Goes DEF AdoptRepair
  <2> QED
    BY <1>1, <2>1, AnotherJob DEF AdoptRepair, KeepsRepair
<1>2. CASE RepairProjected
  BY <1>2, AnotherJob DEF RepairProjected, KeepsRepair
<1> QED
  BY <1>1, <1>2

(* The change of policy, its notice, and the repair itself. *)
LEMMA PolicySteps ==
    ASSUME RepairInv, ProtectPolicy \/ PolicyNotice \/ RepairFile \/ RepairFails
    PROVE  RepairInv'
<1> USE DEF RepairInv, fileVars
<1>1. CASE ProtectPolicy
  BY <1>1 DEF ProtectPolicy, IsQueue
<1>2. CASE PolicyNotice
  <2>1. UNCHANGED faults
    BY <1>2 DEF PolicyNotice
  <2>2. CASE closing
    BY <1>2, <2>1, <2>2 DEF PolicyNotice, IsQueue
  <2>3. CASE ~closing
    <3> DEFINE x == [kind |-> "repair", stage |-> "queued", by |-> known.by,
                     rev |-> editRev, sn |-> sequence, input |-> file, output |-> file, gen |-> 0]
    <3>1. jobs' = Append(jobs, x) /\ x.kind = "repair" /\ x.stage = "queued"
      BY <1>2, <2>3 DEF PolicyNotice
    <3> HIDE DEF x
    <3>2. IsQueue(jobs') /\ RepairQueued'
      BY <3>1, AppendJob
    <3> QED
      BY <2>1, <3>2
  <2> QED
    BY <2>2, <2>3
<1>3. CASE RepairFile
  <2>1. /\ file' = Sanitize(file) /\ UNCHANGED <<policy, faults>>
        /\ jobs' = [jobs EXCEPT ![1].stage = "repaired", ![1].input = file,
                                ![1].output = Sanitize(file)]
    BY <1>3 DEF RepairFile
  <2>2. IsQueue(jobs')
    BY <2>1, Goes, HeadJob
  <2>3. policy' = "told" => file' \notin Protected
    BY <2>1, SanitizedIsFree
  <2> QED
    BY <2>1, <2>2, <2>3
<1>4. CASE RepairFails
  <2>1. jobs # <<>> /\ jobs' = Tail(jobs) /\ faults' = faults + 1
    BY <1>4 DEF RepairFails, Running, Fault
  <2>2. IsQueue(jobs')
    BY <2>1, TailJob
  <2> QED
    BY <2>1, <2>2
<1> QED
  BY <1>1, <1>2, <1>3, <1>4

-----------------------------------------------------------------------------
LEMMA InitRepair == Init => RepairInv
<1> SUFFICES ASSUME Init PROVE RepairInv
  OBVIOUS
<1>1. jobs \in Seq({}) /\ faults = 0 /\ policy = "off"
  BY DEF Init
<1> QED
  BY <1>1, QueueOf DEF RepairInv

LEMMA NextRepair == RepairInv /\ [Next]_vars => RepairInv'
<1> SUFFICES ASSUME RepairInv, [Next]_vars PROVE RepairInv'
  OBVIOUS
<1>1. IsQueue(jobs)
  BY DEF RepairInv
<1>2. CASE UNCHANGED vars
  <2>1. UNCHANGED <<jobs, faults, file, policy>>
    BY <1>2 DEF vars, fileVars
  <2> QED
    BY <2>1, KeepsRepairInv DEF KeepsRepair, Counts, Writes
<1>3. ASSUME Keeps PROVE RepairInv'
  BY <1>3, KeepsRepairInv DEF Keeps
<1>4. CASE Work
  BY <1>1, <1>3, <1>4, MessagesKeep, PersistKeeps, RepairKeeps, SaveKeeps, CloseKeeps, PolicySteps,
     OutsideKeeps DEF Work, RepairStep
<1>5. CASE Outside
  BY <1>1, <1>3, <1>5, OutsideKeeps, PersistKeeps, PolicySteps DEF Outside
<1>6. CASE ProjectionTimesOut \/ \E i \in DOMAIN flush : FlushTimesOut(i)
  BY <1>3, <1>6, OutsideKeeps
<1> QED
  BY <1>2, <1>4, <1>5, <1>6 DEF Next

(* Once the repair that follows a policy change has run, no later persist, *)
(* save, close or repair of this panel brings protected rows back to disk, *)
(* if no fault was met.                                                    *)
THEOREM RowsStayGone == Spec => []ProtectedRowsGone
<1>1. RepairInv => ProtectedRowsGone
  BY DEF RepairInv, ProtectedRowsGone, RepairQueued
<1> QED
  BY <1>1, InitRepair, NextRepair, PTL DEF Spec

-----------------------------------------------------------------------------
(* Types. *)

FlushStates == {"waiting", "pending", "done", "failed"}

CloseStages ==
    {"open", "finals", "unload", "admission", "draining", "prompt",
     "saving", "recovering", "repair", "closed"}

Drafts == [meta : Metas, by : Nat]

Saves ==
    [stage : {"none", "flushing", "draining", "storing", "forced"}, id : DOMAIN flush \cup {0},
     at : Nat, refused : Nat]

ViewType == view \in Contents /\ viewRev \in Nat /\ viewGen \in Nat

DiskType ==
    /\ doc \in Texts /\ file \in Metas
    /\ policy \in {"off", "set", "told", "missed"} /\ unseen \in {"no", "clean", "draft"}

DraftType ==
    /\ known \in Drafts /\ sidecar \in Metas /\ written \in Metas
    /\ stateRev \in Nat /\ dirty \in BOOLEAN /\ base \in Metas \cup {None}

SessionType == editRev \in Nat /\ sequence \in Nat /\ closing \in BOOLEAN /\ unloaded \in BOOLEAN

ProjType ==
    /\ projGen \in Nat /\ activeGen \in Nat /\ activeText \in Texts
    /\ pending \in Projections \cup {None}
    /\ epoch \in Nat /\ authority \in Texts /\ candidate \in Texts \cup {None}

CloseType == close \in CloseStages /\ visible \in BOOLEAN

CountType ==
    /\ edits \in Nat /\ externals \in Nat /\ foreigns \in Nat /\ faults \in Nat
    /\ edits <= MaxEdits /\ externals <= MaxExternal /\ foreigns <= MaxForeign
    /\ faults <= MaxFaults

FlushType == flush \in Seq(FlushStates)

MailType ==
    /\ toHost \in Seq(Messages) /\ toView \in Seq(Requests)
    /\ jobs \in Seq(Jobs) /\ save \in Saves

Scalars ==
    /\ ViewType /\ DiskType /\ DraftType /\ SessionType /\ ProjType
    /\ CloseType /\ CountType

TypeInv == Scalars /\ FlushType /\ MailType

LEMMA TypesHold == TypeInv => TypeOK
<1> SUFFICES ASSUME TypeInv PROVE TypeOK
  OBVIOUS
<1>1. view \in Contents /\ {viewRev, viewGen, editRev, stateRev, sequence} \subseteq Nat
  BY DEF TypeInv, Scalars, ViewType, SessionType, DraftType
<1>2. /\ IsSeqOf(Messages, toHost) /\ IsSeqOf(Requests, toView) /\ IsSeqOf(Jobs, jobs)
      /\ IsSeqOf(FlushStates, flush)
  <2>1. ASSUME NEW S, NEW q \in Seq(S) PROVE IsSeqOf(S, q)
    BY <2>1 DEF IsSeqOf
  <2> QED
    BY <2>1 DEF TypeInv, MailType, FlushType
<1>3. /\ doc \in Texts /\ {file, sidecar, written, known.meta} \subseteq Metas
      /\ policy \in {"off", "set", "told", "missed"} /\ unseen \in {"no", "clean", "draft"}
      /\ known.by \in Nat /\ base \in Metas \cup {None}
  BY DEF TypeInv, Scalars, DiskType, DraftType, Drafts
<1>4. /\ {projGen, activeGen, epoch} \subseteq Nat /\ activeText \in Texts
      /\ pending \in Projections \cup {None}
      /\ authority \in Texts /\ candidate \in Texts \cup {None}
  BY DEF TypeInv, Scalars, ProjType
<1>5. /\ save \in Saves /\ close \in CloseStages
      /\ {dirty, visible, closing, unloaded} \subseteq BOOLEAN
  BY DEF TypeInv, Scalars, MailType, CloseType, DraftType, SessionType
<1>6. /\ edits <= MaxEdits /\ externals <= MaxExternal /\ foreigns <= MaxForeign
      /\ faults <= MaxFaults
  BY DEF TypeInv, Scalars, CountType
<1> QED
  BY <1>1, <1>2, <1>3, <1>4, <1>5, <1>6 DEF TypeOK, FlushStates, Saves, CloseStages

-----------------------------------------------------------------------------
(* What moves in a channel, in the queue, among the requests. *)

LEMMA SeqMoves ==
    ASSUME NEW S, NEW T, S \subseteq T, NEW q \in Seq(S)
    PROVE  /\ q \in Seq(T)
           /\ q # <<>> => Tail(q) \in Seq(T)
           /\ \A x \in T : Append(q, x) \in Seq(T)
           /\ \A n \in 0 .. Len(q) : SubSeq(q, 1, n) \in Seq(T)
<1>1. q \in Seq(T)
  OBVIOUS
<1>2. q # <<>> => Tail(q) \in Seq(T)
  BY <1>1
<1>3. \A n \in 0 .. Len(q) : SubSeq(q, 1, n) \in Seq(T)
  BY <1>1, SubSeqProperties
<1> QED
  BY <1>1, <1>2, <1>3

(* No request for a final snapshot is ever forgotten. *)
FlushGrows == flush' \in Seq(FlushStates) /\ DOMAIN flush \subseteq DOMAIN flush'

LEMMA Widen ==
    ASSUME DOMAIN flush \subseteq DOMAIN flush'
    PROVE  Messages \subseteq Messages' /\ Requests \subseteq Requests' /\ Jobs \subseteq Jobs'
           /\ Saves \subseteq Saves'
<1>1. Messages \subseteq Messages'
  BY DEF Messages
<1>2. Requests \subseteq Requests'
  BY DEF Requests
<1>3. Jobs \subseteq Jobs'
  BY DEF Jobs
<1>4. Saves \subseteq Saves'
  BY DEF Saves
<1> QED
  BY <1>1, <1>2, <1>3, <1>4

LEMMA FlushMoves ==
    ASSUME FlushType
    PROVE  /\ UNCHANGED flush => FlushGrows
           /\ RequestFinalPersist => FlushGrows /\ Len(flush) + 1 \in DOMAIN flush'
           /\ \A i, ok : SettleFinal(i, ok) => FlushGrows
           /\ \A i : \A s \in FlushStates : flush' = [flush EXCEPT ![i] = s] => FlushGrows
           /\ flush' = [i \in DOMAIN flush |-> IF flush[i] = "pending" THEN "failed" ELSE flush[i]]
              => FlushGrows
<1> USE DEF FlushType, FlushGrows
<1>1. UNCHANGED flush => FlushGrows
  OBVIOUS
<1>2. RequestFinalPersist => FlushGrows /\ Len(flush) + 1 \in DOMAIN flush'
  <2> SUFFICES ASSUME RequestFinalPersist PROVE FlushGrows /\ Len(flush) + 1 \in DOMAIN flush'
    OBVIOUS
  <2>1. flush' = Append(flush, "waiting") /\ "waiting" \in FlushStates
    BY DEF RequestFinalPersist, FlushStates
  <2>2. flush' \in Seq(FlushStates) /\ Len(flush') = Len(flush) + 1 /\ Len(flush) \in Nat
    BY <2>1
  <2>3. DOMAIN flush = 1 .. Len(flush) /\ DOMAIN flush' = 1 .. Len(flush')
    BY <2>2
  <2> QED
    BY <2>2, <2>3
<1>3. ASSUME NEW i, NEW s \in FlushStates, flush' = [flush EXCEPT ![i] = s] PROVE FlushGrows
  <2>1. flush \in [1 .. Len(flush) -> FlushStates] /\ Len(flush) \in Nat
    OBVIOUS
  <2>2. flush' \in [1 .. Len(flush) -> FlushStates]
    BY <1>3, <2>1
  <2> QED
    BY <2>1, <2>2
<1>4. ASSUME NEW i, NEW ok, SettleFinal(i, ok) PROVE FlushGrows
  <2>1. (IF ok THEN "done" ELSE "failed") \in FlushStates
    BY DEF FlushStates
  <2> QED
    BY <1>1, <1>3, <1>4, <2>1 DEF SettleFinal
<1>5. ASSUME flush' = [i \in DOMAIN flush |-> IF flush[i] = "pending" THEN "failed" ELSE flush[i]]
      PROVE  FlushGrows
  <2>1. flush \in [1 .. Len(flush) -> FlushStates] /\ Len(flush) \in Nat
    OBVIOUS
  <2>2. flush' \in [1 .. Len(flush) -> FlushStates]
    BY <1>5, <2>1 DEF FlushStates
  <2> QED
    BY <2>1, <2>2
<1> QED
  BY <1>1, <1>2, <1>3, <1>4, <1>5

(* The moves of a channel. *)
Moves(q, qq, T) ==
    \/ qq = q
    \/ q # <<>> /\ qq = Tail(q)
    \/ \E x \in T : qq = Append(q, x)

LEMMA MovesTyped ==
    ASSUME NEW S, NEW T, S \subseteq T, NEW q \in Seq(S), NEW qq, Moves(q, qq, T)
    PROVE  qq \in Seq(T)
<1>1. q \in Seq(T)
  BY SeqMoves
<1> QED
  BY <1>1, SeqMoves DEF Moves

(* The queue: the job at the head may also go on. *)
JobsMove == Moves(jobs, jobs', Jobs') \/ (jobs # <<>> /\ HeadGoesOn /\ jobs'[1] \in Jobs')

LEMMA JobsTyped ==
    ASSUME jobs \in Seq(Jobs), FlushGrows, JobsMove
    PROVE  jobs' \in Seq(Jobs')
<1>1. Jobs \subseteq Jobs'
  BY Widen DEF FlushGrows
<1>2. jobs \in Seq(Jobs')
  BY <1>1, SeqMoves
<1>3. CASE Moves(jobs, jobs', Jobs')
  BY <1>1, <1>3, MovesTyped
<1>4. CASE jobs # <<>> /\ HeadGoesOn /\ jobs'[1] \in Jobs'
  <2>1. Len(jobs) \in Nat /\ DOMAIN jobs = 1 .. Len(jobs)
    BY <1>2
  <2>2. \A i \in DOMAIN jobs : jobs'[i] \in Jobs'
    BY <1>2, <1>4 DEF HeadGoesOn
  <2>3. jobs' \in [1 .. Len(jobs) -> Jobs']
    BY <1>4, <2>1, <2>2 DEF HeadGoesOn
  <2> QED
    BY <2>1, <2>3
<1> QED
  BY <1>3, <1>4 DEF JobsMove

LEMMA MailTyped ==
    ASSUME MailType, FlushGrows, Moves(toHost, toHost', Messages'), Moves(toView, toView', Requests'),
           JobsMove, UNCHANGED save \/ save' \in Saves'
    PROVE  MailType'
<1>1. /\ Messages \subseteq Messages' /\ Requests \subseteq Requests' /\ Jobs \subseteq Jobs'
      /\ Saves \subseteq Saves'
  BY Widen DEF FlushGrows
<1>2. toHost' \in Seq(Messages')
  BY <1>1, MovesTyped DEF MailType
<1>3. toView' \in Seq(Requests')
  BY <1>1, MovesTyped DEF MailType
<1>4. jobs' \in Seq(Jobs')
  BY JobsTyped DEF MailType
<1>5. save' \in Saves'
  BY <1>1 DEF MailType
<1> QED
  BY <1>2, <1>3, <1>4, <1>5 DEF MailType

(* What a step does to the channels, the queue and the save. *)
MailMoves ==
    /\ FlushGrows
    /\ Moves(toHost, toHost', Messages') /\ Moves(toView, toView', Requests') /\ JobsMove
    /\ UNCHANGED save \/ save' \in Saves'

LEMMA StepTyped == ASSUME TypeInv, Scalars', MailMoves PROVE TypeInv'
BY MailTyped DEF TypeInv, MailMoves, FlushGrows, FlushType

LEMMA FaultTyped == ASSUME CountType, Fault PROVE faults' \in Nat /\ faults' <= MaxFaults
BY SidecarAssumption DEF CountType, Fault

LEMMA SanitizeTyped == \A m \in Metas : Sanitize(m) \in Metas /\ Sanitize(m)' \in Metas
BY SidecarAssumption DEF Sanitize

LEMMA ProjectTyped ==
    ASSUME ProjType, SessionType, NEW retire \in BOOLEAN, NEW text \in Texts,
           NEW expected \in Nat \cup {None}, NEW meta \in Metas,
           Project(retire, text, expected, meta)
    PROVE  ProjType' /\ sequence' \in Nat
BY DEF ProjType, SessionType, Project, projVars, Projections

(* The steps that touch neither the session nor the projection. *)
LEMMA FlushStepsTyped ==
    ASSUME TypeInv,
           Hide \/ \E i \in DOMAIN flush : StartFlush(i) \/ FlushTimesOut(i)
    PROVE  TypeInv'
<1> USE DEF MailMoves, Moves, JobsMove
<1>0. Scalars /\ FlushType
  BY DEF TypeInv
<1>1. CASE Hide
  <2>1. Scalars'
    BY <1>0, <1>1 DEF Hide, Scalars, ViewType, DiskType, DraftType, SessionType, ProjType, CloseType,
       CountType, webVars, fileVars, draftVars, projVars, boundVars
  <2> QED
    BY <1>0, <1>1, <2>1, FlushMoves, StepTyped DEF Hide, channelVars
<1>2. ASSUME NEW i \in DOMAIN flush, StartFlush(i) PROVE TypeInv'
  <2>1. Scalars'
    BY <1>0, <1>2 DEF StartFlush, Scalars, ViewType, DiskType, DraftType, SessionType, ProjType,
       CloseType, CountType, webVars, fileVars, draftVars, projVars, boundVars, closeVars
  <2>2. FlushGrows
    <3>1. (IF Disposed THEN "failed" ELSE "pending") \in FlushStates
      BY DEF FlushStates
    <3> QED
      BY <1>0, <1>2, <3>1, FlushMoves DEF StartFlush
  <2>3. [type |-> "flush", id |-> i] \in Requests'
    BY <2>2 DEF FlushGrows, Requests
  <2> QED
    BY <1>2, <2>1, <2>2, <2>3, StepTyped DEF StartFlush
<1>3. ASSUME NEW i \in DOMAIN flush, FlushTimesOut(i) PROVE TypeInv'
  <2>1. CountType'
    BY <1>0, <1>3, FaultTyped DEF FlushTimesOut, Scalars, CountType, boundVars
  <2>2. Scalars'
    BY <1>0, <1>3, <2>1 DEF FlushTimesOut, Scalars, ViewType, DiskType, DraftType, SessionType,
       ProjType, CloseType, webVars, fileVars, draftVars, projVars, boundVars, closeVars
  <2> QED
    BY <1>0, <1>3, <2>2, FlushMoves, StepTyped DEF FlushTimesOut, channelVars
<1> QED
  BY <1>1, <1>2, <1>3

LEMMA OutsideTyped ==
    ASSUME TypeInv,
           \/ \E c \in Contents : EditView(c)
           \/ \E t \in Texts : ExternalEdit(t)
           \/ \E m \in Metas : ForeignWrite(m)
           \/ ProtectPolicy \/ PolicyNotice \/ DisposePanel
    PROVE  TypeInv'
<1> USE DEF Moves, JobsMove
<1>0. Scalars /\ FlushType
  BY DEF TypeInv
<1>1. ASSUME NEW c \in Contents, EditView(c) PROVE TypeInv'
  <2>1. Scalars'
    BY <1>0, <1>1, SidecarAssumption DEF EditView, HostSide, ReadBy, Scalars, ViewType, DiskType,
       DraftType, SessionType, ProjType, CloseType, CountType, draftVars, projVars, closeVars
  <2>2. FlushGrows
    BY <1>0, <1>1, FlushMoves DEF EditView, HostSide
  <2>3. Snapshot(c, viewRev + 1, None, FALSE) \in Messages'
    BY <1>0 DEF Snapshot, Messages, Contents, Scalars, ViewType
  <2> QED
    BY <1>1, <2>1, <2>2, <2>3, StepTyped DEF EditView, HostSide, MailMoves
<1>2. ASSUME NEW t \in Texts, ExternalEdit(t) PROVE TypeInv'
  <2>1. ProjType' /\ SessionType'
    <3>1. CASE closing
      BY <1>0, <1>2, <3>1 DEF ExternalEdit, OutsideVars, Scalars, ProjType, SessionType, projVars,
         closeVars
    <3>2. CASE ~closing
      <4>1. Project(TRUE, t, None, sidecar) /\ sidecar \in Metas
        BY <1>0, <1>2, <3>2 DEF ExternalEdit, Scalars, DraftType
      <4>2. ProjType' /\ sequence' \in Nat
        BY <1>0, <4>1, ProjectTyped DEF Scalars
      <4> QED
        BY <1>0, <1>2, <4>2 DEF ExternalEdit, OutsideVars, Scalars, SessionType, closeVars
    <3> QED
      BY <3>1, <3>2
  <2>2. Scalars'
    BY <1>0, <1>2, <2>1, SidecarAssumption DEF ExternalEdit, OutsideVars, Scalars, ViewType, DiskType,
       DraftType, CloseType, CountType, webVars, fileVars, draftVars, closeVars
  <2> QED
    BY <1>0, <1>2, <2>2, FlushMoves, StepTyped DEF ExternalEdit, OutsideVars, MailMoves
<1>3. ASSUME NEW m \in Metas, ForeignWrite(m) PROVE TypeInv'
  <2>1. Scalars'
    BY <1>0, <1>3, SidecarAssumption, SanitizeTyped DEF ForeignWrite, OutsideVars, Scalars, ViewType,
       DiskType, DraftType, SessionType, ProjType, CloseType, CountType, webVars, draftVars, projVars,
       closeVars
  <2> QED
    BY <1>0, <1>3, <2>1, FlushMoves, StepTyped DEF ForeignWrite, OutsideVars, MailMoves
<1>4. CASE ProtectPolicy
  <2>1. Scalars'
    BY <1>0, <1>4 DEF ProtectPolicy, OutsideVars, Scalars, ViewType, DiskType,
       DraftType, SessionType, ProjType, CloseType, CountType, webVars, draftVars, projVars,
       closeVars, boundVars
  <2> QED
    BY <1>0, <1>4, <2>1, FlushMoves, StepTyped DEF ProtectPolicy, OutsideVars, MailMoves
<1>5. CASE PolicyNotice
  <2>1. Scalars'
    BY <1>0, <1>5 DEF PolicyNotice, OutsideVars, Scalars, ViewType, DiskType,
       DraftType, SessionType, ProjType, CloseType, CountType, webVars, draftVars, projVars,
       closeVars, boundVars
  <2> DEFINE x == [kind |-> "repair", stage |-> "queued", by |-> known.by, rev |-> editRev,
                   sn |-> sequence, input |-> file, output |-> file, gen |-> 0]
  <2>2. x \in Jobs'
    BY <1>0 DEF Jobs, Scalars, DraftType, Drafts, SessionType, DiskType
  <2>3. JobsMove
    BY <1>5, <2>2 DEF PolicyNotice
  <2> HIDE DEF x, JobsMove
  <2> QED
    BY <1>0, <1>5, <2>1, <2>3, FlushMoves, StepTyped DEF PolicyNotice, OutsideVars, MailMoves
<1>6. CASE DisposePanel
  <2>1. Scalars'
    BY <1>0, <1>6 DEF DisposePanel, Scalars, ViewType, DiskType,
       DraftType, SessionType, ProjType, CloseType, CountType, webVars, fileVars, draftVars, projVars,
       boundVars, CloseStages
  <2>2. FlushGrows
    BY <1>0, <1>6, FlushMoves DEF DisposePanel
  <2>3. Snapshot(view, viewRev, None, TRUE) \in Messages'
    BY <1>0 DEF Snapshot, Messages, Contents, Scalars, ViewType
  <2>4. toHost' \in Seq(Messages')
    <3>1. Messages \subseteq Messages'
      BY <2>2, Widen DEF FlushGrows
    <3> QED
      BY <1>6, <2>3, <3>1, MovesTyped DEF DisposePanel, TypeInv, MailType
  <2>5. toView' \in Seq(Requests')
    BY <1>6 DEF DisposePanel
  <2>6. jobs' \in Seq(Jobs') /\ save' \in Saves'
    BY <1>6, <2>2, Widen, JobsTyped DEF DisposePanel, TypeInv, MailType, FlushGrows
  <2> QED
    BY <2>1, <2>2, <2>4, <2>5, <2>6 DEF TypeInv, MailType, FlushType, FlushGrows
<1> QED
  BY <1>1, <1>2, <1>3, <1>4, <1>5, <1>6

-----------------------------------------------------------------------------
(* The messages. *)

LEMMA HeadOfMail ==
    ASSUME MailType
    PROVE  /\ toHost # <<>> => Head(toHost) \in Messages
           /\ toView # <<>> => Head(toView) \in Requests
           /\ jobs # <<>> => Head1 \in Jobs
BY DEF MailType, Head1

PersistMessages ==
    [type : {"persist"}, text : Texts, meta : Metas, gen : Nat, rev : Nat,
     flush : {None} \cup DOMAIN flush, unload : BOOLEAN]

ReloadMessages == [type : {"reload"}, gen : Nat, applied : BOOLEAN, rev : Nat]

DataRequests ==
    [type : {"data"}, gen : Nat, text : Texts, meta : Metas, rev : Nat, expected : Nat \cup {None}]

LEMMA MessageKinds ==
    /\ \A m \in Messages : m.type = "persist" => m \in PersistMessages
    /\ \A m \in Messages : m.type # "persist" => m \in ReloadMessages
    /\ \A m \in Requests : m.type = "data" => m \in DataRequests
BY DEF Messages, Requests, PersistMessages, ReloadMessages, DataRequests

LEMMA ViewStepsTyped ==
    ASSUME TypeInv, PostProjection \/ ProjectionTimesOut \/ ReceiveView
    PROVE  TypeInv'
<1> USE DEF Moves, JobsMove
<1>0. Scalars /\ FlushType /\ MailType
  BY DEF TypeInv
<1>1. CASE PostProjection
  <2>0. pending \in Projections
    BY <1>0, <1>1, SidecarAssumption DEF PostProjection, PendingAt, Scalars, ProjType
  <2>1. ProjType'
    BY <1>0, <1>1, <2>0 DEF PostProjection, Scalars, ProjType, Projections
  <2>2. Scalars'
    BY <1>0, <1>1, <2>1 DEF PostProjection, Scalars, ViewType, DiskType, DraftType, SessionType,
       CloseType, CountType, webVars, fileVars, draftVars, closeVars, boundVars
  <2> DEFINE x == [type |-> "data", gen |-> pending.gen, text |-> pending.text,
                   meta |-> Sanitize(pending.meta), rev |-> editRev, expected |-> pending.expected]
  <2>3. x \in Requests'
    BY <1>0, <2>0, SanitizeTyped DEF Requests, Projections, Scalars, SessionType
  <2>4. Moves(toView, toView', Requests')
    BY <1>1, <2>3 DEF PostProjection
  <2> HIDE DEF x, Moves
  <2>5. Moves(toHost, toHost', Messages') /\ JobsMove
    BY <1>1 DEF PostProjection, Moves
  <2> QED
    BY <1>0, <1>1, <2>2, <2>4, <2>5, FlushMoves, StepTyped DEF PostProjection, MailMoves
<1>2. CASE ProjectionTimesOut
  <2>0. pending \in Projections
    BY <1>0, <1>2, SidecarAssumption DEF ProjectionTimesOut, PendingAt, Scalars, ProjType
  <2>1. ProjType'
    BY <1>0, <1>2, <2>0 DEF ProjectionTimesOut, Scalars, ProjType, Projections
  <2>2. CountType'
    BY <1>0, <1>2, FaultTyped DEF ProjectionTimesOut, Scalars, CountType, boundVars
  <2>3. Scalars'
    BY <1>0, <1>2, <2>1, <2>2 DEF ProjectionTimesOut, Scalars, ViewType, DiskType, DraftType,
       SessionType, CloseType, webVars, fileVars, draftVars, closeVars
  <2> QED
    BY <1>0, <1>2, <2>3, FlushMoves, StepTyped DEF ProjectionTimesOut, channelVars, MailMoves
<1>3. CASE ReceiveView
  <2> DEFINE m == Head(toView)
  <2>0. toView # <<>> /\ m \in Requests /\ UNCHANGED <<HostSide, boundVars>>
    BY <1>0, <1>3, HeadOfMail DEF ReceiveView
  <2>1. FlushGrows
    BY <1>0, <2>0, FlushMoves DEF HostSide
  <2>2. /\ ViewType' /\ unseen' \in {"no", "clean", "draft"}
        /\ \E x \in Messages' : toHost' = Append(toHost, x)
    <3>1. CASE m.type = "data"
      <4>0. m \in DataRequests /\ ReceiveData(m)
        BY <1>3, <2>0, <3>1, MessageKinds DEF ReceiveView
      <4> HIDE DEF m
      <4>1. ViewType' /\ unseen' \in {"no", "clean", "draft"}
        <5>1. CASE UNCHANGED <<webVars, unseen>>
          BY <1>0, <5>1 DEF webVars, Scalars, ViewType, DiskType
        <5>2. CASE /\ view' = [text |-> m.text, meta |-> m.meta] /\ viewRev' = m.rev
                   /\ viewGen' = m.gen /\ unseen' = ReadBy(m)
          <6>1. m.text \in Texts /\ m.meta \in Metas /\ m.rev \in Nat /\ m.gen \in Nat
            BY <4>0 DEF DataRequests
          <6>2. ReadBy(m) \in {"no", "clean", "draft"}
            BY <1>0 DEF ReadBy, Scalars, DiskType
          <6> QED
            BY <5>2, <6>1, <6>2 DEF ViewType, Contents
        <5> QED
          BY <4>0, <5>1, <5>2 DEF ReceiveData
      <4>2. \E applied \in BOOLEAN, rev \in Nat : Reply(m, applied, rev)
        BY <1>0, <4>0 DEF ReceiveData, DataRequests, Scalars, ViewType
      <4>3. PICK applied \in BOOLEAN, rev \in Nat : Reply(m, applied, rev)
        BY <4>2
      <4>4. [type |-> "reload", gen |-> m.gen, applied |-> applied, rev |-> rev] \in Messages'
        BY <4>0 DEF DataRequests, Messages
      <4> QED
        BY <4>1, <4>3, <4>4 DEF Reply
    <3>2. CASE m.type # "data"
      <4>0. m.type = "flush" /\ m.id \in DOMAIN flush
        BY <2>0, <3>2 DEF Requests
      <4> DEFINE x == Snapshot(view, viewRev, m.id, FALSE)
      <4>1. toHost' = Append(toHost, x) /\ UNCHANGED <<webVars, unseen>>
        BY <1>3, <4>0 DEF ReceiveView
      <4>2. x \in Messages'
        BY <1>0, <2>1, <4>0 DEF Snapshot, Messages, Contents, Scalars, ViewType, FlushGrows
      <4> HIDE DEF x
      <4> QED
        BY <1>0, <4>1, <4>2 DEF webVars, Scalars, ViewType, DiskType
    <3> QED
      BY <3>1, <3>2
  <2>3. Scalars'
    BY <1>0, <2>0, <2>2 DEF HostSide, Scalars, ViewType, DiskType, DraftType, SessionType, ProjType,
       CloseType, CountType, draftVars, projVars, closeVars, boundVars
  <2>4. toView' = Tail(toView) /\ UNCHANGED <<jobs, save>>
    BY <1>3, <2>0 DEF ReceiveView, HostSide
  <2> QED
    BY <2>0, <2>1, <2>2, <2>3, <2>4, StepTyped DEF MailMoves
<1> QED
  BY <1>1, <1>2, <1>3

LEMMA JobTyped ==
    ASSUME SessionType, ProjType, FlushGrows, NEW m \in PersistMessages
    PROVE  Job(m) \in Jobs'
<1>1. /\ m.text \in Texts /\ m.meta \in Metas /\ m.rev \in Nat
      /\ m.flush \in {None} \cup DOMAIN flush'
  BY DEF PersistMessages, FlushGrows
<1>2. sequence + 1 \in Nat /\ epoch \in Nat
  BY DEF SessionType, ProjType
<1>3. Disposed \in BOOLEAN
  BY DEF Disposed
<1>4. "queued" \in PersistStages /\ 0 \in 0 .. RollbackAttempts
  BY DEF PersistStages, RollbackAttempts
<1> HIDE DEF Disposed
<1> QED
  BY <1>1, <1>2, <1>3, <1>4 DEF Job, Jobs

LEMMA PersistTyped ==
    ASSUME SessionType, ProjType, FlushType, NEW m \in PersistMessages, Persist(m),
           UNCHANGED <<editRev, closing>>
    PROVE  SessionType' /\ ProjType' /\ FlushGrows /\ Moves(jobs, jobs', Jobs')
<1>1. FlushGrows
  BY FlushMoves DEF Persist
<1>2. ProjType'
  <2>1. UNCHANGED projVars \/ RetireProjection(m)
    BY DEF Persist
  <2>2. \/ UNCHANGED projVars
        \/ /\ pending' = None /\ projGen' = projGen + 1
           /\ UNCHANGED <<activeGen, activeText, epoch, authority, candidate>>
    BY <2>1 DEF RetireProjection
  <2> QED
    BY <2>2 DEF projVars, ProjType
<1>3. SessionType'
  <2>1. unloaded' = unloaded \/ unloaded' \in BOOLEAN
    BY Zenon DEF Persist
  <2>2. sequence' = sequence \/ sequence' = sequence + 1
    BY DEF Persist
  <2> QED
    BY <2>1, <2>2 DEF SessionType
<1>4. UNCHANGED jobs \/ jobs' = Append(jobs, Job(m))
  BY DEF Persist
<1> QED
  BY <1>1, <1>2, <1>3, <1>4, JobTyped DEF Moves

LEMMA CompleteReloadTyped ==
    ASSUME SessionType, ProjType, FlushType, NEW m \in ReloadMessages, CompleteReload(m),
           UNCHANGED closing
    PROVE  SessionType' /\ ProjType' /\ FlushGrows /\ Moves(jobs, jobs', Jobs')
<1>1. FlushGrows /\ Moves(jobs, jobs', Jobs')
  BY FlushMoves DEF CompleteReload, Moves
<1>2. SessionType'
  BY DEF CompleteReload, SessionType, ReloadMessages, Newer
<1>3. PendingAt("posted") => pending \in Projections
  BY SidecarAssumption DEF PendingAt, ProjType
<1>4. ProjType'
  BY <1>3 DEF CompleteReload, ProjType, Projections
<1> QED
  BY <1>1, <1>2, <1>4

LEMMA ReceiveHostTyped == ASSUME TypeInv, ReceiveHost PROVE TypeInv'
<1> DEFINE m == Head(toHost)
<1>0. Scalars /\ FlushType /\ MailType
  BY DEF TypeInv
<1>1. toHost # <<>> /\ m \in Messages /\ toHost' = Tail(toHost)
  BY <1>0, HeadOfMail DEF ReceiveHost
<1>2. \/ UNCHANGED <<sequence, jobs, flush, projVars, unloaded, editRev>>
      \/ m.type = "persist" /\ Persist(m) /\ UNCHANGED editRev
      \/ m.type # "persist" /\ CompleteReload(m)
  BY DEF ReceiveHost, Retained
<1>3. UNCHANGED <<webVars, toView, doc, fileVars, draftVars, unseen, save, close, visible, closing,
                  boundVars, faults>>
  BY DEF ReceiveHost
<1> HIDE DEF m
<1>4. SessionType' /\ ProjType' /\ FlushGrows /\ Moves(jobs, jobs', Jobs')
  <2>1. CASE UNCHANGED <<sequence, jobs, flush, projVars, unloaded, editRev>>
    BY <1>0, <1>3, <2>1, FlushMoves DEF Scalars, SessionType, ProjType, projVars, Moves
  <2>2. CASE m.type = "persist" /\ Persist(m) /\ UNCHANGED editRev
    BY <1>0, <1>1, <1>3, <2>2, MessageKinds, PersistTyped DEF Scalars
  <2>3. CASE m.type # "persist" /\ CompleteReload(m)
    BY <1>0, <1>1, <1>3, <2>3, MessageKinds, CompleteReloadTyped DEF Scalars
  <2> QED
    BY <1>2, <2>1, <2>2, <2>3
<1>5. Scalars'
  BY <1>0, <1>3, <1>4 DEF Scalars, ViewType, DiskType, DraftType, CloseType, CountType, webVars,
     fileVars, draftVars, boundVars
<1>6. MailMoves
  BY <1>1, <1>3, <1>4 DEF MailMoves, JobsMove, Moves
<1> QED
  BY <1>5, <1>6, StepTyped

-----------------------------------------------------------------------------
(* The work of a persist. *)

PersistJobs ==
    [kind : {"persist"}, text : Texts, meta : Metas, copy : Metas, rev : Nat, sn : Nat,
     epoch : Nat, flush : {None} \cup DOMAIN flush, late : BOOLEAN, stage : PersistStages,
     version : Nat, tries : 0 .. RollbackAttempts]

RepairJobs ==
    [kind : {"repair"}, stage : {"queued", "repaired", "projecting"}, by : Nat,
     rev : Nat, sn : Nat, input : Metas, output : Metas, gen : Nat]

LEMMA JobKinds ==
    ASSUME MailType
    PROVE  /\ \A stage : Running("persist", stage) => jobs # <<>> /\ Head1 \in PersistJobs
           /\ \A stage : Running("repair", stage) => jobs # <<>> /\ Head1 \in RepairJobs
<1>1. jobs # <<>> => Head1 \in Jobs
  BY HeadOfMail
<1>2. \A j \in Jobs : j.kind = "persist" => j \in PersistJobs
  BY DEF Jobs, PersistJobs
<1>3. \A j \in Jobs : j.kind = "repair" => j \in RepairJobs
  BY DEF Jobs, RepairJobs
<1> QED
  BY <1>1, <1>2, <1>3 DEF Running

(* The head goes on as another job of its kind. *)
LEMMA HeadTyped ==
    ASSUME MailType, FlushGrows, jobs # <<>>, HeadGoesOn,
           jobs'[1] \in PersistJobs \cup RepairJobs
    PROVE  JobsMove
<1>1. PersistJobs \cup RepairJobs \subseteq Jobs
  BY DEF PersistJobs, RepairJobs, Jobs
<1>2. Jobs \subseteq Jobs'
  BY Widen DEF FlushGrows
<1> QED
  BY <1>1, <1>2 DEF JobsMove

LEMMA HeadFields ==
    ASSUME MailType, jobs # <<>>
    PROVE  /\ \A s : Advance(s) => jobs'[1] = [Head1 EXCEPT !.stage = s]
           /\ \A s, m : jobs' = [jobs EXCEPT ![1].stage = s, ![1].meta = m]
                => jobs'[1] = [Head1 EXCEPT !.stage = s, !.meta = m]
           /\ jobs' = [jobs EXCEPT ![1].tries = @ + 1]
                => jobs'[1] = [Head1 EXCEPT !.tries = @ + 1]
           /\ \A s, m : jobs' = [jobs EXCEPT ![1].stage = s, ![1].gen = m]
                => jobs'[1] = [Head1 EXCEPT !.stage = s, !.gen = m]
           /\ \A s, m, n : jobs' = [jobs EXCEPT ![1].stage = s, ![1].input = m, ![1].output = n]
                => jobs'[1] = [Head1 EXCEPT !.stage = s, !.input = m, !.output = n]
<1>1. 1 \in DOMAIN jobs
  BY DEF MailType
<1> QED
  BY <1>1 DEF Advance, Head1

LEMMA EndPersistTyped ==
    ASSUME FlushType, jobs # <<>>, NEW ok, EndPersist(ok)
    PROVE  FlushGrows /\ JobsMove
BY FlushMoves DEF EndPersist, JobsMove, Moves

LEMMA SetDraftTyped ==
    ASSUME DraftType, DiskType, NEW j \in PersistJobs, NEW copy \in Metas, SetDraft(j, copy),
           UNCHANGED sidecar \/ sidecar' = copy
    PROVE  DraftType' /\ unseen' \in {"no", "clean", "draft"}
<1>1. j.meta \in Metas /\ j.sn \in Nat /\ j.rev \in Nat
  BY DEF PersistJobs
<1>2. DirtyAfter(copy) \in BOOLEAN /\ BaseAfter(copy) \in Metas \cup {None}
  BY DEF DirtyAfter, BaseAfter, DraftType
<1>3. unseen' \in {"no", "clean", "draft"}
  BY DEF SetDraft, DiskType
<1> HIDE DEF DirtyAfter
<1> QED
  BY <1>1, <1>2, <1>3 DEF SetDraft, DraftType, Drafts

(* What the work of a persist leaves alone. *)
LEMMA JobSideTyped ==
    ASSUME TypeInv, UNCHANGED <<webVars, channelVars, save, closeVars, edits, externals, foreigns>>,
           DiskType', DraftType', editRev' \in Nat, sequence' \in Nat, ProjType',
           faults' \in Nat /\ faults' <= MaxFaults, FlushGrows, JobsMove
    PROVE  TypeInv'
<1>1. Scalars'
  BY DEF TypeInv, Scalars, ViewType, SessionType, CloseType, CountType, webVars, closeVars
<1>2. MailMoves
  BY DEF MailMoves, Moves, channelVars
<1> QED
  BY <1>1, <1>2, StepTyped

LEMMA Tries ==
    ASSUME NEW j \in PersistJobs, j.tries + 1 < RollbackAttempts
    PROVE  [j EXCEPT !.tries = @ + 1] \in PersistJobs
BY DEF PersistJobs, RollbackAttempts

LEMMA PersistStepTyped == ASSUME TypeInv, PersistStep \/ PreparationFails PROVE TypeInv'
<1>0. Scalars /\ FlushType /\ MailType
  BY DEF TypeInv
<1> USE DEF JobSide, boundVars
<1>f. UNCHANGED faults \/ Fault => faults' \in Nat /\ faults' <= MaxFaults
  BY <1>0, FaultTyped DEF Scalars, CountType
<1>d. ASSUME UNCHANGED <<doc, fileVars, unseen>> PROVE DiskType'
  BY <1>0, <1>d DEF Scalars, DiskType, fileVars
<1>k. ASSUME UNCHANGED draftVars PROVE DraftType'
  BY <1>0, <1>k DEF Scalars, DraftType, draftVars
<1>p. ASSUME UNCHANGED projVars PROVE ProjType'
  BY <1>0, <1>p DEF Scalars, ProjType, projVars
<1>n. UNCHANGED flush => FlushGrows
  BY <1>0, FlushMoves
<1>1. CASE StartPersist
  <2>0. jobs # <<>> /\ Head1 \in PersistJobs
    BY <1>0, <1>1, JobKinds DEF StartPersist
  <2>1. editRev' \in Nat /\ sequence' \in Nat
    BY <1>0, <1>1, <2>0 DEF StartPersist, Newer, PersistJobs, Scalars, SessionType
  <2>2. FlushGrows /\ JobsMove
    <3>1. CASE Advance("sanitizing") /\ UNCHANGED flush
      <4>1. [Head1 EXCEPT !.stage = "sanitizing"] \in PersistJobs
        BY <2>0 DEF PersistJobs, PersistStages
      <4> QED
        BY <1>0, <1>n, <2>0, <3>1, <4>1, Goes, HeadFields, HeadTyped, QueueOf DEF MailType
    <3>2. CASE EndPersist(FALSE)
      BY <1>0, <2>0, <3>2, EndPersistTyped
    <3> QED
      BY <1>1, <3>1, <3>2 DEF StartPersist
  <2> QED
    BY <1>1, <1>f, <1>d, <1>k, <1>p, <2>1, <2>2, JobSideTyped DEF StartPersist
<1>2. CASE SanitizeState
  <2>0. jobs # <<>> /\ Head1 \in PersistJobs
    BY <1>0, <1>2, JobKinds DEF SanitizeState
  <2>2. FlushGrows /\ JobsMove
    <3> DEFINE m == Sanitize(Head1.meta)
    <3>1. CASE jobs' = [jobs EXCEPT ![1].stage = "materializing", ![1].meta = m] /\ UNCHANGED flush
      <4>1. m \in Metas
        BY <2>0, SanitizeTyped DEF PersistJobs
      <4> HIDE DEF m
      <4>2. [Head1 EXCEPT !.stage = "materializing", !.meta = m] \in PersistJobs
        BY <2>0, <4>1 DEF PersistJobs, PersistStages
      <4> QED
        <5>1. HeadGoesOn
          BY <1>0, <3>1, Goes, QueueOf DEF MailType
        <5>2. jobs'[1] = [Head1 EXCEPT !.stage = "materializing", !.meta = m]
          BY <1>0, <2>0, <3>1, HeadFields
        <5> QED
          BY <1>0, <1>n, <2>0, <3>1, <4>2, <5>1, <5>2, HeadTyped
    <3>2. CASE EndPersist(FALSE)
      BY <1>0, <2>0, <3>2, EndPersistTyped
    <3> QED
      BY <1>2, <3>1, <3>2 DEF SanitizeState
  <2> QED
    BY <1>0, <1>2, <1>f, <1>d, <1>k, <1>p, <2>2, JobSideTyped DEF SanitizeState, Scalars, SessionType
<1>3. CASE MaterializeState
  <2> DEFINE copy == Sanitize(Head1.meta)
  <2>0. jobs # <<>> /\ Head1 \in PersistJobs
    BY <1>0, <1>3, JobKinds DEF MaterializeState
  <2>1. copy \in Metas
    BY <2>0, SanitizeTyped DEF PersistJobs
  <2>2. \/ EndPersist(FALSE) /\ UNCHANGED <<draftVars, unseen>>
        \/ Commit(copy)
        \/ /\ jobs' = [jobs EXCEPT ![1].stage = "applying", ![1].copy = copy,
                                   ![1].version = externals]
           /\ UNCHANGED <<flush, draftVars, unseen>>
    BY <1>3 DEF MaterializeState
  <2> HIDE DEF copy
  <2>3. FlushGrows /\ JobsMove /\ DraftType' /\ unseen' \in {"no", "clean", "draft"}
    <3>1. CASE EndPersist(FALSE) /\ UNCHANGED <<draftVars, unseen>>
      BY <1>0, <1>k, <2>0, <3>1, EndPersistTyped DEF Scalars, DiskType
    <3>2. CASE Commit(copy)
      BY <1>0, <2>0, <2>1, <3>2, EndPersistTyped, SetDraftTyped DEF Commit, Scalars
    <3>3. CASE /\ jobs' = [jobs EXCEPT ![1].stage = "applying", ![1].copy = copy,
                                      ![1].version = externals]
               /\ UNCHANGED <<flush, draftVars, unseen>>
      <4>1. [Head1 EXCEPT !.stage = "applying", !.copy = copy, !.version = externals] \in PersistJobs
        BY <1>0, <2>0, <2>1 DEF PersistJobs, PersistStages, Scalars, CountType
      <4>2. FlushGrows /\ JobsMove
        <5>1. HeadGoesOn
          BY <1>0, <3>3, Goes, QueueOf DEF MailType
        <5>2. jobs'[1] = [Head1 EXCEPT !.stage = "applying", !.copy = copy, !.version = externals]
          <6>1. 1 \in DOMAIN jobs
            BY <1>0, <2>0 DEF MailType
          <6> QED
            BY <3>3, <6>1 DEF Head1
        <5> QED
          BY <1>0, <1>n, <2>0, <3>3, <4>1, <5>1, <5>2, HeadTyped
      <4> QED
        BY <1>0, <1>k, <3>3, <4>2 DEF Scalars, DiskType
    <3> QED
      BY <2>2, <3>1, <3>2, <3>3
  <2>4. DiskType'
    BY <1>0, <1>3, <2>3 DEF MaterializeState, Scalars, DiskType, fileVars
  <2> QED
    BY <1>0, <1>3, <1>f, <1>p, <2>3, <2>4, JobSideTyped DEF MaterializeState, Scalars, SessionType
<1>4. CASE ApplySourceText
  <2>0. jobs # <<>> /\ Head1 \in PersistJobs
    BY <1>0, <1>4, JobKinds DEF ApplySourceText
  <2>1. DiskType'
    BY <1>0, <1>4, <2>0 DEF ApplySourceText, PersistJobs, Scalars, DiskType, fileVars
  <2>2. FlushGrows /\ JobsMove
    <3>1. CASE Advance("applied") /\ UNCHANGED flush
      <4>1. [Head1 EXCEPT !.stage = "applied"] \in PersistJobs
        BY <2>0 DEF PersistJobs, PersistStages
      <4> QED
        BY <1>0, <1>n, <2>0, <3>1, <4>1, Goes, HeadFields, HeadTyped, QueueOf DEF MailType
    <3>2. CASE EndPersist(FALSE)
      BY <1>0, <2>0, <3>2, EndPersistTyped
    <3> QED
      BY <1>4, <3>1, <3>2 DEF ApplySourceText
  <2>3. UNCHANGED faults \/ Fault
    BY <1>4 DEF ApplySourceText
  <2> QED
    BY <1>0, <1>4, <1>f, <1>k, <1>p, <2>1, <2>2, <2>3, JobSideTyped
    DEF ApplySourceText, Scalars, SessionType
<1>5. CASE ResumeApplied
  <2>0. jobs # <<>> /\ Head1 \in PersistJobs
    BY <1>0, <1>5, JobKinds DEF ResumeApplied
  <2>1. /\ FlushGrows /\ JobsMove /\ DraftType' /\ unseen' \in {"no", "clean", "draft"}
        /\ ProjType' /\ sequence' \in Nat
    <3>1. CASE doc # Head1.text
      <4>1. Project(TRUE, doc, None, sidecar) /\ EndPersist(FALSE) /\ UNCHANGED <<draftVars, unseen>>
        BY <1>5, <3>1 DEF ResumeApplied
      <4>2. doc \in Texts /\ sidecar \in Metas
        BY <1>0 DEF Scalars, DiskType, DraftType
      <4>3. ProjType' /\ sequence' \in Nat
        BY <1>0, <4>1, <4>2, ProjectTyped DEF Scalars
      <4> QED
        BY <1>0, <1>k, <2>0, <4>1, <4>3, EndPersistTyped DEF Scalars, DiskType
    <3>2. CASE doc = Head1.text /\ IsCurrent(Head1)
      <4>1. Commit(Head1.copy) /\ UNCHANGED <<projVars, sequence>>
        BY <1>5, <3>2 DEF ResumeApplied
      <4>2. Head1.copy \in Metas
        BY <2>0 DEF PersistJobs
      <4> QED
        BY <1>0, <1>p, <2>0, <4>1, <4>2, EndPersistTyped, SetDraftTyped
        DEF Commit, Scalars, SessionType
    <3>3. CASE doc = Head1.text /\ ~IsCurrent(Head1) /\ MustRollBack(Head1)
      <4>1. /\ candidate' = Head1.text
            /\ jobs' = [jobs EXCEPT ![1].stage = "restoring", ![1].epoch = epoch,
                                    ![1].version = externals]
            /\ UNCHANGED <<flush, draftVars, unseen, sequence, projGen, activeGen, activeText,
                           pending, epoch, authority>>
        BY <1>5, <3>3 DEF ResumeApplied
      <4>2. [Head1 EXCEPT !.stage = "restoring", !.epoch = epoch, !.version = externals]
              \in PersistJobs
        BY <1>0, <2>0 DEF PersistJobs, PersistStages, Scalars, CountType, ProjType
      <4>3. FlushGrows /\ JobsMove
        <5>1. HeadGoesOn
          BY <1>0, <4>1, Goes, QueueOf DEF MailType
        <5>2. jobs'[1] = [Head1 EXCEPT !.stage = "restoring", !.epoch = epoch, !.version = externals]
          <6>1. 1 \in DOMAIN jobs
            BY <1>0, <2>0 DEF MailType
          <6> QED
            BY <4>1, <6>1 DEF Head1
        <5> QED
          BY <1>0, <1>n, <2>0, <4>1, <4>2, <5>1, <5>2, HeadTyped
      <4>4. ProjType'
        BY <1>0, <2>0, <4>1 DEF Scalars, ProjType, PersistJobs
      <4> QED
        BY <1>0, <1>k, <4>1, <4>3, <4>4 DEF Scalars, DiskType, SessionType
    <3>4. CASE doc = Head1.text /\ ~IsCurrent(Head1) /\ ~MustRollBack(Head1)
      <4>1. EndPersist(FALSE) /\ UNCHANGED <<projVars, sequence, draftVars, unseen>>
        BY <1>5, <3>4 DEF ResumeApplied
      <4> QED
        BY <1>0, <1>k, <1>p, <2>0, <4>1, EndPersistTyped DEF Scalars, DiskType, SessionType
    <3> QED
      BY <3>1, <3>2, <3>3, <3>4
  <2>2. DiskType'
    BY <1>0, <1>5, <2>1 DEF ResumeApplied, Scalars, DiskType, fileVars
  <2> QED
    BY <1>0, <1>5, <1>f, <2>1, <2>2, JobSideTyped DEF ResumeApplied, Scalars, SessionType
<1>6. CASE RestoreSourceText
  <2>0. jobs # <<>> /\ Head1 \in PersistJobs
    BY <1>0, <1>6, JobKinds DEF RestoreSourceText
  <2>1. DiskType' /\ ProjType'
    BY <1>0, <1>6 DEF RestoreSourceText, Scalars, DiskType, ProjType, fileVars
  <2>2. FlushGrows /\ JobsMove
    <3>1. CASE EndPersist(FALSE)
      BY <1>0, <2>0, <3>1, EndPersistTyped
    <3>2. CASE /\ Head1.tries + 1 < RollbackAttempts
               /\ jobs' = [jobs EXCEPT ![1].tries = @ + 1] /\ UNCHANGED flush
      <4>1. [Head1 EXCEPT !.tries = @ + 1] \in PersistJobs
        BY <2>0, <3>2, Tries
      <4> QED
        BY <1>0, <1>n, <2>0, <3>2, <4>1, Goes, HeadFields, HeadTyped, QueueOf DEF MailType
    <3> QED
      BY <1>6, <3>1, <3>2 DEF RestoreSourceText
  <2>3. UNCHANGED faults \/ Fault
    BY <1>6 DEF RestoreSourceText
  <2> QED
    BY <1>0, <1>6, <1>f, <1>k, <2>1, <2>2, <2>3, JobSideTyped
    DEF RestoreSourceText, Scalars, SessionType
<1>7. CASE PreparationFails
  <2>0. jobs # <<>> /\ Head1 \in PersistJobs
    BY <1>0, <1>7, JobKinds DEF PreparationFails
  <2>1. DraftType' /\ unseen' \in {"no", "clean", "draft"}
    <3>1. CASE SetDraft(Head1, Head1.meta) /\ UNCHANGED sidecar
      BY <1>0, <2>0, <3>1, SetDraftTyped DEF Scalars, PersistJobs
    <3>2. CASE UNCHANGED <<draftVars, unseen>>
      BY <1>0, <1>k, <3>2 DEF Scalars, DiskType
    <3> QED
      BY <1>7, <3>1, <3>2 DEF PreparationFails
  <2>2. DiskType'
    BY <1>0, <1>7, <2>1 DEF PreparationFails, Scalars, DiskType, fileVars
  <2>3. FlushGrows /\ JobsMove
    BY <1>0, <1>7, <2>0, EndPersistTyped DEF PreparationFails
  <2> QED
    BY <1>0, <1>7, <1>f, <1>p, <2>1, <2>2, <2>3, JobSideTyped
    DEF PreparationFails, Scalars, SessionType
<1> QED
  BY <1>1, <1>2, <1>3, <1>4, <1>5, <1>6, <1>7 DEF PersistStep

-----------------------------------------------------------------------------
(* The save, the repair, and the closing of the panel. *)

LEMMA WriteFreshTyped ==
    ASSUME DraftType, DiskType, SessionType, WriteFresh
    PROVE  DraftType' /\ file' \in Metas /\ UNCHANGED <<policy, unseen>>
<1>1. Published \in Metas
  BY SanitizeTyped DEF DraftType, Drafts, Published
<1> HIDE DEF Published
<1> QED
  BY <1>1 DEF WriteFresh, DraftType, SessionType

(* Writing the draft, or failing to. *)
LEMMA WritesTyped ==
    ASSUME Scalars, UNCHANGED doc,
           \/ UNCHANGED <<fileVars, draftVars, unseen, faults>>
           \/ WriteFresh /\ UNCHANGED faults
           \/ WriteFreshFails
    PROVE  DraftType' /\ DiskType' /\ faults' \in Nat /\ faults' <= MaxFaults
<1>1. CASE UNCHANGED <<fileVars, draftVars, unseen, faults>>
  BY <1>1 DEF Scalars, DraftType, DiskType, CountType, fileVars, draftVars
<1>2. CASE WriteFresh /\ UNCHANGED faults
  BY <1>2, WriteFreshTyped DEF Scalars, DiskType, CountType
<1>3. CASE WriteFreshFails
  <2>1. faults' \in Nat /\ faults' <= MaxFaults
    BY <1>3, FaultTyped DEF WriteFreshFails, Scalars, CountType
  <2> QED
    BY <1>3, <2>1 DEF WriteFreshFails, Scalars, DraftType, DiskType, fileVars, draftVars
<1> QED
  BY <1>1, <1>2, <1>3

LEMMA SaveStepTyped == ASSUME TypeInv, SaveStep \/ WillSave \/ SaveTimesOut PROVE TypeInv'
<1> USE DEF Moves, JobsMove, SaveSide
<1>0. Scalars /\ FlushType /\ MailType
  BY DEF TypeInv
<1>i. save \in Saves
  BY <1>0 DEF MailType
<1>s. ASSUME UNCHANGED <<SaveSide, fileVars, draftVars, unseen, editRev, sequence, faults>>
      PROVE  Scalars'
  BY <1>0, <1>s DEF Scalars, ViewType, DiskType, DraftType, SessionType, ProjType, CloseType, CountType,
     webVars, fileVars, draftVars, projVars, closeVars, boundVars
<1>1. CASE WillSave
  <2>1. FlushGrows /\ (RequestFinalPersist => Len(flush) + 1 \in DOMAIN flush')
    BY <1>0, <1>1, FlushMoves DEF WillSave
  <2>2. save' \in Saves'
    <3>1. save \in Saves'
      BY <1>i, <2>1, Widen DEF FlushGrows
    <3>2. edits + externals \in Nat
      BY <1>0 DEF Scalars, CountType
    <3>3. CASE /\ save' = [save EXCEPT !.stage = "flushing", !.id = Len(flush) + 1,
                                       !.at = edits + externals]
               /\ RequestFinalPersist
      <4>1. Len(flush) + 1 \in DOMAIN flush'
        BY <2>1, <3>3
      <4> QED
        BY <3>1, <3>2, <3>3, <4>1 DEF Saves
    <3>4. CASE save' = [NoLongerAwaited("forced") EXCEPT !.refused = @ + 1]
      <4>1. save.refused + 1 \in Nat /\ "forced" \in {"none", "flushing", "draining", "storing", "forced"}
        BY <1>i DEF Saves
      <4>2. save' = [save EXCEPT !.stage = "forced", !.id = 0, !.at = 0, !.refused = save.refused + 1]
        BY <1>i, <3>4 DEF NoLongerAwaited, Saves
      <4> QED
        BY <3>1, <4>1, <4>2 DEF Saves
    <3> QED
      BY <1>1, <3>3, <3>4 DEF WillSave
  <2> QED
    BY <1>1, <1>s, <2>1, <2>2, StepTyped DEF WillSave, channelVars, MailMoves
<1>2. CASE SaveFlushed \/ SaveTimesOut \/ SaveDrained
  <2>1. \/ \E s \in {"draining", "storing"} : save' = [save EXCEPT !.stage = s]
        \/ save' = [save EXCEPT !.stage = "forced", !.id = 0, !.at = 0]
    BY <1>2 DEF SaveFlushed, SaveTimesOut, SaveDrained, NoLongerAwaited
  <2>2. save' \in Saves
    <3>1. CASE save' = [save EXCEPT !.stage = "forced", !.id = 0, !.at = 0]
      BY <1>i, <3>1 DEF Saves
    <3>2. ASSUME NEW s \in {"draining", "storing"}, save' = [save EXCEPT !.stage = s]
          PROVE  save' \in Saves
      BY <1>i, <3>2 DEF Saves
    <3> QED
      BY <2>1, <3>1, <3>2
  <2>3. FlushGrows
    BY <1>0, <1>2, FlushMoves DEF SaveFlushed, SaveTimesOut, SaveDrained
  <2>4. save' \in Saves'
    BY <2>2, <2>3, Widen DEF FlushGrows
  <2> QED
    BY <1>2, <1>s, <2>3, <2>4, StepTyped DEF SaveFlushed, SaveTimesOut, SaveDrained, channelVars, MailMoves
<1>3. CASE DidSave
  <2>1. FlushGrows
    BY <1>0, <1>3, FlushMoves DEF DidSave
  <2>2. save' \in Saves
    BY <1>i, <1>3 DEF DidSave, NoLongerAwaited, Saves
  <2>3. save' \in Saves'
    BY <2>1, <2>2, Widen DEF FlushGrows
  <2>4. [kind |-> "save", stage |-> "queued"] \in Jobs'
    BY DEF Jobs
  <2>5. JobsMove
    BY <1>3, <2>4 DEF DidSave
  <2> QED
    BY <1>3, <1>s, <2>1, <2>3, <2>5, StepTyped DEF DidSave, channelVars, MailMoves
<1>4. CASE SaveSidecar
  <2>1. DraftType' /\ DiskType' /\ faults' \in Nat /\ faults' <= MaxFaults
    BY <1>0, <1>4, WritesTyped DEF SaveSidecar
  <2>2. Scalars'
    BY <1>0, <1>4, <2>1 DEF SaveSidecar, Scalars, ViewType, SessionType, ProjType, CloseType, CountType,
       webVars, projVars, closeVars, boundVars
  <2>3. FlushGrows
    BY <1>0, <1>4, FlushMoves DEF SaveSidecar
  <2>4. JobsMove
    BY <1>4 DEF SaveSidecar, Running
  <2> QED
    BY <1>4, <2>2, <2>3, <2>4, StepTyped DEF SaveSidecar, channelVars, MailMoves
<1> QED
  BY <1>1, <1>2, <1>3, <1>4 DEF SaveStep

LEMMA RepairStepTyped == ASSUME TypeInv, RepairStep \/ RepairFails PROVE TypeInv'
<1> USE DEF RepairSide
<1>0. Scalars /\ FlushType /\ MailType
  BY DEF TypeInv
<1>n. UNCHANGED flush => FlushGrows
  BY <1>0, FlushMoves
<1>k. \A m \in Metas : Sanitize(m) \in Metas
  BY SanitizeTyped
<1>1. CASE RepairFile
  <2>0. jobs # <<>> /\ Head1 \in RepairJobs /\ FlushGrows
    BY <1>0, <1>1, <1>n, JobKinds DEF RepairFile
  <2>1. Scalars'
    BY <1>0, <1>1, <1>k DEF RepairFile, Scalars, ViewType, DiskType, DraftType, SessionType, ProjType,
       CloseType, CountType, webVars, draftVars, projVars, closeVars, boundVars
  <2> DEFINE out == Sanitize(file)
  <2>2. jobs' = [jobs EXCEPT ![1].stage = "repaired", ![1].input = file, ![1].output = out]
    BY <1>1 DEF RepairFile
  <2>3. file \in Metas /\ out \in Metas
    BY <1>0, <1>k DEF Scalars, DiskType
  <2> HIDE DEF out
  <2>4. [Head1 EXCEPT !.stage = "repaired", !.input = file, !.output = out] \in RepairJobs
    BY <2>0, <2>3 DEF RepairJobs
  <2>5. HeadGoesOn
    BY <1>0, <2>2, Goes, QueueOf DEF MailType
  <2>6. jobs'[1] = [Head1 EXCEPT !.stage = "repaired", !.input = file, !.output = out]
    <3>1. 1 \in DOMAIN jobs
      BY <1>0, <2>0 DEF MailType
    <3> QED
      BY <2>2, <3>1 DEF Head1
  <2>7. JobsMove
    BY <1>0, <2>0, <2>4, <2>5, <2>6, HeadTyped
  <2> QED
    BY <1>1, <2>0, <2>1, <2>7, StepTyped DEF RepairFile, MailMoves, Moves
<1>2. CASE RepairFails
  <2>1. known' \in Drafts
    BY <1>0, <1>2, <1>k DEF RepairFails, Scalars, DraftType, Drafts
  <2>2. CountType'
    BY <1>0, <1>2, FaultTyped DEF RepairFails, Scalars, CountType, boundVars
  <2>3. Scalars'
    BY <1>0, <1>2, <2>1, <2>2 DEF RepairFails, Scalars, ViewType, DiskType, DraftType, SessionType,
       ProjType, CloseType, webVars, fileVars, projVars, closeVars
  <2>4. JobsMove
    BY <1>2 DEF RepairFails, Running, JobsMove, Moves
  <2> QED
    BY <1>2, <1>n, <2>3, <2>4, StepTyped DEF RepairFails, MailMoves, Moves
<1>3. CASE AdoptRepair
  <2>0. jobs # <<>> /\ Head1 \in RepairJobs /\ FlushGrows
    BY <1>0, <1>3, <1>n, JobKinds DEF AdoptRepair
  <2>1. Head1.output \in Metas
    BY <2>0 DEF RepairJobs
  <2>2. DraftType'
    <3>1. known' \in Drafts
      BY <1>0, <1>3, <1>k DEF AdoptRepair, Scalars, DraftType, Drafts
    <3>2. base' \in Metas \cup {None}
      BY <1>0, <1>3, <2>1 DEF AdoptRepair, Rebase, Scalars, DraftType
    <3> QED
      BY <1>0, <1>3, <2>1, <3>1, <3>2 DEF AdoptRepair, Scalars, DraftType
  <2>3. ProjType' /\ sequence' \in Nat /\ JobsMove
    <3>1. CASE /\ Project(FALSE, doc, editRev, Head1.output)
               /\ jobs' = [jobs EXCEPT ![1].stage = "projecting", ![1].gen = projGen + 1]
      <4>1. doc \in Texts /\ editRev \in Nat /\ projGen \in Nat
        BY <1>0 DEF Scalars, DiskType, SessionType, ProjType
      <4>2. ProjType' /\ sequence' \in Nat
        BY <1>0, <2>1, <3>1, <4>1, ProjectTyped DEF Scalars
      <4>3. [Head1 EXCEPT !.stage = "projecting", !.gen = projGen + 1] \in RepairJobs
        <5>1. projGen + 1 \in Nat
          BY <4>1
        <5> QED
          BY <2>0, <5>1 DEF RepairJobs
      <4>4. HeadGoesOn
        BY <1>0, <3>1, Goes, QueueOf DEF MailType
      <4>5. jobs'[1] = [Head1 EXCEPT !.stage = "projecting", !.gen = projGen + 1]
        <5>1. 1 \in DOMAIN jobs
          BY <1>0, <2>0 DEF MailType
        <5> QED
          BY <3>1, <5>1 DEF Head1
      <4> QED
        BY <1>0, <2>0, <4>2, <4>3, <4>4, <4>5, HeadTyped
    <3>2. CASE jobs' = Tail(jobs) /\ UNCHANGED <<projVars, sequence>>
      BY <1>0, <2>0, <3>2 DEF Scalars, SessionType, ProjType, projVars, JobsMove, Moves
    <3> QED
      BY <1>3, <3>1, <3>2 DEF AdoptRepair
  <2>4. Scalars'
    BY <1>0, <1>3, <2>2, <2>3 DEF AdoptRepair, Scalars, ViewType, DiskType, SessionType,
       CloseType, CountType, webVars, fileVars, closeVars, boundVars
  <2> QED
    BY <1>3, <2>0, <2>3, <2>4, StepTyped DEF AdoptRepair, MailMoves, Moves
<1>4. CASE RepairProjected
  <2>0. jobs # <<>> /\ Head1 \in RepairJobs /\ FlushGrows
    BY <1>0, <1>4, <1>n, JobKinds DEF RepairProjected
  <2>1. Head1.output \in Metas /\ Head1.rev \in Nat
    BY <2>0 DEF RepairJobs
  <2>2. DraftType'
    <3>1. CASE /\ known' = [known EXCEPT !.meta = Head1.output]
               /\ dirty' = FALSE /\ base' = None /\ stateRev' = Head1.rev
      BY <1>0, <1>4, <2>1, <3>1 DEF RepairProjected, Scalars, DraftType, Drafts
    <3>2. CASE UNCHANGED <<known, dirty, base, stateRev>>
      BY <1>0, <1>4, <3>2 DEF RepairProjected, Scalars, DraftType
    <3> QED
      BY <1>4, <3>1, <3>2 DEF RepairProjected
  <2>3. Scalars'
    BY <1>0, <1>4, <2>2 DEF RepairProjected, Scalars, ViewType, DiskType, SessionType, ProjType,
       CloseType, CountType, webVars, fileVars, projVars, closeVars, boundVars
  <2>4. JobsMove
    BY <1>4, <2>0 DEF RepairProjected, JobsMove, Moves
  <2> QED
    BY <1>4, <2>0, <2>3, <2>4, StepTyped DEF RepairProjected, MailMoves, Moves
<1> QED
  BY <1>1, <1>2, <1>3, <1>4 DEF RepairStep

LEMMA CloseStepTyped ==
    ASSUME TypeInv, CloseStep \/ \E choice \in {"Save", "Discard", None} : AnswerPrompt(choice)
    PROVE  TypeInv'
<1> USE DEF CloseSide
<1>0. Scalars /\ FlushType /\ MailType
  BY DEF TypeInv
<1>n. UNCHANGED flush => FlushGrows
  BY <1>0, FlushMoves
<1>f. UNCHANGED faults \/ Fault => faults' \in Nat /\ faults' <= MaxFaults
  BY <1>0, FaultTyped DEF Scalars, CountType
<1>s. ASSUME UNCHANGED <<CloseSide, unloaded>>, close' \in CloseStages, closing' \in BOOLEAN,
             DraftType', DiskType', faults' \in Nat, faults' <= MaxFaults
      PROVE  Scalars'
  BY <1>0, <1>s DEF Scalars, ViewType, SessionType, ProjType, CloseType, CountType,
     webVars, projVars, boundVars
<1>k. ASSUME UNCHANGED <<doc, unseen, fileVars, draftVars>> PROVE DraftType' /\ DiskType'
  BY <1>0, <1>k DEF Scalars, DraftType, DiskType, fileVars, draftVars
<1>1. CASE \/ CloseFinals \/ CloseAdmission \/ CloseDrained \/ RecoverDraft
           \/ \E choice \in {"Save", "Discard", None} : AnswerPrompt(choice)
  <2>1. close' \in CloseStages /\ closing' \in BOOLEAN
    <3>1. close' \in CloseStages
      BY <1>1, SidecarAssumption DEF CloseFinals, CloseAdmission, CloseDrained, RecoverDraft,
         AnswerPrompt, CloseStages
    <3>2. UNCHANGED closing \/ closing' = TRUE
      BY <1>1 DEF CloseFinals, CloseAdmission, CloseDrained, RecoverDraft, AnswerPrompt
    <3> QED
      BY <1>0, <3>1, <3>2 DEF Scalars, SessionType
  <2>2. UNCHANGED <<CloseSide, toHost, fileVars, draftVars, jobs, flush, unloaded, faults>>
    BY <1>1 DEF CloseFinals, CloseAdmission, CloseDrained, RecoverDraft, AnswerPrompt
  <2> QED
    BY <1>s, <1>k, <1>n, <1>f, <2>1, <2>2, StepTyped DEF MailMoves, Moves, JobsMove
<1>2. CASE CloseUnload
  <2>1. Scalars'
    BY <1>0, <1>2, <1>s, <1>k, <1>f DEF CloseUnload, CloseStages, Scalars, SessionType
  <2>2. FlushGrows
    BY <1>2, <1>n DEF CloseUnload
  <2>3. toHost' \in Seq(Messages')
    <3>1. Messages \subseteq Messages'
      BY <2>2, Widen DEF FlushGrows
    <3> QED
      BY <1>0, <1>2, <3>1, SeqMoves DEF CloseUnload, MailType
  <2>4. toView' \in Seq(Requests') /\ jobs' \in Seq(Jobs') /\ save' \in Saves'
    BY <1>0, <1>2, <2>2, Widen, SeqMoves DEF CloseUnload, MailType, FlushGrows
  <2> QED
    BY <2>1, <2>2, <2>3, <2>4 DEF TypeInv, MailType, FlushType, FlushGrows
<1>3. CASE SaveDraft
  <2>1. DraftType' /\ DiskType' /\ faults' \in Nat /\ faults' <= MaxFaults
    BY <1>0, <1>3, WritesTyped DEF SaveDraft
  <2>2. Scalars'
    BY <1>0, <1>3, <1>s, <2>1 DEF SaveDraft, CloseStages, Scalars, SessionType
  <2> QED
    BY <1>3, <1>n, <2>2, StepTyped DEF SaveDraft, MailMoves, Moves, JobsMove
<1>4. CASE SettleClose
  <2>1. FlushGrows
    BY <1>0, <1>4, FlushMoves DEF SettleClose
  <2>2. Sanitize(file) \in Metas
    BY <1>0, SanitizeTyped DEF Scalars, DiskType
  <2>3. file' \in Metas /\ sidecar' \in Metas /\ written' \in Metas
        /\ faults' \in Nat /\ faults' <= MaxFaults
    BY <1>0, <1>4, <1>f, <2>2 DEF SettleClose, Scalars, DiskType, DraftType
  <2>4. ProjType'
    <3>1. PendingAt("posted") => pending \in Projections
      BY <1>0, SidecarAssumption DEF PendingAt, Scalars, ProjType
    <3>2. pending' \in Projections \cup {None}
      BY <1>0, <1>4, <3>1 DEF SettleClose, Scalars, ProjType, Projections
    <3> QED
      BY <1>0, <1>4, <3>2 DEF SettleClose, Scalars, ProjType
  <2>5. Scalars'
    BY <1>0, <1>4, <2>3, <2>4 DEF SettleClose, Scalars, ViewType, DiskType, DraftType, SessionType,
       CloseType, CountType, webVars, boundVars, CloseStages
  <2> QED
    BY <1>4, <2>1, <2>5, StepTyped DEF SettleClose, MailMoves, Moves, JobsMove
<1> QED
  BY <1>1, <1>2, <1>3, <1>4 DEF CloseStep

-----------------------------------------------------------------------------
LEMMA InitTyped == Init => TypeInv
<1> SUFFICES ASSUME Init PROVE TypeInv
  OBVIOUS
<1>1. ViewType /\ DiskType
  BY SidecarAssumption DEF Init, ViewType, Contents, DiskType
<1>2. DraftType
  BY SidecarAssumption DEF Init, DraftType, Drafts
<1>3. SessionType /\ CloseType
  BY DEF Init, SessionType, CloseType, CloseStages
<1>4. ProjType
  BY SidecarAssumption DEF Init, ProjType
<1>5. CountType
  <2>1. MaxEdits \in Nat /\ MaxExternal \in Nat /\ MaxForeign \in Nat /\ MaxFaults \in Nat
    BY SidecarAssumption
  <2> QED
    BY <2>1 DEF Init, CountType
<1>6. FlushType
  BY DEF Init, FlushType
<1>7. MailType
  BY DEF Init, MailType, Saves
<1> QED
  BY <1>1, <1>2, <1>3, <1>4, <1>5, <1>6, <1>7 DEF TypeInv, Scalars

LEMMA NextTyped == TypeInv /\ [Next]_vars => TypeInv'
<1> SUFFICES ASSUME TypeInv, [Next]_vars PROVE TypeInv'
  OBVIOUS
<1>1. CASE UNCHANGED vars
  <2>1. Scalars'
    BY <1>1 DEF TypeInv, Scalars, ViewType, DiskType, DraftType, SessionType, ProjType,
       CloseType, CountType, vars, webVars, fileVars, draftVars, projVars, closeVars, boundVars
  <2> QED
    BY <1>1, <2>1, FlushMoves, StepTyped DEF TypeInv, vars, channelVars, MailMoves, Moves, JobsMove
<1>2. CASE Work
  BY <1>2, ViewStepsTyped, ReceiveHostTyped, PersistStepTyped, RepairStepTyped, SaveStepTyped,
     CloseStepTyped, OutsideTyped, FlushStepsTyped DEF Work
<1>3. CASE Outside
  BY <1>3, OutsideTyped, FlushStepsTyped, SaveStepTyped, CloseStepTyped, PersistStepTyped,
     RepairStepTyped DEF Outside
<1>4. CASE ProjectionTimesOut \/ \E i \in DOMAIN flush : FlushTimesOut(i)
  BY <1>4, ViewStepsTyped, FlushStepsTyped
<1> QED
  BY <1>1, <1>2, <1>3, <1>4 DEF Next

(* Every variable of the panel keeps its type, for any texts, metadata and *)
(* bounds: a message, a job or a save always names a request that was made, *)
(* and a rollback is tried no more often than SOURCE_ROLLBACK_MAX_ATTEMPTS. *)
THEOREM TypeCorrect == Spec => []TypeOK
<1> QED
  BY InitTyped, NextTyped, TypesHold, PTL DEF Spec

-----------------------------------------------------------------------------
(* What is saved is what the webview shows.  All of it is about an open or  *)
(* closing panel that has met neither a fault nor a change of policy.       *)

Calm == policy = "off" /\ faults = 0 /\ ~closing

Persists == {i \in DOMAIN jobs : jobs[i].kind = "persist"}

(* The persists of the queue are in the order of their admission; none is  *)
(* the current one while a projection is pending.                          *)
QueueInv ==
    /\ \A i \in DOMAIN jobs : jobs[i].kind # "repair"
    /\ \A i \in Persists :
         /\ jobs[i].copy = jobs[i].meta /\ jobs[i].sn <= sequence
         /\ pending # None => jobs[i].sn # sequence
    /\ \A i, k \in Persists : i < k => jobs[i].sn < jobs[k].sn

Projected == {i \in DOMAIN toView : toView[i].type = "data"}

(* The generations: without a pending projection the webview has the       *)
(* latest, and nothing newer is on its way to it.                          *)
GenInv ==
    /\ viewGen <= projGen
    /\ pending = None => viewGen = projGen /\ activeGen = projGen
    /\ pending # None => pending.expected = None /\ pending.gen = projGen
    /\ PendingAt("preparing") =>
         viewGen < projGen /\ \A i \in Projected : toView[i].gen < projGen
    /\ \A i \in Projected :
         /\ viewGen < toView[i].gen /\ toView[i].gen <= projGen
         /\ toView[i].expected = None
    /\ \A i, k \in Projected : i < k => toView[i].gen < toView[k].gen
    /\ \A i \in DOMAIN toHost : toHost[i].gen <= viewGen

(* Whatever carries the number of a final snapshot, it has been asked for. *)
AskInv ==
    /\ \A i \in DOMAIN toView : toView[i].type = "flush" => flush[toView[i].id] # "waiting"
    /\ \A i \in DOMAIN toHost :
         toHost[i].type = "persist" /\ toHost[i].flush # None => flush[toHost[i].flush] # "waiting"
    /\ \A i \in Persists : jobs[i].flush # None => flush[jobs[i].flush] # "waiting"

Shown(x) == x.text = view.text /\ x.meta = view.meta

(* Snapshots on their way that are of the webview's generation. *)
Sent == {i \in DOMAIN toHost : toHost[i].type = "persist" /\ toHost[i].gen = viewGen}

(* No save is under way, or one that does not wait for its preparation. *)
Unawaited == {"none", "forced"}

(* Nothing was edited since the save that is prepared began. *)
SaveFresh == save.stage \notin Unawaited /\ save.at = edits + externals

(* The last snapshot of a save, on its way or queued, is what the webview   *)
(* shows, and so is all that may come after it.                             *)
AskedShown ==
    SaveFresh /\ flush[save.id] = "pending" =>
        /\ \A i, k \in Sent : toHost[i].flush = save.id /\ i <= k => Shown(toHost[k])
        /\ \A i \in Persists : jobs[i].flush = save.id /\ jobs[i].sn = sequence =>
              Shown(jobs[i]) /\ \A k \in Sent : Shown(toHost[k])

(* When it is in, so is the document, and nothing will take that back. *)
DoneShown ==
    SaveFresh /\ flush[save.id] = "done" =>
        /\ pending = None /\ doc = view.text /\ sidecar = view.meta
        /\ \A i \in Persists :
              Shown(jobs[i]) /\ jobs[i].epoch = epoch /\ jobs[i].stage # "restoring"
        /\ \A k \in Sent : Shown(toHost[k])

SaveInv ==
    /\ known.meta = sidecar
    /\ save.stage \notin Unawaited => save.at <= edits + externals /\ save.id \in DOMAIN flush
    /\ save.stage \in {"draining", "storing"} => flush[save.id] = "done"
    /\ AskedShown /\ DoneShown

(* Until the queue of a closing panel is closed, the session is in use. *)
Unclosed == close \in {"open", "finals", "unload", "admission"}

CalmInv == QueueInv /\ GenInv /\ AskInv /\ SaveInv /\ Unclosed

SavedInv == TypeInv /\ (Calm => CalmInv)

-----------------------------------------------------------------------------
(* How the channels and the queue move. *)

(* Nothing came; what is left is in its order. *)
Kept(q, r) == \E d \in {0, 1} : \A i \in DOMAIN r : i + d \in DOMAIN q /\ r[i] = q[i + d]

LEMMA KeptMoves ==
    ASSUME NEW S, NEW q \in Seq(S)
    PROVE  /\ Kept(q, q)
           /\ q # <<>> => Kept(q, Tail(q))
           /\ \A n \in 0 .. Len(q) : Kept(q, SubSeq(q, 1, n))
           /\ Kept(q, <<>>)
<1>1. Kept(q, q)
  <2>1. \A i \in DOMAIN q : i + 0 \in DOMAIN q /\ q[i] = q[i + 0]
    OBVIOUS
  <2> QED
    BY <2>1 DEF Kept
<1>2. ASSUME q # <<>> PROVE Kept(q, Tail(q))
  <2>1. \A i \in DOMAIN Tail(q) : i + 1 \in DOMAIN q /\ Tail(q)[i] = q[i + 1]
    BY <1>2
  <2> QED
    BY <2>1 DEF Kept
<1>3. ASSUME NEW n \in 0 .. Len(q) PROVE Kept(q, SubSeq(q, 1, n))
  <2>1. Len(SubSeq(q, 1, n)) = n /\ \A i \in 1 .. n : SubSeq(q, 1, n)[i] = q[i]
    BY SubSeqProperties
  <2>2. SubSeq(q, 1, n) \in Seq(S)
    BY SubSeqProperties
  <2>3. \A i \in DOMAIN SubSeq(q, 1, n) : i + 0 \in DOMAIN q /\ SubSeq(q, 1, n)[i] = q[i + 0]
    BY <2>1, <2>2
  <2> QED
    BY <2>3 DEF Kept
<1>4. Kept(q, <<>>)
  BY DEF Kept
<1> QED
  BY <1>1, <1>2, <1>3, <1>4

LEMMA Appended ==
    ASSUME NEW S, NEW q \in Seq(S), NEW x
    PROVE  LET r == Append(q, x) IN
           /\ Len(q) \in Nat /\ DOMAIN r = DOMAIN q \cup {Len(q) + 1}
           /\ r[Len(q) + 1] = x
           /\ \A i \in DOMAIN q : r[i] = q[i] /\ i < Len(q) + 1 /\ i \in Nat
OBVIOUS

(* A job that goes on stays what was admitted, unless its edit has to be   *)
(* rolled back.                                                            *)
SameJob(a, b) ==
    /\ a.kind = b.kind
    /\ a.kind = "persist" =>
         /\ a.sn = b.sn /\ a.flush = b.flush /\ a.text = b.text /\ a.meta = b.meta
         /\ a.copy = b.copy
         /\ \/ a.epoch = b.epoch /\ (a.stage = "restoring" => b.stage = "restoring")
            \/ b.epoch < epoch

JobsKept ==
    \E d \in {0, 1} : \A i \in DOMAIN jobs' : i + d \in DOMAIN jobs /\ SameJob(jobs'[i], jobs[i + d])

JobsGo == JobsKept \/ \E x : jobs' = Append(jobs, x) /\ x.kind = "save"

LEMMA JobFacts ==
    ASSUME TypeInv
    PROVE  /\ \A i \in DOMAIN jobs : i \in Nat /\ i >= 1 /\ i <= Len(jobs) /\ jobs[i] \in Jobs
           /\ Len(jobs) \in Nat
           /\ \A i \in Persists : jobs[i] \in PersistJobs /\ jobs[i].sn \in Nat /\ jobs[i].epoch \in Nat
           /\ sequence \in Nat /\ epoch \in Nat
<1>1. jobs \in Seq(Jobs)
  BY DEF TypeInv, MailType
<1>2. \A j \in Jobs : j.kind = "persist" => j \in PersistJobs
  BY DEF Jobs, PersistJobs
<1>3. \A j \in PersistJobs : j.sn \in Nat /\ j.epoch \in Nat
  BY DEF PersistJobs
<1>4. \A i \in DOMAIN jobs : i \in Nat /\ i >= 1 /\ i <= Len(jobs) /\ jobs[i] \in Jobs
  BY <1>1
<1> QED
  BY <1>1, <1>2, <1>3, <1>4 DEF Persists, TypeInv, Scalars, SessionType, ProjType

(* The jobs after a step are jobs from before it, in their order. *)
LEMMA JobsFrom ==
    ASSUME TypeInv, TypeInv', JobsGo
    PROVE  \E f \in [Persists' -> Persists] :
             /\ \A i \in Persists' : SameJob(jobs'[i], jobs[f[i]])
             /\ \A i, k \in Persists' : i < k => f[i] < f[k]
<1>1. \A i \in DOMAIN jobs' : i \in Nat
  <2>1. jobs' \in Seq(Jobs')
    BY DEF TypeInv, MailType
  <2> QED
    BY <2>1
<1>2. ASSUME NEW d \in {0, 1}, \A i \in DOMAIN jobs' : i + d \in DOMAIN jobs /\ SameJob(jobs'[i], jobs[i + d])
      PROVE  \E f \in [Persists' -> Persists] :
               /\ \A i \in Persists' : SameJob(jobs'[i], jobs[f[i]])
               /\ \A i, k \in Persists' : i < k => f[i] < f[k]
  <2>1. PICK f : f = [i \in Persists' |-> i + d]
    OBVIOUS
  <2>2. \A i \in Persists' : i + d \in Persists
    BY <1>2 DEF Persists, SameJob
  <2>3. f \in [Persists' -> Persists]
    BY <2>1, <2>2
  <2>4. \A i \in Persists' : f[i] = i + d /\ SameJob(jobs'[i], jobs[f[i]])
    BY <1>2, <2>1 DEF Persists
  <2>5. \A i, k \in Persists' : i < k => f[i] < f[k]
    BY <1>1, <2>4 DEF Persists
  <2> QED
    BY <2>3, <2>4, <2>5
<1>3. ASSUME NEW x, jobs' = Append(jobs, x), x.kind = "save"
      PROVE  \E f \in [Persists' -> Persists] :
               /\ \A i \in Persists' : SameJob(jobs'[i], jobs[f[i]])
               /\ \A i, k \in Persists' : i < k => f[i] < f[k]
  <2>1. PICK f : f = [i \in Persists' |-> i]
    OBVIOUS
  <2>2. jobs \in Seq(Jobs)
    BY DEF TypeInv, MailType
  <2>3. \A i \in Persists' : i \in Persists /\ jobs'[i] = jobs[i]
    BY <1>3, <2>2, Appended DEF Persists
  <2>4. f \in [Persists' -> Persists]
    BY <2>1, <2>3
  <2>5. \A i \in Persists' : SameJob(jobs'[i], jobs[f[i]])
    BY <2>1, <2>3 DEF SameJob
  <2> QED
    BY <2>1, <2>4, <2>5
<1> QED
  BY <1>2, <1>3 DEF JobsGo, JobsKept

LEMMA QueueKept ==
    ASSUME TypeInv, TypeInv', QueueInv, JobsGo,
           \/ sequence' = sequence /\ (pending' # None => pending # None)
           \/ sequence' = sequence + 1
    PROVE  QueueInv'
<1>1. PICK f \in [Persists' -> Persists] :
             /\ \A i \in Persists' : SameJob(jobs'[i], jobs[f[i]])
             /\ \A i, k \in Persists' : i < k => f[i] < f[k]
  BY JobsFrom
<1>2. \A i \in Persists' : jobs'[i].kind = "persist"
  BY DEF Persists
<1>3. \A i \in Persists' : jobs'[i].sn = jobs[f[i]].sn /\ jobs'[i].copy = jobs'[i].meta
  BY <1>1, <1>2 DEF SameJob, QueueInv
<1>4. \A i \in Persists' : jobs[f[i]].sn \in Nat /\ jobs[f[i]].sn <= sequence
           /\ (pending # None => jobs[f[i]].sn # sequence)
  BY <1>1, JobFacts DEF QueueInv
<1>5. \A i \in DOMAIN jobs' : jobs'[i].kind # "repair"
  <2>1. CASE JobsKept
    BY <2>1 DEF JobsKept, SameJob, QueueInv
  <2>2. CASE \E x : jobs' = Append(jobs, x) /\ x.kind = "save"
    <3>1. jobs \in Seq(Jobs)
      BY DEF TypeInv, MailType
    <3> QED
      BY <2>2, <3>1, Appended DEF QueueInv
  <2> QED
    BY <2>1, <2>2 DEF JobsGo
<1>6. sequence \in Nat
  BY JobFacts
<1>7. \A i \in Persists' : jobs'[i].sn <= sequence' /\ (pending' # None => jobs'[i].sn # sequence')
  BY <1>3, <1>4, <1>6
<1>8. \A i, k \in Persists' : i < k => jobs'[i].sn < jobs'[k].sn
  BY <1>1, <1>3 DEF QueueInv
<1> QED
  BY <1>3, <1>5, <1>7, <1>8 DEF QueueInv

-----------------------------------------------------------------------------
(* What the messages say of the generations. *)

LEMMA MailFacts ==
    ASSUME TypeInv
    PROVE  /\ toHost \in Seq(Messages) /\ toView \in Seq(Requests)
           /\ \A i \in DOMAIN toHost : i \in Nat /\ toHost[i].gen \in Nat
           /\ \A i \in DOMAIN toView : i \in Nat
           /\ \A i \in Projected : toView[i] \in DataRequests /\ toView[i].gen \in Nat
           /\ viewGen \in Nat /\ projGen \in Nat /\ activeGen \in Nat
<1>1. toHost \in Seq(Messages) /\ toView \in Seq(Requests)
  BY DEF TypeInv, MailType
<1>2. \A m \in Messages : m.gen \in Nat
  BY DEF Messages
<1>3. \A m \in Requests : m.type = "data" => m \in DataRequests /\ m.gen \in Nat
  BY DEF Requests, DataRequests
<1>4. \A i \in Projected : i \in DOMAIN toView /\ toView[i].type = "data" /\ toView[i] \in Requests
  BY <1>1 DEF Projected
<1>5. \A i \in DOMAIN toHost : i \in Nat /\ toHost[i] \in Messages
  BY <1>1
<1>6. \A i \in DOMAIN toView : i \in Nat
  BY <1>1
<1> QED
  BY <1>1, <1>2, <1>3, <1>4, <1>5, <1>6 DEF TypeInv, Scalars, ViewType, ProjType

(* The webview's channel: nothing comes but a request for a snapshot. *)
ViewMailKept == Kept(toView, toView') \/ \E x : toView' = Append(toView, x) /\ x.type = "flush"

LEMMA ProjectedFrom ==
    ASSUME TypeInv, TypeInv', ViewMailKept
    PROVE  \E f \in [Projected' -> Projected] :
             /\ \A i \in Projected' : toView'[i] = toView[f[i]]
             /\ \A i, k \in Projected' : i < k => f[i] < f[k]
<1>1. \A i \in DOMAIN toView' : i \in Nat
  <2>1. toView' \in Seq(Requests')
    BY DEF TypeInv, MailType
  <2> QED
    BY <2>1
<1>2. ASSUME NEW d \in {0, 1}, \A i \in DOMAIN toView' : i + d \in DOMAIN toView /\ toView'[i] = toView[i + d]
      PROVE  \E f \in [Projected' -> Projected] :
               /\ \A i \in Projected' : toView'[i] = toView[f[i]]
               /\ \A i, k \in Projected' : i < k => f[i] < f[k]
  <2>1. PICK f : f = [i \in Projected' |-> i + d]
    OBVIOUS
  <2>2. \A i \in Projected' : i + d \in Projected
    BY <1>2 DEF Projected
  <2>3. f \in [Projected' -> Projected]
    BY <2>1, <2>2
  <2>4. \A i \in Projected' : f[i] = i + d /\ toView'[i] = toView[f[i]]
    BY <1>2, <2>1 DEF Projected
  <2>5. \A i, k \in Projected' : i < k => f[i] < f[k]
    BY <1>1, <2>4 DEF Projected
  <2> QED
    BY <2>3, <2>4, <2>5
<1>3. ASSUME NEW x, toView' = Append(toView, x), x.type = "flush"
      PROVE  \E f \in [Projected' -> Projected] :
               /\ \A i \in Projected' : toView'[i] = toView[f[i]]
               /\ \A i, k \in Projected' : i < k => f[i] < f[k]
  <2>1. PICK f : f = [i \in Projected' |-> i]
    OBVIOUS
  <2>2. toView \in Seq(Requests)
    BY MailFacts
  <2>3. \A i \in Projected' : i \in Projected /\ toView'[i] = toView[i]
    BY <1>3, <2>2, Appended DEF Projected
  <2>4. f \in [Projected' -> Projected]
    BY <2>1, <2>3
  <2> QED
    BY <2>1, <2>3, <2>4
<1> QED
  BY <1>2, <1>3 DEF ViewMailKept, Kept

(* The host's channel: what comes is of the webview's generation or older. *)
HostMailKept == Kept(toHost, toHost') \/ \E x : toHost' = Append(toHost, x) /\ x.gen <= viewGen

LEMMA HostMailBehind ==
    ASSUME TypeInv, GenInv, HostMailKept
    PROVE  \A i \in DOMAIN toHost' : toHost'[i].gen <= viewGen
<1>1. toHost \in Seq(Messages)
  BY MailFacts
<1>2. CASE Kept(toHost, toHost')
  BY <1>2 DEF Kept, GenInv
<1>3. CASE \E x : toHost' = Append(toHost, x) /\ x.gen <= viewGen
  BY <1>1, <1>3, Appended DEF GenInv
<1> QED
  BY <1>2, <1>3 DEF HostMailKept

LEMMA GenKept ==
    ASSUME TypeInv, TypeInv', GenInv, UNCHANGED <<viewGen, projGen, activeGen>>,
           ViewMailKept, HostMailKept,
           \/ UNCHANGED pending
           \/ /\ pending # None /\ pending' = [pending EXCEPT !.stage = "stalled"]
    PROVE  GenInv'
<1>1. PICK f \in [Projected' -> Projected] :
             /\ \A i \in Projected' : toView'[i] = toView[f[i]]
             /\ \A i, k \in Projected' : i < k => f[i] < f[k]
  BY ProjectedFrom
<1>2. \A i \in DOMAIN toHost' : toHost'[i].gen <= viewGen'
  BY HostMailBehind
<1>3. /\ pending' = None <=> pending = None
      /\ pending' # None => pending'.expected = pending.expected /\ pending'.gen = pending.gen
      /\ PendingAt("preparing")' => PendingAt("preparing")
  <2>1. CASE UNCHANGED pending
    BY <2>1 DEF PendingAt
  <2>2. CASE pending # None /\ pending' = [pending EXCEPT !.stage = "stalled"]
    <3>1. pending \in Projections
      BY <2>2 DEF TypeInv, Scalars, ProjType
    <3>2. pending' \in Projections
      BY <2>2, <3>1 DEF Projections
    <3>3. pending' # None
      BY <3>2, NoneIsNoProjection
    <3> QED
      BY <2>2, <3>1, <3>3 DEF PendingAt, Projections
  <2> QED
    BY <2>1, <2>2
<1> QED
  BY <1>1, <1>2, <1>3 DEF GenInv

-----------------------------------------------------------------------------
(* What a step may do to the numbers of the final snapshots. *)

LEMMA AskKept ==
    ASSUME TypeInv, TypeInv', AskInv,
           JobsGo \/ \E x : jobs' = Append(jobs, x) /\ (x.flush # None => flush'[x.flush] # "waiting"),
           \/ Kept(toView, toView')
           \/ \E x : toView' = Append(toView, x) /\ (x.type = "flush" => flush'[x.id] # "waiting"),
           \/ Kept(toHost, toHost')
           \/ \E x : toHost' = Append(toHost, x)
                       /\ (x.type = "persist" /\ x.flush # None => flush'[x.flush] # "waiting"),
           \A n \in DOMAIN flush : flush'[n] = "waiting" => flush[n] = "waiting"
    PROVE  AskInv'
<1>0. toHost \in Seq(Messages) /\ toView \in Seq(Requests) /\ jobs \in Seq(Jobs)
  BY DEF TypeInv, MailType
<1>1. /\ \A m \in Requests : m.type = "flush" => m.id \in DOMAIN flush
      /\ \A m \in Messages : m.type = "persist" /\ m.flush # None => m.flush \in DOMAIN flush
      /\ \A j \in Jobs : j.kind = "persist" /\ j.flush # None => j.flush \in DOMAIN flush
  BY DEF Requests, Messages, Jobs
<1>2. \A i \in DOMAIN toView' : toView'[i].type = "flush" => flush'[toView'[i].id] # "waiting"
  <2>1. \A i \in DOMAIN toView : toView[i].type = "flush" => flush'[toView[i].id] # "waiting"
    BY <1>0, <1>1 DEF AskInv
  <2>2. CASE Kept(toView, toView')
    BY <2>1, <2>2 DEF Kept
  <2>3. CASE \E x : toView' = Append(toView, x) /\ (x.type = "flush" => flush'[x.id] # "waiting")
    BY <1>0, <2>1, <2>3, Appended
  <2> QED
    BY <2>2, <2>3
<1>3. \A i \in DOMAIN toHost' :
         toHost'[i].type = "persist" /\ toHost'[i].flush # None => flush'[toHost'[i].flush] # "waiting"
  <2>1. \A i \in DOMAIN toHost :
         toHost[i].type = "persist" /\ toHost[i].flush # None => flush'[toHost[i].flush] # "waiting"
    BY <1>0, <1>1 DEF AskInv
  <2>2. CASE Kept(toHost, toHost')
    BY <2>1, <2>2 DEF Kept
  <2>3. CASE \E x : toHost' = Append(toHost, x)
                       /\ (x.type = "persist" /\ x.flush # None => flush'[x.flush] # "waiting")
    BY <1>0, <2>1, <2>3, Appended
  <2> QED
    BY <2>2, <2>3
<1>4. \A i \in Persists' : jobs'[i].flush # None => flush'[jobs'[i].flush] # "waiting"
  <2>1. \A i \in Persists : jobs[i].flush # None => flush'[jobs[i].flush] # "waiting"
    BY <1>0, <1>1 DEF AskInv, Persists
  <2>2. CASE JobsGo
    <3>1. PICK f \in [Persists' -> Persists] : \A i \in Persists' : SameJob(jobs'[i], jobs[f[i]])
      BY <2>2, JobsFrom
    <3>2. \A i \in Persists' : jobs'[i].kind = "persist"
      BY DEF Persists
    <3>3. \A i \in Persists' : jobs'[i].flush = jobs[f[i]].flush
      BY <3>1, <3>2 DEF SameJob
    <3> QED
      BY <2>1, <3>1, <3>3
  <2>3. CASE \E x : jobs' = Append(jobs, x) /\ (x.flush # None => flush'[x.flush] # "waiting")
    <3>1. PICK x : jobs' = Append(jobs, x) /\ (x.flush # None => flush'[x.flush] # "waiting")
      BY <2>3
    <3>2. \A i \in Persists' : \/ i = Len(jobs) + 1 /\ jobs'[i] = x
                               \/ i \in Persists /\ jobs'[i] = jobs[i]
      BY <1>0, <3>1, Appended DEF Persists
    <3> QED
      BY <2>1, <3>1, <3>2
  <2> QED
    BY <2>2, <2>3
<1> QED
  BY <1>2, <1>3, <1>4 DEF AskInv

(* A snapshot that comes is what the webview shows. *)
SentKept ==
    \/ Kept(toHost, toHost')
    \/ \E x : toHost' = Append(toHost, x) /\ (x.type = "persist" => Shown(x))

LEMMA SentFrom ==
    ASSUME TypeInv, TypeInv', UNCHANGED <<view, viewGen>>, SentKept
    PROVE  \A i, k \in Sent' : i <= k =>
             \/ Shown(toHost'[k])
             \/ \E a, b \in Sent : a <= b /\ toHost'[i] = toHost[a] /\ toHost'[k] = toHost[b]
<1>0. toHost \in Seq(Messages) /\ toHost' \in Seq(Messages')
  BY DEF TypeInv, MailType
<1>1. \A i \in DOMAIN toHost' : i \in Nat
  BY <1>0
<1>2. ASSUME NEW d \in {0, 1}, \A i \in DOMAIN toHost' : i + d \in DOMAIN toHost /\ toHost'[i] = toHost[i + d],
             NEW i \in Sent', NEW k \in Sent', i <= k
      PROVE  \E a, b \in Sent : a <= b /\ toHost'[i] = toHost[a] /\ toHost'[k] = toHost[b]
  <2>1. i + d \in Sent /\ k + d \in Sent /\ i + d <= k + d
    BY <1>1, <1>2 DEF Sent
  <2> QED
    BY <1>2, <2>1 DEF Sent
<1>3. ASSUME NEW x, toHost' = Append(toHost, x), x.type = "persist" => Shown(x),
             NEW i \in Sent', NEW k \in Sent', i <= k
      PROVE  \/ Shown(toHost'[k])
             \/ \E a, b \in Sent : a <= b /\ toHost'[i] = toHost[a] /\ toHost'[k] = toHost[b]
  <2>1. \A n \in Sent' : \/ n = Len(toHost) + 1 /\ toHost'[n] = x /\ x.type = "persist"
                         \/ n \in Sent /\ toHost'[n] = toHost[n]
    BY <1>0, <1>3, Appended DEF Sent
  <2>2. CASE k = Len(toHost) + 1 /\ toHost'[k] = x /\ x.type = "persist"
    BY <1>3, <2>2
  <2>3. CASE k \in Sent /\ toHost'[k] = toHost[k]
    <3>1. k < Len(toHost) + 1 /\ Len(toHost) \in Nat
      BY <1>0, <2>3, Appended DEF Sent
    <3>2. i # Len(toHost) + 1
      BY <1>1, <1>3, <3>1 DEF Sent
    <3> QED
      BY <1>3, <2>1, <2>3, <3>2
  <2> QED
    BY <2>1, <2>2, <2>3
<1> QED
  BY <1>2, <1>3 DEF SentKept, Kept

(* No request is forgotten, and that of the save is not done by this step. *)
FlushGoes ==
    /\ \A n \in DOMAIN flush : n \in DOMAIN flush' /\ (flush'[n] = "waiting" => flush[n] = "waiting")
    /\ save.id \in DOMAIN flush =>
         /\ flush'[save.id] = "pending" => flush[save.id] \in {"waiting", "pending"}
         /\ flush'[save.id] = "done" <=> flush[save.id] = "done"

(* The save goes on only when its snapshot is in. *)
SaveGoes ==
    /\ save'.stage \notin Unawaited =>
          save.stage \notin Unawaited /\ save'.id = save.id /\ save'.at = save.at
    /\ save'.stage \in {"draining", "storing"} => flush[save.id] = "done"

LEMMA SaveKept ==
    ASSUME TypeInv, TypeInv', QueueInv, AskInv, SaveInv, JobsGo, SentKept, FlushGoes, SaveGoes,
           UNCHANGED <<view, viewGen, edits, externals>>, known'.meta = sidecar',
           sequence' = sequence \/ sequence' = sequence + 1,
           SaveFresh /\ flush[save.id] = "done" =>
              pending' = None /\ doc' = view.text /\ sidecar' = view.meta /\ epoch' = epoch
    PROVE  SaveInv'
<1>1. PICK f \in [Persists' -> Persists] : \A i \in Persists' : SameJob(jobs'[i], jobs[f[i]])
  BY JobsFrom
<1>2. \A i \in Persists' :
        LET a == jobs'[i] b == jobs[f[i]] IN
        /\ a.sn = b.sn /\ a.flush = b.flush /\ (Shown(b) => Shown(a))
        /\ \/ a.epoch = b.epoch /\ (a.stage = "restoring" => b.stage = "restoring")
           \/ b.epoch < epoch
        /\ b.sn <= sequence /\ b.sn \in Nat /\ b.epoch \in Nat
  <2>1. \A i \in Persists' : jobs'[i].kind = "persist"
    BY DEF Persists
  <2> QED
    BY <1>1, <2>1, JobFacts DEF SameJob, Shown, QueueInv
<1>3. \A i, k \in Sent' : i <= k =>
             \/ Shown(toHost'[k])
             \/ \E a, b \in Sent : a <= b /\ toHost'[i] = toHost[a] /\ toHost'[k] = toHost[b]
  BY SentFrom
<1>4. \A k \in Sent' : Shown(toHost'[k]) \/ \E b \in Sent : toHost'[k] = toHost[b]
  <2>1. \A k \in Sent' : k \in Nat
    <3>1. toHost' \in Seq(Messages')
      BY DEF TypeInv, MailType
    <3> QED
      BY <3>1 DEF Sent
  <2> QED
    BY <1>3, <2>1
<1>6. SaveFresh' => SaveFresh /\ save.id \in DOMAIN flush /\ save'.id = save.id
  BY DEF SaveFresh, SaveGoes, SaveInv
<1>7. save'.stage \notin Unawaited => save'.at <= edits' + externals' /\ save'.id \in DOMAIN flush'
  BY DEF SaveInv, SaveGoes, FlushGoes
<1>8. save'.stage \in {"draining", "storing"} => flush'[save'.id] = "done"
  BY DEF SaveInv, SaveGoes, FlushGoes, Unawaited
<1>9. AskedShown'
  <2> SUFFICES ASSUME SaveFresh', flush'[save'.id] = "pending"
               PROVE  /\ \A i, k \in Sent' : toHost'[i].flush = save'.id /\ i <= k => Shown(toHost'[k])
                      /\ \A i \in Persists' : jobs'[i].flush = save'.id /\ jobs'[i].sn = sequence' =>
                           Shown(jobs'[i]) /\ \A k \in Sent' : Shown(toHost'[k])
    BY DEF AskedShown, Shown
  <2>1. SaveFresh /\ save.id \in DOMAIN flush /\ save'.id = save.id /\ save.id # None
    <3>1. save.id \in Nat
      BY <1>6 DEF TypeInv, FlushType
    <3> QED
      BY <1>6, <3>1, SidecarAssumption
  <2>2. flush[save.id] \in {"waiting", "pending"}
    BY <2>1 DEF FlushGoes
  <2>3. ASSUME NEW i \in Sent', NEW k \in Sent', toHost'[i].flush = save.id, i <= k PROVE Shown(toHost'[k])
    <3>1. CASE \E a, b \in Sent : a <= b /\ toHost'[i] = toHost[a] /\ toHost'[k] = toHost[b]
      <4>1. PICK a, b \in Sent : a <= b /\ toHost'[i] = toHost[a] /\ toHost'[k] = toHost[b]
        BY <3>1
      <4>2. flush[save.id] # "waiting"
        BY <2>1, <2>3, <4>1 DEF AskInv, Sent
      <4> QED
        BY <2>1, <2>2, <2>3, <4>1, <4>2 DEF SaveInv, AskedShown
    <3> QED
      BY <1>3, <2>3, <3>1
  <2>4. ASSUME NEW i \in Persists', jobs'[i].flush = save.id, jobs'[i].sn = sequence'
        PROVE  Shown(jobs'[i]) /\ \A k \in Sent' : Shown(toHost'[k])
    <3>1. jobs[f[i]].flush = save.id /\ jobs[f[i]].sn = sequence /\ f[i] \in Persists
      BY <1>1, <1>2, <2>4, JobFacts
    <3>2. flush[save.id] = "pending"
      BY <2>1, <2>2, <3>1 DEF AskInv
    <3>3. Shown(jobs[f[i]]) /\ \A k \in Sent : Shown(toHost[k])
      BY <2>1, <3>1, <3>2 DEF SaveInv, AskedShown
    <3> QED
      BY <1>2, <1>4, <3>3
  <2> QED
    BY <2>1, <2>3, <2>4
<1>10. DoneShown'
  <2> SUFFICES ASSUME SaveFresh', flush'[save'.id] = "done"
               PROVE  /\ pending' = None /\ doc' = view.text /\ sidecar' = view.meta
                      /\ \A i \in Persists' :
                           Shown(jobs'[i]) /\ jobs'[i].epoch = epoch' /\ jobs'[i].stage # "restoring"
                      /\ \A k \in Sent' : Shown(toHost'[k])
    BY DEF DoneShown, Shown
  <2>1. SaveFresh /\ flush[save.id] = "done"
    BY <1>6 DEF FlushGoes
  <2>2. /\ pending' = None /\ doc' = view.text /\ sidecar' = view.meta /\ epoch' = epoch
        /\ \A i \in Persists : Shown(jobs[i]) /\ jobs[i].epoch = epoch /\ jobs[i].stage # "restoring"
        /\ \A k \in Sent : Shown(toHost[k])
    BY <2>1 DEF SaveInv, DoneShown
  <2>3. \A i \in Persists' :
          Shown(jobs'[i]) /\ jobs'[i].epoch = epoch' /\ jobs'[i].stage # "restoring"
    BY <1>1, <1>2, <2>2, JobFacts
  <2> QED
    BY <1>4, <2>2, <2>3
<1> QED
  BY <1>7, <1>8, <1>9, <1>10 DEF SaveInv

HostGoes ==
    \/ Kept(toHost, toHost')
    \/ \E x : /\ toHost' = Append(toHost, x) /\ x.gen <= viewGen
              /\ x.type = "persist" => Shown(x) /\ (x.flush # None => flush'[x.flush] # "waiting")

ViewGoes ==
    \/ Kept(toView, toView')
    \/ \E x : toView' = Append(toView, x) /\ x.type = "flush" /\ flush'[x.id] # "waiting"

LEMMA GoesOn ==
    /\ HostGoes => HostMailKept /\ SentKept
    /\ ViewGoes => ViewMailKept
BY DEF HostGoes, HostMailKept, SentKept, ViewGoes, ViewMailKept

(* A step that shows nothing new, admits nothing and projects nothing. *)
LEMMA CalmKept ==
    ASSUME TypeInv, TypeInv', CalmInv, JobsGo, HostGoes, ViewGoes, FlushGoes, SaveGoes, Unclosed',
           UNCHANGED <<view, viewGen, edits, externals, projGen, activeGen, sequence, epoch>>,
           UNCHANGED pending \/ (pending # None /\ pending' = [pending EXCEPT !.stage = "stalled"]),
           known'.meta = sidecar',
           SaveFresh /\ flush[save.id] = "done" => doc' = view.text /\ sidecar' = view.meta
    PROVE  CalmInv'
<1>0. QueueInv /\ GenInv /\ AskInv /\ SaveInv
  BY DEF CalmInv
<1>1. QueueInv'
  BY <1>0, QueueKept
<1>2. GenInv'
  BY <1>0, GenKept, GoesOn
<1>3. AskInv'
  <2>1. \A n \in DOMAIN flush : flush'[n] = "waiting" => flush[n] = "waiting"
    BY DEF FlushGoes
  <2>2. \/ Kept(toView, toView')
        \/ \E x : toView' = Append(toView, x) /\ (x.type = "flush" => flush'[x.id] # "waiting")
    BY DEF ViewGoes
  <2>3. \/ Kept(toHost, toHost')
        \/ \E x : toHost' = Append(toHost, x)
                    /\ (x.type = "persist" /\ x.flush # None => flush'[x.flush] # "waiting")
    BY DEF HostGoes
  <2> QED
    BY <1>0, <2>1, <2>2, <2>3, AskKept
<1>4. SaveInv'
  <2>1. SaveFresh /\ flush[save.id] = "done" => pending' = None
    BY <1>0 DEF SaveInv, DoneShown
  <2> QED
    BY <1>0, <2>1, SaveKept, GoesOn
<1> QED
  BY <1>1, <1>2, <1>3, <1>4 DEF CalmInv

-----------------------------------------------------------------------------
(* The moves of the queue and of the requests, step by step. *)

LEMMA CalmNow ==
    ASSUME TypeInv, Calm
    PROVE  /\ \A m : Sanitize(m) = m
           /\ Fault => ~Calm'
BY DEF Calm, Sanitize, Fault, TypeInv, Scalars, CountType

LEMMA JobsGoOn ==
    ASSUME TypeInv, QueueInv
    PROVE  /\ UNCHANGED jobs => JobsGo
           /\ jobs # <<>> /\ jobs' = Tail(jobs) => JobsGo
           /\ jobs # <<>> /\ HeadGoesOn /\ SameJob(jobs'[1], jobs[1]) => JobsGo
           /\ \A x : jobs' = Append(jobs, x) /\ x.kind = "save" => JobsGo
<1>0. jobs \in Seq(Jobs) /\ \A j : SameJob(j, j)
  BY DEF TypeInv, MailType, SameJob
<1>1. ASSUME Kept(jobs, jobs') PROVE JobsGo
  <2>1. PICK d \in {0, 1} : \A i \in DOMAIN jobs' : i + d \in DOMAIN jobs /\ jobs'[i] = jobs[i + d]
    BY <1>1 DEF Kept
  <2>2. \A i \in DOMAIN jobs' : i + d \in DOMAIN jobs /\ SameJob(jobs'[i], jobs[i + d])
    BY <1>0, <2>1
  <2> QED
    BY <2>2 DEF JobsGo, JobsKept
<1>2. UNCHANGED jobs => JobsGo
  BY <1>0, <1>1, KeptMoves
<1>3. jobs # <<>> /\ jobs' = Tail(jobs) => JobsGo
  BY <1>0, <1>1, KeptMoves
<1>4. ASSUME jobs # <<>>, HeadGoesOn, SameJob(jobs'[1], jobs[1]) PROVE JobsGo
  <2>1. \A i \in DOMAIN jobs' : i \in DOMAIN jobs /\ i + 0 = i
    BY <1>0, <1>4 DEF HeadGoesOn
  <2>2. \A i \in DOMAIN jobs' : SameJob(jobs'[i], jobs[i])
    BY <1>0, <1>4, <2>1 DEF HeadGoesOn
  <2>3. \A i \in DOMAIN jobs' : i + 0 \in DOMAIN jobs /\ SameJob(jobs'[i], jobs[i + 0])
    BY <2>1, <2>2
  <2> QED
    BY <2>3 DEF JobsGo, JobsKept
<1> QED
  BY <1>2, <1>3, <1>4 DEF JobsGo

(* The persist at the head. *)
HeadPersist == jobs # <<>> /\ Head1.kind = "persist"

LEMMA HeadFacts ==
    ASSUME TypeInv, QueueInv, HeadPersist
    PROVE  /\ 1 \in Persists /\ Head1 = jobs[1] /\ Head1 \in PersistJobs
           /\ Head1.sn \in Nat /\ Head1.sn <= sequence /\ Head1.copy = Head1.meta
           /\ Head1.sn = sequence => pending = None
           /\ Head1.sn = sequence /\ jobs' = Tail(jobs) => Persists' = {}
<1>0. jobs \in Seq(Jobs)
  BY DEF TypeInv, MailType
<1>1. 1 \in Persists /\ Head1 = jobs[1]
  BY <1>0 DEF HeadPersist, Persists, Head1
<1>2. ASSUME Head1.sn = sequence, jobs' = Tail(jobs), NEW i \in Persists' PROVE FALSE
  <2>1. i + 1 \in Persists /\ 1 < i + 1
    BY <1>0, <1>2 DEF HeadPersist, Persists
  <2>2. jobs[1].sn < jobs[i + 1].sn /\ jobs[i + 1].sn <= sequence
    BY <1>1, <2>1 DEF QueueInv
  <2> QED
    BY <1>1, <1>2, <2>1, <2>2, JobFacts
<1> QED
  BY <1>1, <1>2, JobFacts DEF QueueInv

LEMMA HeadMoves ==
    ASSUME TypeInv, QueueInv, HeadPersist,
           \/ UNCHANGED jobs \/ jobs' = Tail(jobs)
           \/ \E s : s # "restoring" /\ Advance(s)
           \/ \E s : s # "restoring" /\ jobs' = [jobs EXCEPT ![1].stage = s, ![1].meta = Head1.meta]
           \/ \E s, n : s # "restoring"
                /\ jobs' = [jobs EXCEPT ![1].stage = s, ![1].copy = Head1.meta, ![1].version = n]
           \/ \E s, m, n : Head1.epoch < epoch
                /\ jobs' = [jobs EXCEPT ![1].stage = s, ![1].epoch = m, ![1].version = n]
           \/ jobs' = [jobs EXCEPT ![1].tries = @ + 1]
    PROVE  JobsGo
<1>0. jobs # <<>> /\ 1 \in DOMAIN jobs /\ Head1 = jobs[1] /\ Head1 \in PersistJobs /\ Head1.copy = Head1.meta
  BY HeadFacts DEF HeadPersist, Persists
<1>1. IsQueue(jobs)
  BY QueueOf DEF TypeInv, MailType
<1>2. CASE \E s : s # "restoring" /\ Advance(s)
  <2>0. PICK s : s # "restoring" /\ Advance(s)
    BY <1>2
  <2>1. jobs'[1] = [jobs[1] EXCEPT !.stage = s]
    BY <1>0, <2>0 DEF Advance
  <2>2. SameJob(jobs'[1], jobs[1])
    BY <1>0, <2>0, <2>1 DEF SameJob, PersistJobs
  <2> QED
    BY <1>0, <1>1, <2>0, <2>2, Goes, JobsGoOn
<1>3. CASE \E s : s # "restoring" /\ jobs' = [jobs EXCEPT ![1].stage = s, ![1].meta = Head1.meta]
  <2>0. PICK s : s # "restoring" /\ jobs' = [jobs EXCEPT ![1].stage = s, ![1].meta = Head1.meta]
    BY <1>3
  <2>1. jobs'[1] = [jobs[1] EXCEPT !.stage = s, !.meta = Head1.meta]
    BY <1>0, <2>0
  <2>2. SameJob(jobs'[1], jobs[1])
    BY <1>0, <2>0, <2>1 DEF SameJob, PersistJobs
  <2>3. HeadGoesOn
    BY <1>1, <2>0, Goes
  <2> QED
    BY <1>0, <2>2, <2>3, JobsGoOn
<1>4. CASE \E s, n : /\ s # "restoring"
                      /\ jobs' = [jobs EXCEPT ![1].stage = s, ![1].copy = Head1.meta, ![1].version = n]
  <2>0. PICK s, n : /\ s # "restoring"
                    /\ jobs' = [jobs EXCEPT ![1].stage = s, ![1].copy = Head1.meta, ![1].version = n]
    BY <1>4
  <2>1. jobs'[1] = [jobs[1] EXCEPT !.stage = s, !.copy = Head1.meta, !.version = n]
    BY <1>0, <2>0
  <2>2. SameJob(jobs'[1], jobs[1])
    BY <1>0, <2>0, <2>1 DEF SameJob, PersistJobs
  <2>3. HeadGoesOn
    BY <1>1, <2>0, Goes
  <2> QED
    BY <1>0, <2>2, <2>3, JobsGoOn
<1>5. CASE \E s, m, n : /\ Head1.epoch < epoch
                         /\ jobs' = [jobs EXCEPT ![1].stage = s, ![1].epoch = m, ![1].version = n]
  <2>0. PICK s, m, n : /\ Head1.epoch < epoch
                       /\ jobs' = [jobs EXCEPT ![1].stage = s, ![1].epoch = m, ![1].version = n]
    BY <1>5
  <2>1. jobs'[1] = [jobs[1] EXCEPT !.stage = s, !.epoch = m, !.version = n]
    BY <1>0, <2>0
  <2>2. SameJob(jobs'[1], jobs[1])
    BY <1>0, <2>0, <2>1 DEF SameJob, PersistJobs
  <2>3. HeadGoesOn
    BY <1>1, <2>0, Goes
  <2> QED
    BY <1>0, <2>2, <2>3, JobsGoOn
<1>6. CASE jobs' = [jobs EXCEPT ![1].tries = @ + 1]
  <2>1. jobs'[1] = [jobs[1] EXCEPT !.tries = @ + 1]
    BY <1>0, <1>6
  <2>2. SameJob(jobs'[1], jobs[1])
    BY <1>0, <2>1 DEF SameJob, PersistJobs
  <2>3. HeadGoesOn
    BY <1>1, <1>6, Goes
  <2> QED
    BY <1>0, <2>2, <2>3, JobsGoOn
<1>7. CASE UNCHANGED jobs \/ jobs' = Tail(jobs)
  BY <1>0, <1>7, JobsGoOn
<1> QED
  BY <1>2, <1>3, <1>4, <1>5, <1>6, <1>7

LEMMA FlushGoesOn ==
    ASSUME TypeInv
    PROVE  /\ UNCHANGED flush => FlushGoes
           /\ RequestFinalPersist => FlushGoes
           /\ \A i : SettleFinal(i, FALSE) => FlushGoes
           /\ \A i : SettleFinal(i, TRUE) /\ ~(i = save.id /\ flush[save.id] = "pending") => FlushGoes
           /\ \A i : \A s \in {"pending", "failed"} :
                flush[i] = "waiting" /\ flush' = [flush EXCEPT ![i] = s] => FlushGoes
<1>0. flush \in Seq(FlushStates) /\ DOMAIN flush = 1 .. Len(flush) /\ Len(flush) \in Nat
  BY DEF TypeInv, FlushType
<1>1. RequestFinalPersist => FlushGoes
  <2> SUFFICES ASSUME RequestFinalPersist PROVE FlushGoes
    OBVIOUS
  <2>1. \A n \in DOMAIN flush : n \in DOMAIN flush' /\ flush'[n] = flush[n]
    BY <1>0, Appended DEF RequestFinalPersist
  <2> QED
    BY <2>1 DEF FlushGoes
<1>2. ASSUME NEW i, NEW s, flush' = [flush EXCEPT ![i] = s] 
      PROVE  DOMAIN flush' = DOMAIN flush /\ \A n \in DOMAIN flush : flush'[n] = IF n = i THEN s ELSE flush[n]
  BY <1>2
<1>3. ASSUME NEW i, SettleFinal(i, FALSE) PROVE FlushGoes
  <2>1. CASE flush' = flush
    BY <2>1 DEF FlushGoes
  <2>2. CASE IsPending(i) /\ flush' = [flush EXCEPT ![i] = "failed"]
    BY <1>2, <2>2 DEF FlushGoes, IsPending
  <2> QED
    BY <1>3, <2>1, <2>2 DEF SettleFinal
<1>4. ASSUME NEW i, SettleFinal(i, TRUE), ~(i = save.id /\ flush[save.id] = "pending") PROVE FlushGoes
  <2>1. CASE flush' = flush
    BY <2>1 DEF FlushGoes
  <2>2. CASE IsPending(i) /\ flush' = [flush EXCEPT ![i] = "done"]
    BY <1>2, <1>4, <2>2 DEF FlushGoes, IsPending
  <2> QED
    BY <1>4, <2>1, <2>2 DEF SettleFinal
<1>5. ASSUME NEW i, NEW s \in {"pending", "failed"}, flush[i] = "waiting", flush' = [flush EXCEPT ![i] = s]
      PROVE  FlushGoes
  <2>1. DOMAIN flush' = DOMAIN flush /\ \A n \in DOMAIN flush : flush'[n] = IF n = i THEN s ELSE flush[n]
    BY <1>2, <1>5
  <2>2. \A n \in DOMAIN flush : n \in DOMAIN flush' /\ (flush'[n] = "waiting" => flush[n] = "waiting")
    BY <1>5, <2>1
  <2>3. ASSUME save.id \in DOMAIN flush PROVE
           /\ flush'[save.id] = "pending" => flush[save.id] \in {"waiting", "pending"}
           /\ flush'[save.id] = "done" <=> flush[save.id] = "done"
    <3>1. CASE save.id = i
      BY <1>5, <2>1, <2>3, <3>1
    <3>2. CASE save.id # i
      BY <2>1, <2>3, <3>2
    <3> QED
      BY <3>1, <3>2
  <2> QED
    BY <2>2, <2>3 DEF FlushGoes
<1>6. UNCHANGED flush => FlushGoes
  BY DEF FlushGoes
<1> QED
  BY <1>1, <1>3, <1>4, <1>5, <1>6

-----------------------------------------------------------------------------
(* The work of a persist, and the projections. *)

LEMMA ChannelsSame ==
    ASSUME TypeInv
    PROVE  (UNCHANGED toHost => Kept(toHost, toHost')) /\ (UNCHANGED toView => Kept(toView, toView'))
BY KeptMoves DEF TypeInv, MailType

LEMMA SaveSame == ASSUME SaveInv, UNCHANGED save PROVE SaveGoes
BY DEF SaveInv, SaveGoes

(* A step of a job that does not end the last snapshot of the save. *)
LEMMA JobCalm ==
    ASSUME TypeInv, TypeInv', CalmInv, JobsGo, FlushGoes,
           UNCHANGED <<JobSide, sequence, pending, projGen, activeGen, epoch>>, known'.meta = sidecar',
           SaveFresh /\ flush[save.id] = "done" => doc' = view.text /\ sidecar' = view.meta
    PROVE  CalmInv'
<1>0. /\ UNCHANGED <<view, viewGen, edits, externals, projGen, activeGen, sequence, epoch, toHost, toView>>
      /\ UNCHANGED <<save, close, pending>>
  BY DEF JobSide, webVars, channelVars, boundVars, closeVars
<1>1. HostGoes /\ ViewGoes
  BY <1>0, ChannelsSame DEF HostGoes, ViewGoes
<1>2. SaveGoes /\ Unclosed'
  BY <1>0, SaveSame DEF CalmInv, Unclosed
<1> QED
  BY <1>0, <1>1, <1>2, CalmKept

LEMMA HeadShown ==
    ASSUME TypeInv, CalmInv, HeadPersist, SaveFresh, flush[save.id] = "done"
    PROVE  /\ Shown(Head1) /\ Head1.stage # "restoring" /\ Head1.epoch = epoch
           /\ doc = view.text /\ sidecar = view.meta /\ pending = None
BY HeadFacts DEF CalmInv, SaveInv, DoneShown

LEMMA DoneStays ==
    ASSUME CalmInv, UNCHANGED <<doc, sidecar>>
    PROVE  SaveFresh /\ flush[save.id] = "done" => doc' = view.text /\ sidecar' = view.meta
BY DEF CalmInv, SaveInv, DoneShown

(* The last snapshot of a save is in. *)
LEMMA CommitCalm ==
    ASSUME TypeInv, TypeInv', Calm, CalmInv, HeadPersist, Head1.sn = sequence, doc = Head1.text,
           Commit(Head1.meta),
           UNCHANGED <<JobSide, doc, sequence, pending, projGen, activeGen, epoch>>
    PROVE  CalmInv'
<1>0. QueueInv /\ GenInv /\ AskInv /\ SaveInv /\ Unclosed
  BY DEF CalmInv
<1>1. /\ known'.meta = Head1.meta /\ sidecar' = Head1.meta
      /\ jobs' = Tail(jobs) /\ SettleFinal(Head1.flush, TRUE)
  BY DEF Commit, SetDraft, EndPersist
<1>2. JobsGo
  BY <1>0, <1>1, HeadMoves
<1>3. CASE ~(Head1.flush = save.id /\ flush[save.id] = "pending")
  <2>1. FlushGoes
    BY <1>1, <1>3, FlushGoesOn
  <2>2. SaveFresh /\ flush[save.id] = "done" => doc' = view.text /\ sidecar' = view.meta
    BY <1>1, HeadShown DEF Shown
  <2> QED
    BY <1>1, <1>2, <2>1, <2>2, JobCalm
<1>4. CASE Head1.flush = save.id /\ flush[save.id] = "pending"
  <2>0. /\ UNCHANGED <<view, viewGen, edits, externals, projGen, activeGen, sequence, epoch, toHost, toView>>
        /\ UNCHANGED <<save, close, pending>>
    BY DEF JobSide, webVars, channelVars, boundVars, closeVars
  <2>1. QueueInv' /\ GenInv'
    BY <1>0, <1>2, <2>0, QueueKept, GenKept, ChannelsSame DEF ViewMailKept, HostMailKept
  <2>2. flush' = flush \/ flush' = [flush EXCEPT ![save.id] = "done"]
    BY <1>1, <1>4 DEF SettleFinal
  <2>3. AskInv'
    <3>1. \A n \in DOMAIN flush : flush'[n] = "waiting" => flush[n] = "waiting"
      BY <2>2
    <3> QED
      BY <1>0, <1>2, <2>0, <3>1, AskKept, ChannelsSame
  <2>4. SaveFresh' => flush'[save'.id] = "done" /\ SaveFresh /\ save.id \in DOMAIN flush
    <3> SUFFICES ASSUME SaveFresh' PROVE flush'[save'.id] = "done" /\ SaveFresh /\ save.id \in DOMAIN flush
      OBVIOUS
    <3>1. SaveFresh /\ save.id \in DOMAIN flush
      BY <1>0, <2>0 DEF SaveFresh, SaveInv
    <3>2. save.id # None
      BY <3>1, SidecarAssumption DEF TypeInv, FlushType
    <3>3. flush' = [flush EXCEPT ![save.id] = "done"]
      BY <1>1, <1>4, <3>2 DEF SettleFinal, IsPending
    <3> QED
      BY <2>0, <3>1, <3>3
  <2>5. SaveFresh => Shown(Head1) /\ \A k \in Sent : Shown(toHost[k])
    BY <1>0, <1>4, HeadFacts DEF SaveInv, AskedShown
  <2>6. pending = None /\ Persists' = {}
    BY <1>0, <1>1, HeadFacts
  <2>7. AskedShown'
    BY <2>4 DEF AskedShown
  <2>8. DoneShown'
    <3> SUFFICES ASSUME SaveFresh'
                 PROVE  /\ pending' = None /\ doc' = view.text /\ sidecar' = view.meta
                        /\ \A k \in Sent' : Shown(toHost'[k])
      BY <2>0, <2>6 DEF DoneShown, Shown
    <3> QED
      BY <1>1, <2>0, <2>4, <2>5, <2>6 DEF Shown, Sent
  <2>9. /\ save'.stage \notin Unawaited => save'.at <= edits' + externals' /\ save'.id \in DOMAIN flush'
        /\ save'.stage \in {"draining", "storing"} => flush'[save'.id] = "done"
    BY <1>0, <2>0, <2>2 DEF SaveInv, Unawaited
  <2> QED
    BY <1>0, <1>1, <2>0, <2>1, <2>3, <2>7, <2>8, <2>9 DEF CalmInv, SaveInv, Unclosed
<1> QED
  BY <1>3, <1>4

(* The source is reloaded into the webview: what is on its way is older. *)
LEMMA ProjectCalm ==
    ASSUME TypeInv, TypeInv', CalmInv, NEW text \in Texts, NEW meta \in Metas,
           Project(TRUE, text, None, meta), ~Disposed,
           JobsGo, UNCHANGED <<view, viewGen, toHost, toView>>, FlushGoes
    PROVE  QueueInv' /\ GenInv' /\ AskInv'
<1>0. QueueInv /\ GenInv /\ AskInv
  BY DEF CalmInv
<1>1. PICK q : q = [gen |-> projGen + 1, text |-> text, expected |-> None, meta |-> meta,
                    stage |-> "preparing"]
  OBVIOUS
<1>2. /\ pending' = q /\ projGen' = projGen + 1 /\ sequence' = sequence + 1 /\ activeGen' = activeGen
      /\ projGen \in Nat /\ viewGen \in Nat
  BY <1>1, MailFacts DEF Project
<1>3. pending' # None
  <2>1. q \in Projections
    BY <1>1, <1>2 DEF Projections
  <2> QED
    BY <1>2, <2>1, NoneIsNoProjection
<1>4. QueueInv'
  BY <1>0, <1>2, QueueKept
<1>5. GenInv'
  <2>1. pending'.expected = None /\ pending'.gen = projGen'
    BY <1>1, <1>2
  <2>2. viewGen' < projGen'
    BY <1>0, <1>2 DEF GenInv
  <2>3. Projected' = Projected /\ \A i \in Projected : toView[i].gen \in Nat /\ toView[i].gen < projGen'
    BY <1>0, <1>2, MailFacts DEF GenInv, Projected
  <2> QED
    BY <1>0, <1>2, <1>3, <2>1, <2>2, <2>3 DEF GenInv
<1>6. AskInv'
  BY <1>0, AskKept, ChannelsSame DEF FlushGoes
<1> QED
  BY <1>4, <1>5, <1>6

-----------------------------------------------------------------------------
LEMMA RunningHead == \A stage : Running("persist", stage) => HeadPersist /\ Head1.stage = stage
BY DEF Running, HeadPersist

LEMMA StaleEnds ==
    ASSUME TypeInv, TypeInv', CalmInv, HeadPersist, EndPersist(FALSE),
           UNCHANGED <<JobSide, sequence, pending, projGen, activeGen, epoch, draftVars>>,
           SaveFresh /\ flush[save.id] = "done" => doc' = view.text
    PROVE  CalmInv'
<1>0. QueueInv /\ jobs' = Tail(jobs) /\ SettleFinal(Head1.flush, FALSE) /\ known.meta = sidecar
  BY DEF CalmInv, EndPersist, SaveInv
<1>1. JobsGo /\ FlushGoes
  BY <1>0, HeadMoves, FlushGoesOn
<1>2. known'.meta = sidecar' /\ sidecar' = sidecar
  BY <1>0 DEF draftVars
<1>3. SaveFresh /\ flush[save.id] = "done" => doc' = view.text /\ sidecar' = view.meta
  BY <1>2, HeadShown
<1> QED
  BY <1>1, <1>2, <1>3, JobCalm

(* The job at the head goes on. *)
LEMMA HeadOn ==
    ASSUME TypeInv, TypeInv', CalmInv, HeadPersist, JobsGo,
           UNCHANGED <<JobSide, flush, sequence, pending, projGen, activeGen, epoch, draftVars>>,
           SaveFresh /\ flush[save.id] = "done" => doc' = view.text
    PROVE  CalmInv'
<1>0. known.meta = sidecar
  BY DEF CalmInv, SaveInv
<1>1. known'.meta = sidecar' /\ sidecar' = sidecar /\ FlushGoes
  BY <1>0, FlushGoesOn DEF draftVars
<1>2. SaveFresh /\ flush[save.id] = "done" => doc' = view.text /\ sidecar' = view.meta
  BY <1>1, HeadShown
<1> QED
  BY <1>1, <1>2, JobCalm

LEMMA StartCalm ==
    ASSUME TypeInv, TypeInv', Calm, CalmInv, StartPersist \/ SanitizeState \/ ApplySourceText
    PROVE  CalmInv'
<1>0. HeadPersist /\ UNCHANGED <<JobSide, sequence, pending, projGen, activeGen, epoch, draftVars>>
  BY RunningHead DEF StartPersist, SanitizeState, ApplySourceText, projVars
<1>1. QueueInv /\ (SaveFresh /\ flush[save.id] = "done" => doc = view.text /\ Head1.text = view.text)
  BY <1>0, HeadShown DEF CalmInv, Shown
<1>2. CASE EndPersist(FALSE) /\ UNCHANGED doc
  BY <1>0, <1>1, <1>2, StaleEnds
<1>3. CASE UNCHANGED <<flush, doc>> /\ Advance("sanitizing")
  BY <1>0, <1>1, <1>3, HeadMoves, HeadOn
<1>4. CASE /\ UNCHANGED <<flush, doc>>
           /\ jobs' = [jobs EXCEPT ![1].stage = "materializing", ![1].meta = Sanitize(Head1.meta)]
  <2>1. Sanitize(Head1.meta) = Head1.meta
    BY CalmNow
  <2>2. JobsGo
    BY <1>0, <1>1, <1>4, <2>1, HeadMoves
  <2> QED
    BY <1>0, <1>1, <1>4, <2>2, HeadOn
<1>5. CASE doc' = Head1.text /\ Advance("applied") /\ UNCHANGED flush
  BY <1>0, <1>1, <1>5, HeadMoves, HeadOn
<1> QED
  BY <1>2, <1>3, <1>4, <1>5 DEF StartPersist, SanitizeState, ApplySourceText

LEMMA MaterializeCalm ==
    ASSUME TypeInv, TypeInv', Calm, CalmInv, MaterializeState
    PROVE  CalmInv'
<1>0. HeadPersist /\ UNCHANGED <<JobSide, doc, sequence, pending, projGen, activeGen, epoch>>
  BY RunningHead DEF MaterializeState, projVars
<1>1. QueueInv /\ (SaveFresh /\ flush[save.id] = "done" => doc = view.text)
      /\ Sanitize(Head1.meta) = Head1.meta
  BY <1>0, HeadShown, CalmNow DEF CalmInv
<1>2. CASE EndPersist(FALSE) /\ UNCHANGED draftVars
  BY <1>0, <1>1, <1>2, StaleEnds
<1>3. CASE IsCurrent(Head1) /\ Head1.text = doc /\ Commit(Head1.meta)
  BY <1>0, <1>3, CommitCalm DEF IsCurrent
<1>4. CASE /\ UNCHANGED <<flush, draftVars>>
           /\ jobs' = [jobs EXCEPT ![1].stage = "applying", ![1].copy = Head1.meta,
                                   ![1].version = externals]
  <2>1. JobsGo
    BY <1>0, <1>1, <1>4, HeadMoves
  <2> QED
    BY <1>0, <1>1, <1>4, <2>1, HeadOn
<1> QED
  BY <1>1, <1>2, <1>3, <1>4 DEF MaterializeState

LEMMA ResumeCalm ==
    ASSUME TypeInv, TypeInv', Calm, CalmInv, ResumeApplied
    PROVE  CalmInv'
<1>0. HeadPersist /\ UNCHANGED <<JobSide, doc>>
  BY RunningHead DEF ResumeApplied
<1>1. QueueInv /\ (SaveFresh /\ flush[save.id] = "done" => doc = view.text /\ Head1.text = view.text)
      /\ known.meta = sidecar /\ Head1.copy = Head1.meta
  BY <1>0, HeadShown, HeadFacts DEF CalmInv, SaveInv, Shown
<1>2. CASE doc # Head1.text /\ Project(TRUE, doc, None, sidecar) /\ EndPersist(FALSE) /\ UNCHANGED draftVars
  <2>1. ~(SaveFresh /\ flush[save.id] = "done")
    BY <1>1, <1>2
  <2>2. CASE Disposed
    BY <1>0, <1>2, <2>1, <2>2, StaleEnds DEF Project, projVars
  <2>3. CASE ~Disposed
    <3>1. JobsGo /\ FlushGoes
      BY <1>0, <1>1, <1>2, HeadMoves, FlushGoesOn DEF EndPersist
    <3>2. UNCHANGED <<view, viewGen, edits, externals, toHost, toView, save, close, closing>>
      BY <1>0 DEF JobSide, webVars, channelVars, boundVars, closeVars
    <3>3. doc \in Texts /\ sidecar \in Metas
      BY DEF TypeInv, Scalars, DraftType, DiskType
    <3>4. QueueInv' /\ GenInv' /\ AskInv'
      BY <1>2, <2>3, <3>1, <3>2, <3>3, ProjectCalm
    <3>5. known'.meta = sidecar' /\ sequence' = sequence + 1
      BY <1>1, <1>2, <2>3 DEF draftVars, Project
    <3>6. SaveInv'
      BY <2>1, <3>1, <3>2, <3>5, SaveKept, SaveSame, ChannelsSame DEF CalmInv, SentKept
    <3> QED
      BY <3>2, <3>4, <3>6 DEF CalmInv, Unclosed
  <2> QED
    BY <2>2, <2>3
<1>3. CASE /\ doc = Head1.text /\ IsCurrent(Head1)
           /\ Commit(Head1.copy) /\ UNCHANGED <<projVars, sequence>>
  BY <1>0, <1>1, <1>3, CommitCalm DEF IsCurrent, projVars
<1>4. CASE /\ MustRollBack(Head1)
           /\ jobs' = [jobs EXCEPT ![1].stage = "restoring", ![1].epoch = epoch,
                                   ![1].version = externals]
           /\ UNCHANGED <<flush, draftVars, sequence, projGen, activeGen, pending, epoch>>
  <2>1. Head1.epoch < epoch
    BY <1>0, <1>4, HeadFacts, JobFacts DEF MustRollBack
  <2>2. JobsGo
    BY <1>0, <1>1, <1>4, <2>1, HeadMoves
  <2> QED
    BY <1>0, <1>1, <1>4, <2>2, HeadOn
<1>5. CASE EndPersist(FALSE) /\ UNCHANGED <<projVars, sequence, draftVars>>
  BY <1>0, <1>1, <1>5, StaleEnds DEF projVars
<1> QED
  BY <1>2, <1>3, <1>4, <1>5 DEF ResumeApplied

LEMMA RestoreCalm ==
    ASSUME TypeInv, TypeInv', Calm, CalmInv, RestoreSourceText
    PROVE  CalmInv'
<1>0. HeadPersist /\ Head1.stage = "restoring"
      /\ UNCHANGED <<JobSide, sequence, pending, projGen, activeGen, epoch, draftVars>>
  BY RunningHead DEF RestoreSourceText
<1>1. QueueInv /\ ~(SaveFresh /\ flush[save.id] = "done")
  BY <1>0, HeadShown DEF CalmInv
<1>2. CASE EndPersist(FALSE)
  BY <1>0, <1>1, <1>2, StaleEnds
<1>3. CASE UNCHANGED flush /\ jobs' = [jobs EXCEPT ![1].tries = @ + 1]
  BY <1>0, <1>1, <1>3, HeadMoves, HeadOn
<1> QED
  BY <1>2, <1>3 DEF RestoreSourceText

LEMMA PersistCalm ==
    ASSUME TypeInv, TypeInv', Calm, CalmInv, PersistStep
    PROVE  CalmInv'
BY StartCalm, MaterializeCalm, ResumeCalm, RestoreCalm DEF PersistStep

-----------------------------------------------------------------------------
(* Requests, saves and the closing panel. *)

LEMMA QuietCalm ==
    ASSUME TypeInv, TypeInv', CalmInv, JobsGo, HostGoes, ViewGoes, FlushGoes, SaveGoes, Unclosed',
           UNCHANGED <<webVars, doc, known, sidecar, sequence, projGen, activeGen, epoch, edits, externals>>,
           UNCHANGED pending \/ (pending # None /\ pending' = [pending EXCEPT !.stage = "stalled"])
    PROVE  CalmInv'
<1>1. known'.meta = sidecar' /\ (SaveFresh /\ flush[save.id] = "done" => doc' = view.text /\ sidecar' = view.meta)
  BY DoneStays DEF CalmInv, SaveInv
<1>2. UNCHANGED <<view, viewGen>>
  BY DEF webVars
<1> QED
  BY <1>1, <1>2, CalmKept

LEMMA MailSame ==
    ASSUME TypeInv
    PROVE  (UNCHANGED toHost => HostGoes) /\ (UNCHANGED toView => ViewGoes)
BY ChannelsSame DEF HostGoes, ViewGoes

LEMMA FlushCalm ==
    ASSUME TypeInv, TypeInv', Calm, Calm', CalmInv,
           Hide \/ \E i \in DOMAIN flush : StartFlush(i) \/ FlushTimesOut(i)
    PROVE  CalmInv'
<1>0. /\ UNCHANGED <<webVars, toHost, doc, draftVars, sequence, jobs, projVars, save, close, boundVars>>
      /\ toView' = toView \/ \E i \in DOMAIN flush :
           /\ flush[i] = "waiting" /\ flush' = [flush EXCEPT ![i] = "pending"]
           /\ toView' = Append(toView, [type |-> "flush", id |-> i])
  BY DEF Hide, StartFlush, FlushTimesOut, channelVars, closeVars
<1>1. FlushGoes
  <2>1. CASE Hide
    BY <2>1, FlushGoesOn DEF Hide
  <2>2. CASE \E i \in DOMAIN flush : StartFlush(i)
    <3>1. PICK i \in DOMAIN flush : StartFlush(i)
      BY <2>2
    <3>2. PICK s \in {"pending", "failed"} : flush' = [flush EXCEPT ![i] = s]
      BY <3>1 DEF StartFlush
    <3> QED
      BY <3>1, <3>2, FlushGoesOn DEF StartFlush
  <2>3. CASE \E i \in DOMAIN flush : FlushTimesOut(i)
    BY <2>3, FlushGoesOn DEF FlushTimesOut
  <2> QED
    BY <2>1, <2>2, <2>3
<1>2. ViewGoes
  <2>1. CASE toView' = toView
    BY <2>1, MailSame
  <2>2. ASSUME NEW i \in DOMAIN flush, flush' = [flush EXCEPT ![i] = "pending"],
               toView' = Append(toView, [type |-> "flush", id |-> i])
        PROVE  ViewGoes
    BY <2>2 DEF ViewGoes
  <2> QED
    BY <1>0, <2>1, <2>2
<1>3. JobsGo /\ SaveGoes /\ HostGoes
  BY <1>0, JobsGoOn, SaveSame, MailSame DEF CalmInv
<1> QED
  BY <1>0, <1>1, <1>2, <1>3, QuietCalm DEF draftVars, projVars, boundVars, CalmInv, Unclosed

(* A save begins: its snapshot has not been asked for yet. *)
LEMMA WillSaveCalm ==
    ASSUME TypeInv, TypeInv', Calm, CalmInv, WillSave
    PROVE  CalmInv'
<1>0. /\ UNCHANGED <<view, viewGen, toHost, toView, sidecar, known, sequence, jobs>>
      /\ UNCHANGED <<pending, projGen, activeGen, close, edits, externals>>
      /\ QueueInv /\ GenInv /\ AskInv /\ SaveInv /\ Unclosed
  BY DEF WillSave, SaveSide, webVars, channelVars, draftVars, projVars, closeVars, boundVars, CalmInv
<1>1. FlushGoes /\ JobsGo
  BY <1>0, FlushGoesOn, JobsGoOn DEF WillSave
<1>2. QueueInv' /\ GenInv'
  BY <1>0, <1>1, QueueKept, GenKept, ChannelsSame DEF ViewMailKept, HostMailKept
<1>3. AskInv'
  BY <1>0, <1>1, AskKept, ChannelsSame DEF FlushGoes
<1>4. CASE save' = [NoLongerAwaited("forced") EXCEPT !.refused = @ + 1]
  <2>1. save'.stage = "forced"
    BY <1>4 DEF NoLongerAwaited, TypeInv, MailType, Saves
  <2>2. SaveInv'
    BY <1>0, <2>1 DEF SaveInv, SaveFresh, AskedShown, DoneShown, Unawaited
  <2> QED
    BY <1>0, <1>2, <1>3, <2>2 DEF CalmInv, Unclosed
<1>5. CASE /\ save' = [save EXCEPT !.stage = "flushing", !.id = Len(flush) + 1, !.at = edits + externals]
           /\ flush' = Append(flush, "waiting")
  <2>1. flush \in Seq(FlushStates) /\ save \in Saves
    BY DEF TypeInv, FlushType, MailType
  <2>2. save'.id \in DOMAIN flush' /\ flush'[save'.id] = "waiting" /\ save'.stage = "flushing"
        /\ save'.at <= edits' + externals'
    BY <1>0, <1>5, <2>1, Appended DEF TypeInv, Scalars, CountType, Saves
  <2>3. SaveInv'
    BY <1>0, <2>2 DEF SaveInv, AskedShown, DoneShown
  <2> QED
    BY <1>0, <1>2, <1>3, <2>3 DEF CalmInv, Unclosed
<1> QED
  BY <1>4, <1>5 DEF WillSave, RequestFinalPersist

LEMMA SaveStepCalm ==
    ASSUME TypeInv, TypeInv', Calm, CalmInv, SaveStep \/ SaveTimesOut
    PROVE  CalmInv'
<1>0. /\ UNCHANGED <<webVars, toHost, toView, doc, flush, sequence>>
      /\ UNCHANGED <<pending, projGen, activeGen, epoch, close, edits, externals>>
      /\ QueueInv /\ SaveInv /\ Unclosed
  BY DEF SaveStep, SaveFlushed, SaveTimesOut, SaveDrained, DidSave, SaveSidecar, SaveSide, channelVars,
         projVars, closeVars, boundVars, CalmInv
<1>1. JobsGo
  BY <1>0, JobsGoOn DEF SaveStep, SaveFlushed, SaveTimesOut, SaveDrained, DidSave, SaveSidecar, Running
<1>2. SaveGoes
  <2>1. save \in Saves
    BY DEF TypeInv, MailType
  <2>2. CASE SaveFlushed
    BY <2>1, <2>2 DEF Saves, SaveFlushed, NoLongerAwaited, SaveGoes, Unawaited
  <2>6. CASE SaveTimesOut
    BY <2>1, <2>6 DEF Saves, SaveTimesOut, NoLongerAwaited, SaveGoes, Unawaited
  <2>3. CASE SaveDrained
    BY <1>0, <2>1, <2>3 DEF Saves, SaveDrained, SaveGoes, SaveInv, Unawaited
  <2>4. CASE DidSave
    BY <2>1, <2>4 DEF Saves, DidSave, NoLongerAwaited, SaveGoes, Unawaited
  <2>5. CASE SaveSidecar
    BY <1>0, <2>5, SaveSame DEF SaveSidecar
  <2> QED
    BY <2>2, <2>3, <2>4, <2>5, <2>6 DEF SaveStep
<1>3. UNCHANGED <<known, sidecar>>
  <2>1. WriteFresh => UNCHANGED <<known, sidecar>>
    BY <1>0, CalmNow DEF WriteFresh, Published, SaveInv
  <2> QED
    BY <2>1 DEF SaveStep, SaveFlushed, SaveTimesOut, SaveDrained, DidSave, SaveSidecar, WriteFreshFails, draftVars
<1>4. FlushGoes /\ HostGoes /\ ViewGoes
  BY <1>0, FlushGoesOn, MailSame
<1> QED
  BY <1>0, <1>1, <1>2, <1>3, <1>4, QuietCalm DEF Unclosed

(* A calm panel closes without its queue being closed. *)
LEMMA CloseCalm ==
    ASSUME TypeInv, TypeInv', Calm, Calm', CalmInv,
           \/ CloseStep \/ DisposePanel
           \/ \E choice \in {"Save", "Discard", None} : AnswerPrompt(choice)
    PROVE  CalmInv'
<1>1. \/ DisposePanel
      \/ CloseFinals \/ CloseUnload
  BY DEF CloseStep, CloseAdmission, CloseDrained, SaveDraft, RecoverDraft, SettleClose, AnswerPrompt,
         CalmInv, Unclosed, Calm
<1>2. /\ UNCHANGED <<webVars, doc, draftVars, sequence, jobs, flush, projVars, save, edits, externals>>
      /\ Unclosed'
  BY <1>1 DEF DisposePanel, CloseFinals, CloseUnload, CloseSide, boundVars, Unclosed
<1>3. FlushGoes /\ JobsGo /\ SaveGoes
  BY <1>2, FlushGoesOn, JobsGoOn, SaveSame DEF CalmInv
<1>4. HostGoes
  <2>1. CASE UNCHANGED toHost
    BY <2>1, MailSame
  <2>2. CASE toHost' = Append(toHost, Snapshot(view, viewRev, None, TRUE))
    BY <2>2, MailFacts DEF HostGoes, Snapshot, Shown
  <2>3. CASE \E n \in 0 .. Len(toHost) : toHost' = SubSeq(toHost, 1, n)
    BY <2>3, KeptMoves, MailFacts DEF HostGoes
  <2> QED
    BY <1>1, <2>1, <2>2, <2>3 DEF DisposePanel, CloseFinals, CloseUnload
<1>5. ViewGoes
  <2>1. UNCHANGED toView \/ toView' = <<>>
    BY <1>1 DEF DisposePanel, CloseFinals, CloseUnload, CloseSide
  <2> QED
    BY <2>1, MailSame, KeptMoves, MailFacts DEF ViewGoes
<1> QED
  BY <1>2, <1>3, <1>4, <1>5, QuietCalm DEF draftVars, projVars

(* Nothing this invariant speaks of changes. *)
LEMMA StillCalm ==
    ASSUME TypeInv, TypeInv', CalmInv,
           UNCHANGED <<webVars, channelVars, doc, draftVars, sequence, jobs, flush, projVars, save,
                       close, edits, externals>>
    PROVE  CalmInv'
<1>1. FlushGoes /\ JobsGo /\ SaveGoes /\ HostGoes /\ ViewGoes
  BY FlushGoesOn, JobsGoOn, SaveSame, MailSame DEF CalmInv, channelVars
<1> QED
  BY <1>1, QuietCalm DEF draftVars, projVars, CalmInv, Unclosed

-----------------------------------------------------------------------------
(* The projections and what the webview does with them. *)

LEMMA PostCalm ==
    ASSUME TypeInv, TypeInv', Calm, CalmInv, PostProjection
    PROVE  CalmInv'
<1>0. /\ UNCHANGED <<view, viewGen, toHost, doc, known, sidecar, sequence, jobs, flush>>
      /\ UNCHANGED <<projGen, activeGen, epoch, save, close, edits, externals>>
      /\ QueueInv /\ GenInv /\ AskInv /\ SaveInv /\ Unclosed
  BY DEF PostProjection, webVars, draftVars, closeVars, boundVars, CalmInv
<1>1. PendingAt("preparing") /\ pending # None /\ pending \in Projections
  BY DEF PostProjection, PendingAt, TypeInv, Scalars, ProjType
<1>2. JobsGo /\ FlushGoes /\ SaveGoes
  BY <1>0, JobsGoOn, FlushGoesOn, SaveSame
<1>3. CASE UNCHANGED toView /\ pending' = [pending EXCEPT !.stage = "stalled"]
  <2>1. HostGoes /\ ViewGoes
    BY <1>0, <1>3, MailSame
  <2> QED
    BY <1>0, <1>1, <1>2, <1>3, <2>1, DoneStays, CalmKept DEF SaveInv, Unclosed
<1>4. CASE /\ pending' = [pending EXCEPT !.stage = "posted"]
           /\ \E x : toView' = Append(toView, x) /\ x.type = "data" /\ x.gen = pending.gen
                       /\ x.expected = pending.expected
  <2>0. PICK x : toView' = Append(toView, x) /\ x.type = "data" /\ x.gen = pending.gen
                 /\ x.expected = pending.expected
    BY <1>4
  <2>1. QueueInv'
    BY <1>0, <1>1, <1>2, QueueKept
  <2>2. AskInv'
    BY <1>0, <1>2, <2>0, AskKept, ChannelsSame
  <2>3. SaveInv'
    <3>1. ~(SaveFresh /\ flush[save.id] = "done")
      BY <1>0, <1>1 DEF SaveInv, DoneShown
    <3>2. known'.meta = sidecar' /\ SentKept
      BY <1>0, ChannelsSame DEF SaveInv, SentKept
    <3> QED
      BY <1>0, <1>2, <3>1, <3>2, SaveKept
  <2>4. GenInv'
    <3>1. /\ pending'.expected = None /\ pending'.gen = projGen /\ pending'.stage = "posted"
          /\ pending.gen = projGen /\ pending.expected = None /\ viewGen < projGen
          /\ \A i \in Projected : toView[i].gen < projGen
      BY <1>0, <1>1, <1>4 DEF Projections, GenInv
    <3>2. pending' # None
      BY <1>1, <1>4, NoneIsNoProjection DEF Projections
    <3>3. \A i \in Projected' : \/ i \in Projected /\ toView'[i] = toView[i] /\ i < Len(toView) + 1
                                \/ i = Len(toView) + 1 /\ toView'[i].gen = projGen
                                   /\ toView'[i].expected = None
      BY <2>0, <3>1, MailFacts, Appended DEF Projected
    <3>4. \A i \in Projected' : i \in Nat
      BY <3>3, MailFacts, Appended DEF Projected
    <3>5. Len(toView) \in Nat
      BY MailFacts, Appended
    <3>6. \A i, k \in Projected' : i < k => toView'[i].gen < toView'[k].gen
      BY <1>0, <3>1, <3>3, <3>4, <3>5 DEF GenInv, Projected
    <3>7. \A i \in Projected' : viewGen < toView'[i].gen /\ toView'[i].gen <= projGen
                               /\ toView'[i].expected = None
      BY <1>0, <3>1, <3>3, MailFacts DEF GenInv
    <3> QED
      BY <1>0, <3>1, <3>2, <3>6, <3>7 DEF GenInv, PendingAt
  <2> QED
    BY <1>0, <2>1, <2>2, <2>3, <2>4 DEF CalmInv, Unclosed
<1> QED
  BY <1>3, <1>4 DEF PostProjection

LEMMA StallCalm ==
    ASSUME TypeInv, TypeInv', Calm, Calm', CalmInv, ProjectionTimesOut
    PROVE  CalmInv'
<1>1. /\ UNCHANGED <<webVars, toHost, toView, doc, known, sidecar, sequence, projGen, activeGen, epoch>>
      /\ UNCHANGED <<edits, externals, jobs, flush, save, close>>
      /\ pending # None /\ pending' = [pending EXCEPT !.stage = "stalled"]
  BY DEF ProjectionTimesOut, PendingAt, channelVars, draftVars, closeVars, boundVars
<1>2. FlushGoes /\ JobsGo /\ SaveGoes /\ HostGoes /\ ViewGoes
  BY <1>1, FlushGoesOn, JobsGoOn, SaveSame, MailSame DEF CalmInv
<1> QED
  BY <1>1, <1>2, QuietCalm DEF CalmInv, Unclosed

(* The webview takes a projection: no snapshot of it has been sent yet. *)
LEMMA ReceiveViewCalm ==
    ASSUME TypeInv, TypeInv', Calm, CalmInv, ReceiveView
    PROVE  CalmInv'
<1>0. /\ UNCHANGED <<doc, known, sidecar, sequence, jobs, flush, save, close, edits, externals>>
      /\ UNCHANGED <<pending, projGen, activeGen, epoch>>
      /\ QueueInv /\ GenInv /\ AskInv /\ SaveInv /\ Unclosed
      /\ toView # <<>> /\ toView' = Tail(toView)
  BY DEF ReceiveView, HostSide, draftVars, projVars, closeVars, boundVars, CalmInv
<1>1. PICK m : m = Head(toView)
  OBVIOUS
<1>2. m = toView[1] /\ 1 \in DOMAIN toView /\ m \in Requests
  BY <1>0, <1>1, MailFacts
<1>3. JobsGo /\ FlushGoes /\ SaveGoes
  BY <1>0, JobsGoOn, FlushGoesOn, SaveSame
<1>4. Kept(toView, toView')
  BY <1>0, MailFacts, KeptMoves
<1>5. CASE m.type = "flush"
  <2>1. toHost' = Append(toHost, Snapshot(view, viewRev, m.id, FALSE)) /\ UNCHANGED webVars
    BY <1>1, <1>5 DEF ReceiveView
  <2>2. HostGoes
    <3>1. flush[m.id] # "waiting"
      BY <1>0, <1>2, <1>5 DEF AskInv
    <3> QED
      BY <1>0, <2>1, <3>1, MailFacts DEF HostGoes, Snapshot, Shown
  <2> QED
    BY <1>0, <1>3, <1>4, <2>1, <2>2, QuietCalm DEF ViewGoes, Unclosed
<1>6. CASE m.type = "data"
  <2>1. 1 \in Projected /\ viewGen < m.gen /\ m.gen <= projGen /\ m.expected = None /\ m.gen \in Nat
    BY <1>0, <1>2, <1>6, MailFacts DEF Projected, GenInv
  <2>2. /\ viewGen' = m.gen
        /\ toHost' = Append(toHost, [type |-> "reload", gen |-> m.gen, applied |-> TRUE, rev |-> m.rev])
    <3>1. ReceiveData(m)
      BY <1>1, <1>6 DEF ReceiveView
    <3> QED
      BY <2>1, <3>1, MailFacts DEF ReceiveData, Reply
  <2>3. pending # None
    BY <1>0, <2>1, MailFacts DEF GenInv
  <2>4. QueueInv'
    BY <1>0, <1>3, QueueKept
  <2>5. AskInv'
    BY <1>0, <1>3, <1>4, <2>2, AskKept
  <2>6. \A i \in DOMAIN toHost' : \/ i \in DOMAIN toHost /\ toHost'[i] = toHost[i]
                                  \/ toHost'[i].type = "reload" /\ toHost'[i].gen = m.gen
    BY <2>2, MailFacts, Appended
  <2>7. Sent' = {}
    BY <1>0, <2>1, <2>2, <2>6, MailFacts DEF Sent, GenInv
  <2>8. GenInv'
    <3>1. PICK f \in [Projected' -> Projected] :
             /\ \A i \in Projected' : toView'[i] = toView[f[i]]
             /\ \A i, k \in Projected' : i < k => f[i] < f[k]
      BY <1>4, ProjectedFrom DEF ViewMailKept
    <3>2. \A i \in Projected' : toView'[i] = toView[i + 1] /\ i + 1 \in Projected /\ 1 < i + 1
      BY <1>0, MailFacts DEF Projected
    <3>3. \A i \in Projected' : viewGen' < toView'[i].gen /\ toView'[i].gen <= projGen
                               /\ toView'[i].expected = None
      BY <1>0, <1>2, <2>1, <2>2, <3>2 DEF GenInv
    <3>4. \A i, k \in Projected' : i < k => toView'[i].gen < toView'[k].gen
      <4> SUFFICES ASSUME NEW i \in Projected', NEW k \in Projected', i < k
                   PROVE  toView'[i].gen < toView'[k].gen
        OBVIOUS
      <4>1. f[i] \in Projected /\ f[k] \in Projected /\ f[i] < f[k]
            /\ toView'[i] = toView[f[i]] /\ toView'[k] = toView[f[k]]
        BY <3>1
      <4> QED
        BY <1>0, <4>1 DEF GenInv
    <3>5. \A i \in DOMAIN toHost' : toHost'[i].gen <= viewGen'
      BY <1>0, <2>1, <2>2, <2>6, MailFacts DEF GenInv
    <3>6. PendingAt("preparing") =>
             viewGen' < projGen /\ \A i \in Projected' : toView'[i].gen < projGen
      BY <1>0, <1>2, <2>1, <2>2, <3>2 DEF GenInv
    <3> QED
      BY <1>0, <2>1, <2>2, <2>3, <3>3, <3>4, <3>5, <3>6 DEF GenInv, PendingAt
  <2>9. SaveInv'
    <3>1. \A i \in Persists' : i \in Persists /\ jobs'[i] = jobs[i] /\ jobs[i].sn # sequence
      BY <1>0, <2>3 DEF QueueInv, Persists
    <3>2. AskedShown'
      BY <1>0, <2>7, <3>1 DEF AskedShown
    <3>3. DoneShown'
      BY <1>0, <2>3 DEF DoneShown, SaveFresh, SaveInv
    <3> QED
      BY <1>0, <3>2, <3>3 DEF SaveInv
  <2> QED
    BY <1>0, <2>4, <2>5, <2>8, <2>9 DEF CalmInv, Unclosed
<1> QED
  BY <1>2, <1>5, <1>6 DEF Requests

(* After an edit the save under way is not what the webview shows. *)
LEMMA EditCalm ==
    ASSUME TypeInv, TypeInv', Calm, CalmInv,
           \/ \E c \in Contents : EditView(c)
           \/ \E t \in Texts : ExternalEdit(t)
    PROVE  CalmInv'
<1>5. edits \in Nat /\ externals \in Nat
  BY DEF TypeInv, Scalars, CountType
<1>0. /\ UNCHANGED <<viewGen, known, sidecar, jobs, flush, save, close, toView, activeGen>>
      /\ edits' + externals' = edits + externals + 1
      /\ QueueInv /\ GenInv /\ AskInv /\ SaveInv /\ Unclosed
  <2>1. CASE \E c \in Contents : EditView(c)
    BY <1>5, <2>1 DEF EditView, HostSide, draftVars, projVars, closeVars, CalmInv
  <2>2. CASE \E t \in Texts : ExternalEdit(t)
    BY <1>5, <2>2 DEF ExternalEdit, OutsideVars, webVars, draftVars, projVars, closeVars, CalmInv, Project
  <2> QED
    BY <2>1, <2>2
<1>1. JobsGo /\ FlushGoes
  BY <1>0, JobsGoOn, FlushGoesOn
<1>2. SaveInv'
  <2>1. save.stage \notin Unawaited => save.at <= edits + externals /\ save.at \in Nat
    BY <1>0 DEF SaveInv, TypeInv, MailType, Saves
  <2>2. ~SaveFresh'
    BY <1>5, <1>0, <2>1 DEF SaveFresh
  <2>3. save'.stage \notin Unawaited => save'.at <= edits' + externals'
    BY <1>5, <1>0, <2>1
  <2> QED
    BY <1>0, <2>2, <2>3 DEF SaveInv, AskedShown, DoneShown
<1>3. ASSUME NEW c \in Contents, EditView(c) PROVE QueueInv' /\ GenInv' /\ AskInv'
  <2>1. /\ toHost' = Append(toHost, Snapshot(c, viewRev + 1, None, FALSE))
        /\ UNCHANGED <<sequence, pending, projGen, epoch>>
    BY <1>3 DEF EditView, HostSide, projVars
  <2>2. HostMailKept
    BY <2>1, MailFacts DEF HostMailKept, Snapshot
  <2>3. QueueInv' /\ GenInv'
    BY <1>0, <1>1, <2>1, <2>2, QueueKept, GenKept, ChannelsSame DEF ViewMailKept
  <2>4. AskInv'
    BY <1>0, <1>1, <2>1, AskKept, ChannelsSame DEF Snapshot
  <2> QED
    BY <2>3, <2>4
<1>4. ASSUME NEW t \in Texts, ExternalEdit(t) PROVE QueueInv' /\ GenInv' /\ AskInv'
  <2>1. Project(TRUE, t, None, sidecar) /\ UNCHANGED <<view, toHost>>
    BY <1>4 DEF ExternalEdit, OutsideVars, webVars, Calm
  <2>2. CASE Disposed
    <3>1. UNCHANGED <<sequence, pending, projGen>>
      BY <2>1, <2>2 DEF Project, projVars
    <3>2. QueueInv' /\ GenInv'
      BY <1>0, <1>1, <2>1, <3>1, QueueKept, GenKept, ChannelsSame DEF ViewMailKept, HostMailKept
    <3>3. AskInv'
      BY <1>0, <1>1, <2>1, AskKept, ChannelsSame
    <3> QED
      BY <3>2, <3>3
  <2>3. CASE ~Disposed
    <3>1. sidecar \in Metas
      BY DEF TypeInv, Scalars, DraftType
    <3> QED
      BY <1>0, <1>1, <2>1, <2>3, <3>1, ProjectCalm
  <2> QED
    BY <2>2, <2>3
<1> QED
  BY <1>0, <1>2, <1>3, <1>4 DEF CalmInv, Unclosed

-----------------------------------------------------------------------------
(* What arrives at the host. *)

LEMMA AdmitCalm ==
    ASSUME TypeInv, TypeInv', Calm, CalmInv, NEW m \in PersistMessages, m = toHost[1],
           toHost # <<>>, toHost' = Tail(toHost),
           pending = None, m.gen = activeGen, sequence' = sequence + 1, jobs' = Append(jobs, Job(m)),
           UNCHANGED <<webVars, toView, doc, known, sidecar, flush, projVars, save, close, edits, externals>>
    PROVE  CalmInv'
<1>0. QueueInv /\ GenInv /\ AskInv /\ SaveInv /\ Unclosed /\ sequence \in Nat /\ sequence' \in Nat
      /\ UNCHANGED <<view, viewGen, pending, projGen, activeGen, epoch>> /\ save' = save
  BY DEF CalmInv, projVars, webVars, TypeInv, Scalars, SessionType
<1> DEFINE j == Job(m)
<1>1. j.kind = "persist" /\ j.sn = sequence + 1 /\ j.copy = j.meta /\ j.flush = m.flush
      /\ j.epoch = epoch /\ j.stage = "queued" /\ (Shown(m) => Shown(j))
  BY DEF Job, Shown
<1>2. \A i \in Persists' : \/ i \in Persists /\ jobs'[i] = jobs[i] /\ i < Len(jobs) + 1
                           \/ i = Len(jobs) + 1 /\ jobs'[i] = j
  <2>1. jobs \in Seq(Jobs)
    BY DEF TypeInv, MailType
  <2> HIDE DEF j
  <2> QED
    BY <2>1, Appended DEF Persists, j
<1> HIDE DEF j
<1>3. \A i \in DOMAIN jobs' : i \in Nat
  BY JobFacts DEF TypeInv, MailType
<1>11. \A i \in Persists :
        jobs[i].sn \in Nat /\ jobs[i].sn < sequence' /\ jobs[i].copy = jobs[i].meta
  <2>1. \A i \in Persists : jobs[i].sn \in Nat /\ jobs[i].sn <= sequence /\ jobs[i].copy = jobs[i].meta
    BY <1>0, JobFacts DEF QueueInv
  <2> QED
    BY <1>0, <2>1
<1>4. Kept(toHost, toHost') /\ UNCHANGED toView /\ Kept(toView, toView')
  BY MailFacts, KeptMoves
<1>5. QueueInv'
  <2>1. \A i \in DOMAIN jobs' : jobs'[i].kind # "repair"
    <3>1. jobs \in Seq(Jobs)
      BY DEF TypeInv, MailType
    <3> QED
      BY <1>0, <1>1, <3>1, Appended DEF QueueInv, j
  <2>2. \A i \in Persists' : jobs'[i].copy = jobs'[i].meta /\ jobs'[i].sn <= sequence'
    <3> SUFFICES ASSUME NEW i \in Persists'
                 PROVE  jobs'[i].copy = jobs'[i].meta /\ jobs'[i].sn <= sequence'
      OBVIOUS
    <3> QED
      <4>1. CASE i \in Persists /\ jobs'[i] = jobs[i]
        BY <1>0, <1>11, <4>1
      <4>2. CASE jobs'[i] = j
        BY <1>0, <1>1, <4>2
      <4> QED
        BY <1>2, <4>1, <4>2
  <2>3. \A i, k \in Persists' : i < k => jobs'[i].sn < jobs'[k].sn
    <3> SUFFICES ASSUME NEW i \in Persists', NEW k \in Persists', i < k
                 PROVE  jobs'[i].sn < jobs'[k].sn
      OBVIOUS
    <3>1. i \in Persists /\ jobs'[i] = jobs[i]
      BY <1>2, <1>3, JobFacts DEF Persists
    <3> QED
      <4>1. CASE k \in Persists /\ jobs'[k] = jobs[k]
        BY <1>0, <3>1, <4>1 DEF QueueInv
      <4>2. CASE jobs'[k] = j
        BY <1>1, <1>11, <3>1, <4>2
      <4> QED
        BY <1>2, <4>1, <4>2
  <2> QED
    BY <1>0, <2>1, <2>2, <2>3 DEF QueueInv
<1>6. GenInv'
  BY <1>0, <1>4, GenKept DEF ViewMailKept, HostMailKept
<1>7. 1 \in DOMAIN toHost /\ 1 \in Sent
  <2>1. m.gen = viewGen /\ m.type = "persist"
    BY <1>0 DEF GenInv, PersistMessages
  <2> QED
    BY <2>1, MailFacts DEF Sent
<1>8. AskInv'
  <2>1. j.flush # None => flush'[j.flush] # "waiting"
    BY <1>0, <1>1, <1>7 DEF AskInv, Sent
  <2> QED
    BY <1>0, <1>4, <2>1, AskKept DEF j
<1>9. \A k \in Sent' : k + 1 \in Sent /\ toHost'[k] = toHost[k + 1] /\ 1 <= k + 1
  BY <1>0, MailFacts DEF Sent
<1>10. SaveInv'
  <2>1. AskedShown'
    <3> SUFFICES ASSUME SaveFresh', flush'[save'.id] = "pending"
                 PROVE  /\ \A i, k \in Sent' : toHost'[i].flush = save'.id /\ i <= k => Shown(toHost'[k])
                        /\ \A i \in Persists' : jobs'[i].flush = save'.id /\ jobs'[i].sn = sequence' =>
                             Shown(jobs'[i]) /\ \A k \in Sent' : Shown(toHost'[k])
      BY <1>0 DEF AskedShown, Shown
    <3>1. \A i, k \in Sent : toHost[i].flush = save.id /\ i <= k => Shown(toHost[k])
      BY <1>0 DEF SaveInv, AskedShown, SaveFresh
    <3>2. \A i, k \in Sent' : toHost'[i].flush = save'.id /\ i <= k => Shown(toHost'[k])
      <4> SUFFICES ASSUME NEW i \in Sent', NEW k \in Sent', toHost'[i].flush = save'.id, i <= k
                   PROVE  Shown(toHost'[k])
        OBVIOUS
      <4>1. i \in Nat /\ k \in Nat
        BY MailFacts DEF TypeInv, MailType, Sent
      <4> QED
        <5>1. i + 1 \in Sent /\ k + 1 \in Sent /\ toHost[i + 1].flush = save.id
          BY <1>0, <1>9
        <5>2. i + 1 <= k + 1
          BY <4>1
        <5> QED
          BY <1>9, <3>1, <5>1, <5>2
    <3>3. ASSUME NEW i \in Persists', jobs'[i].flush = save'.id, jobs'[i].sn = sequence'
          PROVE  Shown(jobs'[i]) /\ \A k \in Sent' : Shown(toHost'[k])
      <4>1. jobs'[i] = j
        <5>1. i \in Persists => jobs[i].sn # sequence'
          BY <1>0, <1>11
        <5>2. ~(i \in Persists /\ jobs'[i] = jobs[i])
          BY <3>3, <5>1, Zenon
        <5> QED
          BY <1>2, <5>2
      <4>2. \A k \in Sent : Shown(toHost[k])
        <5>1. toHost[1].flush = save.id
          BY <1>1, <3>3, <4>1
        <5>2. \A k \in Sent : 1 <= k
          BY MailFacts DEF Sent
        <5> QED
          BY <1>7, <3>1, <5>1, <5>2
      <4> QED
        BY <1>1, <1>7, <1>9, <4>1, <4>2
    <3> QED
      BY <3>2, <3>3
  <2>2. DoneShown'
    <3> SUFFICES ASSUME SaveFresh', flush'[save'.id] = "done"
                 PROVE  /\ pending' = None /\ doc' = view.text /\ sidecar' = view.meta
                        /\ \A i \in Persists' :
                             Shown(jobs'[i]) /\ jobs'[i].epoch = epoch /\ jobs'[i].stage # "restoring"
                        /\ \A k \in Sent' : Shown(toHost'[k])
      BY <1>0 DEF DoneShown, Shown
    <3>1. /\ pending = None /\ doc = view.text /\ sidecar = view.meta
          /\ \A i \in Persists : Shown(jobs[i]) /\ jobs[i].epoch = epoch /\ jobs[i].stage # "restoring"
          /\ \A k \in Sent : Shown(toHost[k])
      BY <1>0 DEF SaveInv, DoneShown, SaveFresh
    <3> QED
      BY <1>0, <1>1, <1>2, <1>7, <1>9, <3>1
  <2> QED
    BY <1>0, <2>1, <2>2 DEF SaveInv
<1> QED
  BY <1>0, <1>5, <1>6, <1>8, <1>10 DEF CalmInv, Unclosed

(* A step of the host's mail that admits nothing and ends no reload. *)
LEMMA MailCalm ==
    ASSUME TypeInv, TypeInv', CalmInv, toHost # <<>>, toHost' = Tail(toHost), FlushGoes,
           UNCHANGED <<webVars, toView, doc, known, sidecar, sequence, jobs, projGen, activeGen, epoch>>,
           UNCHANGED <<save, close, edits, externals>>,
           UNCHANGED pending \/ (pending # None /\ pending' = [pending EXCEPT !.stage = "stalled"])
    PROVE  CalmInv'
<1>1. HostGoes
  BY MailFacts, KeptMoves DEF HostGoes
<1>2. JobsGo /\ SaveGoes /\ ViewGoes
  BY JobsGoOn, SaveSame, MailSame DEF CalmInv
<1> QED
  BY <1>1, <1>2, QuietCalm DEF CalmInv, Unclosed

(* The webview has taken the projection: nothing newer is on its way. *)
LEMMA ReloadedCalm ==
    ASSUME TypeInv, TypeInv', CalmInv, toHost # <<>>, toHost' = Tail(toHost), pending # None,
           pending.gen = toHost[1].gen, activeGen' = pending.gen, pending' = None,
           UNCHANGED <<webVars, toView, doc, known, sidecar, sequence, jobs, flush, projGen, epoch>>,
           UNCHANGED <<save, close, edits, externals>>
    PROVE  CalmInv'
<1>0. QueueInv /\ GenInv /\ AskInv /\ SaveInv /\ Unclosed /\ UNCHANGED <<view, viewGen>>
  BY DEF CalmInv, webVars
<1>1. Kept(toHost, toHost') /\ JobsGo /\ FlushGoes /\ SaveGoes
  BY <1>0, MailFacts, KeptMoves, JobsGoOn, FlushGoesOn, SaveSame
<1>2. pending.gen = projGen /\ viewGen = projGen /\ activeGen' = projGen
  <2>1. toHost[1].gen <= viewGen /\ viewGen <= projGen /\ pending.gen = projGen
    BY <1>0, MailFacts DEF GenInv
  <2> QED
    BY <2>1, MailFacts
<1>3. QueueInv'
  BY <1>0, <1>1, QueueKept
<1>4. GenInv'
  <2>1. \A i \in DOMAIN toHost' : toHost'[i].gen <= viewGen
    BY <1>0, <1>1, HostMailBehind DEF HostMailKept
  <2>2. \A i \in Projected' : i \in Projected /\ toView'[i] = toView[i]
    BY DEF Projected
  <2> QED
    BY <1>0, <1>2, <2>1, <2>2, MailFacts DEF GenInv, PendingAt
<1>5. AskInv'
  BY <1>0, <1>1, AskKept, ChannelsSame
<1>6. SaveInv'
  <2>1. ~(SaveFresh /\ flush[save.id] = "done")
    BY <1>0 DEF SaveInv, DoneShown
  <2> QED
    BY <1>0, <1>1, <2>1, SaveKept DEF SaveInv, SentKept
<1> QED
  BY <1>0, <1>3, <1>4, <1>5, <1>6 DEF CalmInv, Unclosed

LEMMA ReceiveHostCalm ==
    ASSUME TypeInv, TypeInv', Calm, Calm', CalmInv, ReceiveHost
    PROVE  CalmInv'
<1>0. /\ toHost # <<>> /\ toHost' = Tail(toHost)
      /\ UNCHANGED <<webVars, toView, doc, known, sidecar, save, close, edits, externals>>
  BY DEF ReceiveHost, draftVars, boundVars
<1>1. PICK m : m = Head(toHost)
  OBVIOUS
<1>2. m = toHost[1] /\ m \in Messages
  BY <1>0, <1>1, MailFacts
<1>3. \/ UNCHANGED <<sequence, jobs, flush, projVars>>
      \/ m.type = "persist" /\ Persist(m)
      \/ m.type # "persist" /\ CompleteReload(m)
  BY <1>1 DEF ReceiveHost, Retained
<1>4. CASE UNCHANGED <<sequence, jobs, flush, projVars>>
  BY <1>0, <1>4, FlushGoesOn, MailCalm DEF projVars
<1>5. CASE m.type = "persist" /\ Persist(m) /\ ~UNCHANGED <<sequence, jobs, flush, projVars>>
  <2>1. ~Supersedes(m)
    BY DEF Supersedes, CalmInv, GenInv
  <2>2. UNCHANGED projVars
    BY <1>5, <2>1 DEF Persist, RetireProjection
  <2>3. CASE SettleFinal(m.flush, FALSE) /\ UNCHANGED <<sequence, jobs>>
    BY <1>0, <2>2, <2>3, FlushGoesOn, MailCalm DEF projVars
  <2>4. CASE Admitted(m) /\ sequence' = sequence + 1 /\ jobs' = Append(jobs, Job(m)) /\ UNCHANGED flush
    <3>1. pending = None /\ m.gen = activeGen /\ m \in PersistMessages
      BY <1>2, <1>5, <2>1, <2>4, MessageKinds DEF Admitted
    <3> QED
      BY <1>0, <1>2, <2>2, <2>4, <3>1, AdmitCalm
  <2> QED
    BY <1>5, <2>3, <2>4 DEF Persist
<1>6. CASE m.type # "persist" /\ CompleteReload(m)
  <2>1. UNCHANGED <<sequence, jobs, flush, projGen, epoch>>
    BY <1>6 DEF CompleteReload
  <2>2. CASE pending # None /\ pending.gen = m.gen /\ activeGen' = pending.gen /\ pending' = None
    BY <1>0, <1>2, <2>1, <2>2, ReloadedCalm
  <2>3. CASE UNCHANGED activeGen
             /\ (UNCHANGED pending \/ (pending # None /\ pending' = [pending EXCEPT !.stage = "stalled"]))
    BY <1>0, <2>1, <2>3, FlushGoesOn, MailCalm
  <2> QED
    BY <1>6, <2>2, <2>3 DEF CompleteReload, PendingAt
<1> QED
  BY <1>3, <1>4, <1>5, <1>6

-----------------------------------------------------------------------------
(* No fault is forgotten, no policy lifted, and no queue opened again. *)
LEMMA CalmBefore ==
    ASSUME TypeInv, RepairInv, [Next]_vars, Calm'
    PROVE  Calm
<1>0. IsQueue(jobs) /\ faults \in Nat /\ closing \in BOOLEAN
  BY DEF RepairInv, TypeInv, Scalars, SessionType
<1>1. closing' = FALSE
  BY DEF Calm
<1>2. ASSUME Keeps PROVE policy = "off" /\ faults = 0
  BY <1>0, <1>2, CountsUp DEF Keeps, Calm
<1>3. ASSUME UNCHANGED closing PROVE ~closing
  BY <1>3 DEF Calm
<1>4. CASE UNCHANGED vars
  BY <1>4 DEF vars, fileVars, closeVars, Calm
<1>5. CASE PostProjection \/ ReceiveView \/ ReceiveHost
  <2>1. UNCHANGED closing
    BY <1>5 DEF PostProjection, ReceiveView, ReceiveHost, HostSide, closeVars
  <2> QED
    BY <1>2, <1>3, <1>5, <2>1, MessagesKeep DEF Calm
<1>6. CASE PersistStep \/ PreparationFails
  <2>1. UNCHANGED closing
    BY <1>6 DEF PersistStep, StartPersist, SanitizeState, MaterializeState, ApplySourceText,
       ResumeApplied, RestoreSourceText, PreparationFails, JobSide, closeVars
  <2> QED
    BY <1>0, <1>2, <1>3, <1>6, <2>1, PersistKeeps DEF Calm
<1>7. CASE AdoptRepair \/ RepairProjected
  <2>1. UNCHANGED closing
    BY <1>7 DEF AdoptRepair, RepairProjected, RepairSide, closeVars
  <2> QED
    BY <1>0, <1>2, <1>3, <1>7, <2>1, RepairKeeps DEF Calm
<1>8. CASE RepairFile \/ RepairFails \/ PolicyNotice \/ ProtectPolicy
  <2>1. UNCHANGED closing /\ (UNCHANGED faults \/ Fault) /\ (UNCHANGED policy \/ policy' # "off")
    BY <1>8 DEF RepairFile, RepairFails, PolicyNotice, ProtectPolicy, RepairSide, OutsideVars,
       closeVars, fileVars
  <2> QED
    BY <1>0, <1>3, <2>1 DEF Calm, Fault
<1>9. CASE SaveStep
  <2>1. UNCHANGED closing
    BY <1>9 DEF SaveStep, SaveFlushed, SaveTimesOut, SaveDrained, DidSave, SaveSidecar, SaveSide, closeVars
  <2> QED
    BY <1>2, <1>3, <1>9, <2>1, SaveKeeps DEF Calm
<1>10. CASE CloseStep
  <2>1. closing' = closing \/ closing' = TRUE
    BY <1>10 DEF CloseStep, CloseFinals, CloseUnload, CloseAdmission, CloseDrained, SaveDraft,
       RecoverDraft, SettleClose
  <2> QED
    BY <1>1, <1>2, <1>3, <1>10, <2>1, CloseKeeps DEF Calm
<1>11. CASE \/ \E c \in Contents : EditView(c)
            \/ \E t \in Texts : ExternalEdit(t)
            \/ \E m \in Metas : ForeignWrite(m)
            \/ Hide \/ WillSave \/ SaveTimesOut \/ DisposePanel \/ ProjectionTimesOut
            \/ \E choice \in {"Save", "Discard", None} : AnswerPrompt(choice)
            \/ \E i \in DOMAIN flush : FlushTimesOut(i) \/ StartFlush(i)
  <2>1. UNCHANGED closing
    BY <1>11 DEF EditView, ExternalEdit, ForeignWrite, Hide, WillSave, SaveTimesOut, DisposePanel,
       ProjectionTimesOut, AnswerPrompt, FlushTimesOut, StartFlush, HostSide, OutsideVars,
       SaveSide, closeVars
  <2> QED
    BY <1>2, <1>3, <1>11, <2>1, OutsideKeeps DEF Calm
<1> QED
  BY <1>4, <1>5, <1>6, <1>7, <1>8, <1>9, <1>10, <1>11 DEF Next, Work, Outside, RepairStep

LEMMA NextSaved == SavedInv /\ RepairInv /\ [Next]_vars => SavedInv'
<1> SUFFICES ASSUME SavedInv, RepairInv, [Next]_vars, Calm' PROVE TypeInv' /\ CalmInv'
  BY NextTyped DEF SavedInv
<1>1. TypeInv /\ TypeInv' /\ Calm /\ CalmInv
  BY NextTyped, CalmBefore DEF SavedInv
<1>2. CASE UNCHANGED vars
  BY <1>1, <1>2, StillCalm DEF vars, closeVars, boundVars
<1>3. CASE PostProjection \/ ReceiveView \/ ReceiveHost \/ ProjectionTimesOut
  BY <1>1, <1>3, PostCalm, ReceiveViewCalm, ReceiveHostCalm, StallCalm
<1>4. CASE PersistStep
  BY <1>1, <1>4, PersistCalm
<1>5. CASE RepairStep \/ RepairFails \/ PolicyNotice \/ ProtectPolicy \/ PreparationFails
  <2>1. jobs = <<>> \/ Head1.kind # "repair"
    <3>1. jobs # <<>> => 1 \in DOMAIN jobs
      BY <1>1 DEF TypeInv, MailType
    <3> QED
      BY <1>1, <3>1 DEF CalmInv, QueueInv, Head1
  <2>2. ~RepairStep /\ ~RepairFails
    BY <2>1 DEF RepairStep, RepairFile, AdoptRepair, RepairProjected, RepairFails, Running
  <2>3. ~PolicyNotice /\ ~ProtectPolicy /\ ~PreparationFails
    BY <1>1, CalmNow DEF PolicyNotice, ProtectPolicy, PreparationFails, Calm
  <2> QED
    BY <1>5, <2>2, <2>3
<1>6. CASE SaveStep \/ SaveTimesOut
  BY <1>1, <1>6, SaveStepCalm
<1>7. CASE CloseStep \/ DisposePanel \/ \E choice \in {"Save", "Discard", None} : AnswerPrompt(choice)
  BY <1>1, <1>7, CloseCalm
<1>8. CASE Hide \/ \E i \in DOMAIN flush : StartFlush(i) \/ FlushTimesOut(i)
  BY <1>1, <1>8, FlushCalm
<1>9. CASE (\E c \in Contents : EditView(c)) \/ (\E t \in Texts : ExternalEdit(t))
  BY <1>1, <1>9, EditCalm
<1>10. CASE WillSave
  BY <1>1, <1>10, WillSaveCalm
<1>11. CASE \E m \in Metas : ForeignWrite(m)
  BY <1>1, <1>11, StillCalm DEF ForeignWrite, OutsideVars, channelVars, closeVars
<1> QED
  BY <1>1, <1>2, <1>3, <1>4, <1>5, <1>6, <1>7, <1>8, <1>9, <1>10, <1>11 DEF Next, Work, Outside

LEMMA InitSaved == Init => SavedInv
<1> SUFFICES ASSUME Init PROVE CalmInv
  BY InitTyped DEF SavedInv
<1>1. jobs = <<>> /\ toHost = <<>> /\ toView = <<>> /\ pending = None
  BY DEF Init
<1>2. DOMAIN jobs = {} /\ DOMAIN toHost = {} /\ DOMAIN toView = {}
  BY <1>1
<1> QED
  BY <1>1, <1>2 DEF Init, CalmInv, QueueInv, GenInv, AskInv, SaveInv, AskedShown, DoneShown, SaveFresh,
     Unawaited, Unclosed, Persists, Projected, PendingAt

LEMMA SavedShows == SavedInv => SavedIsShown
<1> SUFFICES ASSUME SavedInv, save.stage = "storing", save.at = edits + externals,
                    ~closing, faults = 0, policy = "off"
             PROVE  doc = view.text /\ ShownMeta = view.meta
  BY DEF SavedIsShown
<1>1. SaveInv
  BY DEF SavedInv, Calm, CalmInv
<1>2. flush[save.id] = "done" /\ SaveFresh /\ known.meta = sidecar
  BY <1>1 DEF SaveInv, SaveFresh, Unawaited
<1> QED
  BY <1>1, <1>2 DEF SaveInv, DoneShown, ShownMeta

(* When a save has been prepared, the text that goes to disk is the one    *)
(* the webview shows, and so is the metadata saved after it, for any texts *)
(* and metadata and however many edits, reloads, hidings, saves and        *)
(* foreign writes raced before.                                            *)
THEOREM SavesWhatIsShown == Spec => []SavedIsShown
<1> QED
  BY InitSaved, NextSaved, SavedShows, InitRepair, NextRepair, PTL DEF Spec

-----------------------------------------------------------------------------
(* When all is quiet, the webview and the host agree.  All of it is about  *)
(* an open panel: whatever an edit elsewhere did to the document, a reload  *)
(* or a snapshot that puts it right is on its way.                         *)

Open == Calm /\ ~Disposed

(* The persist admitted last, until a reload retires it. *)
Cur == {i \in Persists : jobs[i].sn = sequence}

(* Snapshots of edits on their way. *)
Edits == {i \in Sent : toHost[i].flush = None}

(* A persist admitted since the last reload of the source is the current   *)
(* one or followed by it.                                                  *)
WorkInv ==
    /\ \A i \in Persists : i # 1 => jobs[i].stage = "queued"
    /\ \A i \in Persists :
         /\ jobs[i].epoch <= epoch
         /\ jobs[i].epoch = epoch /\ jobs[i].stage # "restoring" => Cur # {}
    /\ \A i \in Cur :
         jobs[i].epoch = epoch /\ jobs[i].rev >= editRev /\ jobs[i].stage # "restoring"

(* The persist at the head meets the document it expects, or the one that  *)
(* has authority over it.                                                  *)
HeadInv ==
    /\ Running("persist", "applying") =>
         Head1.version <= externals /\ (Head1.version = externals <=> Head1.epoch = epoch)
    /\ Running("persist", "applied") => doc = IF Head1.epoch = epoch THEN Head1.text ELSE authority
    /\ Running("persist", "restoring") => doc = authority

(* A pending projection is of the document, and will be taken. *)
ReloadInv ==
    /\ \A i \in DOMAIN toHost : toHost[i].type = "reload" => toHost[i].applied
    /\ pending # None =>
         /\ pending.text = authority /\ doc = authority /\ pending.meta = sidecar
         /\ pending.stage # "stalled"
         /\ \A i \in Projected : toView[i].gen = projGen =>
              toView[i].rev = editRev /\ toView[i].text = doc /\ toView[i].meta = sidecar
         /\ \A i \in DOMAIN toHost : toHost[i].type = "reload" /\ toHost[i].gen = projGen =>
              toHost[i].rev = editRev
         /\ viewGen = projGen => \E k \in DOMAIN toHost :
              toHost[k].type = "reload" /\ toHost[k].gen = projGen /\ \A i \in Sent : k < i

(* Revisions grow along the way of a snapshot. *)
RevInv ==
    /\ \A i \in Sent : toHost[i].rev <= viewRev
    /\ \A i, k \in Sent : i < k => toHost[i].rev <= toHost[k].rev
    /\ \A i \in Cur : jobs[i].rev <= viewRev /\ \A k \in Sent : jobs[i].rev <= toHost[k].rev
    /\ viewGen = projGen => editRev <= viewRev /\ \A k \in Sent : editRev <= toHost[k].rev

(* What the webview shows is carried by the last edit on its way, else by  *)
(* the current persist, else by the document and the sidecar.              *)
CarriedInv ==
    viewGen = projGen =>
      /\ \A i \in Sent : (\A k \in Edits : k <= i) => Shown(toHost[i])
      /\ Edits = {} =>
           /\ \A i \in Cur : Shown(jobs[i])
           /\ Cur = {} => doc = view.text /\ sidecar = view.meta

OpenInv == WorkInv /\ HeadInv /\ ReloadInv /\ RevInv /\ CarriedInv

(* A session in use lets messages in. *)
Admitting == Unclosed => ~closing

AgreedInv == Admitting /\ (Open => OpenInv)

-----------------------------------------------------------------------------
(* The current persist, and how the queue moves. *)

LEMMA CurFacts ==
    ASSUME TypeInv, QueueInv
    PROVE  /\ Cur # {} => pending = None
           /\ \A i \in Cur : \A k \in Persists : k <= i
           /\ \A i \in Cur : i \in Persists /\ i \in Nat /\ jobs[i].sn = sequence /\ jobs[i].rev \in Nat
<1>1. \A i \in Persists : i \in Nat /\ jobs[i].sn \in Nat /\ jobs[i].rev \in Nat /\ jobs[i].sn <= sequence
  BY JobFacts DEF Persists, PersistJobs, QueueInv
<1>2. \A i \in Cur : \A k \in Persists : k <= i
  <2> SUFFICES ASSUME NEW i \in Cur, NEW k \in Persists, i < k PROVE FALSE
    BY <1>1 DEF Cur
  <2> QED
    BY <1>1 DEF Cur, QueueInv
<1> QED
  BY <1>1, <1>2 DEF Cur, QueueInv

(* Every persist but the first stays; the first stays unless it is ended. *)
CurKept ==
    /\ \A i \in Cur' : \E k \in Cur : /\ jobs'[i].text = jobs[k].text /\ jobs'[i].meta = jobs[k].meta
                                      /\ jobs'[i].rev = jobs[k].rev
    /\ Cur' = {} => Cur = {}

(* The queue of a step that does no work of a current persist. *)
QueueMoves ==
    \/ UNCHANGED jobs
    \/ \E x : jobs' = Append(jobs, x) /\ x.kind = "save"
    \/ jobs # <<>> /\ jobs' = Tail(jobs) /\ 1 \notin Cur

MovedBy(d) ==
    /\ \A i \in Persists' : i \in Nat /\ i >= 1 /\ i + d \in Persists /\ jobs'[i] = jobs[i + d]
    /\ \A i \in Cur : i - d \in Persists' /\ jobs'[i - d] = jobs[i]

LEMMA MovedJobs ==
    ASSUME TypeInv, QueueMoves
    PROVE  MovedBy(0) \/ MovedBy(1)
<1>0. jobs \in Seq(Jobs)
  BY DEF TypeInv, MailType
<1>1. CASE UNCHANGED jobs
  <2>1. \A i \in Persists' : i \in Nat /\ i >= 1 /\ i + 0 \in Persists /\ jobs'[i] = jobs[i + 0]
    BY <1>0, <1>1 DEF Persists
  <2>2. \A i \in Cur : i - 0 \in Persists' /\ jobs'[i - 0] = jobs[i]
    BY <1>0, <1>1 DEF Persists, Cur
  <2> QED
    BY <2>1, <2>2 DEF MovedBy
<1>2. CASE \E x : jobs' = Append(jobs, x) /\ x.kind = "save"
  <2>0. PICK x : jobs' = Append(jobs, x) /\ x.kind = "save"
    BY <1>2
  <2>1. \A i \in Persists' : i \in Nat /\ i >= 1 /\ i + 0 \in Persists /\ jobs'[i] = jobs[i + 0]
    BY <1>0, <2>0, Appended DEF Persists
  <2>2. \A i \in Cur : i - 0 \in Persists' /\ jobs'[i - 0] = jobs[i]
    BY <1>0, <2>0, Appended DEF Persists, Cur
  <2> QED
    BY <2>1, <2>2 DEF MovedBy
<1>3. CASE jobs # <<>> /\ jobs' = Tail(jobs) /\ 1 \notin Cur
  <2>1. \A i \in Persists' : i \in Nat /\ i >= 1 /\ i + 1 \in Persists /\ jobs'[i] = jobs[i + 1]
    BY <1>0, <1>3 DEF Persists
  <2>2. \A i \in Cur : i - 1 \in Persists' /\ jobs'[i - 1] = jobs[i]
    BY <1>0, <1>3 DEF Persists, Cur
  <2> QED
    BY <2>1, <2>2 DEF MovedBy
<1> QED
  BY <1>1, <1>2, <1>3 DEF QueueMoves

LEMMA WorkKept ==
    ASSUME TypeInv, TypeInv', QueueInv, WorkInv, HeadInv, QueueMoves,
           UNCHANGED <<sequence, epoch, editRev>>
    PROVE  /\ WorkInv' /\ CurKept
           /\ UNCHANGED <<doc, authority, externals>> => HeadInv'
<1>1. PICK d \in {0, 1} : MovedBy(d)
  BY MovedJobs
<1>2. \A i \in Cur' : i + d \in Cur /\ jobs'[i] = jobs[i + d]
  BY <1>1 DEF MovedBy, Cur
<1>3. \A i \in Cur : i - d \in Cur'
  BY <1>1 DEF MovedBy, Cur
<1>4. WorkInv'
  <2>1. \A i \in Persists' : i # 1 => i + d # 1
    BY <1>1 DEF MovedBy
  <2> QED
    BY <1>1, <1>2, <1>3, <2>1 DEF MovedBy, WorkInv
<1>5. ASSUME UNCHANGED <<doc, authority, externals>> PROVE HeadInv'
  <2> SUFFICES ASSUME NEW s \in {"applying", "applied", "restoring"}, Running("persist", s)'
               PROVE  Running("persist", s) /\ Head1' = Head1
    BY <1>5 DEF HeadInv
  <2>1. 1 \in Persists' /\ jobs'[1].stage = s /\ Head1' = jobs'[1] /\ jobs'[1].kind = "persist"
    <3>1. jobs' \in Seq(Jobs')
      BY DEF TypeInv, MailType
    <3> QED
      BY <3>1 DEF Running, Head1, Persists
  <2> QED
    BY <1>1, <2>1 DEF MovedBy, WorkInv, Running, Head1, Persists
<1> QED
  BY <1>2, <1>3, <1>4, <1>5 DEF CurKept

-----------------------------------------------------------------------------
(* What a step leaves of the agreement. *)

LEMMA RevKept ==
    ASSUME TypeInv, QueueInv, RevInv, CurKept, UNCHANGED <<viewRev, viewGen, toHost, projGen>>,
           editRev' = editRev \/ (1 \in Cur /\ editRev' = Newer(editRev, Head1.rev))
    PROVE  RevInv'
<1>1. UNCHANGED Sent
  BY DEF Sent
<1>2. \A i \in Cur' : jobs'[i].rev <= viewRev /\ \A k \in Sent : jobs'[i].rev <= toHost[k].rev
  BY DEF CurKept, RevInv
<1>3. viewGen = projGen => editRev' <= viewRev /\ \A k \in Sent : editRev' <= toHost[k].rev
  <2>1. CASE editRev' = editRev
    BY <2>1 DEF RevInv
  <2>2. CASE 1 \in Cur /\ editRev' = Newer(editRev, Head1.rev)
    BY <2>2 DEF RevInv, Newer, Head1
  <2> QED
    BY <2>1, <2>2
<1> QED
  BY <1>1, <1>2, <1>3 DEF RevInv

LEMMA CarriedKept ==
    ASSUME CarriedInv, CurKept, UNCHANGED <<view, viewGen, toHost, projGen>>,
           Cur = {} /\ doc = view.text /\ sidecar = view.meta => doc' = doc /\ sidecar' = sidecar
    PROVE  CarriedInv'
<1>1. UNCHANGED <<Sent, Edits>>
  BY DEF Sent, Edits
<1>2. (\A i \in Cur : Shown(jobs[i])) => \A i \in Cur' : Shown(jobs'[i])
  BY DEF CurKept, Shown
<1>3. \A i : Shown(toHost[i])' <=> Shown(toHost[i])
  BY DEF Shown
<1>4. \A i : Shown(jobs[i])' <=> Shown(jobs'[i])
  BY DEF Shown
<1>5. Cur' = {} => Cur = {}
  BY DEF CurKept
<1> QED
  BY <1>1, <1>2, <1>3, <1>4, <1>5 DEF CarriedInv

LEMMA ReloadKept ==
    ASSUME TypeInv, TypeInv', ReloadInv, ViewMailKept, UNCHANGED <<viewGen, toHost, projGen, pending>>,
           pending # None => UNCHANGED <<doc, sidecar, editRev, authority>>
    PROVE  ReloadInv'
<1>1. UNCHANGED Sent
  BY DEF Sent
<1>2. \A i \in Projected' : \E k \in Projected : toView'[i] = toView[k]
  BY ProjectedFrom
<1>3. CASE pending = None
  BY <1>3 DEF ReloadInv
<1>4. CASE pending # None
  <2>1. \A i \in Projected' : toView'[i].gen = projGen =>
          toView'[i].rev = editRev /\ toView'[i].text = doc /\ toView'[i].meta = sidecar
    BY <1>2, <1>4 DEF ReloadInv
  <2> QED
    BY <1>1, <1>4, <2>1 DEF ReloadInv
<1> QED
  BY <1>3, <1>4

LEMMA HeadStays ==
    ASSUME TypeInv, TypeInv', HeadPersist, HeadGoesOn, jobs'[1].kind = "persist", UNCHANGED sequence,
           jobs'[1].sn = Head1.sn, jobs'[1].rev = Head1.rev,
           jobs'[1].text = Head1.text, jobs'[1].meta = Head1.meta
    PROVE  /\ Persists' = Persists /\ Cur' = Cur /\ CurKept
           /\ 1 \in Persists /\ Head1' = jobs'[1] /\ \A i \in Persists : i # 1 => jobs'[i] = jobs[i]
<1>0. jobs \in Seq(Jobs) /\ 1 \in DOMAIN jobs /\ Head1 = jobs[1]
  BY DEF TypeInv, MailType, HeadPersist, Head1
<1>1. DOMAIN jobs' = DOMAIN jobs /\ \A i \in DOMAIN jobs : i # 1 => jobs'[i] = jobs[i]
  BY DEF HeadGoesOn
<1>2. Persists' = Persists /\ 1 \in Persists
  BY <1>0, <1>1 DEF Persists, HeadPersist
<1>3. \A i \in Persists : /\ jobs'[i].sn = jobs[i].sn /\ jobs'[i].rev = jobs[i].rev
                          /\ jobs'[i].text = jobs[i].text /\ jobs'[i].meta = jobs[i].meta
  BY <1>0, <1>1 DEF Persists
<1>4. Cur' = Cur
  BY <1>2, <1>3 DEF Cur
<1>5. CurKept
  BY <1>3, <1>4 DEF CurKept, Cur
<1> QED
  BY <1>1, <1>2, <1>4, <1>5 DEF Head1, Persists

(* The head goes on: it stays as current as it was. *)
LEMMA HeadWork ==
    ASSUME TypeInv, TypeInv', QueueInv, WorkInv, HeadPersist, HeadGoesOn, jobs'[1].kind = "persist",
           UNCHANGED <<sequence, epoch>>,
           jobs'[1].sn = Head1.sn, jobs'[1].rev = Head1.rev,
           jobs'[1].text = Head1.text, jobs'[1].meta = Head1.meta,
           jobs'[1].epoch <= epoch,
           jobs'[1].epoch = epoch /\ jobs'[1].stage # "restoring" =>
             Head1.epoch = epoch /\ Head1.stage # "restoring",
           IF 1 \in Cur
           THEN jobs'[1].epoch = epoch /\ jobs'[1].stage # "restoring" /\ Head1.rev >= editRev'
           ELSE editRev' = editRev
    PROVE  WorkInv' /\ CurKept
<1>1. /\ Persists' = Persists /\ Cur' = Cur /\ CurKept /\ Head1 = jobs[1]
      /\ 1 \in Persists /\ \A i \in Persists : i # 1 => jobs'[i] = jobs[i]
  BY HeadStays DEF Head1
<1>2. 1 \in Cur => Cur = {1}
  <2>1. \A i \in Persists : i \in Nat /\ i >= 1
    BY JobFacts DEF Persists
  <2> QED
    BY <2>1, CurFacts DEF Cur
<1>3. \A i \in Persists' : i # 1 => jobs'[i].stage = "queued"
  BY <1>1 DEF WorkInv
<1>4. \A i \in Persists' : /\ jobs'[i].epoch <= epoch
                           /\ jobs'[i].epoch = epoch /\ jobs'[i].stage # "restoring" => Cur # {}
  BY <1>1 DEF WorkInv
<1>5. \A i \in Cur' : jobs'[i].epoch = epoch /\ jobs'[i].rev >= editRev' /\ jobs'[i].stage # "restoring"
  <2>1. CASE 1 \in Cur
    BY <1>1, <1>2, <2>1
  <2>2. CASE 1 \notin Cur
    BY <1>1, <2>2 DEF WorkInv, Cur
  <2> QED
    BY <2>1, <2>2
<1> QED
  BY <1>1, <1>3, <1>4, <1>5 DEF WorkInv

-----------------------------------------------------------------------------
(* The work of a persist, of an open panel. *)

LEMMA EndAgreed ==
    ASSUME TypeInv, TypeInv', CalmInv, OpenInv, HeadPersist, jobs' = Tail(jobs), 1 \notin Cur,
           UNCHANGED <<JobSide, doc, sidecar, editRev, sequence, pending, projGen, epoch, authority>>
    PROVE  OpenInv'
<1>0. /\ UNCHANGED <<view, viewRev, viewGen, toHost, toView, externals>>
      /\ QueueInv /\ WorkInv /\ HeadInv /\ ReloadInv /\ RevInv /\ CarriedInv
  BY DEF JobSide, webVars, channelVars, boundVars, CalmInv, OpenInv
<1>1. QueueMoves
  BY DEF QueueMoves, HeadPersist
<1>2. WorkInv' /\ HeadInv' /\ CurKept
  BY <1>0, <1>1, WorkKept
<1>3. RevInv' /\ CarriedInv'
  BY <1>0, <1>2, RevKept, CarriedKept
<1>4. ReloadInv'
  BY <1>0, ReloadKept, ChannelsSame DEF ViewMailKept
<1> QED
  BY <1>2, <1>3, <1>4 DEF OpenInv

LEMMA GoesAgreed ==
    ASSUME TypeInv, TypeInv', CalmInv, OpenInv, WorkInv', HeadInv', CurKept,
           UNCHANGED <<JobSide, sidecar, sequence, pending, projGen, epoch, authority>>,
           UNCHANGED doc \/ Cur # {},
           editRev' = editRev \/ (1 \in Cur /\ editRev' = Newer(editRev, Head1.rev))
    PROVE  OpenInv'
<1>0. /\ UNCHANGED <<view, viewRev, viewGen, toHost, toView>>
      /\ QueueInv /\ ReloadInv /\ RevInv /\ CarriedInv
  BY DEF JobSide, webVars, channelVars, CalmInv, OpenInv
<1>1. Cur # {} => pending = None
  BY <1>0, CurFacts
<1>2. RevInv' /\ CarriedInv'
  BY <1>0, RevKept, CarriedKept
<1>3. ReloadInv'
  BY <1>0, <1>1, ReloadKept, ChannelsSame DEF ViewMailKept
<1> QED
  BY <1>2, <1>3 DEF OpenInv

(* A current persist is never stale. *)
LEMMA CurHead ==
    ASSUME TypeInv, QueueInv, WorkInv, HeadPersist
    PROVE  /\ 1 \in Cur <=> Head1.sn = sequence
           /\ 1 \in Cur <=> IsCurrent(Head1)
           /\ 1 \in Cur => Head1.epoch = epoch /\ Head1.stage # "restoring" /\ Head1.rev >= editRev
           /\ Head1.epoch <= epoch /\ Head1.epoch \in Nat /\ Head1.rev \in Nat /\ editRev \in Nat
           /\ Head1.version \in Nat /\ externals \in Nat
<1>1. 1 \in Persists /\ Head1 = jobs[1] /\ Head1 \in PersistJobs /\ editRev \in Nat /\ externals \in Nat
  BY HeadFacts DEF TypeInv, Scalars, SessionType, CountType
<1>2. Head1.epoch \in Nat /\ Head1.rev \in Nat /\ Head1.version \in Nat /\ Head1.epoch <= epoch
  BY <1>1 DEF PersistJobs, WorkInv
<1>3. 1 \in Cur <=> Head1.sn = sequence
  BY <1>1 DEF Cur
<1>4. 1 \in Cur => Head1.epoch = epoch /\ Head1.stage # "restoring" /\ Head1.rev >= editRev
  BY <1>1 DEF WorkInv
<1> QED
  BY <1>1, <1>2, <1>3, <1>4 DEF IsCurrent, IsStale

(* The head goes on in the stage s. *)
LEMMA StageAgreed ==
    ASSUME TypeInv, TypeInv', CalmInv, OpenInv, HeadPersist, NEW s \in PersistStages,
           \/ Advance(s)
           \/ jobs' = [jobs EXCEPT ![1].stage = s, ![1].meta = Head1.meta]
           \/ jobs' = [jobs EXCEPT ![1].stage = s, ![1].copy = Head1.meta, ![1].version = externals]
           \/ /\ s = "restoring" /\ 1 \notin Cur
              /\ jobs' = [jobs EXCEPT ![1].stage = s, ![1].epoch = epoch, ![1].version = externals]
    PROVE  /\ HeadGoesOn /\ jobs'[1].kind = "persist" /\ jobs'[1].stage = s /\ Head1' = jobs'[1]
           /\ jobs'[1].sn = Head1.sn /\ jobs'[1].rev = Head1.rev
           /\ jobs'[1].text = Head1.text /\ jobs'[1].meta = Head1.meta
           /\ s # "restoring" => jobs'[1].epoch = Head1.epoch
           /\ jobs'[1].epoch \in {Head1.epoch, epoch}
<1>0. jobs \in Seq(Jobs) /\ 1 \in DOMAIN jobs /\ Head1 = jobs[1] /\ Head1 \in PersistJobs /\ IsQueue(jobs)
  BY HeadFacts, QueueOf DEF TypeInv, MailType, HeadPersist, Persists, CalmInv
<1>1. HeadGoesOn
  <2>1. CASE /\ s = "restoring" /\ 1 \notin Cur
             /\ jobs' = [jobs EXCEPT ![1].stage = s, ![1].epoch = epoch, ![1].version = externals]
    BY <1>0, <2>1, Goes
  <2>2. CASE Advance(s)
    BY <1>0, <2>2, Goes
  <2>3. CASE jobs' = [jobs EXCEPT ![1].stage = s, ![1].meta = Head1.meta]
    BY <1>0, <2>3, Goes
  <2>4. CASE jobs' = [jobs EXCEPT ![1].stage = s, ![1].copy = Head1.meta, ![1].version = externals]
    BY <1>0, <2>4, Goes
  <2> QED
    BY <2>1, <2>2, <2>3, <2>4
<1>2. Head1' = jobs'[1]
  BY DEF Head1
<1>3. CASE Advance(s)
  <2>1. jobs'[1] = [Head1 EXCEPT !.stage = s]
    BY <1>0, <1>3 DEF Advance
  <2> QED
    BY <1>0, <1>1, <1>2, <2>1 DEF PersistJobs
<1>4. CASE jobs' = [jobs EXCEPT ![1].stage = s, ![1].meta = Head1.meta]
  <2>1. jobs'[1] = [Head1 EXCEPT !.stage = s, !.meta = Head1.meta]
    BY <1>0, <1>4
  <2> QED
    BY <1>0, <1>1, <1>2, <2>1 DEF PersistJobs
<1>5. CASE jobs' = [jobs EXCEPT ![1].stage = s, ![1].copy = Head1.meta, ![1].version = externals]
  <2>1. jobs'[1] = [Head1 EXCEPT !.stage = s, !.copy = Head1.meta, !.version = externals]
    BY <1>0, <1>5
  <2> QED
    BY <1>0, <1>1, <1>2, <2>1 DEF PersistJobs
<1>6. CASE /\ s = "restoring" /\ 1 \notin Cur
           /\ jobs' = [jobs EXCEPT ![1].stage = s, ![1].epoch = epoch, ![1].version = externals]
  <2>1. jobs'[1] = [Head1 EXCEPT !.stage = s, !.epoch = epoch, !.version = externals]
    BY <1>0, <1>6
  <2> QED
    BY <1>0, <1>1, <1>2, <1>6, <2>1 DEF PersistJobs
<1> QED
  BY <1>3, <1>4, <1>5, <1>6

-----------------------------------------------------------------------------
LEMMA StartAgreed ==
    ASSUME TypeInv, TypeInv', Open, CalmInv, OpenInv, StartPersist \/ SanitizeState
    PROVE  OpenInv'
<1>0. /\ HeadPersist /\ Head1.stage \in {"queued", "sanitizing"}
      /\ UNCHANGED <<JobSide, doc, sidecar, sequence, pending, projGen, epoch, authority>>
      /\ editRev' = editRev \/ (IsCurrent(Head1) /\ editRev' = Newer(editRev, Head1.rev))
  BY RunningHead DEF StartPersist, SanitizeState, projVars, draftVars
<1>1. QueueInv /\ WorkInv /\ Sanitize(Head1.meta) = Head1.meta
  BY CalmNow DEF Open, CalmInv, OpenInv
<1>2. CASE ~IsCurrent(Head1)
  <2>1. jobs' = Tail(jobs) /\ UNCHANGED editRev /\ 1 \notin Cur
    BY <1>0, <1>1, <1>2, CurHead DEF StartPersist, SanitizeState, EndPersist
  <2> QED
    BY <1>0, <2>1, EndAgreed
<1>3. CASE IsCurrent(Head1)
  <2>0. 1 \in Cur
    BY <1>0, <1>1, <1>3, CurHead
  <2>1. PICK s \in {"sanitizing", "materializing"} :
          Advance(s) \/ jobs' = [jobs EXCEPT ![1].stage = s, ![1].meta = Head1.meta]
    BY <1>1, <1>3 DEF StartPersist, SanitizeState
  <2>2. /\ HeadGoesOn /\ jobs'[1].kind = "persist" /\ jobs'[1].stage = s /\ Head1' = jobs'[1]
        /\ jobs'[1].sn = Head1.sn /\ jobs'[1].rev = Head1.rev /\ jobs'[1].epoch = Head1.epoch
        /\ jobs'[1].text = Head1.text /\ jobs'[1].meta = Head1.meta
    BY <1>0, <2>1, StageAgreed DEF PersistStages
  <2>3. Head1.rev >= editRev' /\ Head1.epoch = epoch /\ epoch \in Nat
    BY <1>0, <1>1, <2>0, CurHead, JobFacts DEF Newer
  <2>4. WorkInv' /\ CurKept
    BY <1>0, <1>1, <2>0, <2>2, <2>3, HeadWork
  <2>5. HeadInv'
    BY <2>2 DEF HeadInv, Running
  <2> QED
    BY <1>0, <1>3, <2>0, <2>4, <2>5, GoesAgreed
<1> QED
  BY <1>2, <1>3

LEMMA ApplyAgreed ==
    ASSUME TypeInv, TypeInv', Open, Calm', CalmInv, OpenInv, ApplySourceText
    PROVE  OpenInv'
<1>0. /\ HeadPersist /\ Running("persist", "applying")
      /\ UNCHANGED <<JobSide, sidecar, editRev, sequence, pending, projGen, epoch, authority>>
  BY RunningHead DEF ApplySourceText, projVars, draftVars
<1>1. QueueInv /\ WorkInv /\ HeadInv
  BY DEF CalmInv, OpenInv
<1>2. CASE Head1.version # externals /\ EndPersist(FALSE) /\ UNCHANGED doc
  <2>1. 1 \notin Cur
    BY <1>0, <1>1, <1>2, CurHead DEF HeadInv
  <2> QED
    BY <1>0, <1>2, <2>1, EndAgreed DEF EndPersist
<1>3. CASE Head1.version = externals /\ doc' = Head1.text /\ Advance("applied")
  <2>1. Head1.epoch = epoch /\ Head1.stage = "applying" /\ 1 \in Persists /\ Head1 = jobs[1]
    BY <1>0, <1>1, <1>3, HeadFacts DEF HeadInv, Running
  <2>2. Cur # {}
    BY <1>1, <2>1 DEF WorkInv
  <2>3. /\ HeadGoesOn /\ jobs'[1].kind = "persist" /\ jobs'[1].stage = "applied" /\ Head1' = jobs'[1]
        /\ jobs'[1].sn = Head1.sn /\ jobs'[1].rev = Head1.rev /\ jobs'[1].epoch = Head1.epoch
        /\ jobs'[1].text = Head1.text /\ jobs'[1].meta = Head1.meta
    BY <1>0, <1>3, StageAgreed DEF PersistStages
  <2>4. WorkInv' /\ CurKept
    BY <1>0, <1>1, <2>1, <2>3, CurHead, HeadWork
  <2>5. HeadInv'
    BY <1>0, <1>3, <2>1, <2>3 DEF HeadInv, Running
  <2> QED
    BY <1>0, <2>2, <2>4, <2>5, GoesAgreed
<1>4. ~(Head1.version = externals /\ Fault)
  BY CalmNow DEF Open
<1> QED
  BY <1>2, <1>3, <1>4 DEF ApplySourceText

(* The current persist is done: its content is what the webview shows, if  *)
(* no later edit is on its way.                                            *)
LEMMA CommitAgreed ==
    ASSUME TypeInv, TypeInv', CalmInv, OpenInv, HeadPersist, 1 \in Cur, doc = Head1.text,
           Commit(Head1.meta),
           UNCHANGED <<JobSide, doc, editRev, sequence, pending, projGen, epoch, authority>>
    PROVE  OpenInv'
<1>0. /\ UNCHANGED <<view, viewRev, viewGen, toHost, toView>>
      /\ QueueInv /\ WorkInv /\ ReloadInv /\ RevInv /\ CarriedInv
      /\ sidecar' = Head1.meta /\ jobs' = Tail(jobs)
  BY DEF JobSide, webVars, channelVars, CalmInv, OpenInv, Commit, EndPersist
<1>1. pending = None /\ Persists' = {} /\ Head1 = jobs[1]
  BY <1>0, CurHead, HeadFacts
<1>2. Cur' = {} /\ Sent' = Sent /\ Edits' = Edits
  BY <1>0, <1>1 DEF Cur, Sent, Edits
<1>3. WorkInv'
  BY <1>1, <1>2 DEF WorkInv
<1>4. HeadInv'
  <2>1. jobs' \in Seq(Jobs')
    BY DEF TypeInv, MailType
  <2> QED
    BY <1>1, <2>1 DEF HeadInv, Running, Head1, Persists
<1>5. ReloadInv'
  BY <1>0, <1>1 DEF ReloadInv
<1>6. RevInv'
  BY <1>0, <1>2 DEF RevInv
<1>7. CarriedInv'
  <2>1. \A i : Shown(toHost[i])' <=> Shown(toHost[i])
    BY <1>0 DEF Shown
  <2>2. viewGen = projGen /\ Edits = {} => doc = view.text /\ sidecar' = view.meta
    BY <1>0, <1>1 DEF CarriedInv, Shown
  <2> QED
    BY <1>0, <1>2, <2>1, <2>2 DEF CarriedInv
<1> QED
  BY <1>3, <1>4, <1>5, <1>6, <1>7 DEF OpenInv

LEMMA MaterializeAgreed ==
    ASSUME TypeInv, TypeInv', Open, CalmInv, OpenInv, MaterializeState
    PROVE  OpenInv'
<1>0. /\ HeadPersist /\ Head1.stage = "materializing"
      /\ UNCHANGED <<JobSide, doc, editRev, sequence, pending, projGen, epoch, authority>>
  BY RunningHead DEF MaterializeState, projVars
<1>1. QueueInv /\ WorkInv /\ Sanitize(Head1.meta) = Head1.meta
  BY CalmNow DEF Open, CalmInv, OpenInv
<1>2. CASE ~IsCurrent(Head1)
  <2>1. jobs' = Tail(jobs) /\ UNCHANGED sidecar /\ 1 \notin Cur
    BY <1>0, <1>1, <1>2, CurHead DEF MaterializeState, EndPersist, draftVars
  <2> QED
    BY <1>0, <2>1, EndAgreed
<1>3. CASE IsCurrent(Head1) /\ Head1.text = doc
  BY <1>0, <1>1, <1>3, CurHead, CommitAgreed DEF MaterializeState
<1>4. CASE IsCurrent(Head1) /\ Head1.text # doc
  <2>0. 1 \in Cur /\ Head1.epoch = epoch /\ Head1.rev >= editRev /\ epoch \in Nat /\ externals \in Nat
    BY <1>0, <1>1, <1>4, CurHead, JobFacts
  <2>1. UNCHANGED sidecar /\ jobs' = [jobs EXCEPT ![1].stage = "applying", ![1].copy = Head1.meta,
                                                   ![1].version = externals]
    BY <1>1, <1>4 DEF MaterializeState, draftVars
  <2>2. /\ HeadGoesOn /\ jobs'[1].kind = "persist" /\ jobs'[1].stage = "applying" /\ Head1' = jobs'[1]
        /\ jobs'[1].sn = Head1.sn /\ jobs'[1].rev = Head1.rev /\ jobs'[1].epoch = Head1.epoch
        /\ jobs'[1].text = Head1.text /\ jobs'[1].meta = Head1.meta
    BY <1>0, <2>1, StageAgreed DEF PersistStages
  <2>3. jobs'[1].version = externals
    <3>1. jobs \in Seq(Jobs) /\ 1 \in DOMAIN jobs /\ jobs[1] \in PersistJobs
      BY <1>0, <1>1, HeadFacts DEF TypeInv, MailType, Persists
    <3>2. jobs'[1] = [jobs[1] EXCEPT !.stage = "applying", !.copy = Head1.meta, !.version = externals]
      BY <2>1, <3>1
    <3> QED
      BY <3>1, <3>2 DEF PersistJobs
  <2>4. WorkInv' /\ CurKept
    BY <1>0, <1>1, <2>0, <2>2, HeadWork
  <2>5. HeadInv'
    <3>1. externals' = externals
      BY <1>0 DEF JobSide, boundVars
    <3> QED
      BY <1>0, <2>0, <2>2, <2>3, <3>1 DEF HeadInv, Running
  <2> QED
    BY <1>0, <2>0, <2>1, <2>4, <2>5, GoesAgreed
<1> QED
  BY <1>2, <1>3, <1>4

-----------------------------------------------------------------------------
(* A reload of the source begins: it carries the document from now on. *)
LEMMA ProjectAgreed ==
    ASSUME TypeInv, TypeInv', Open, CalmInv, OpenInv, Project(TRUE, doc', None, sidecar),
           UNCHANGED <<webVars, toHost, toView, sidecar, editRev>>,
           \/ UNCHANGED jobs /\ externals' = externals + 1
           \/ jobs # <<>> /\ jobs' = Tail(jobs)
    PROVE  OpenInv'
<1>0. /\ QueueInv /\ GenInv /\ WorkInv /\ ReloadInv /\ RevInv
      /\ UNCHANGED <<view, viewRev, viewGen>>
  BY DEF CalmInv, OpenInv, webVars
<1>1. /\ sequence' = sequence + 1 /\ epoch' = epoch + 1 /\ projGen' = projGen + 1
      /\ authority' = doc' /\ pending'.text = doc' /\ pending'.meta = sidecar'
      /\ pending'.stage = "preparing"
  BY DEF Project, Open
<1>2. sequence \in Nat /\ epoch \in Nat /\ projGen \in Nat /\ viewGen \in Nat /\ externals \in Nat
  BY JobFacts, MailFacts DEF TypeInv, Scalars, CountType
<1>10. \A m, n \in Nat : m <= n => m <= n + 1 /\ m # n + 1
  OBVIOUS
<1>3. \A i \in Persists' :
        /\ jobs'[i].sn \in Nat /\ jobs'[i].sn <= sequence
        /\ jobs'[i].epoch \in Nat /\ jobs'[i].epoch <= epoch /\ (i # 1 => jobs'[i].stage = "queued")
        /\ jobs' # jobs => jobs'[i].stage = "queued"
  <2>0. jobs \in Seq(Jobs)
    BY DEF TypeInv, MailType
  <2>1. \A i \in Persists : jobs[i].sn \in Nat /\ jobs[i].sn <= sequence /\ jobs[i].epoch \in Nat
                            /\ jobs[i].epoch <= epoch /\ (i # 1 => jobs[i].stage = "queued")
    BY <1>0, JobFacts DEF QueueInv, WorkInv
  <2>2. CASE UNCHANGED jobs
    BY <2>1, <2>2 DEF Persists
  <2>3. CASE jobs # <<>> /\ jobs' = Tail(jobs)
    <3>1. \A i \in Persists' : i + 1 \in Persists /\ jobs'[i] = jobs[i + 1] /\ i + 1 # 1
      BY <2>0, <2>3 DEF Persists
    <3> QED
      BY <2>1, <3>1
  <2> QED
    BY <2>2, <2>3
<1>4. Cur' = {}
  <2> SUFFICES ASSUME NEW i \in Persists', jobs'[i].sn = sequence' PROVE FALSE
    BY DEF Cur
  <2>1. jobs'[i].sn \in Nat /\ jobs'[i].sn <= sequence
    BY <1>3
  <2> QED
    BY <1>1, <1>2, <1>10, <2>1
<1>5. WorkInv'
  <2>1. ASSUME NEW i \in Persists'
        PROVE  jobs'[i].epoch <= epoch' /\ jobs'[i].epoch # epoch' /\ (i # 1 => jobs'[i].stage = "queued")
    <3>1. jobs'[i].epoch \in Nat /\ jobs'[i].epoch <= epoch /\ (i # 1 => jobs'[i].stage = "queued")
      BY <1>3
    <3> QED
      BY <1>1, <1>2, <1>10, <3>1
  <2> QED
    BY <1>4, <2>1 DEF WorkInv
<1>6. HeadInv'
  <2>1. CASE UNCHANGED jobs /\ externals' = externals + 1
    <3>1. Running("persist", "applying") =>
            Head1.version <= externals /\ Head1.version \in Nat /\ Head1.epoch \in Nat /\ Head1.epoch <= epoch
      <4>1. Running("persist", "applying") => HeadPersist
        BY RunningHead
      <4> QED
        BY <1>0, <4>1, CurHead DEF HeadInv, OpenInv
    <3>2. Running("persist", "applied") => Head1.epoch \in Nat /\ Head1.epoch <= epoch
      <4>1. Running("persist", "applied") => HeadPersist
        BY RunningHead
      <4> QED
        BY <1>0, <4>1, CurHead
    <3>3. Head1' = Head1 /\ \A s : Running("persist", s)' <=> Running("persist", s)
      BY <2>1 DEF Head1, Running
    <3> QED
      BY <1>1, <1>2, <2>1, <3>1, <3>2, <3>3 DEF HeadInv
  <2>2. CASE jobs # <<>> /\ jobs' = Tail(jobs)
    <3>0. jobs \in Seq(Jobs) /\ jobs' \in Seq(Jobs')
      BY DEF TypeInv, MailType
    <3>1. jobs' # jobs
      BY <2>2, <3>0
    <3>2. \A s : Running("persist", s)' => s = "queued"
      <4> SUFFICES ASSUME NEW s, Running("persist", s)' PROVE s = "queued"
        OBVIOUS
      <4>1. 1 \in Persists' /\ jobs'[1].stage = s
        BY <3>0 DEF Running, Head1, Persists
      <4> QED
        BY <1>3, <3>1, <4>1
    <3> QED
      BY <3>2 DEF HeadInv
  <2> QED
    BY <2>1, <2>2
<1>7. Sent' = Sent /\ Projected' = Projected /\ viewGen < projGen'
      /\ (\A i \in Projected : toView[i].gen < projGen') /\ \A i \in DOMAIN toHost : toHost[i].gen < projGen'
  BY <1>0, <1>1, <1>2, MailFacts DEF Sent, Projected, GenInv
<1>8. ReloadInv'
  BY <1>0, <1>1, <1>2, <1>7, MailFacts DEF ReloadInv
<1>9. RevInv' /\ CarriedInv'
  BY <1>0, <1>1, <1>2, <1>4, <1>7 DEF RevInv, CarriedInv
<1> QED
  BY <1>5, <1>6, <1>8, <1>9 DEF OpenInv

LEMMA ResumeAgreed ==
    ASSUME TypeInv, TypeInv', Open, CalmInv, OpenInv, ResumeApplied
    PROVE  OpenInv'
<1>0. /\ HeadPersist /\ Running("persist", "applied") /\ Head1.stage = "applied"
      /\ UNCHANGED <<JobSide, doc, editRev>>
  BY RunningHead DEF ResumeApplied
<1>1. QueueInv /\ WorkInv /\ HeadInv /\ Head1.copy = Head1.meta
  BY <1>0, HeadFacts DEF CalmInv, OpenInv
<1>2. doc = IF Head1.epoch = epoch THEN Head1.text ELSE authority
  BY <1>0, <1>1 DEF HeadInv
<1>3. CASE doc # Head1.text /\ Project(TRUE, doc, None, sidecar) /\ EndPersist(FALSE) /\ UNCHANGED draftVars
  <2>1. UNCHANGED <<webVars, toHost, toView, sidecar, editRev>> /\ jobs # <<>> /\ jobs' = Tail(jobs)
    BY <1>0, <1>3 DEF JobSide, channelVars, draftVars, EndPersist, HeadPersist
  <2>2. Project(TRUE, doc', None, sidecar)
    BY <1>0, <1>3
  <2> QED
    BY <2>1, <2>2, ProjectAgreed
<1>4. CASE /\ doc = Head1.text /\ IsCurrent(Head1)
           /\ Commit(Head1.copy) /\ UNCHANGED <<projVars, sequence>>
  <2>1. 1 \in Cur
    BY <1>0, <1>1, <1>4, CurHead
  <2> QED
    BY <1>0, <1>1, <1>4, <2>1, CommitAgreed DEF projVars
<1>5. CASE /\ MustRollBack(Head1) /\ doc = Head1.text
           /\ jobs' = [jobs EXCEPT ![1].stage = "restoring", ![1].epoch = epoch,
                                   ![1].version = externals]
           /\ UNCHANGED <<flush, draftVars, sequence, projGen, activeGen, pending, epoch, authority>>
  <2>1. Head1.epoch < epoch /\ epoch \in Nat /\ 1 \notin Cur /\ doc = authority
    BY <1>0, <1>1, <1>2, <1>5, CurHead, JobFacts DEF MustRollBack
  <2>2. /\ HeadGoesOn /\ jobs'[1].kind = "persist" /\ jobs'[1].stage = "restoring" /\ Head1' = jobs'[1]
        /\ jobs'[1].sn = Head1.sn /\ jobs'[1].rev = Head1.rev
        /\ jobs'[1].text = Head1.text /\ jobs'[1].meta = Head1.meta
        /\ jobs'[1].epoch \in {Head1.epoch, epoch}
    BY <1>0, <1>5, <2>1, StageAgreed DEF PersistStages
  <2>3. jobs'[1].epoch <= epoch
    BY <2>1, <2>2, <1>0, <1>1, CurHead
  <2>4. WorkInv' /\ CurKept
    BY <1>0, <1>1, <1>5, <2>1, <2>2, <2>3, HeadWork
  <2>5. HeadInv'
    BY <1>0, <1>5, <2>1, <2>2 DEF HeadInv, Running
  <2> QED
    BY <1>0, <1>5, <2>4, <2>5, GoesAgreed DEF draftVars
<1>6. CASE /\ doc = Head1.text /\ ~IsCurrent(Head1)
           /\ EndPersist(FALSE) /\ UNCHANGED <<projVars, sequence, draftVars>>
  <2>1. 1 \notin Cur
    BY <1>0, <1>1, <1>6, CurHead
  <2> QED
    BY <1>0, <1>6, <2>1, EndAgreed DEF projVars, draftVars, EndPersist
<1> QED
  BY <1>3, <1>4, <1>5, <1>6 DEF ResumeApplied

LEMMA RestoreAgreed ==
    ASSUME TypeInv, TypeInv', Open, Calm', CalmInv, OpenInv, RestoreSourceText
    PROVE  OpenInv'
<1>0. /\ HeadPersist /\ Running("persist", "restoring") /\ Head1.stage = "restoring"
      /\ UNCHANGED <<JobSide, sidecar, editRev, sequence, pending, projGen, epoch, authority>>
  BY RunningHead DEF RestoreSourceText, draftVars
<1>1. QueueInv /\ WorkInv /\ HeadInv /\ 1 \in Persists /\ Head1 = jobs[1]
  BY <1>0, HeadFacts DEF CalmInv, OpenInv
<1>2. 1 \notin Cur /\ doc' = doc
  BY <1>0, <1>1, CurHead DEF HeadInv, RestoreSourceText
<1>3. CASE EndPersist(FALSE)
  BY <1>0, <1>2, <1>3, EndAgreed DEF EndPersist
<1>4. CASE jobs' = [jobs EXCEPT ![1].tries = @ + 1]
  <2>0. jobs \in Seq(Jobs) /\ 1 \in DOMAIN jobs /\ Head1 \in PersistJobs /\ IsQueue(jobs)
    BY <1>0, <1>1, HeadFacts, QueueOf DEF TypeInv, MailType, Persists
  <2>1. HeadGoesOn
    BY <1>4, <2>0, Goes
  <2>2. jobs'[1] = [Head1 EXCEPT !.tries = @ + 1]
    BY <1>1, <1>4, <2>0
  <2>3. /\ jobs'[1].kind = "persist" /\ jobs'[1].stage = "restoring" /\ Head1' = jobs'[1]
        /\ jobs'[1].sn = Head1.sn /\ jobs'[1].rev = Head1.rev /\ jobs'[1].epoch = Head1.epoch
        /\ jobs'[1].text = Head1.text /\ jobs'[1].meta = Head1.meta
    BY <1>0, <2>0, <2>2 DEF PersistJobs, Head1
  <2>4. WorkInv' /\ CurKept
    BY <1>0, <1>1, <1>2, <2>1, <2>3, CurHead, HeadWork
  <2>5. HeadInv'
    BY <1>0, <1>1, <1>2, <2>3 DEF HeadInv, Running
  <2> QED
    BY <1>0, <1>2, <2>4, <2>5, GoesAgreed
<1> QED
  BY <1>3, <1>4 DEF RestoreSourceText

LEMMA PersistAgreed ==
    ASSUME TypeInv, TypeInv', Open, Calm', CalmInv, OpenInv, PersistStep
    PROVE  OpenInv'
BY StartAgreed, MaterializeAgreed, ApplyAgreed, ResumeAgreed, RestoreAgreed DEF PersistStep

-----------------------------------------------------------------------------
(* The messages, the edits and the saves of an open panel. *)

LEMMA SideAgreed ==
    ASSUME TypeInv, TypeInv', CalmInv, OpenInv, QueueMoves, ViewMailKept,
           UNCHANGED <<webVars, toHost, doc, sidecar, editRev, sequence, pending, projGen, epoch,
                       authority, externals>>
    PROVE  OpenInv'
<1>0. /\ UNCHANGED <<view, viewRev, viewGen>>
      /\ QueueInv /\ WorkInv /\ HeadInv /\ ReloadInv /\ RevInv /\ CarriedInv
  BY DEF webVars, CalmInv, OpenInv
<1>1. WorkInv' /\ HeadInv' /\ CurKept
  BY <1>0, WorkKept
<1>2. RevInv' /\ CarriedInv'
  BY <1>0, <1>1, RevKept, CarriedKept
<1>3. ReloadInv'
  BY <1>0, ReloadKept
<1> QED
  BY <1>1, <1>2, <1>3 DEF OpenInv

(* A snapshot is sent. *)
LEMMA SnapshotAgreed ==
    ASSUME TypeInv, TypeInv', CalmInv, OpenInv, NEW x, toHost' = Append(toHost, x),
           x.type = "persist", x.gen = viewGen, x.rev = viewRev', Shown(x)',
           viewRev' \in {viewRev, viewRev + 1}, x.flush = None \/ UNCHANGED view,
           Kept(toView, toView'),
           UNCHANGED <<viewGen, jobs, doc, sidecar, editRev, sequence, pending, projGen, epoch,
                       authority, externals>>
    PROVE  OpenInv'
<1>0. QueueInv /\ WorkInv /\ HeadInv /\ ReloadInv /\ RevInv /\ CarriedInv
  BY DEF CalmInv, OpenInv
<1>9. PICK n : n = Len(toHost) + 1
  OBVIOUS
<1>1. /\ toHost \in Seq(Messages) /\ n \in Nat /\ toHost'[n] = x /\ DOMAIN toHost' = DOMAIN toHost \cup {n}
      /\ \A i \in DOMAIN toHost : toHost'[i] = toHost[i] /\ i < n /\ i \in Nat
  BY <1>9, MailFacts, Appended
<1>2. /\ n \in Sent' /\ \A i \in Sent' : i = n \/ i \in Sent
      /\ \A i \in Sent : i \in Sent' /\ toHost'[i] = toHost[i] /\ i < n
  BY <1>1 DEF Sent
<1>3. /\ \A i \in Edits' : (i = n /\ x.flush = None) \/ i \in Edits
      /\ \A i \in Edits : i \in Edits' /\ i < n
      /\ x.flush = None => n \in Edits'
  BY <1>1, <1>2 DEF Edits
<1>4. Cur' = Cur /\ viewRev \in Nat /\ editRev \in Nat /\ \A i \in Cur : jobs[i].rev \in Nat
  BY <1>0, CurFacts DEF Cur, Persists, TypeInv, Scalars, ViewType, SessionType
<1>5. WorkInv' /\ HeadInv'
  BY <1>0, WorkKept DEF QueueMoves
<1>6. ReloadInv'
  <2>1. \A i \in DOMAIN toHost' : toHost'[i].type = "reload" => i \in DOMAIN toHost /\ toHost'[i] = toHost[i]
    BY <1>1
  <2>2. \A i \in Projected' : \E k \in Projected : toView'[i] = toView[k]
    BY ProjectedFrom DEF ViewMailKept
  <2>3. ASSUME pending # None, viewGen = projGen
        PROVE  \E k \in DOMAIN toHost' :
                 toHost'[k].type = "reload" /\ toHost'[k].gen = projGen /\ \A i \in Sent' : k < i
    <3>1. PICK k \in DOMAIN toHost :
            toHost[k].type = "reload" /\ toHost[k].gen = projGen /\ \A i \in Sent : k < i
      BY <1>0, <2>3 DEF ReloadInv
    <3> QED
      BY <1>1, <1>2, <3>1
  <2>4. ASSUME pending # None, NEW i \in Projected', toView'[i].gen = projGen
        PROVE  toView'[i].rev = editRev /\ toView'[i].text = doc /\ toView'[i].meta = sidecar
    BY <1>0, <2>2, <2>4 DEF ReloadInv
  <2> QED
    BY <1>0, <2>1, <2>3, <2>4 DEF ReloadInv
<1>7. RevInv'
  <2>1. \A i \in Sent : toHost[i].rev \in Nat /\ toHost[i].rev <= viewRev
    <3>1. \A m \in Messages : m.rev \in Nat
      BY DEF Messages
    <3> QED
      BY <1>0, <1>1, <3>1 DEF RevInv, Sent
  <2>2. viewRev <= viewRev' /\ viewRev' \in Nat
    BY <1>4
  <2>3. /\ \A i \in Sent' : i = n \/ i \in Sent
        /\ toHost'[n].rev = viewRev' /\ \A i \in Sent : toHost'[i].rev = toHost[i].rev /\ i < n
    BY <1>1, <1>2
  <2>4. \A i \in Sent : toHost'[i].rev <= viewRev'
    <3> SUFFICES ASSUME NEW i \in Sent PROVE toHost'[i].rev <= viewRev'
      OBVIOUS
    <3>1. toHost'[i].rev = toHost[i].rev
      BY <2>3
    <3>2. toHost[i].rev <= viewRev'
      BY <1>4, <2>1, <2>2
    <3> QED
      BY <3>1, <3>2
  <2>5. \A i \in Sent' : toHost'[i].rev <= viewRev'
    <3>1. toHost'[n].rev <= viewRev'
      BY <2>2, <2>3
    <3> QED
      BY <2>3, <2>4, <3>1
  <2>6. \A i, k \in Sent' : i < k => toHost'[i].rev <= toHost'[k].rev
    <3> SUFFICES ASSUME NEW i \in Sent', NEW k \in Sent', i < k PROVE toHost'[i].rev <= toHost'[k].rev
      OBVIOUS
    <3>1. i \in Sent /\ toHost'[i].rev = toHost[i].rev
      <4>1. i # n
        BY <1>1, <1>2
      <4> QED
        BY <2>3, <4>1
    <3>2. CASE k = n
      BY <2>3, <2>4, <3>1, <3>2
    <3>3. CASE k \in Sent
      <4>1. toHost'[k].rev = toHost[k].rev /\ toHost[i].rev <= toHost[k].rev
        BY <1>0, <2>3, <3>1, <3>3 DEF RevInv
      <4> QED
        BY <3>1, <4>1
    <3> QED
      BY <2>3, <3>2, <3>3
  <2>7. ASSUME NEW r \in Nat, r <= viewRev, \A k \in Sent : r <= toHost[k].rev
        PROVE  r <= viewRev' /\ \A k \in Sent' : r <= toHost'[k].rev
    <3>1. r <= viewRev'
      BY <1>4, <2>2, <2>7
    <3>2. \A k \in Sent : r <= toHost'[k].rev
      <4> SUFFICES ASSUME NEW k \in Sent PROVE r <= toHost'[k].rev
        OBVIOUS
      <4>1. toHost'[k].rev = toHost[k].rev
        BY <2>3
      <4> QED
        BY <2>7, <4>1
    <3> QED
      BY <2>3, <3>1, <3>2
  <2>8. \A i \in Cur : jobs[i].rev <= viewRev' /\ \A k \in Sent' : jobs[i].rev <= toHost'[k].rev
    BY <1>0, <1>4, <2>7 DEF RevInv
  <2>9. viewGen = projGen => editRev <= viewRev' /\ \A k \in Sent' : editRev <= toHost'[k].rev
    BY <1>0, <1>4, <2>7 DEF RevInv
  <2> QED
    BY <1>4, <2>5, <2>6, <2>8, <2>9 DEF RevInv
<1>8. CarriedInv'
  <2> SUFFICES ASSUME viewGen = projGen
               PROVE  /\ \A i \in Sent' : (\A k \in Edits' : k <= i) => Shown(toHost[i])'
                      /\ Edits' = {} =>
                           /\ \A i \in Cur : Shown(jobs[i])'
                           /\ Cur = {} => doc = view'.text /\ sidecar = view'.meta
    BY <1>4 DEF CarriedInv
  <2>1. Shown(toHost[n])'
    BY <1>1 DEF Shown
  <2>2. CASE x.flush = None
    <3>1. Edits' # {} /\ \A i \in Sent' : (\A k \in Edits' : k <= i) => i = n
      BY <1>1, <1>2, <1>3, <2>2
    <3> QED
      BY <2>1, <3>1
  <2>3. CASE x.flush # None /\ UNCHANGED view
    <3>1. Edits' = Edits
      BY <1>3, <2>3
    <3>2. \A i \in Sent : Shown(toHost[i])' <=> Shown(toHost[i])
      BY <1>2, <2>3 DEF Shown
    <3>3. \A i \in Cur : Shown(jobs[i])' <=> Shown(jobs[i])
      BY <2>3 DEF Shown
    <3> QED
      BY <1>0, <1>2, <2>1, <2>3, <3>1, <3>2, <3>3 DEF CarriedInv
  <2> QED
    BY <2>2, <2>3
<1> QED
  BY <1>5, <1>6, <1>7, <1>8 DEF OpenInv

-----------------------------------------------------------------------------
(* The next message is off the channel. *)
LEMMA NextMail ==
    ASSUME TypeInv, toHost # <<>>, toHost' = Tail(toHost), UNCHANGED viewGen
    PROVE  /\ 1 \in DOMAIN toHost
           /\ \A i \in DOMAIN toHost' : i \in Nat /\ i + 1 \in DOMAIN toHost /\ toHost'[i] = toHost[i + 1]
           /\ \A i \in DOMAIN toHost : i # 1 => i - 1 \in DOMAIN toHost' /\ toHost'[i - 1] = toHost[i]
           /\ \A i \in Sent' : i + 1 \in Sent /\ 1 < i + 1
           /\ \A i \in Sent : i # 1 => i - 1 \in Sent'
           /\ \A i \in Edits' : i + 1 \in Edits
           /\ \A i \in Edits : i # 1 => i - 1 \in Edits'
<1>0. toHost \in Seq(Messages)
  BY MailFacts
<1>1. /\ 1 \in DOMAIN toHost
      /\ \A i \in DOMAIN toHost' : i \in Nat /\ i >= 1 /\ i + 1 \in DOMAIN toHost /\ toHost'[i] = toHost[i + 1]
      /\ \A i \in DOMAIN toHost : i # 1 => i - 1 \in DOMAIN toHost' /\ toHost'[i - 1] = toHost[i]
  BY <1>0
<1>2. (\A i \in Sent' : i + 1 \in Sent /\ 1 < i + 1) /\ \A i \in Sent : i # 1 => i - 1 \in Sent'
  BY <1>1 DEF Sent
<1>3. (\A i \in Edits' : i + 1 \in Edits) /\ \A i \in Edits : i # 1 => i - 1 \in Edits'
  BY <1>1, <1>2 DEF Edits, Sent
<1> QED
  BY <1>1, <1>2, <1>3

(* It is dropped, or was the answer to the reload that is over now. *)
LEMMA DroppedAgreed ==
    ASSUME TypeInv, TypeInv', CalmInv, OpenInv, toHost # <<>>, toHost' = Tail(toHost),
           UNCHANGED <<webVars, toView, doc, sidecar, editRev, sequence, projGen, epoch, authority,
                       externals, jobs>>,
           viewGen = projGen => 1 \notin Edits,
           \/ pending' = None
           \/ /\ pending' = pending
              /\ pending # None => ~(toHost[1].type = "reload" /\ toHost[1].gen = projGen)
    PROVE  OpenInv'
<1>0. /\ UNCHANGED <<view, viewRev, viewGen>>
      /\ QueueInv /\ WorkInv /\ HeadInv /\ ReloadInv /\ RevInv /\ CarriedInv
  BY DEF webVars, CalmInv, OpenInv
<1>1. /\ \A i \in DOMAIN toHost' : i \in Nat /\ i + 1 \in DOMAIN toHost /\ toHost'[i] = toHost[i + 1]
      /\ \A i \in DOMAIN toHost : i # 1 => i - 1 \in DOMAIN toHost' /\ toHost'[i - 1] = toHost[i]
      /\ \A i \in Sent' : i + 1 \in Sent /\ i \in DOMAIN toHost' /\ i \in Nat
      /\ \A i \in Edits' : i + 1 \in Edits /\ i \in Nat
      /\ \A i \in Edits : i # 1 => i - 1 \in Edits'
  BY <1>0, NextMail DEF Sent, Edits
<1>2. \A i \in DOMAIN toHost : i \in Nat
  BY MailFacts
<1>3. WorkInv' /\ HeadInv'
  BY <1>0, WorkKept DEF QueueMoves
<1>4. Cur' = Cur
  BY DEF Cur, Persists
<1>5. ReloadInv'
  <2>1. \A i \in DOMAIN toHost' : toHost'[i].type = "reload" => toHost'[i].applied
    BY <1>0, <1>1 DEF ReloadInv
  <2>2. CASE pending' = None
    BY <2>1, <2>2 DEF ReloadInv
  <2>3. CASE pending' # None
    <3>1. pending' = pending /\ pending # None
      BY <2>3
    <3>2. \A i \in DOMAIN toHost' : toHost'[i].type = "reload" /\ toHost'[i].gen = projGen
                                     => toHost'[i].rev = editRev
      BY <1>0, <1>1, <3>1 DEF ReloadInv
    <3>3. ASSUME viewGen = projGen
          PROVE  \E k \in DOMAIN toHost' :
                   toHost'[k].type = "reload" /\ toHost'[k].gen = projGen /\ \A i \in Sent' : k < i
      <4>1. PICK k \in DOMAIN toHost :
              toHost[k].type = "reload" /\ toHost[k].gen = projGen /\ \A i \in Sent : k < i
        BY <1>0, <3>1, <3>3 DEF ReloadInv
      <4>2. k # 1 /\ k \in Nat
        BY <1>2, <3>1, <4>1
      <4>3. k - 1 \in DOMAIN toHost' /\ toHost'[k - 1] = toHost[k]
        BY <1>1, <4>1, <4>2
      <4>4. \A i \in Sent' : k - 1 < i
        BY <1>1, <4>1, <4>2
      <4> QED
        BY <4>1, <4>3, <4>4
    <3>4. UNCHANGED Projected
      BY DEF Projected
    <3> QED
      BY <1>0, <2>1, <3>1, <3>2, <3>3, <3>4 DEF ReloadInv
  <2> QED
    BY <2>2, <2>3
<1>6. RevInv'
  <2>1. \A i \in Sent' : toHost'[i] = toHost[i + 1] /\ i + 1 \in Sent
    BY <1>1
  <2>2. \A i, k \in Sent' : i < k => toHost'[i].rev <= toHost'[k].rev
    <3> SUFFICES ASSUME NEW i \in Sent', NEW k \in Sent', i < k PROVE toHost'[i].rev <= toHost'[k].rev
      OBVIOUS
    <3>1. i + 1 < k + 1 /\ i + 1 \in Sent /\ k + 1 \in Sent
      BY <1>1
    <3>2. toHost[i + 1].rev <= toHost[k + 1].rev
      BY <1>0, <3>1 DEF RevInv
    <3> QED
      BY <2>1, <3>2
  <2> QED
    BY <1>0, <1>4, <2>1, <2>2 DEF RevInv
<1>7. CarriedInv'
  <2> SUFFICES ASSUME viewGen = projGen
               PROVE  /\ \A i \in Sent' : (\A k \in Edits' : k <= i) => Shown(toHost'[i])
                      /\ Edits' = {} =>
                           /\ \A i \in Cur : Shown(jobs[i])
                           /\ Cur = {} => doc = view.text /\ sidecar = view.meta
    BY <1>0, <1>4 DEF CarriedInv, Shown
  <2>1. ASSUME NEW i \in Sent', \A k \in Edits' : k <= i PROVE Shown(toHost'[i])
    <3>1. \A k \in Edits : k <= i + 1
      <4> SUFFICES ASSUME NEW k \in Edits PROVE k <= i + 1
        OBVIOUS
      <4>1. k # 1 /\ k \in Nat
        BY <1>2 DEF Edits, Sent
      <4>2. k - 1 <= i
        BY <1>1, <2>1, <4>1
      <4> QED
        BY <1>1, <4>1, <4>2
    <3> QED
      BY <1>0, <1>1, <2>1, <3>1 DEF CarriedInv
  <2>2. Edits' = {} => Edits = {}
    BY <1>1
  <2> QED
    BY <1>0, <2>1, <2>2 DEF CarriedInv
<1> QED
  BY <1>3, <1>5, <1>6, <1>7 DEF OpenInv

-----------------------------------------------------------------------------
(* A snapshot is admitted: it is the current persist now. *)
LEMMA AdmitAgreed ==
    ASSUME TypeInv, TypeInv', CalmInv, CalmInv', OpenInv, NEW m \in PersistMessages, m = toHost[1],
           toHost # <<>>, toHost' = Tail(toHost), ~IsStale(m.rev),
           pending = None, m.gen = activeGen, sequence' = sequence + 1,
           UNCHANGED <<webVars, toView, doc, sidecar, editRev, pending, projGen, epoch, authority,
                       externals>>,
           NEW j \in PersistJobs', jobs' = Append(jobs, j), j.sn = sequence', j.epoch = epoch,
           j.stage = "queued", j.rev = m.rev, j.text = m.text, j.meta = m.meta
    PROVE  OpenInv'
<1>0. /\ UNCHANGED <<view, viewRev, viewGen>>
      /\ QueueInv /\ QueueInv' /\ WorkInv /\ HeadInv /\ ReloadInv /\ RevInv /\ CarriedInv
      /\ viewGen = projGen /\ activeGen = projGen
  BY DEF webVars, CalmInv, OpenInv, GenInv
<1>1. PICK n : n = Len(jobs) + 1
  OBVIOUS
<1>2. /\ jobs \in Seq(Jobs) /\ n \in Nat /\ jobs'[n] = j /\ DOMAIN jobs' = DOMAIN jobs \cup {n}
      /\ \A i \in DOMAIN jobs : jobs'[i] = jobs[i] /\ i < n /\ i \in Nat /\ i >= 1
  BY <1>1, Appended DEF TypeInv, MailType
<1>3. n \in Persists' /\ \A i \in Persists' : i = n \/ (i \in Persists /\ jobs'[i] = jobs[i])
  <2>1. j.kind = "persist"
    BY DEF PersistJobs
  <2> QED
    BY <1>2, <2>1 DEF Persists
<1>4. Cur' = {n}
  <2>1. \A i \in Persists : jobs[i].sn <= sequence /\ jobs[i].sn \in Nat /\ sequence \in Nat
    BY <1>0, JobFacts DEF QueueInv
  <2>2. \A i \in Persists : jobs[i].sn # sequence'
    BY <2>1
  <2> QED
    BY <1>2, <1>3, <2>2 DEF Cur
<1>5. 1 \in Sent /\ m.rev \in Nat /\ editRev \in Nat /\ m.rev >= editRev /\ epoch \in Nat
  <2>1. m.type = "persist" /\ m.rev \in Nat /\ m.gen = viewGen /\ 1 \in DOMAIN toHost
    BY <1>0, MailFacts DEF PersistMessages
  <2> QED
    BY <2>1 DEF Sent, IsStale, TypeInv, Scalars, SessionType, ProjType
<1>6. WorkInv'
  <2>1. ASSUME NEW i \in Persists'
        PROVE  jobs'[i].epoch <= epoch /\ (i # 1 => jobs'[i].stage = "queued")
    <3>1. CASE i = n
      BY <1>2, <1>5, <2>1, <3>1
    <3>2. CASE i \in Persists /\ jobs'[i] = jobs[i]
      BY <1>0, <3>2 DEF WorkInv
    <3> QED
      BY <1>3, <3>1, <3>2
  <2>2. jobs'[n].epoch = epoch /\ jobs'[n].rev >= editRev /\ jobs'[n].stage # "restoring"
    BY <1>2, <1>5
  <2> QED
    BY <1>4, <2>1, <2>2 DEF WorkInv
<1>7. HeadInv'
  <2> SUFFICES ASSUME NEW s \in {"applying", "applied", "restoring"}, Running("persist", s)'
               PROVE  Running("persist", s) /\ Head1' = Head1
    BY <1>0 DEF HeadInv
  <2>1. 1 \in DOMAIN jobs' /\ jobs'[1].kind = "persist" /\ jobs'[1].stage = s /\ Head1' = jobs'[1]
    <3>1. jobs' \in Seq(Jobs')
      BY DEF TypeInv, MailType
    <3> QED
      BY <3>1 DEF Running, Head1
  <2>2. 1 # n
    BY <1>2, <2>1
  <2>3. 1 \in DOMAIN jobs /\ jobs'[1] = jobs[1]
    BY <1>2, <2>1, <2>2
  <2> QED
    BY <1>2, <2>1, <2>3 DEF Running, Head1
<1>8. ReloadInv'
  <2>1. \A i \in DOMAIN toHost' : toHost'[i].type = "reload" => toHost'[i].applied
    BY <1>0, NextMail DEF ReloadInv
  <2> QED
    BY <2>1 DEF ReloadInv
<1>9. /\ \A i \in Sent' : i + 1 \in Sent /\ i \in Nat /\ toHost'[i] = toHost[i + 1] /\ 1 < i + 1
      /\ \A i \in Edits : i # 1 => i - 1 \in Edits'
      /\ \A i \in Sent : i \in Nat
  BY <1>0, NextMail, MailFacts DEF Sent
<1>10. RevInv'
  <2>1. ASSUME NEW i \in Sent'
        PROVE  toHost'[i].rev <= viewRev /\ m.rev <= toHost'[i].rev /\ editRev <= toHost'[i].rev
    BY <1>0, <1>5, <1>9 DEF RevInv
  <2>2. m.rev <= viewRev /\ editRev <= viewRev
    BY <1>0, <1>5 DEF RevInv
  <2>3. \A i, k \in Sent' : i < k => toHost'[i].rev <= toHost'[k].rev
    <3> SUFFICES ASSUME NEW i \in Sent', NEW k \in Sent', i < k PROVE toHost'[i].rev <= toHost'[k].rev
      OBVIOUS
    <3>1. i + 1 < k + 1 /\ i + 1 \in Sent /\ k + 1 \in Sent
      BY <1>9
    <3>2. toHost[i + 1].rev <= toHost[k + 1].rev
      BY <1>0, <3>1 DEF RevInv
    <3> QED
      BY <1>9, <3>2
  <2>4. jobs'[n].rev = m.rev
    BY <1>2
  <2> QED
    BY <1>0, <1>4, <2>1, <2>2, <2>3, <2>4 DEF RevInv
<1>11. CarriedInv'
  <2> SUFFICES /\ \A i \in Sent' : (\A k \in Edits' : k <= i) => Shown(toHost'[i])
               /\ Edits' = {} => Shown(jobs'[n])
    BY <1>0, <1>4 DEF CarriedInv, Shown
  <2>1. ASSUME NEW i \in Sent', \A k \in Edits' : k <= i PROVE Shown(toHost'[i])
    <3>1. \A k \in Edits : k <= i + 1
      <4> SUFFICES ASSUME NEW k \in Edits, k # 1 PROVE k <= i + 1
        BY <1>9
      <4>1. k \in Nat /\ k - 1 <= i
        BY <1>9, <2>1 DEF Edits
      <4> QED
        BY <1>9, <4>1
    <3> QED
      BY <1>0, <1>9, <2>1, <3>1 DEF CarriedInv
  <2>2. ASSUME Edits' = {} PROVE Shown(jobs'[n])
    <3>1. \A k \in Edits : k <= 1
      BY <1>9, <2>2
    <3>2. Shown(m)
      BY <1>0, <1>5, <3>1 DEF CarriedInv
    <3> QED
      BY <1>2, <3>2 DEF Shown
  <2> QED
    BY <2>1, <2>2
<1> QED
  BY <1>6, <1>7, <1>8, <1>10, <1>11 DEF OpenInv

LEMMA HostAgreed ==
    ASSUME TypeInv, TypeInv', Open, CalmInv, CalmInv', OpenInv, ReceiveHost
    PROVE  OpenInv'
<1>0. /\ toHost # <<>> /\ toHost' = Tail(toHost) /\ ~Disposed /\ ~closing
      /\ UNCHANGED <<webVars, toView, doc, sidecar, externals>>
      /\ GenInv /\ ReloadInv /\ RevInv /\ WorkInv
  BY DEF ReceiveHost, draftVars, boundVars, Open, Calm, CalmInv, OpenInv
<1>1. PICK m : m = Head(toHost)
  OBVIOUS
<1>2. m = toHost[1] /\ m \in Messages /\ 1 \in DOMAIN toHost /\ m.gen \in Nat
  BY <1>0, <1>1, MailFacts
<1>3. \/ m.type = "persist" /\ Persist(m) /\ UNCHANGED editRev
      \/ m.type # "persist" /\ CompleteReload(m)
  BY <1>0, <1>1 DEF ReceiveHost
<1>4. CASE m.type = "persist" /\ Persist(m) /\ UNCHANGED editRev
  <2>1. m \in PersistMessages /\ m.rev \in Nat /\ ~Supersedes(m)
    BY <1>0, <1>2, <1>4, MessageKinds DEF PersistMessages, Supersedes, GenInv
  <2>2. UNCHANGED projVars
    BY <1>4, <2>1 DEF Persist, RetireProjection
  <2>3. viewGen = projGen /\ 1 \in Edits => m.flush = None /\ Admitted(m) /\ ~IsStale(m.rev)
    <3> SUFFICES ASSUME viewGen = projGen, 1 \in Edits
                 PROVE  m.flush = None /\ Admitted(m) /\ ~IsStale(m.rev)
      OBVIOUS
    <3>1. m.flush = None /\ m.gen = viewGen /\ 1 \in Sent
      BY <1>2 DEF Edits, Sent
    <3>2. pending = None
      <4> SUFFICES ASSUME pending # None PROVE FALSE
        OBVIOUS
      <4>1. PICK k \in DOMAIN toHost : \A i \in Sent : k < i
        BY <1>0 DEF ReloadInv
      <4>2. toHost \in Seq(Messages)
        BY MailFacts
      <4>3. k \in Nat /\ k >= 1
        BY <4>2
      <4>4. k < 1
        BY <3>1, <4>1
      <4> QED
        BY <4>3, <4>4
    <3>3. editRev <= m.rev /\ editRev \in Nat
      BY <1>0, <1>2, <3>1 DEF RevInv, TypeInv, Scalars, SessionType
    <3> QED
      BY <1>0, <2>1, <3>1, <3>2, <3>3 DEF Admitted, IsStale, GenInv
  <2>4. CASE UNCHANGED <<sequence, jobs>> /\ (viewGen = projGen => 1 \notin Edits)
    <3>1. pending # None => toHost[1].type # "reload"
      BY <1>2, <1>4
    <3> QED
      BY <1>0, <1>4, <2>2, <2>4, <3>1, DroppedAgreed DEF projVars
  <2>5. CASE Admitted(m) /\ ~IsStale(m.rev) /\ sequence' = sequence + 1 /\ jobs' = Append(jobs, Job(m))
    <3>1. pending = None /\ m.gen = activeGen
      BY <2>1, <2>5 DEF Admitted
    <3>2. PICK j : j = Job(m)
      OBVIOUS
    <3>3. /\ j.sn = sequence' /\ j.epoch = epoch /\ j.stage = "queued" /\ j.rev = m.rev
          /\ j.text = m.text /\ j.meta = m.meta /\ j.kind = "persist"
      BY <2>5, <3>2 DEF Job
    <3>4. j \in PersistJobs'
      <4>1. jobs' \in Seq(Jobs') /\ \E i \in DOMAIN jobs' : jobs'[i] = j
        <5>1. jobs \in Seq(Jobs) /\ jobs' \in Seq(Jobs')
          BY DEF TypeInv, MailType
        <5>2. PICK n : n = Len(jobs) + 1
          OBVIOUS
        <5>3. n \in DOMAIN jobs' /\ jobs'[n] = j
          BY <2>5, <3>2, <5>1, <5>2, Appended
        <5> QED
          BY <5>1, <5>3
      <4>2. \A x \in Jobs' : x.kind = "persist" => x \in PersistJobs'
        BY DEF Jobs, PersistJobs
      <4> QED
        BY <3>3, <4>1, <4>2
    <3>5. jobs' = Append(jobs, j)
      BY <2>5, <3>2
    <3> QED
      BY <1>0, <1>2, <1>4, <2>1, <2>2, <2>5, <3>1, <3>3, <3>4, <3>5, AdmitAgreed DEF projVars
  <2> QED
    BY <1>0, <1>4, <2>3, <2>4, <2>5 DEF Persist
<1>5. CASE m.type # "persist" /\ CompleteReload(m)
  <2>0. m.type = "reload" /\ m \in ReloadMessages /\ 1 \notin Edits /\ m.applied
        /\ UNCHANGED <<sequence, jobs, projGen, epoch, authority>>
    BY <1>0, <1>2, <1>5, MessageKinds DEF ReloadMessages, Edits, Sent, CompleteReload, ReloadInv
  <2>1. CASE pending # None /\ m.gen = projGen
    <3>1. pending \in Projections /\ pending.gen = projGen /\ m.rev = editRev /\ doc = pending.text
          /\ pending.stage # "stalled"
      BY <1>0, <1>2, <2>0, <2>1 DEF GenInv, ReloadInv, TypeInv, Scalars, ProjType
    <3>2. pending.stage # "preparing"
      <4>1. m.gen <= viewGen /\ viewGen \in Nat /\ projGen \in Nat
        BY <1>0, <1>2, MailFacts DEF GenInv
      <4> QED
        BY <1>0, <2>1, <4>1 DEF GenInv, PendingAt
    <3>3. PendingAt("posted") /\ IsProjectionCurrent
      BY <1>0, <2>1, <3>1, <3>2 DEF PendingAt, Projections, IsProjectionCurrent
    <3>4. pending' = None /\ editRev' = editRev
      BY <1>5, <2>0, <2>1, <3>1, <3>3 DEF CompleteReload, Newer
    <3> QED
      BY <1>0, <2>0, <3>4, DroppedAgreed
  <2>2. CASE ~(pending # None /\ m.gen = projGen)
    <3>1. ~(PendingAt("posted") /\ pending.gen = m.gen)
      BY <1>0, <2>2 DEF GenInv, PendingAt
    <3>2. UNCHANGED <<pending, editRev>>
      BY <1>5, <3>1 DEF CompleteReload
    <3> QED
      BY <1>0, <1>2, <2>0, <2>2, <3>2, DroppedAgreed
  <2> QED
    BY <2>1, <2>2
<1> QED
  BY <1>3, <1>4, <1>5

-----------------------------------------------------------------------------
(* A pending projection is still of the document when it is posted. *)
LEMMA PostAgreed ==
    ASSUME TypeInv, TypeInv', Open, CalmInv, OpenInv, PostProjection
    PROVE  OpenInv'
<1>0. /\ UNCHANGED <<view, viewRev, viewGen, toHost, doc, sidecar, editRev, sequence, jobs>>
      /\ UNCHANGED <<projGen, epoch, authority, externals>>
      /\ QueueInv /\ GenInv /\ WorkInv /\ HeadInv /\ ReloadInv /\ RevInv /\ CarriedInv
  BY DEF PostProjection, webVars, draftVars, boundVars, CalmInv, OpenInv
<1>1. PendingAt("preparing") /\ pending # None /\ pending \in Projections
  BY DEF PostProjection, PendingAt, TypeInv, Scalars, ProjType
<1>2. pending.text = doc /\ doc = authority /\ pending.meta = sidecar /\ pending.gen = projGen
  BY <1>0, <1>1 DEF ReloadInv, GenInv
<1>3. IsProjectionCurrent
  BY <1>2 DEF IsProjectionCurrent, Open
<1>4. PICK x : /\ x = [type |-> "data", gen |-> pending.gen, text |-> pending.text,
                       meta |-> Sanitize(pending.meta), rev |-> editRev, expected |-> pending.expected]
               /\ toView' = Append(toView, x) /\ pending' = [pending EXCEPT !.stage = "posted"]
  BY <1>3 DEF PostProjection
<1>5. x.gen = projGen /\ x.text = doc /\ x.meta = sidecar /\ x.rev = editRev
  BY <1>2, <1>4, CalmNow DEF Open
<1>6. viewGen < projGen /\ (\A i \in Projected : toView[i].gen < projGen)
      /\ \A i \in DOMAIN toHost : toHost[i].gen < projGen
  <2>1. viewGen < projGen /\ \A i \in Projected : toView[i].gen < projGen
    BY <1>0, <1>1 DEF GenInv
  <2> QED
    BY <1>0, <2>1, MailFacts DEF GenInv
<1>7. WorkInv' /\ HeadInv'
  BY <1>0, WorkKept DEF QueueMoves
<1>8. Cur' = Cur /\ Sent' = Sent /\ viewGen # projGen
  BY <1>0, <1>6, MailFacts DEF Cur, Persists, Sent
<1>9. RevInv' /\ CarriedInv'
  BY <1>0, <1>8 DEF RevInv, CarriedInv
<1>10. ReloadInv'
  <2>1. /\ pending'.text = authority /\ pending'.meta = sidecar /\ pending'.stage = "posted"
    BY <1>1, <1>2, <1>4 DEF Projections
  <2>2. PICK n : n = Len(toView) + 1
    OBVIOUS
  <2>3. \A i \in Projected' : (i \in Projected /\ toView'[i] = toView[i]) \/ toView'[i] = x
    BY <1>4, <2>2, MailFacts, Appended DEF Projected
  <2>4. \A i \in Projected' : toView'[i].gen = projGen =>
           toView'[i].rev = editRev /\ toView'[i].text = doc /\ toView'[i].meta = sidecar
    <3> SUFFICES ASSUME NEW i \in Projected', toView'[i].gen = projGen PROVE toView'[i] = x
      BY <1>5
    <3>1. projGen \in Nat
      BY MailFacts
    <3> QED
      BY <1>6, <2>3, <3>1
  <2>5. \A i \in DOMAIN toHost : toHost[i].gen # projGen
    BY <1>6, MailFacts
  <2> QED
    BY <1>0, <1>2, <1>8, <2>1, <2>4, <2>5 DEF ReloadInv
<1> QED
  BY <1>7, <1>9, <1>10 DEF OpenInv

(* The webview answers a request for a snapshot, or takes a projection. *)
LEMMA ViewAgreed ==
    ASSUME TypeInv, TypeInv', CalmInv, CalmInv', OpenInv, ReceiveView
    PROVE  OpenInv'
<1>0. /\ UNCHANGED <<doc, sidecar, jobs, editRev, sequence, pending, projGen, epoch, authority>>
      /\ UNCHANGED externals
      /\ QueueInv /\ GenInv /\ WorkInv /\ HeadInv /\ ReloadInv /\ RevInv /\ CarriedInv
      /\ toView # <<>> /\ toView' = Tail(toView)
  BY DEF ReceiveView, HostSide, draftVars, projVars, boundVars, CalmInv, OpenInv
<1>1. PICK m : m = Head(toView)
  OBVIOUS
<1>2. m = toView[1] /\ 1 \in DOMAIN toView /\ m \in Requests
  BY <1>0, <1>1, MailFacts
<1>3. Kept(toView, toView')
  BY <1>0, MailFacts, KeptMoves
<1>4. CASE m.type = "flush"
  <2>1. PICK x : x = Snapshot(view, viewRev, m.id, FALSE)
    OBVIOUS
  <2>2. toHost' = Append(toHost, x) /\ UNCHANGED <<view, viewRev, viewGen>>
    BY <1>1, <1>4, <2>1 DEF ReceiveView, webVars
  <2>3. x.type = "persist" /\ x.gen = viewGen /\ x.rev = viewRev' /\ Shown(x)'
    BY <2>1, <2>2 DEF Snapshot, Shown
  <2> QED
    BY <1>0, <1>3, <2>2, <2>3, SnapshotAgreed
<1>5. CASE m.type = "data"
  <2>1. 1 \in Projected /\ viewGen < m.gen /\ m.gen <= projGen /\ m.expected = None /\ m.gen \in Nat
    BY <1>0, <1>2, <1>5, MailFacts DEF Projected, GenInv
  <2>2. PICK x : x = [type |-> "reload", gen |-> m.gen, applied |-> TRUE, rev |-> m.rev]
    OBVIOUS
  <2>3. /\ viewGen' = m.gen /\ viewRev' = m.rev /\ view' = [text |-> m.text, meta |-> m.meta]
        /\ toHost' = Append(toHost, x)
    <3>1. ReceiveData(m)
      BY <1>1, <1>5 DEF ReceiveView
    <3> QED
      BY <2>1, <2>2, <3>1, MailFacts DEF ReceiveData, Reply
  <2>4. pending # None
    BY <1>0, <2>1, MailFacts DEF GenInv
  <2>5. m.gen = projGen => m.rev = editRev /\ m.text = doc /\ m.meta = sidecar
    BY <1>0, <1>2, <2>1, <2>4 DEF ReloadInv
  <2>6. Cur = {} /\ Cur' = {}
    BY <1>0, <2>4, CurFacts DEF Cur, Persists
  <2>7. PICK n : n = Len(toHost) + 1
    OBVIOUS
  <2>8. /\ n \in DOMAIN toHost' /\ toHost'[n] = x
        /\ \A i \in DOMAIN toHost' : toHost'[i] = x \/ (i \in DOMAIN toHost /\ toHost'[i] = toHost[i])
    BY <2>3, <2>7, MailFacts, Appended
  <2>9. Sent' = {} /\ Edits' = {}
    <3>1. \A i \in DOMAIN toHost : toHost[i].gen # m.gen
      BY <1>0, <2>1, MailFacts DEF GenInv
    <3>2. Sent' = {}
      BY <2>2, <2>3, <2>8, <3>1 DEF Sent
    <3> QED
      BY <3>2 DEF Edits
  <2>10. WorkInv' /\ HeadInv'
    BY <1>0, WorkKept DEF QueueMoves
  <2>11. ReloadInv'
    <3>1. \A i \in DOMAIN toHost' : toHost'[i].type = "reload" =>
             toHost'[i].applied /\ (toHost'[i].gen = projGen => toHost'[i].rev = editRev)
      BY <1>0, <2>2, <2>4, <2>5, <2>8 DEF ReloadInv
    <3>2. \A i \in Projected' : \E k \in Projected : toView'[i] = toView[k]
      BY <1>3, ProjectedFrom DEF ViewMailKept
    <3>3. viewGen' = projGen => \E k \in DOMAIN toHost' :
             toHost'[k].type = "reload" /\ toHost'[k].gen = projGen /\ \A i \in Sent' : k < i
      BY <2>2, <2>3, <2>8, <2>9
    <3>4. \A i \in Projected' : toView'[i].gen = projGen =>
             toView'[i].rev = editRev /\ toView'[i].text = doc /\ toView'[i].meta = sidecar
      BY <1>0, <2>4, <3>2 DEF ReloadInv
    <3> QED
      BY <1>0, <3>1, <3>3, <3>4 DEF ReloadInv
  <2>12. RevInv'
    <3>1. viewGen' = projGen => editRev <= viewRev'
      BY <2>3, <2>5 DEF TypeInv, Scalars, SessionType
    <3> QED
      BY <1>0, <2>6, <2>9, <3>1 DEF RevInv
  <2>13. CarriedInv'
    <3>1. viewGen' = projGen => doc' = view'.text /\ sidecar' = view'.meta
      BY <1>0, <2>3, <2>5
    <3> QED
      BY <1>0, <2>6, <2>9, <3>1 DEF CarriedInv
  <2> QED
    BY <2>10, <2>11, <2>12, <2>13 DEF OpenInv
<1> QED
  BY <1>2, <1>4, <1>5 DEF Requests

(* An edit in the webview is on its way; one elsewhere begins a reload. *)
LEMMA EditAgreed ==
    ASSUME TypeInv, TypeInv', Open, CalmInv, CalmInv', OpenInv,
           \/ \E c \in Contents : EditView(c)
           \/ \E t \in Texts : ExternalEdit(t)
    PROVE  OpenInv'
<1>1. CASE \E c \in Contents : EditView(c)
  <2>0. PICK c \in Contents : EditView(c)
    BY <1>1
  <2>1. PICK x : x = Snapshot(c, viewRev + 1, None, FALSE)
    OBVIOUS
  <2>2. /\ toHost' = Append(toHost, x) /\ view' = c /\ viewRev' = viewRev + 1
        /\ UNCHANGED <<viewGen, toView, jobs, doc, sidecar, editRev, sequence, pending, projGen>>
        /\ UNCHANGED <<epoch, authority, externals>>
    BY <2>0, <2>1 DEF EditView, HostSide, draftVars, projVars
  <2>3. x.type = "persist" /\ x.gen = viewGen /\ x.rev = viewRev' /\ x.flush = None /\ Shown(x)'
    BY <2>1, <2>2 DEF Snapshot, Shown
  <2> QED
    BY <2>2, <2>3, SnapshotAgreed, ChannelsSame
<1>2. CASE \E t \in Texts : ExternalEdit(t)
  <2>0. PICK t \in Texts : ExternalEdit(t)
    BY <1>2
  <2>1. /\ doc' = t /\ externals' = externals + 1 /\ Project(TRUE, t, None, sidecar)
        /\ UNCHANGED <<webVars, toHost, toView, sidecar, editRev, jobs>>
    BY <2>0 DEF ExternalEdit, OutsideVars, draftVars, Open, Calm
  <2> QED
    BY <2>1, ProjectAgreed
<1> QED
  BY <1>1, <1>2

(* Saves, hidings and other windows leave what the panel holds alone. *)
LEMMA FrameAgreed ==
    ASSUME TypeInv, TypeInv', Open, Calm', CalmInv, OpenInv,
           \/ UNCHANGED vars \/ Hide \/ WillSave \/ SaveTimesOut \/ SaveStep
           \/ \E m \in Metas : ForeignWrite(m)
           \/ \E i \in DOMAIN flush : StartFlush(i) \/ FlushTimesOut(i)
    PROVE  OpenInv'
<1>0. ~Disposed /\ Calm /\ ~closing /\ known.meta = sidecar
  BY DEF Open, Calm, CalmInv, SaveInv
<1>1. UNCHANGED toView => ViewMailKept
  BY ChannelsSame DEF ViewMailKept
<1>2. CASE UNCHANGED vars \/ Hide \/ WillSave \/ SaveTimesOut \/ \E m \in Metas : ForeignWrite(m)
  <2>1. UNCHANGED <<webVars, toHost, toView, doc, sidecar, editRev, sequence, jobs, pending, projGen,
                    epoch, authority, externals>>
    BY <1>2 DEF vars, Hide, WillSave, SaveTimesOut, ForeignWrite, SaveSide, OutsideVars, channelVars, draftVars,
       projVars, boundVars
  <2> QED
    BY <1>1, <2>1, SideAgreed DEF QueueMoves
<1>3. CASE \E i \in DOMAIN flush : StartFlush(i) \/ FlushTimesOut(i)
  <2>0. PICK i \in DOMAIN flush : StartFlush(i) \/ FlushTimesOut(i)
    BY <1>3
  <2>1. StartFlush(i)
    BY <1>0, <2>0, CalmNow DEF FlushTimesOut
  <2>2. UNCHANGED <<webVars, toHost, doc, sidecar, editRev, sequence, jobs, pending, projGen,
                    epoch, authority, externals>>
    BY <2>1 DEF StartFlush, draftVars, projVars, boundVars
  <2>3. ViewMailKept
    BY <1>0, <2>1 DEF StartFlush, ViewMailKept
  <2> QED
    BY <2>2, <2>3, SideAgreed DEF QueueMoves
<1>4. CASE SaveStep
  <2>1. UNCHANGED <<webVars, toHost, toView, doc, editRev, sequence, pending, projGen, epoch,
                    authority, externals>>
    BY <1>4 DEF SaveStep, SaveFlushed, SaveTimesOut, SaveDrained, DidSave, SaveSidecar, SaveSide, channelVars,
       projVars, boundVars
  <2>2. UNCHANGED sidecar
    BY <1>0, <1>4, CalmNow DEF SaveStep, SaveFlushed, SaveTimesOut, SaveDrained, DidSave, SaveSidecar, WriteFresh,
       WriteFreshFails, Published, draftVars
  <2>3. QueueMoves
    <3>1. CASE SaveFlushed \/ SaveTimesOut \/ SaveDrained
      BY <3>1 DEF SaveFlushed, SaveTimesOut, SaveDrained, QueueMoves
    <3>2. CASE DidSave
      BY <1>0, <3>2 DEF DidSave, QueueMoves
    <3>3. CASE SaveSidecar
      BY <3>3 DEF SaveSidecar, Running, Head1, QueueMoves, Cur, Persists
    <3> QED
      BY <1>4, <3>1, <3>2, <3>3 DEF SaveStep
  <2> QED
    BY <1>1, <2>1, <2>2, <2>3, SideAgreed
<1> QED
  BY <1>2, <1>3, <1>4

-----------------------------------------------------------------------------
(* Only a panel that has begun to close stops letting messages in, and it  *)
(* does not open again.                                                    *)
LEMMA CloseGoesOn ==
    ASSUME TypeInv, RepairInv, [Next]_vars
    PROVE  /\ close' = "open" => close = "open"
           /\ Admitting => Admitting'
<1>1. CASE UNCHANGED vars
  BY <1>1 DEF vars, closeVars, Admitting, Unclosed
<1>2. CASE PostProjection \/ ReceiveView \/ ReceiveHost \/ ProjectionTimesOut
  <2>1. UNCHANGED <<close, closing>>
    BY <1>2 DEF PostProjection, ReceiveView, ReceiveHost, ProjectionTimesOut, HostSide, closeVars
  <2> QED
    BY <2>1 DEF Admitting, Unclosed
<1>3. CASE PersistStep \/ PreparationFails
  <2>1. UNCHANGED <<close, closing>>
    BY <1>3 DEF PersistStep, StartPersist, SanitizeState, MaterializeState, ApplySourceText,
       ResumeApplied, RestoreSourceText, PreparationFails, JobSide, closeVars
  <2> QED
    BY <2>1 DEF Admitting, Unclosed
<1>4. CASE RepairStep \/ RepairFails \/ PolicyNotice \/ ProtectPolicy
  <2>1. UNCHANGED <<close, closing>>
    BY <1>4 DEF RepairStep, RepairFile, AdoptRepair, RepairProjected, RepairFails, PolicyNotice,
       ProtectPolicy, RepairSide, OutsideVars, closeVars
  <2> QED
    BY <2>1 DEF Admitting, Unclosed
<1>5. CASE SaveStep
  <2>1. UNCHANGED <<close, closing>>
    BY <1>5 DEF SaveStep, SaveFlushed, SaveTimesOut, SaveDrained, DidSave, SaveSidecar, SaveSide, closeVars
  <2> QED
    BY <2>1 DEF Admitting, Unclosed
<1>6. CASE CloseStep \/ DisposePanel \/ \E choice \in {"Save", "Discard", None} : AnswerPrompt(choice)
  <2>1. CASE CloseFinals \/ CloseUnload \/ DisposePanel
    <3>1. UNCHANGED closing /\ close' # "open" /\ close \in {"open", "finals", "unload"}
      BY <2>1 DEF CloseFinals, CloseUnload, DisposePanel
    <3> QED
      BY <3>1 DEF Admitting, Unclosed
  <2>2. CASE \/ CloseAdmission \/ CloseDrained \/ SaveDraft \/ RecoverDraft \/ SettleClose
             \/ \E choice \in {"Save", "Discard", None} : AnswerPrompt(choice)
    <3>1. close' \notin {"open", "finals", "unload", "admission"}
      BY <2>2 DEF CloseAdmission, CloseDrained, SaveDraft, RecoverDraft, SettleClose, AnswerPrompt
    <3> QED
      BY <3>1 DEF Admitting, Unclosed
  <2> QED
    BY <1>6, <2>1, <2>2 DEF CloseStep
<1>7. CASE \/ \E c \in Contents : EditView(c)
           \/ \E t \in Texts : ExternalEdit(t)
           \/ \E m \in Metas : ForeignWrite(m)
           \/ Hide \/ WillSave \/ SaveTimesOut
           \/ \E i \in DOMAIN flush : FlushTimesOut(i) \/ StartFlush(i)
  <2>1. UNCHANGED <<close, closing>>
    BY <1>7 DEF EditView, ExternalEdit, ForeignWrite, Hide, WillSave, SaveTimesOut, FlushTimesOut, StartFlush,
       HostSide, OutsideVars, SaveSide, closeVars
  <2> QED
    BY <2>1 DEF Admitting, Unclosed
<1> QED
  BY <1>1, <1>2, <1>3, <1>4, <1>5, <1>6, <1>7 DEF Next, Work, Outside

LEMMA NextAgreed ==
    ASSUME SavedInv, RepairInv, AgreedInv, [Next]_vars
    PROVE  AgreedInv'
<1> SUFFICES ASSUME Open' PROVE OpenInv'
  BY CloseGoesOn DEF SavedInv, AgreedInv
<1>1. TypeInv /\ TypeInv' /\ Open /\ Calm /\ Calm' /\ CalmInv /\ CalmInv' /\ OpenInv /\ ~Disposed
  <2>1. TypeInv /\ Open
    BY CalmBefore, CloseGoesOn DEF SavedInv, Open, Disposed
  <2> QED
    BY <2>1, NextSaved DEF SavedInv, AgreedInv, Open
<1>2. CASE PostProjection \/ ReceiveView \/ ReceiveHost \/ ProjectionTimesOut
  <2>1. ~ProjectionTimesOut
    BY <1>1, CalmNow DEF ProjectionTimesOut
  <2> QED
    BY <1>1, <1>2, <2>1, PostAgreed, ViewAgreed, HostAgreed
<1>3. CASE PersistStep
  BY <1>1, <1>3, PersistAgreed
<1>4. CASE RepairStep \/ RepairFails \/ PolicyNotice \/ ProtectPolicy \/ PreparationFails
  <2>1. jobs = <<>> \/ Head1.kind # "repair"
    <3>1. jobs # <<>> => 1 \in DOMAIN jobs
      BY <1>1 DEF TypeInv, MailType
    <3> QED
      BY <1>1, <3>1 DEF CalmInv, QueueInv, Head1
  <2>2. ~RepairStep /\ ~RepairFails
    BY <2>1 DEF RepairStep, RepairFile, AdoptRepair, RepairProjected, RepairFails, Running
  <2>3. ~PolicyNotice /\ ~ProtectPolicy /\ ~PreparationFails
    BY <1>1, CalmNow DEF PolicyNotice, ProtectPolicy, PreparationFails, Calm
  <2> QED
    BY <1>4, <2>2, <2>3
<1>5. CASE CloseStep \/ DisposePanel \/ \E choice \in {"Save", "Discard", None} : AnswerPrompt(choice)
  <2>1. close' # "open"
    BY <1>5 DEF CloseStep, CloseFinals, CloseUnload, CloseAdmission, CloseDrained, SaveDraft,
       RecoverDraft, SettleClose, DisposePanel, AnswerPrompt
  <2>2. close' = "open"
    BY DEF Open, Disposed
  <2> QED
    BY <2>1, <2>2
<1>6. CASE (\E c \in Contents : EditView(c)) \/ (\E t \in Texts : ExternalEdit(t))
  BY <1>1, <1>6, EditAgreed
<1>7. CASE \/ UNCHANGED vars \/ Hide \/ WillSave \/ SaveTimesOut \/ SaveStep
           \/ \E m \in Metas : ForeignWrite(m)
           \/ \E i \in DOMAIN flush : StartFlush(i) \/ FlushTimesOut(i)
  BY <1>1, <1>7, FrameAgreed
<1> QED
  BY <1>2, <1>3, <1>4, <1>5, <1>6, <1>7 DEF Next, Work, Outside

LEMMA InitAgreed == Init => AgreedInv
<1> SUFFICES ASSUME Init PROVE OpenInv
  BY DEF Init, AgreedInv, Admitting
<1>1. DOMAIN jobs = {} /\ DOMAIN toHost = {} /\ DOMAIN toView = {} /\ jobs = <<>> /\ pending = None
  BY DEF Init
<1>2. Persists = {} /\ Cur = {} /\ Sent = {} /\ Edits = {}
  BY <1>1 DEF Persists, Cur, Sent, Edits
<1> QED
  BY <1>1, <1>2 DEF Init, OpenInv, WorkInv, HeadInv, ReloadInv, RevInv, CarriedInv, Running

LEMMA AgreedQuiet == SavedInv /\ AgreedInv => QuietMeansAgreed
<1> SUFFICES ASSUME SavedInv, AgreedInv, Quiet, close = "open", faults = 0, policy = "off"
             PROVE  /\ pending = None
                    /\ viewGen = activeGen /\ viewRev >= editRev
                    /\ doc = view.text /\ ShownMeta = view.meta
  BY DEF QuietMeansAgreed
<1>1. TypeInv /\ ~closing /\ CalmInv /\ OpenInv
  BY DEF SavedInv, AgreedInv, Admitting, Unclosed, Open, Calm, Disposed
<1>2. pending = None
  BY <1>1 DEF Quiet, OpenInv, ReloadInv
<1>3. viewGen = projGen /\ activeGen = projGen /\ known.meta = sidecar
  BY <1>1, <1>2 DEF CalmInv, GenInv, SaveInv
<1>4. Cur = {} /\ Edits = {}
  <2>1. DOMAIN jobs = {} /\ DOMAIN toHost = {}
    BY DEF Quiet
  <2> QED
    BY <2>1 DEF Cur, Persists, Edits, Sent
<1>5. doc = view.text /\ sidecar = view.meta
  BY <1>1, <1>3, <1>4 DEF OpenInv, CarriedInv
<1>6. viewRev >= editRev
  BY <1>1, <1>3 DEF OpenInv, RevInv
<1> QED
  BY <1>2, <1>3, <1>5, <1>6 DEF ShownMeta

(* Once an open panel has settled, its webview and its source document     *)
(* show the same text, what the host holds to be saved is the metadata the *)
(* webview shows, no reload is left pending and the next edit is not stale *)
(* (queuePersist, completeReload, rollbackSupersededSourceEdit), for any   *)
(* texts and metadata and however edits in the webview and elsewhere,      *)
(* hidings, saves and writes of other windows raced before.                *)
THEOREM QuietIsAgreed == Spec => []QuietMeansAgreed
<1>1. SavedInv /\ RepairInv /\ AgreedInv /\ [Next]_vars => AgreedInv'
  BY NextAgreed
<1> QED
  BY <1>1, InitSaved, NextSaved, InitAgreed, AgreedQuiet, InitRepair, NextRepair, PTL DEF Spec

-----------------------------------------------------------------------------
(* A panel closed without a question.  The queue, the generations and the  *)
(* revisions keep their order whatever happens, so none of this is about a *)
(* calm panel only.                                                        *)

Snapshots == {i \in DOMAIN toHost : toHost[i].type = "persist"}
Replies == {i \in DOMAIN toHost : toHost[i].type = "reload"}

Preparing == PendingAt("preparing")

(* The generations on both ways, refused projections included. *)
WayInv ==
    /\ activeGen <= viewGen /\ viewGen <= projGen
    /\ pending # None => pending.gen = projGen /\ activeGen < projGen
    /\ Preparing =>
         /\ viewGen < projGen
         /\ \A i \in Projected : toView[i].gen < projGen
         /\ \A i \in Replies : toHost[i].gen < projGen
    /\ \A i \in Projected : viewGen < toView[i].gen /\ toView[i].gen <= projGen
    /\ \A i, k \in Projected : i < k => toView[i].gen < toView[k].gen
    /\ \A i \in Snapshots : toHost[i].gen <= viewGen
    /\ \A i \in Replies :
         /\ toHost[i].gen <= projGen
         /\ toHost[i].applied => toHost[i].gen <= viewGen
         /\ ~toHost[i].applied =>
              viewGen # toHost[i].gen /\ \A k \in Snapshots : toHost[k].gen # toHost[i].gen
         /\ \A k \in Projected : toHost[i].gen < toView[k].gen
    /\ \A i, k \in Replies : i < k => toHost[i].gen < toHost[k].gen

(* After the n-th message, generation g has no revision below v any more. *)
Floor(n, g, v) ==
    /\ \A k \in Snapshots : n < k /\ toHost[k].gen = g => v <= toHost[k].rev
    /\ viewGen = g => v <= viewRev

(* The revisions of a generation only grow, and one that was passed over   *)
(* when the webview refused a projection is known to the host by then.     *)
MailFresh ==
    /\ \A i \in Snapshots : Floor(i, toHost[i].gen, toHost[i].rev)
    /\ \A i \in Replies : ~toHost[i].applied =>
         \A g \in Nat : g < toHost[i].gen => Floor(i, g, toHost[i].rev)

(* Nothing of the active generation that still comes is stale. *)
HostFresh ==
    /\ Floor(0, activeGen, editRev)
    /\ \A i \in Persists : jobs[i].sn = sequence => Floor(0, activeGen, jobs[i].rev)

(* ... and nothing of the generation that is to become the active one. *)
NextFresh ==
    pending # None =>
      /\ Floor(0, projGen, editRev)
      /\ \A i \in Projected : toView[i].gen = projGen => toView[i].rev = editRev
      /\ \A i \in Replies : toHost[i].gen = projGen /\ toHost[i].applied => toHost[i].rev = editRev

FreshInv == MailFresh /\ HostFresh /\ NextFresh

-----------------------------------------------------------------------------
(* How the channels move: the first messages go, and one may come. *)

(* The answer of the webview to the projection it reads. *)
Answers(x) ==
    /\ 1 \in Projected /\ \A i \in DOMAIN toView' : i + 1 \in DOMAIN toView /\ toView'[i] = toView[i + 1]
    /\ x.gen = toView[1].gen /\ x.rev = viewRev'
    /\ x.applied => viewGen' = x.gen
    /\ ~x.applied => viewGen' = viewGen

HostStep(d) ==
    \A i \in DOMAIN toHost' :
      \/ i + d \in DOMAIN toHost /\ toHost'[i] = toHost[i + d]
      \/ /\ d = 0 /\ i = Len(toHost) + 1
         /\ toHost'[i].type = "persist" => toHost'[i].gen = viewGen' /\ toHost'[i].rev = viewRev'
         /\ toHost'[i].type = "reload" => Answers(toHost'[i])

(* The webview goes on in its generation, or takes one nobody has seen. *)
WebStep ==
    \/ viewGen' = viewGen /\ viewRev <= viewRev'
    \/ viewGen < viewGen' /\ \A i \in Replies : toHost[i].gen < viewGen'

LEMMA MailKinds ==
    ASSUME TypeInv
    PROVE  /\ toHost \in Seq(Messages) /\ Len(toHost) \in Nat
           /\ \A i \in DOMAIN toHost : i \in Nat /\ i >= 1 /\ i <= Len(toHost)
           /\ \A i \in Snapshots : /\ i \in Nat /\ toHost[i] \in PersistMessages
                                   /\ toHost[i].gen \in Nat /\ toHost[i].rev \in Nat
           /\ \A i \in Replies : /\ i \in Nat /\ toHost[i] \in ReloadMessages
                                 /\ toHost[i].gen \in Nat /\ toHost[i].rev \in Nat
           /\ viewGen \in Nat /\ viewRev \in Nat /\ projGen \in Nat /\ activeGen \in Nat
           /\ editRev \in Nat
<1>1. toHost \in Seq(Messages)
  BY MailFacts
<1>2. \A i \in DOMAIN toHost : i \in Nat /\ i >= 1 /\ i <= Len(toHost) /\ toHost[i] \in Messages
  BY <1>1
<1>3. \A m \in Messages : /\ m.gen \in Nat /\ m.rev \in Nat
                          /\ m.type = "persist" => m \in PersistMessages
                          /\ m.type = "reload" => m \in ReloadMessages
  BY DEF Messages, PersistMessages, ReloadMessages
<1> QED
  BY <1>1, <1>2, <1>3, MailFacts DEF Snapshots, Replies, TypeInv, Scalars, ViewType, SessionType

LEMMA FloorMoves ==
    ASSUME TypeInv, TypeInv', NEW d \in {0, 1}, HostStep(d), NEW n \in Nat, NEW g \in Nat, NEW v \in Nat,
           Floor(n + d, g, v), viewGen' = g => viewGen = g /\ viewRev <= viewRev'
    PROVE  Floor(n, g, v)'
<1>0. /\ \A i \in DOMAIN toHost' : i \in Nat
      /\ viewRev \in Nat /\ viewRev' \in Nat
  <2>1. toHost' \in Seq(Messages')
    BY DEF TypeInv, MailType
  <2> QED
    BY <2>1 DEF TypeInv, Scalars, ViewType
<1>1. ASSUME NEW k \in Snapshots', n < k, toHost'[k].gen = g PROVE v <= toHost'[k].rev
  <2>1. k \in DOMAIN toHost' /\ toHost'[k].type = "persist"
    BY DEF Snapshots
  <2>2. CASE k + d \in DOMAIN toHost /\ toHost'[k] = toHost[k + d]
    <3>1. k + d \in Snapshots /\ n + d < k + d
      BY <1>0, <1>1, <2>1, <2>2 DEF Snapshots
    <3> QED
      BY <1>1, <2>2, <3>1 DEF Floor
  <2>3. CASE toHost'[k].gen = viewGen' /\ toHost'[k].rev = viewRev'
    BY <1>0, <1>1, <2>3 DEF Floor
  <2> QED
    BY <2>1, <2>2, <2>3 DEF HostStep
<1>2. viewGen' = g => v <= viewRev'
  BY <1>0 DEF Floor
<1> QED
  BY <1>1, <1>2 DEF Floor

LEMMA FloorLower ==
    ASSUME TypeInv, NEW n \in Nat, NEW i \in Nat, n <= i, NEW g, NEW v \in Nat, Floor(n, g, v)
    PROVE  Floor(i, g, v)
BY MailKinds DEF Floor

LEMMA MailFreshMoves ==
    ASSUME TypeInv, TypeInv', WayInv, MailFresh, NEW d \in {0, 1}, HostStep(d), WebStep
    PROVE  MailFresh'
<1>0. /\ \A i \in DOMAIN toHost' : i \in Nat
      /\ viewRev \in Nat /\ viewRev' \in Nat /\ viewGen \in Nat /\ viewGen' \in Nat /\ Len(toHost) \in Nat
  <2>1. toHost' \in Seq(Messages')
    BY DEF TypeInv, MailType
  <2> QED
    BY <2>1, MailKinds DEF TypeInv, Scalars, ViewType
<1>1. ASSUME NEW i, i = Len(toHost) + 1, d = 0, NEW g \in Nat, NEW v, v = viewRev'
      PROVE  Floor(i, g, v)'
  <2>1. \A k \in DOMAIN toHost' : ~(i < k)
    BY <1>0, <1>1, MailKinds DEF HostStep
  <2> QED
    BY <1>0, <1>1, <2>1 DEF Floor, Snapshots
<1>2. ASSUME NEW i \in Snapshots' PROVE Floor(i, toHost[i].gen, toHost[i].rev)'
  <2>1. i \in DOMAIN toHost' /\ toHost'[i].type = "persist" /\ i \in Nat
    BY <1>0 DEF Snapshots
  <2>2. CASE i + d \in DOMAIN toHost /\ toHost'[i] = toHost[i + d]
    <3>0. PICK g, v : g = toHost[i + d].gen /\ v = toHost[i + d].rev
      OBVIOUS
    <3>1. i + d \in Snapshots /\ g \in Nat /\ v \in Nat /\ g <= viewGen /\ Floor(i + d, g, v)
      BY <2>1, <2>2, <3>0, MailKinds DEF Snapshots, WayInv, MailFresh
    <3>2. viewGen' = g => viewGen = g /\ viewRev <= viewRev'
      BY <1>0, <3>1 DEF WebStep
    <3>3. Floor(i, g, v)'
      BY <2>1, <3>1, <3>2, FloorMoves
    <3> QED
      BY <2>2, <3>0, <3>3 DEF Floor
  <2>3. CASE d = 0 /\ i = Len(toHost) + 1 /\ toHost'[i].gen = viewGen' /\ toHost'[i].rev = viewRev'
    <3>0. PICK g, v : g = viewGen' /\ v = viewRev'
      OBVIOUS
    <3>1. Floor(i, g, v)'
      BY <1>0, <1>1, <2>3, <3>0
    <3> QED
      BY <2>3, <3>0, <3>1 DEF Floor
  <2> QED
    BY <2>1, <2>2, <2>3 DEF HostStep
<1>3. ASSUME NEW i \in Replies', ~toHost'[i].applied, NEW g \in Nat, g < toHost'[i].gen
      PROVE  Floor(i, g, toHost[i].rev)'
  <2>1. i \in DOMAIN toHost' /\ toHost'[i].type = "reload" /\ i \in Nat
    BY <1>0 DEF Replies
  <2>2. CASE i + d \in DOMAIN toHost /\ toHost'[i] = toHost[i + d]
    <3>0. PICK v : v = toHost[i + d].rev
      OBVIOUS
    <3>1. /\ i + d \in Replies /\ v \in Nat /\ toHost[i + d].gen \in Nat /\ Floor(i + d, g, v)
          /\ g < toHost[i + d].gen
      BY <1>3, <2>1, <2>2, <3>0, MailKinds DEF Replies, MailFresh
    <3>2. viewGen' = g => viewGen = g /\ viewRev <= viewRev'
      BY <1>0, <3>1 DEF WebStep
    <3>3. Floor(i, g, v)'
      BY <2>1, <3>1, <3>2, FloorMoves
    <3> QED
      BY <2>2, <3>0, <3>3 DEF Floor
  <2>3. CASE d = 0 /\ i = Len(toHost) + 1 /\ toHost'[i].rev = viewRev'
    <3>0. PICK v : v = viewRev'
      OBVIOUS
    <3>1. Floor(i, g, v)'
      BY <1>1, <2>3, <3>0
    <3> QED
      BY <2>3, <3>0, <3>1 DEF Floor
  <2> QED
    BY <1>3, <2>1, <2>2, <2>3 DEF HostStep, Answers
<1> QED
  BY <1>2, <1>3 DEF MailFresh

ViewStep ==
    \E e \in {0, 1} : \A i \in DOMAIN toView' :
      \/ i + e \in DOMAIN toView /\ toView'[i] = toView[i + e]
      \/ /\ e = 0 /\ i = Len(toView) + 1
         /\ toView'[i].type = "data" => /\ Preparing /\ ~Preparing'
                                        /\ toView'[i].gen = projGen /\ toView'[i].rev = editRev

(* The webview goes on, or takes the projection it reads. *)
WebGoes ==
    \/ viewGen' = viewGen /\ viewRev <= viewRev'
    \/ /\ 1 \in Projected /\ viewGen' = toView[1].gen /\ viewRev' = toView[1].rev
       /\ \A i \in DOMAIN toView' : i + 1 \in DOMAIN toView /\ toView'[i] = toView[i + 1]

MailStep(d) == HostStep(d) /\ ViewStep /\ WebGoes

(* The generations of the projections go up, and the host follows the      *)
(* webview.                                                                *)
ProjGoes ==
    /\ projGen <= projGen' /\ activeGen' <= viewGen'
    /\ pending' # None => pending'.gen = projGen' /\ activeGen' < projGen'
    /\ Preparing' => projGen < projGen' \/ (Preparing /\ projGen' = projGen)

LEMMA ViewKinds ==
    ASSUME TypeInv
    PROVE  /\ toView \in Seq(Requests) /\ Len(toView) \in Nat
           /\ \A i \in DOMAIN toView : i \in Nat /\ i >= 1 /\ i <= Len(toView)
           /\ \A i \in Projected : i \in Nat /\ toView[i].gen \in Nat /\ toView[i].rev \in Nat
<1>1. toView \in Seq(Requests) /\ \A i \in Projected : toView[i] \in DataRequests
  BY MailFacts
<1>2. \A m \in DataRequests : m.gen \in Nat /\ m.rev \in Nat
  BY DEF DataRequests
<1> QED
  BY <1>1, <1>2 DEF Projected

(* The projection at the head of the channel is newer than anything the    *)
(* webview has seen or answered.                                           *)
LEMMA WebTakes ==
    ASSUME TypeInv, TypeInv', WayInv, WebGoes
    PROVE  WebStep /\ viewGen <= viewGen' /\ viewGen' <= projGen
BY MailKinds, ViewKinds DEF WayInv, WebGoes, WebStep, TypeInv, Scalars, ViewType

LEMMA ViewMoves ==
    ASSUME TypeInv, TypeInv', WayInv, ViewStep, WebGoes, projGen <= projGen'
    PROVE  /\ \A i \in Projected' : viewGen' < toView'[i].gen /\ toView'[i].gen <= projGen'
           /\ \A i, k \in Projected' : i < k => toView'[i].gen < toView'[k].gen
           /\ \A i \in Projected' : \/ Preparing /\ ~Preparing' /\ toView'[i].gen = projGen
                                    \/ \E k \in Projected : toView'[i] = toView[k]
<1>0. /\ \A i \in DOMAIN toView' : i \in Nat
      /\ viewGen \in Nat /\ viewGen' \in Nat /\ projGen \in Nat /\ projGen' \in Nat
  <2>1. toView' \in Seq(Requests')
    BY DEF TypeInv, MailType
  <2> QED
    BY <2>1 DEF TypeInv, Scalars, ViewType, ProjType
<1>1. PICK e \in {0, 1} : \A i \in DOMAIN toView' :
        \/ i + e \in DOMAIN toView /\ toView'[i] = toView[i + e]
        \/ /\ e = 0 /\ i = Len(toView) + 1
           /\ toView'[i].type = "data" => /\ Preparing /\ ~Preparing'
                                          /\ toView'[i].gen = projGen /\ toView'[i].rev = editRev
  BY DEF ViewStep
<1>2. \A i \in Projected' : i \in DOMAIN toView' /\ toView'[i].type = "data" /\ i \in Nat
  BY <1>0 DEF Projected
<1>3. \A i \in Projected' :
        \/ i + e \in Projected /\ toView'[i] = toView[i + e]
        \/ /\ e = 0 /\ i = Len(toView) + 1 /\ Preparing /\ ~Preparing'
           /\ toView'[i].gen = projGen
  BY <1>1, <1>2 DEF Projected
<1>4. ASSUME NEW i \in Projected' PROVE viewGen' < toView'[i].gen /\ toView'[i].gen <= projGen'
  <2>1. CASE e = 0 /\ i = Len(toView) + 1 /\ Preparing /\ toView'[i].gen = projGen
    <3>1. CASE viewGen' = viewGen
      BY <1>0, <2>1, <3>1 DEF WayInv
    <3>2. CASE 1 \in Projected /\ viewGen' = toView[1].gen
      BY <1>0, <2>1, <3>2 DEF WayInv
    <3> QED
      BY <3>1, <3>2 DEF WebGoes
  <2>2. CASE i + e \in Projected /\ toView'[i] = toView[i + e]
    <3>1. viewGen < toView[i + e].gen /\ toView[i + e].gen <= projGen /\ toView[i + e].gen \in Nat
      BY <2>2, ViewKinds DEF WayInv
    <3>2. CASE viewGen' = viewGen
      BY <1>0, <2>2, <3>1, <3>2
    <3>3. CASE /\ 1 \in Projected /\ viewGen' = toView[1].gen
               /\ \A k \in DOMAIN toView' : k + 1 \in DOMAIN toView /\ toView'[k] = toView[k + 1]
      <4>1. i + 1 \in Projected /\ toView'[i] = toView[i + 1] /\ 1 < i + 1
        <5>1. i \in Nat /\ i >= 1
          <6>1. toView' \in Seq(Requests') /\ i \in DOMAIN toView'
            BY <1>2 DEF TypeInv, MailType
          <6> QED
            BY <6>1
        <5> QED
          BY <1>2, <3>3, <5>1 DEF Projected
      <4> QED
        BY <1>0, <3>1, <2>2, <3>3, <4>1 DEF WayInv
    <3> QED
      BY <3>2, <3>3 DEF WebGoes
  <2> QED
    BY <1>3, <2>1, <2>2
<1>5. ASSUME NEW i \in Projected', NEW k \in Projected', i < k PROVE toView'[i].gen < toView'[k].gen
  <2>1. CASE k + e \in Projected /\ toView'[k] = toView[k + e]
    <3>0. k + e \in DOMAIN toView
      BY <2>1 DEF Projected
    <3>1. i + e \in Projected /\ toView'[i] = toView[i + e] /\ i + e < k + e
      BY <1>2, <1>3, <1>5, <3>0, ViewKinds
    <3> QED
      BY <2>1, <3>1 DEF WayInv
  <2>2. CASE e = 0 /\ k = Len(toView) + 1 /\ Preparing /\ toView'[k].gen = projGen
    <3>1. i \in Projected /\ toView'[i] = toView[i]
      BY <1>2, <1>3, <1>5, <2>2, ViewKinds
    <3> QED
      BY <2>2, <3>1 DEF WayInv
  <2> QED
    BY <1>3, <2>1, <2>2
<1> QED
  BY <1>3, <1>4, <1>5

LEMMA HostFrom ==
    ASSUME TypeInv, TypeInv', NEW d \in {0, 1}, HostStep(d)
    PROVE  /\ \A i \in Snapshots' : /\ i \in Nat
                                    /\ \/ i + d \in Snapshots /\ toHost'[i] = toHost[i + d]
                                       \/ i = Len(toHost) + 1 /\ toHost'[i].gen = viewGen'
           /\ \A i \in Replies' : /\ i \in Nat
                                  /\ \/ i + d \in Replies /\ toHost'[i] = toHost[i + d]
                                     \/ d = 0 /\ i = Len(toHost) + 1 /\ Answers(toHost'[i])
<1>1. \A i \in DOMAIN toHost' : i \in Nat
  <2>1. toHost' \in Seq(Messages')
    BY DEF TypeInv, MailType
  <2> QED
    BY <2>1
<1>2. \A i \in Snapshots' : i \in DOMAIN toHost' /\ toHost'[i].type = "persist"
  BY DEF Snapshots
<1>3. \A i \in Replies' : i \in DOMAIN toHost' /\ toHost'[i].type = "reload"
  BY DEF Replies
<1> QED
  BY <1>1, <1>2, <1>3 DEF HostStep, Snapshots, Replies

LEMMA SnapshotsBehind ==
    ASSUME TypeInv, TypeInv', WayInv, NEW d \in {0, 1}, HostStep(d), WebGoes
    PROVE  \A i \in Snapshots' : toHost'[i].gen <= viewGen'
<1>1. viewGen <= viewGen' /\ viewGen' \in Nat
  BY WebTakes DEF TypeInv, Scalars, ViewType
<1> QED
  BY <1>1, HostFrom, MailKinds DEF WayInv

(* An answer is newer than the answers before it, and older than what the  *)
(* webview has not read yet.                                               *)
LEMMA RepliesBetween ==
    ASSUME TypeInv, TypeInv', WayInv, NEW d \in {0, 1}, MailStep(d), projGen <= projGen'
    PROVE  /\ \A i \in Replies' :
                /\ toHost'[i].gen <= projGen'
                /\ toHost'[i].applied => toHost'[i].gen <= viewGen'
                /\ ~toHost'[i].applied =>
                     viewGen' # toHost'[i].gen /\ \A k \in Snapshots' : toHost'[k].gen # toHost'[i].gen
                /\ \A k \in Projected' : toHost'[i].gen < toView'[k].gen
           /\ \A i, k \in Replies' : i < k => toHost'[i].gen < toHost'[k].gen
           /\ \A i \in Replies' : \/ \E k \in Replies : toHost'[i] = toHost[k]
                                  \/ \E k \in Projected : toHost'[i].gen = toView[k].gen
<1>0. /\ HostStep(d) /\ ViewStep /\ WebGoes /\ WebStep /\ viewGen <= viewGen' /\ viewGen' <= projGen
      /\ viewGen \in Nat /\ viewGen' \in Nat /\ projGen \in Nat /\ projGen' \in Nat
  BY WebTakes DEF MailStep, TypeInv, Scalars, ViewType, ProjType
<1>1. \A i \in Replies : toHost[i].gen \in Nat /\ \A k \in Projected : toView[k].gen \in Nat
  BY MailKinds, ViewKinds
<1>2. ASSUME NEW i \in Replies', i + d \in Replies, toHost'[i] = toHost[i + d]
      PROVE  /\ toHost'[i].gen <= projGen'
             /\ toHost'[i].applied => toHost'[i].gen <= viewGen'
             /\ ~toHost'[i].applied =>
                  viewGen' # toHost'[i].gen /\ \A k \in Snapshots' : toHost'[k].gen # toHost'[i].gen
             /\ \A k \in Projected' : toHost'[i].gen < toView'[k].gen
  <2>0. PICK x : x = toHost[i + d]
    OBVIOUS
  <2>1. /\ x.gen \in Nat /\ x.gen <= projGen /\ (x.applied => x.gen <= viewGen)
        /\ ~x.applied => viewGen # x.gen /\ \A k \in Snapshots : toHost[k].gen # x.gen
        /\ \A k \in Projected : x.gen < toView[k].gen
    BY <1>1, <1>2, <2>0 DEF WayInv
  <2>2. ~x.applied => viewGen' # x.gen
    BY <1>0, <1>2, <2>0, <2>1 DEF WebStep
  <2>3. ~x.applied => \A k \in Snapshots' : toHost'[k].gen # x.gen
    BY <1>0, <2>1, <2>2, HostFrom
  <2>4. \A k \in Projected' : x.gen < toView'[k].gen
    <3>1. Preparing => x.gen < projGen
      BY <1>2, <2>0 DEF WayInv
    <3> QED
      BY <1>0, <2>1, <3>1, ViewMoves
  <2> QED
    BY <1>0, <1>2, <2>0, <2>1, <2>2, <2>3, <2>4
<1>3. ASSUME NEW i \in Replies', d = 0, i = Len(toHost) + 1, Answers(toHost'[i])
      PROVE  /\ toHost'[i].gen <= projGen'
             /\ toHost'[i].applied => toHost'[i].gen <= viewGen'
             /\ ~toHost'[i].applied =>
                  viewGen' # toHost'[i].gen /\ \A k \in Snapshots' : toHost'[k].gen # toHost'[i].gen
             /\ \A k \in Projected' : toHost'[i].gen < toView'[k].gen
  <2>0. PICK x : x = toHost'[i]
    OBVIOUS
  <2>1. 1 \in Projected /\ x.gen = toView[1].gen /\ x.gen \in Nat /\ viewGen < x.gen /\ x.gen <= projGen
    BY <1>3, <2>0, ViewKinds DEF Answers, WayInv
  <2>2. (x.applied => viewGen' = x.gen) /\ (~x.applied => viewGen' = viewGen)
    BY <1>3, <2>0 DEF Answers
  <2>3. \A k \in Snapshots' : ~x.applied => toHost'[k].gen <= viewGen
    BY <1>0, <2>2, SnapshotsBehind
  <2>4. \A k \in Snapshots' : toHost'[k].gen \in Nat
    BY <1>0, HostFrom, MailKinds
  <2>5. \A k \in Projected' : x.gen < toView'[k].gen
    <3>1. \A k \in Projected' : k \in DOMAIN toView' /\ toView'[k].type = "data" /\ k \in Nat /\ k >= 1
      <4>1. toView' \in Seq(Requests')
        BY DEF TypeInv, MailType
      <4> QED
        BY <4>1 DEF Projected
    <3>2. \A k \in Projected' : k + 1 \in Projected /\ toView'[k] = toView[k + 1] /\ 1 < k + 1
      BY <1>3, <3>1 DEF Answers, Projected
    <3> QED
      BY <2>1, <3>2 DEF WayInv
  <2> QED
    BY <1>0, <2>0, <2>1, <2>2, <2>3, <2>4, <2>5
<1>4. ASSUME NEW i \in Replies', NEW k \in Replies', i < k PROVE toHost'[i].gen < toHost'[k].gen
  <2>0. i \in Nat /\ k \in Nat /\ Len(toHost) \in Nat /\ \A a \in Replies : a <= Len(toHost)
    BY <1>0, HostFrom, MailKinds DEF Replies
  <2>1. CASE k + d \in Replies /\ toHost'[k] = toHost[k + d]
    <3>1. i + d \in Replies /\ toHost'[i] = toHost[i + d] /\ i + d < k + d
      BY <1>0, <1>4, <2>0, <2>1, HostFrom
    <3> QED
      BY <2>1, <3>1 DEF WayInv
  <2>2. CASE d = 0 /\ k = Len(toHost) + 1 /\ Answers(toHost'[k])
    <3>1. i \in Replies /\ toHost'[i] = toHost[i]
      BY <1>0, <1>4, <2>0, <2>2, HostFrom
    <3> QED
      BY <2>2, <3>1 DEF WayInv, Answers
  <2> QED
    BY <1>0, <2>1, <2>2, HostFrom
<1>5. \A i \in Replies' : \/ \E k \in Replies : toHost'[i] = toHost[k]
                          \/ \E k \in Projected : toHost'[i].gen = toView[k].gen
  BY <1>0, HostFrom DEF Answers
<1> QED
  BY <1>0, <1>2, <1>3, <1>4, <1>5, HostFrom

LEMMA WayMoves ==
    ASSUME TypeInv, TypeInv', WayInv, NEW d \in {0, 1}, MailStep(d), ProjGoes
    PROVE  WayInv'
<1>0. /\ HostStep(d) /\ ViewStep /\ WebGoes /\ projGen <= projGen' /\ viewGen <= viewGen' /\ viewGen' <= projGen
      /\ viewGen \in Nat /\ viewGen' \in Nat /\ projGen \in Nat /\ projGen' \in Nat
      /\ activeGen' <= viewGen'
  BY WebTakes DEF MailStep, ProjGoes, TypeInv, Scalars, ViewType, ProjType
<1>1. ASSUME Preparing'
      PROVE  /\ viewGen' < projGen'
             /\ \A i \in Projected' : toView'[i].gen < projGen'
             /\ \A i \in Replies' : toHost'[i].gen < projGen'
  <2>1. \A k \in Projected : toView[k].gen \in Nat /\ toView[k].gen <= projGen
    BY ViewKinds DEF WayInv
  <2>2. \A k \in Replies : toHost[k].gen \in Nat /\ toHost[k].gen <= projGen
    BY MailKinds DEF WayInv
  <2>3. \A i \in Projected' : \E k \in Projected : toView'[i] = toView[k]
    BY <1>0, <1>1, ViewMoves
  <2>4. \A i \in Replies' : \/ \E k \in Replies : toHost'[i] = toHost[k]
                            \/ \E k \in Projected : toHost'[i].gen = toView[k].gen
    BY <1>0, RepliesBetween
  <2>5. CASE projGen < projGen'
    BY <1>0, <2>1, <2>2, <2>3, <2>4, <2>5
  <2>6. CASE Preparing /\ projGen' = projGen
    <3>1. /\ viewGen < projGen /\ \A i \in Projected : toView[i].gen < projGen
          /\ \A i \in Replies : toHost[i].gen < projGen
      BY <2>6 DEF WayInv
    <3>2. viewGen' < projGen
      BY <1>0, <3>1 DEF WebGoes
    <3> QED
      BY <2>3, <2>4, <2>6, <3>1, <3>2
  <2> QED
    BY <1>1, <2>5, <2>6 DEF ProjGoes
<1>2. /\ activeGen' <= viewGen' /\ viewGen' <= projGen'
      /\ pending' # None => pending'.gen = projGen' /\ activeGen' < projGen'
  BY <1>0 DEF ProjGoes
<1>3. /\ \A i \in Projected' : viewGen' < toView'[i].gen /\ toView'[i].gen <= projGen'
      /\ \A i, k \in Projected' : i < k => toView'[i].gen < toView'[k].gen
  BY <1>0, ViewMoves
<1>4. \A i \in Snapshots' : toHost'[i].gen <= viewGen'
  BY <1>0, SnapshotsBehind
<1> QED
  BY <1>0, <1>1, <1>2, <1>3, <1>4, RepliesBetween DEF WayInv

(* A generation the webview has reached keeps its floor. *)
LEMMA FloorOn ==
    ASSUME TypeInv, TypeInv', WayInv, NEW d \in {0, 1}, MailStep(d), NEW g \in Nat, NEW v \in Nat,
           g <= viewGen, Floor(0, g, v) \/ (d = 1 /\ Floor(1, g, v))
    PROVE  Floor(0, g, v)'
<1>1. Floor(0 + d, g, v)
  BY FloorLower
<1>2. WebStep /\ HostStep(d) /\ viewGen \in Nat /\ viewGen' \in Nat
  BY WebTakes DEF MailStep, TypeInv, Scalars, ViewType
<1>3. viewGen' = g => viewGen = g /\ viewRev <= viewRev'
  BY <1>2 DEF WebStep
<1> QED
  BY <1>1, <1>2, <1>3, FloorMoves

(* One it has not reached has none. *)
LEMMA FloorFree ==
    ASSUME TypeInv, TypeInv', WayInv, NEW d \in {0, 1}, MailStep(d), NEW g \in Nat, NEW v, viewGen' < g
    PROVE  Floor(0, g, v)'
<1>1. \A i \in Snapshots' : toHost'[i].gen <= viewGen' /\ toHost'[i].gen \in Nat
  <2>1. \A i \in Snapshots' : toHost'[i].gen \in Nat
    BY HostFrom, MailKinds DEF MailStep, TypeInv, Scalars, ViewType
  <2> QED
    BY <2>1, SnapshotsBehind DEF MailStep
<1>2. viewGen' \in Nat
  BY DEF TypeInv, Scalars, ViewType
<1> QED
  BY <1>1, <1>2 DEF Floor

(* The projection that was made for the revision the host knows brings the *)
(* webview to that revision.                                               *)
LEMMA FloorReached ==
    ASSUME TypeInv, TypeInv', WayInv, NEW d \in {0, 1}, MailStep(d), NEW v \in Nat,
           viewGen < viewGen', viewRev' = v
    PROVE  Floor(0, viewGen, v)'
<1>0. viewGen \in Nat /\ viewGen' \in Nat /\ viewRev' \in Nat
  BY DEF TypeInv, Scalars, ViewType
<1>1. ASSUME NEW i \in Snapshots', toHost'[i].gen = viewGen' PROVE v <= toHost'[i].rev
  <2>1. i \in DOMAIN toHost' /\ toHost'[i].type = "persist"
    BY DEF Snapshots
  <2>2. ~(i + d \in DOMAIN toHost /\ toHost'[i] = toHost[i + d])
    <3>1. ASSUME i + d \in DOMAIN toHost, toHost'[i] = toHost[i + d] PROVE FALSE
      <4>1. i + d \in Snapshots
        BY <2>1, <3>1 DEF Snapshots
      <4>2. toHost[i + d].gen <= viewGen
        BY <4>1 DEF WayInv
      <4> QED
        BY <1>0, <1>1, <3>1, <4>2
    <3> QED
      BY <3>1
  <2>3. toHost'[i].rev = viewRev'
    BY <2>1, <2>2 DEF MailStep, HostStep
  <2> QED
    BY <1>0, <2>3
<1> QED
  BY <1>0, <1>1 DEF Floor

LEMMA NextFreshMoves ==
    ASSUME TypeInv, TypeInv', WayInv, NextFresh, NEW d \in {0, 1}, MailStep(d), projGen <= projGen',
           pending' # None => \/ pending # None /\ projGen' = projGen /\ editRev' = editRev
                              \/ projGen < projGen'
    PROVE  NextFresh'
<1> SUFFICES ASSUME pending' # None
             PROVE  /\ Floor(0, projGen, editRev)'
                    /\ \A i \in Projected' : toView'[i].gen = projGen' => toView'[i].rev = editRev'
                    /\ \A i \in Replies' : toHost'[i].gen = projGen' /\ toHost'[i].applied =>
                                             toHost'[i].rev = editRev'
  BY DEF NextFresh
<1>0. /\ HostStep(d) /\ ViewStep /\ WebGoes /\ viewGen <= viewGen' /\ viewGen' <= projGen
      /\ viewGen \in Nat /\ viewGen' \in Nat /\ projGen \in Nat /\ projGen' \in Nat /\ editRev \in Nat
      /\ editRev' \in Nat
  BY WebTakes DEF MailStep, TypeInv, Scalars, ViewType, ProjType, SessionType
<1>1. PICK g, v : g = projGen' /\ v = editRev'
  OBVIOUS
<1>2. \A k \in Projected : toView[k].gen \in Nat /\ toView[k].gen <= projGen /\ viewGen < toView[k].gen
  BY ViewKinds DEF WayInv
<1>3. \A k \in Replies : toHost[k].gen \in Nat /\ toHost[k].gen <= projGen
  BY MailKinds DEF WayInv
<1>4. \A i \in Replies' : \/ \E k \in Replies : toHost'[i] = toHost[k]
                          \/ /\ 1 \in Projected /\ toHost'[i].gen = toView[1].gen /\ toHost'[i].rev = viewRev'
                             /\ toHost'[i].applied => viewGen' = toView[1].gen
  BY <1>0, HostFrom DEF Answers
<1>5. \A i \in Projected' : \/ Preparing /\ toView'[i].gen = projGen /\ toView'[i].rev = editRev
                            \/ \E k \in Projected : toView'[i] = toView[k]
  BY <1>0 DEF ViewStep, Projected
<1>6. CASE projGen < projGen'
  <2>1. Floor(0, g, v)'
    BY <1>0, <1>1, <1>6, FloorFree
  <2>2. \A i \in Projected' : toView'[i].gen # projGen'
    BY <1>0, <1>2, <1>5, <1>6
  <2>3. \A i \in Replies' : toHost'[i].gen # projGen'
    BY <1>0, <1>2, <1>3, <1>4, <1>6
  <2> QED
    BY <1>1, <2>1, <2>2, <2>3 DEF Floor
<1>7. CASE pending # None /\ projGen' = projGen /\ editRev' = editRev
  <2>0. /\ Floor(0, projGen, editRev)
        /\ \A i \in Projected : toView[i].gen = projGen => toView[i].rev = editRev
        /\ \A i \in Replies : toHost[i].gen = projGen /\ toHost[i].applied => toHost[i].rev = editRev
    BY <1>7 DEF NextFresh
  <2>1. 1 \in Projected /\ viewGen' = toView[1].gen => viewRev' = toView[1].rev
    BY <1>0, <1>2 DEF WebGoes
  <2>2. Floor(0, g, v)'
    <3>1. CASE projGen <= viewGen
      BY <1>0, <1>1, <1>7, <2>0, <3>1, FloorOn
    <3>2. CASE viewGen' < projGen
      BY <1>0, <1>1, <1>7, <3>2, FloorFree
    <3>3. CASE viewGen < projGen /\ viewGen' = projGen
      <4>1. viewRev' = v
        BY <1>0, <1>1, <1>7, <2>0, <3>3 DEF WebGoes
      <4>2. Floor(0, viewGen, v)'
        BY <1>0, <1>1, <1>7, <3>3, <4>1, FloorReached
      <4> QED
        BY <1>1, <1>7, <3>3, <4>2 DEF Floor
    <3> QED
      BY <1>0, <3>1, <3>2, <3>3
  <2>3. \A i \in Projected' : toView'[i].gen = projGen' => toView'[i].rev = editRev'
    BY <1>5, <1>7, <2>0
  <2>4. \A i \in Replies' : toHost'[i].gen = projGen' /\ toHost'[i].applied => toHost'[i].rev = editRev'
    BY <1>4, <1>7, <2>0, <2>1
  <2> QED
    BY <1>1, <2>2, <2>3, <2>4 DEF Floor
<1> QED
  BY <1>6, <1>7

LEMMA HostFreshMoves ==
    ASSUME TypeInv, TypeInv', WayInv, HostFresh, NEW d \in {0, 1}, MailStep(d),
           UNCHANGED <<activeGen, editRev>>,
           \A i \in Persists' : jobs'[i].sn = sequence' =>
             \/ \E k \in Persists : jobs[k].sn = sequence /\ jobs'[i].rev = jobs[k].rev
             \/ d = 1 /\ Floor(1, activeGen, jobs'[i].rev)
    PROVE  HostFresh'
<1>0. activeGen \in Nat /\ editRev \in Nat /\ activeGen <= viewGen
  BY DEF TypeInv, Scalars, ProjType, SessionType, WayInv
<1>1. PICK g, v : g = activeGen /\ v = editRev
  OBVIOUS
<1>2. Floor(0, g, v)'
  BY <1>0, <1>1, FloorOn DEF HostFresh
<1>3. ASSUME NEW i \in Persists', jobs'[i].sn = sequence' PROVE Floor(0, activeGen, jobs[i].rev)'
  <2>0. PICK w : w = jobs'[i].rev
    OBVIOUS
  <2>1. w \in Nat
    <3>1. jobs' \in Seq(Jobs') /\ i \in DOMAIN jobs' /\ jobs'[i].kind = "persist"
      BY DEF TypeInv, MailType, Persists
    <3>2. jobs'[i] \in Jobs'
      BY <3>1
    <3> QED
      BY <2>0, <3>1, <3>2 DEF Jobs
  <2>2. Floor(0, g, w) \/ (d = 1 /\ Floor(1, g, w))
    BY <1>1, <1>3, <2>0 DEF HostFresh
  <2>3. Floor(0, g, w)'
    BY <1>0, <1>1, <2>1, <2>2, FloorOn
  <2> QED
    BY <1>1, <2>0, <2>3 DEF Floor
<1> QED
  BY <1>1, <1>2, <1>3 DEF HostFresh, Floor

-----------------------------------------------------------------------------
(* The queue. *)

Kin(a, b) == Sanitize(a) = Sanitize(b)

Turned == {i \in DOMAIN jobs : jobs[i].kind # "save"}

(* Only the head has begun; persists and repairs are in the order of their *)
(* admission, and none of them is current while a projection is pending.   *)
LineInv ==
    /\ \A i \in DOMAIN jobs : i # 1 => jobs[i].stage = "queued"
    /\ \A i \in Turned : jobs[i].sn <= sequence
    /\ \A i \in Persists : /\ pending # None => jobs[i].sn # sequence
                           /\ Kin(jobs[i].copy, jobs[i].meta)
    /\ \A i \in Turned, k \in Persists : i < k => jobs[i].sn < jobs[k].sn

NewJob(x, d) ==
    /\ x.stage = "queued"
    /\ x.kind = "repair" => x.sn <= sequence
    /\ x.kind = "persist" => /\ x.sn = sequence' /\ sequence < sequence' /\ pending' = None
                             /\ x.copy = x.meta
                             /\ d = 1 /\ Floor(1, activeGen, x.rev)

(* The first e jobs go, the head may go on, and one may come. *)
LineStep(e, d) ==
    \A i \in DOMAIN jobs' :
      \/ /\ i + e \in DOMAIN jobs
         /\ \/ jobs'[i] = jobs[i + e]
            \/ /\ i = 1 /\ e = 0
               /\ jobs'[1].kind = jobs[1].kind /\ jobs'[1].sn = jobs[1].sn /\ jobs'[1].rev = jobs[1].rev
               /\ jobs'[1].kind = "persist" => Kin(jobs[1].copy, jobs[1].meta)'
      \/ e = 0 /\ i = Len(jobs) + 1 /\ NewJob(jobs'[i], d)

TurnKept ==
    \/ /\ sequence' = sequence
       /\ pending' # None => pending # None \/ \A i \in Persists : jobs[i].sn # sequence
    \/ sequence < sequence'

(* The policy is not lifted. *)
PolicyGoes == policy # "off" => policy' # "off"

LEMMA KinOn == ASSUME PolicyGoes, NEW a, NEW b, Kin(a, b) PROVE Kin(a, b)'
BY SidecarAssumption DEF PolicyGoes, Kin, Sanitize

LEMMA LineFacts ==
    ASSUME TypeInv
    PROVE  /\ \A i \in DOMAIN jobs : i \in Nat /\ i >= 1 /\ i <= Len(jobs)
           /\ Len(jobs) \in Nat /\ sequence \in Nat /\ Persists \subseteq Turned
           /\ \A i \in Turned : i \in DOMAIN jobs /\ jobs[i].sn \in Nat /\ jobs[i].rev \in Nat
<1>1. \A j \in Jobs : j.kind # "save" => j.sn \in Nat /\ j.rev \in Nat
  BY DEF Jobs
<1> QED
  BY <1>1, JobFacts DEF Turned, Persists

LEMMA LineFrom ==
    ASSUME TypeInv, TypeInv', NEW e \in {0, 1}, NEW d, LineStep(e, d)
    PROVE  /\ \A i \in DOMAIN jobs' : i \in Nat /\ i >= 1
           /\ \A i \in Turned' :
                \/ i + e \in Turned /\ jobs'[i].kind = jobs[i + e].kind
                   /\ jobs'[i].sn = jobs[i + e].sn /\ jobs'[i].rev = jobs[i + e].rev
                \/ e = 0 /\ i = Len(jobs) + 1 /\ NewJob(jobs'[i], d)
<1>1. \A i \in DOMAIN jobs' : i \in Nat /\ i >= 1
  <2>1. jobs' \in Seq(Jobs')
    BY DEF TypeInv, MailType
  <2> QED
    BY <2>1
<1>2. ASSUME NEW i \in Turned'
      PROVE  \/ i + e \in Turned /\ jobs'[i].kind = jobs[i + e].kind
                /\ jobs'[i].sn = jobs[i + e].sn /\ jobs'[i].rev = jobs[i + e].rev
             \/ e = 0 /\ i = Len(jobs) + 1 /\ NewJob(jobs'[i], d)
  <2>1. i \in DOMAIN jobs' /\ jobs'[i].kind # "save"
    BY DEF Turned
  <2>2. CASE i + e \in DOMAIN jobs /\ jobs'[i] = jobs[i + e]
    BY <2>1, <2>2 DEF Turned
  <2>3. CASE /\ i + e \in DOMAIN jobs /\ i = 1 /\ e = 0
             /\ jobs'[1].kind = jobs[1].kind /\ jobs'[1].sn = jobs[1].sn /\ jobs'[1].rev = jobs[1].rev
    <3>1. i + e = 1
      BY <2>3
    <3> QED
      BY <2>1, <2>3, <3>1 DEF Turned
  <2> QED
    BY <2>1, <2>2, <2>3 DEF LineStep
<1> QED
  BY <1>1, <1>2

LEMMA LineMoves ==
    ASSUME TypeInv, TypeInv', LineInv, NEW e \in {0, 1}, NEW d, LineStep(e, d), TurnKept, PolicyGoes
    PROVE  LineInv'
<1>0. sequence \in Nat /\ sequence' \in Nat /\ sequence <= sequence'
  BY DEF TypeInv, Scalars, SessionType, TurnKept
<1>1. ASSUME NEW i \in DOMAIN jobs', i # 1 PROVE jobs'[i].stage = "queued"
  <2>1. i \in Nat /\ i >= 1
    BY LineFrom
  <2>2. CASE i + e \in DOMAIN jobs /\ jobs'[i] = jobs[i + e]
    BY <1>1, <2>1, <2>2 DEF LineInv
  <2> QED
    BY <1>1, <2>2 DEF LineStep, NewJob
<1>2. ASSUME NEW i \in Turned' PROVE jobs'[i].sn <= sequence'
  <2>1. \A k \in Turned : jobs[k].sn \in Nat /\ jobs[k].sn <= sequence
    BY LineFacts DEF LineInv
  <2>2. CASE e = 0 /\ i = Len(jobs) + 1 /\ NewJob(jobs'[i], d)
    <3>1. jobs' \in Seq(Jobs') /\ i \in DOMAIN jobs' /\ jobs'[i].kind # "save"
      BY DEF TypeInv, MailType, Turned
    <3>2. jobs'[i] \in Jobs'
      BY <3>1
    <3>3. jobs'[i].sn \in Nat /\ jobs'[i].kind \in {"persist", "repair"}
      BY <3>1, <3>2 DEF Jobs
    <3> QED
      BY <1>0, <2>2, <3>3 DEF NewJob
  <2>3. CASE i + e \in Turned /\ jobs'[i].sn = jobs[i + e].sn
    BY <1>0, <2>1, <2>3
  <2> QED
    BY <2>2, <2>3, LineFrom
<1>3. \A i \in Persists' : i \in Turned' /\ i \in DOMAIN jobs' /\ jobs'[i].kind = "persist"
  BY DEF Persists, Turned
<1>4. ASSUME NEW i \in Persists', pending' # None PROVE jobs'[i].sn # sequence'
  <2>1. ~NewJob(jobs'[i], d)
    BY <1>3, <1>4 DEF NewJob
  <2>2. i + e \in Turned /\ jobs'[i].kind = jobs[i + e].kind /\ jobs'[i].sn = jobs[i + e].sn
    BY <1>3, <2>1, LineFrom
  <2>3. i + e \in Persists
    BY <1>3, <2>2 DEF Persists, Turned
  <2>4. jobs[i + e].sn <= sequence /\ jobs[i + e].sn \in Nat
    BY <2>2, LineFacts DEF LineInv
  <2> QED
    BY <1>0, <1>4, <2>2, <2>3, <2>4 DEF TurnKept, LineInv
<1>5. ASSUME NEW i \in Persists' PROVE Kin(jobs[i].copy, jobs[i].meta)'
  <2>1. CASE i + e \in DOMAIN jobs /\ jobs'[i] = jobs[i + e]
    <3>0. PICK a, b : a = jobs[i + e].copy /\ b = jobs[i + e].meta
      OBVIOUS
    <3>1. Kin(a, b)
      BY <1>3, <2>1, <3>0 DEF LineInv, Persists
    <3>2. Kin(a, b)'
      BY <3>1, KinOn
    <3> QED
      BY <2>1, <3>0, <3>2 DEF Kin, Sanitize
  <2>2. CASE i = 1 /\ (jobs'[1].kind = "persist" => Kin(jobs[1].copy, jobs[1].meta)')
    BY <1>3, <2>2
  <2>3. CASE NewJob(jobs'[i], d)
    BY <1>3, <2>3 DEF NewJob, Kin, Sanitize
  <2> QED
    BY <1>3, <2>1, <2>2, <2>3 DEF LineStep
<1>6. ASSUME NEW i \in Turned', NEW k \in Persists', i < k PROVE jobs'[i].sn < jobs'[k].sn
  <2>0. /\ i \in Nat /\ k \in Nat /\ \A a \in DOMAIN jobs : a <= Len(jobs)
        /\ \A a \in Turned : a \in DOMAIN jobs /\ jobs[a].sn \in Nat /\ jobs[a].sn <= sequence
        /\ Len(jobs) \in Nat /\ k \in Turned'
    BY <1>3, LineFrom, LineFacts DEF Turned, LineInv
  <2>1. CASE k + e \in Turned /\ jobs'[k].kind = jobs[k + e].kind /\ jobs'[k].sn = jobs[k + e].sn
    <3>1. i + e \in Turned /\ jobs'[i].sn = jobs[i + e].sn /\ i + e < k + e
      BY <1>6, <2>0, <2>1, LineFrom
    <3>2. k + e \in Persists
      BY <1>3, <2>1 DEF Persists, Turned
    <3> QED
      BY <2>1, <3>1, <3>2 DEF LineInv
  <2>2. CASE e = 0 /\ k = Len(jobs) + 1 /\ NewJob(jobs'[k], d)
    <3>1. i + e \in Turned /\ jobs'[i].sn = jobs[i + e].sn
      BY <1>6, <2>0, <2>2, LineFrom
    <3>2. jobs'[k].sn = sequence' /\ sequence < sequence'
      BY <1>3, <2>2 DEF NewJob
    <3> QED
      BY <1>0, <2>0, <3>1, <3>2
  <2> QED
    BY <2>0, <2>1, <2>2, LineFrom
<1> QED
  BY <1>1, <1>2, <1>3, <1>4, <1>5, <1>6 DEF LineInv

-----------------------------------------------------------------------------
(* The order of everything, step by step. *)

OrderInv == LineInv /\ WayInv /\ FreshInv

LEMMA OrderMoves ==
    ASSUME TypeInv, TypeInv', OrderInv, NEW d \in {0, 1}, NEW e \in {0, 1},
           MailStep(d), LineStep(e, d), ProjGoes, TurnKept, PolicyGoes,
           UNCHANGED <<activeGen, editRev>>,
           pending' # None => (pending # None /\ projGen' = projGen) \/ projGen < projGen'
    PROVE  OrderInv'
<1>1. LineInv'
  BY LineMoves DEF OrderInv
<1>2. WayInv'
  BY WayMoves DEF OrderInv
<1>3. MailFresh'
  BY WebTakes, MailFreshMoves DEF OrderInv, FreshInv, MailStep
<1>4. NextFresh'
  BY NextFreshMoves DEF OrderInv, FreshInv, ProjGoes
<1>5. HostFresh'
  <2>1. ASSUME NEW i \in Persists', jobs'[i].sn = sequence'
        PROVE  \/ \E k \in Persists : jobs[k].sn = sequence /\ jobs'[i].rev = jobs[k].rev
               \/ d = 1 /\ Floor(1, activeGen, jobs'[i].rev)
    <3>1. i \in Turned' /\ i \in DOMAIN jobs' /\ jobs'[i].kind = "persist"
      BY DEF Persists, Turned
    <3>2. CASE NewJob(jobs'[i], d)
      BY <3>1, <3>2 DEF NewJob
    <3>3. CASE i + e \in Turned /\ jobs'[i].kind = jobs[i + e].kind
               /\ jobs'[i].sn = jobs[i + e].sn /\ jobs'[i].rev = jobs[i + e].rev
      <4>1. i + e \in Persists
        BY <3>1, <3>3 DEF Persists, Turned
      <4>2. jobs[i + e].sn <= sequence /\ jobs[i + e].sn \in Nat /\ sequence \in Nat /\ sequence' \in Nat
        BY <3>3, LineFacts DEF OrderInv, LineInv, TypeInv, Scalars, SessionType
      <4>3. jobs[i + e].sn = sequence
        BY <2>1, <3>3, <4>2 DEF TurnKept
      <4> QED
        BY <3>3, <4>1, <4>3
    <3> QED
      BY <3>1, <3>2, <3>3, LineFrom
  <2> QED
    BY <2>1, HostFreshMoves DEF OrderInv, FreshInv
<1> QED
  BY <1>1, <1>2, <1>3, <1>4, <1>5 DEF OrderInv, FreshInv

(* How a step that is not about the channels moves them. *)
LEMMA MailStays ==
    ASSUME TypeInv, TypeInv', UNCHANGED <<viewGen, viewRev>>
    PROVE  /\ UNCHANGED <<toHost, toView>> => MailStep(0)
           /\ UNCHANGED toHost /\ toView' = <<>> => MailStep(0)
           /\ \A x : UNCHANGED toHost /\ toView' = Append(toView, x) /\ x.type = "flush" => MailStep(0)
           /\ toHost # <<>> /\ toHost' = Tail(toHost) /\ UNCHANGED toView => MailStep(1)
           /\ \A n \in 0 .. Len(toHost) : toHost' = SubSeq(toHost, 1, n) /\ UNCHANGED toView => MailStep(0)
<1>0. /\ toHost \in Seq(Messages) /\ toView \in Seq(Requests) /\ viewRev \in Nat
      /\ WebGoes
  BY MailKinds, ViewKinds DEF WebGoes
<1>1. UNCHANGED toHost => HostStep(0)
  <2>1. \A i \in DOMAIN toHost : i + 0 = i
    BY <1>0
  <2> QED
    BY <2>1 DEF HostStep
<1>2. UNCHANGED toView => ViewStep
  <2>1. \A i \in DOMAIN toView : i + 0 = i
    BY <1>0
  <2> QED
    BY <2>1 DEF ViewStep
<1>3. toView' = <<>> => ViewStep
  BY DEF ViewStep
<1>4. ASSUME NEW x, toView' = Append(toView, x), x.type = "flush" PROVE ViewStep
  <2>1. \A i \in DOMAIN toView' : \/ i + 0 \in DOMAIN toView /\ toView'[i] = toView[i + 0]
                                  \/ i = Len(toView) + 1 /\ toView'[i].type # "data"
    BY <1>0, <1>4, Appended
  <2> QED
    BY <2>1 DEF ViewStep
<1>5. ASSUME toHost # <<>>, toHost' = Tail(toHost) PROVE HostStep(1)
  <2>1. \A i \in DOMAIN toHost' : i + 1 \in DOMAIN toHost /\ toHost'[i] = toHost[i + 1]
    BY <1>0, <1>5
  <2> QED
    BY <2>1 DEF HostStep
<1>6. ASSUME NEW n \in 0 .. Len(toHost), toHost' = SubSeq(toHost, 1, n) PROVE HostStep(0)
  <2>1. Len(SubSeq(toHost, 1, n)) = n /\ \A i \in 1 .. n : SubSeq(toHost, 1, n)[i] = toHost[i]
    BY <1>0, SubSeqProperties
  <2>2. SubSeq(toHost, 1, n) \in Seq(Messages)
    BY <1>0, SubSeqProperties
  <2>3. \A i \in DOMAIN toHost' : i + 0 \in DOMAIN toHost /\ toHost'[i] = toHost[i + 0]
    BY <1>0, <1>6, <2>1, <2>2
  <2> QED
    BY <2>3 DEF HostStep
<1> QED
  BY <1>0, <1>1, <1>2, <1>3, <1>4, <1>5, <1>6 DEF MailStep

LEMMA LineStays ==
    ASSUME TypeInv, NEW d
    PROVE  /\ UNCHANGED jobs => LineStep(0, d)
           /\ jobs # <<>> /\ jobs' = Tail(jobs) => LineStep(1, d)
           /\ \A x : jobs' = Append(jobs, x) /\ NewJob(x, d) => LineStep(0, d)
           /\ (/\ jobs # <<>> /\ HeadGoesOn /\ jobs'[1].kind = jobs[1].kind
               /\ jobs'[1].sn = jobs[1].sn /\ jobs'[1].rev = jobs[1].rev
               /\ jobs'[1].kind = "persist" => Kin(jobs[1].copy, jobs[1].meta)') => LineStep(0, d)
<1>0. jobs \in Seq(Jobs) /\ \A i \in DOMAIN jobs : i \in Nat /\ i + 0 = i
  BY JobFacts DEF TypeInv, MailType
<1>1. UNCHANGED jobs => LineStep(0, d)
  BY <1>0 DEF LineStep
<1>2. ASSUME jobs # <<>>, jobs' = Tail(jobs) PROVE LineStep(1, d)
  <2>1. \A i \in DOMAIN jobs' : i + 1 \in DOMAIN jobs /\ jobs'[i] = jobs[i + 1]
    BY <1>0, <1>2
  <2> QED
    BY <2>1 DEF LineStep
<1>3. ASSUME NEW x, jobs' = Append(jobs, x), NewJob(x, d) PROVE LineStep(0, d)
  <2>1. \A i \in DOMAIN jobs' : \/ i + 0 \in DOMAIN jobs /\ jobs'[i] = jobs[i + 0]
                                \/ i = Len(jobs) + 1 /\ jobs'[i] = x
    BY <1>0, <1>3, Appended
  <2> QED
    BY <1>3, <2>1 DEF LineStep
<1>4. ASSUME jobs # <<>>, HeadGoesOn, jobs'[1].kind = jobs[1].kind,
             jobs'[1].sn = jobs[1].sn, jobs'[1].rev = jobs[1].rev,
             jobs'[1].kind = "persist" => Kin(jobs[1].copy, jobs[1].meta)'
      PROVE  LineStep(0, d)
  BY <1>0, <1>4 DEF LineStep, HeadGoesOn
<1> QED
  BY <1>1, <1>2, <1>3, <1>4

(* The projections as most steps leave them. *)
LEMMA ProjStays ==
    ASSUME TypeInv, TypeInv', WayInv, UNCHANGED <<viewGen, activeGen>>,
           \/ UNCHANGED <<pending, projGen>>
           \/ pending # None /\ pending' = [pending EXCEPT !.stage = "stalled"] /\ UNCHANGED projGen
           \/ pending # None /\ pending' = [pending EXCEPT !.stage = "posted"] /\ UNCHANGED projGen
           \/ pending' = None /\ projGen <= projGen'
    PROVE  /\ ProjGoes
           /\ pending' # None => pending # None /\ projGen' = projGen
<1>0. activeGen <= viewGen /\ projGen \in Nat /\ activeGen \in Nat
  BY DEF TypeInv, Scalars, ProjType, WayInv
<1>1. CASE \E s \in {"stalled", "posted"} :
             pending # None /\ pending' = [pending EXCEPT !.stage = s] /\ UNCHANGED projGen
  <2>1. pending \in Projections
    BY <1>1 DEF TypeInv, Scalars, ProjType
  <2>2. pending'.gen = pending.gen /\ pending'.stage # "preparing"
    BY <1>1, <2>1 DEF Projections
  <2> QED
    BY <1>0, <1>1, <2>2 DEF ProjGoes, WayInv, Preparing, PendingAt
<1>2. CASE UNCHANGED <<pending, projGen>>
  BY <1>0, <1>2 DEF ProjGoes, WayInv, Preparing, PendingAt
<1>3. CASE pending' = None /\ projGen <= projGen'
  BY <1>0, <1>3 DEF ProjGoes, Preparing, PendingAt
<1> QED
  BY <1>1, <1>2, <1>3

LEMMA Projects ==
    ASSUME TypeInv, WayInv, UNCHANGED viewGen, NEW retire, NEW text, NEW expected, NEW meta,
           Project(retire, text, expected, meta)
    PROVE  /\ ProjGoes /\ UNCHANGED activeGen
           /\ \/ Disposed /\ UNCHANGED <<pending, projGen, sequence>>
              \/ ~Disposed /\ projGen' = projGen + 1 /\ sequence' = IF retire THEN sequence + 1 ELSE sequence
<1>0. activeGen <= viewGen /\ viewGen <= projGen /\ projGen \in Nat /\ activeGen \in Nat /\ viewGen \in Nat
  BY DEF TypeInv, Scalars, ProjType, ViewType, WayInv
<1>1. CASE Disposed
  BY <1>0, <1>1 DEF Project, projVars, ProjGoes, WayInv, Preparing, PendingAt
<1>2. CASE ~Disposed
  <2>1. /\ projGen' = projGen + 1 /\ pending'.gen = projGen + 1 /\ UNCHANGED activeGen
        /\ sequence' = IF retire THEN sequence + 1 ELSE sequence
    BY <1>2 DEF Project
  <2> QED
    BY <1>0, <1>2, <2>1 DEF ProjGoes
<1> QED
  BY <1>1, <1>2

LEMMA SanitizeTwice == \A m : Kin(Sanitize(m), m)
BY SidecarAssumption DEF Kin, Sanitize

LEMMA HeadThere == ASSUME TypeInv, jobs # <<>> PROVE 1 \in DOMAIN jobs /\ Head1 = jobs[1]
BY DEF TypeInv, MailType, Head1

(* A job at the head goes on. *)
LEMMA HeadLine ==
    ASSUME TypeInv, TypeInv', LineInv, UNCHANGED policy, jobs # <<>>, NEW d, Head1 \in PersistJobs \cup RepairJobs,
           \/ \E s : Advance(s)
           \/ \E s : jobs' = [jobs EXCEPT ![1].stage = s, ![1].meta = Sanitize(Head1.meta)]
           \/ \E s, n : jobs' = [jobs EXCEPT ![1].stage = s, ![1].copy = Sanitize(Head1.meta), ![1].version = n]
           \/ \E s, m, n : jobs' = [jobs EXCEPT ![1].stage = s, ![1].epoch = m, ![1].version = n]
           \/ \E s, m, n : jobs' = [jobs EXCEPT ![1].stage = s, ![1].input = m, ![1].output = n]
           \/ \E s, m : jobs' = [jobs EXCEPT ![1].stage = s, ![1].gen = m]
           \/ jobs' = [jobs EXCEPT ![1].tries = @ + 1]
    PROVE  LineStep(0, d)
<1>0. jobs \in Seq(Jobs) /\ IsQueue(jobs)
  BY QueueOf DEF TypeInv, MailType
<1>1. /\ 1 \in DOMAIN jobs /\ Head1 = jobs[1]
      /\ Head1.kind = "persist" => Kin(Head1.copy, Head1.meta)
  <2>1. 1 \in DOMAIN jobs
    BY HeadThere
  <2> QED
    BY <2>1 DEF Head1, LineInv, Persists
<1>2. PICK a, b, c : a = Head1.copy /\ b = Head1.meta /\ c = Sanitize(Head1.meta)
  OBVIOUS
<1>3. ASSUME NEW x, NEW y, Kin(x, y) PROVE Kin(x, y)'
  BY <1>3 DEF Kin, Sanitize
<1>4. Head1.kind = "persist" => Kin(a, b)' /\ Kin(a, c)' /\ Kin(c, b)'
  <2>1. Head1.kind = "persist" => Kin(a, b) /\ Kin(a, c) /\ Kin(c, b)
    BY <1>1, <1>2, SanitizeTwice DEF Kin
  <2> QED
    BY <1>3, <2>1
<1> DEFINE Same == /\ HeadGoesOn
                   /\ jobs'[1].kind = Head1.kind /\ jobs'[1].sn = Head1.sn /\ jobs'[1].rev = Head1.rev
                   /\ Head1.kind = "persist" =>
                        \/ jobs'[1].copy = a /\ jobs'[1].meta = b
                        \/ jobs'[1].copy = a /\ jobs'[1].meta = c
                        \/ jobs'[1].copy = c /\ jobs'[1].meta = b
<1>5. ASSUME NEW s, Advance(s) PROVE Same
  <2>1. HeadGoesOn /\ jobs'[1] = [Head1 EXCEPT !.stage = s]
    BY <1>0, <1>1, <1>5, Goes DEF Advance
  <2> QED
    BY <1>2, <2>1 DEF PersistJobs, RepairJobs
<1>6. ASSUME NEW s, jobs' = [jobs EXCEPT ![1].stage = s, ![1].meta = c] PROVE Same
  <2>1. HeadGoesOn /\ jobs'[1] = [Head1 EXCEPT !.stage = s, !.meta = c]
    BY <1>0, <1>1, <1>6, Goes
  <2> QED
    BY <1>2, <2>1 DEF PersistJobs, RepairJobs
<1>7. ASSUME NEW s, NEW n, jobs' = [jobs EXCEPT ![1].stage = s, ![1].copy = c, ![1].version = n] PROVE Same
  <2>1. HeadGoesOn /\ jobs'[1] = [Head1 EXCEPT !.stage = s, !.copy = c, !.version = n]
    BY <1>0, <1>1, <1>7, Goes
  <2> QED
    BY <1>2, <2>1 DEF PersistJobs, RepairJobs
<1>8. ASSUME NEW s, NEW m, NEW n, jobs' = [jobs EXCEPT ![1].stage = s, ![1].epoch = m, ![1].version = n]
      PROVE  Same
  <2>1. HeadGoesOn /\ jobs'[1] = [Head1 EXCEPT !.stage = s, !.epoch = m, !.version = n]
    BY <1>0, <1>1, <1>8, Goes
  <2> QED
    BY <1>2, <2>1 DEF PersistJobs, RepairJobs
<1>9. ASSUME NEW s, NEW m, NEW n, jobs' = [jobs EXCEPT ![1].stage = s, ![1].input = m, ![1].output = n]
      PROVE  Same
  <2>1. HeadGoesOn /\ jobs'[1] = [Head1 EXCEPT !.stage = s, !.input = m, !.output = n]
    BY <1>0, <1>1, <1>9, Goes
  <2> QED
    BY <1>2, <2>1 DEF PersistJobs, RepairJobs
<1>10. ASSUME NEW s, NEW m, jobs' = [jobs EXCEPT ![1].stage = s, ![1].gen = m] PROVE Same
  <2>1. HeadGoesOn /\ jobs'[1] = [Head1 EXCEPT !.stage = s, !.gen = m]
    BY <1>0, <1>1, <1>10, Goes
  <2> QED
    BY <1>2, <2>1 DEF PersistJobs, RepairJobs
<1>11. ASSUME jobs' = [jobs EXCEPT ![1].tries = @ + 1] PROVE Same
  <2>1. HeadGoesOn /\ jobs'[1] = [Head1 EXCEPT !.tries = @ + 1]
    BY <1>0, <1>1, <1>11, Goes
  <2> QED
    BY <1>2, <2>1 DEF PersistJobs, RepairJobs
<1> HIDE DEF Same
<1>12. Same
  <2>1. CASE \E s : Advance(s)
    BY <1>5, <2>1
  <2>2. CASE \E s : jobs' = [jobs EXCEPT ![1].stage = s, ![1].meta = Sanitize(Head1.meta)]
    BY <1>2, <1>6, <2>2
  <2>3. CASE \E s, n : jobs' = [jobs EXCEPT ![1].stage = s, ![1].copy = Sanitize(Head1.meta), ![1].version = n]
    BY <1>2, <1>7, <2>3
  <2>4. CASE \E s, m, n : jobs' = [jobs EXCEPT ![1].stage = s, ![1].epoch = m, ![1].version = n]
    BY <1>8, <2>4
  <2>5. CASE \E s, m, n : jobs' = [jobs EXCEPT ![1].stage = s, ![1].input = m, ![1].output = n]
    BY <1>9, <2>5
  <2>6. CASE \E s, m : jobs' = [jobs EXCEPT ![1].stage = s, ![1].gen = m]
    BY <1>10, <2>6
  <2> QED
    BY <1>11, <2>1, <2>2, <2>3, <2>4, <2>5, <2>6
<1> USE DEF Same
<1>13. Head1.kind = "persist" => Kin(jobs[1].copy, jobs[1].meta)'
  BY <1>4, <1>12 DEF Kin, Sanitize
<1> QED
  BY <1>1, <1>12, <1>13, LineStays

LEMMA OrderFrame ==
    ASSUME TypeInv, TypeInv', OrderInv, NEW d \in {0, 1}, NEW e \in {0, 1},
           MailStep(d), LineStep(e, d), PolicyGoes, UNCHANGED <<viewGen, activeGen, editRev, sequence>>,
           \/ UNCHANGED <<pending, projGen>>
           \/ pending # None /\ pending' = [pending EXCEPT !.stage = "stalled"] /\ UNCHANGED projGen
           \/ pending # None /\ pending' = [pending EXCEPT !.stage = "posted"] /\ UNCHANGED projGen
    PROVE  OrderInv'
<1>1. ProjGoes /\ (pending' # None => pending # None /\ projGen' = projGen)
  BY ProjStays DEF OrderInv
<1>2. TurnKept
  BY <1>1 DEF TurnKept
<1> QED
  BY <1>1, <1>2, OrderMoves

(* The current persist tells the host its revision. *)
LEMMA StartOrder ==
    ASSUME TypeInv, TypeInv', OrderInv, Running("persist", "queued"), IsCurrent(Head1),
           editRev' = Newer(editRev, Head1.rev), Advance("sanitizing"),
           UNCHANGED <<webVars, channelVars, policy, sequence, projVars>>
    PROVE  OrderInv'
<1>0. /\ UNCHANGED <<viewGen, viewRev, toHost, toView, pending, projGen, activeGen>>
      /\ jobs # <<>> /\ Head1 \in PersistJobs /\ LineInv /\ WayInv /\ FreshInv
  BY JobKinds DEF webVars, channelVars, projVars, OrderInv, TypeInv
<1>1. /\ 1 \in Persists /\ Head1 = jobs[1] /\ Head1.sn = sequence /\ Head1.rev \in Nat
      /\ IsQueue(jobs) /\ editRev \in Nat
  BY <1>0, QueueOf DEF TypeInv, MailType, Scalars, SessionType, Persists, Running, IsCurrent, Head1, PersistJobs
<1>2. pending = None
  BY <1>0, <1>1 DEF LineInv
<1>3. LineStep(0, 0) /\ MailStep(0)
  BY <1>0, HeadLine, MailStays
<1>4. LineInv' /\ WayInv' /\ MailFresh'
  <2>1. ProjGoes /\ TurnKept /\ PolicyGoes /\ WebStep
    BY <1>0, <1>3, ProjStays, WebTakes DEF TurnKept, PolicyGoes, MailStep
  <2> QED
    BY <1>0, <1>3, <2>1, LineMoves, WayMoves, MailFreshMoves DEF FreshInv, MailStep
<1>5. NextFresh'
  BY <1>0, <1>2 DEF NextFresh
<1>6. HostFresh'
  <2>1. PICK g, v : g = activeGen /\ v = editRev'
    OBVIOUS
  <2>2. Floor(0, g, v)
    BY <1>0, <1>1, <2>1 DEF FreshInv, HostFresh, Newer
  <2>3. Floor(0, g, v)'
    BY <1>0, <2>2 DEF Floor, Snapshots
  <2>4. ASSUME NEW i \in Persists', jobs'[i].sn = sequence' PROVE Floor(0, activeGen, jobs[i].rev)'
    <3>1. i \in DOMAIN jobs' /\ jobs'[i].kind = "persist" /\ DOMAIN jobs' = DOMAIN jobs
      BY <1>1, Goes DEF Persists, HeadGoesOn
    <3>2. jobs'[i].kind = jobs[i].kind /\ jobs'[i].sn = jobs[i].sn /\ jobs'[i].rev = jobs[i].rev
      BY <1>0, <1>1, <3>1 DEF Advance, PersistJobs
    <3>3. PICK w : w = jobs[i].rev
      OBVIOUS
    <3>4. Floor(0, g, w)
      BY <1>0, <2>1, <2>4, <3>1, <3>2, <3>3 DEF FreshInv, HostFresh, Persists
    <3>5. Floor(0, g, w)'
      BY <1>0, <3>4 DEF Floor, Snapshots
    <3> QED
      BY <1>0, <2>1, <3>2, <3>3, <3>5 DEF Floor
  <2> QED
    BY <1>0, <2>1, <2>3, <2>4 DEF HostFresh, Floor
<1> QED
  BY <1>0, <1>4, <1>5, <1>6 DEF OrderInv, FreshInv

(* A job ends, or goes on, and what it projects is the host's affair. *)
LEMMA JobOrder ==
    ASSUME TypeInv, TypeInv', OrderInv, NEW e \in {0, 1}, LineStep(e, 0),
           UNCHANGED <<webVars, channelVars, policy, editRev>>,
           \/ UNCHANGED <<pending, projGen, activeGen, sequence>>
           \/ \E retire, text, expected, meta :
                /\ Project(retire, text, expected, meta)
                /\ retire \/ \A i \in Persists : jobs[i].sn # sequence
    PROVE  OrderInv'
<1>0. /\ UNCHANGED <<viewGen, viewRev, toHost, toView>> /\ MailStep(0) /\ PolicyGoes /\ WayInv
      /\ sequence \in Nat /\ projGen \in Nat
  BY MailStays DEF webVars, channelVars, PolicyGoes, OrderInv, TypeInv, Scalars, SessionType, ProjType
<1>1. CASE UNCHANGED <<pending, projGen, activeGen, sequence>>
  BY <1>0, <1>1, OrderFrame
<1>2. CASE \E retire, text, expected, meta :
                /\ Project(retire, text, expected, meta)
                /\ retire \/ \A i \in Persists : jobs[i].sn # sequence
  <2>0. PICK retire, text, expected, meta :
                /\ Project(retire, text, expected, meta)
                /\ retire \/ \A i \in Persists : jobs[i].sn # sequence
    BY <1>2
  <2>1. /\ ProjGoes /\ UNCHANGED activeGen
        /\ \/ Disposed /\ UNCHANGED <<pending, projGen, sequence>>
           \/ ~Disposed /\ projGen' = projGen + 1 /\ sequence' = IF retire THEN sequence + 1 ELSE sequence
    BY <1>0, <2>0, Projects
  <2>2. TurnKept
    BY <1>0, <2>0, <2>1 DEF TurnKept
  <2>3. pending' # None => (pending # None /\ projGen' = projGen) \/ projGen < projGen'
    BY <1>0, <2>1
  <2> QED
    BY <1>0, <2>1, <2>2, <2>3, OrderMoves
<1> QED
  BY <1>1, <1>2

LEMMA PersistOrder ==
    ASSUME TypeInv, TypeInv', OrderInv, PersistStep \/ PreparationFails
    PROVE  OrderInv'
<1>0. /\ UNCHANGED <<webVars, channelVars, policy>> /\ LineInv
      /\ jobs # <<>> /\ Head1 \in PersistJobs
  <2>1. \E stage : Running("persist", stage)
    BY DEF PersistStep, StartPersist, SanitizeState, MaterializeState, PreparationFails, ApplySourceText,
       ResumeApplied, RestoreSourceText
  <2> QED
    BY <2>1, JobKinds DEF PersistStep, StartPersist, SanitizeState, MaterializeState, PreparationFails,
       ApplySourceText, ResumeApplied, RestoreSourceText, JobSide, fileVars, OrderInv, TypeInv
<1>1. \A ok : EndPersist(ok) => LineStep(1, 0)
  BY <1>0, LineStays DEF EndPersist
<1>2. CASE StartPersist
  <2>1. CASE IsCurrent(Head1)
    BY <1>0, <1>2, <2>1, StartOrder DEF StartPersist
  <2>2. CASE ~IsCurrent(Head1)
    BY <1>0, <1>1, <1>2, <2>2, JobOrder DEF StartPersist, projVars
  <2> QED
    BY <2>1, <2>2
<1>3. CASE SanitizeState
  <2>1. LineStep(0, 0) \/ LineStep(1, 0)
    BY <1>0, <1>1, <1>3, HeadLine DEF SanitizeState
  <2> QED
    BY <1>0, <1>3, <2>1, JobOrder DEF SanitizeState, projVars
<1>4. CASE MaterializeState
  <2>1. LineStep(0, 0) \/ LineStep(1, 0)
    BY <1>0, <1>1, <1>4, HeadLine DEF MaterializeState, Commit
  <2> QED
    BY <1>0, <1>4, <2>1, JobOrder DEF MaterializeState, projVars
<1>5. CASE PreparationFails
  BY <1>0, <1>1, <1>5, JobOrder DEF PreparationFails, projVars
<1>6. CASE ApplySourceText
  <2>1. LineStep(0, 0) \/ LineStep(1, 0)
    BY <1>0, <1>1, <1>6, HeadLine DEF ApplySourceText
  <2> QED
    BY <1>0, <1>6, <2>1, JobOrder DEF ApplySourceText, projVars
<1>7. CASE ResumeApplied
  <2>0. UNCHANGED editRev
    BY <1>7 DEF ResumeApplied
  <2>1. CASE Project(TRUE, doc, None, sidecar) /\ EndPersist(FALSE)
    BY <1>0, <1>1, <2>0, <2>1, JobOrder
  <2>2. CASE UNCHANGED <<pending, projGen, activeGen, sequence>> /\ \E ok : EndPersist(ok)
    BY <1>0, <1>1, <2>0, <2>2, JobOrder
  <2>3. CASE /\ UNCHANGED <<pending, projGen, activeGen, sequence>>
             /\ jobs' = [jobs EXCEPT ![1].stage = "restoring", ![1].epoch = epoch, ![1].version = externals]
    <3>1. LineStep(0, 0)
      BY <1>0, <2>3, HeadLine
    <3> QED
      BY <1>0, <2>0, <2>3, <3>1, JobOrder
  <2> QED
    BY <1>7, <2>1, <2>2, <2>3 DEF ResumeApplied, Commit, projVars
<1>8. CASE RestoreSourceText
  <2>1. LineStep(0, 0) \/ LineStep(1, 0)
    BY <1>0, <1>1, <1>8, HeadLine DEF RestoreSourceText
  <2> QED
    BY <1>0, <1>8, <2>1, JobOrder DEF RestoreSourceText
<1> QED
  BY <1>2, <1>3, <1>4, <1>5, <1>6, <1>7, <1>8 DEF PersistStep

LEMMA RepairOrder ==
    ASSUME TypeInv, TypeInv', OrderInv, RepairStep \/ RepairFails
    PROVE  OrderInv'
<1>0. /\ UNCHANGED <<webVars, channelVars, policy, editRev>> /\ LineInv
      /\ jobs # <<>> /\ Head1 \in RepairJobs
  <2>1. \E stage : Running("repair", stage)
    BY DEF RepairStep, RepairFile, AdoptRepair, RepairProjected, RepairFails
  <2> QED
    BY <2>1, JobKinds DEF RepairStep, RepairFile, AdoptRepair, RepairProjected, RepairFails, RepairSide,
       channelVars, fileVars, OrderInv, TypeInv
<1>1. jobs' = Tail(jobs) => LineStep(1, 0)
  BY <1>0, LineStays
<1>2. CASE RepairFile
  <2>1. LineStep(0, 0)
    BY <1>0, <1>2, HeadLine DEF RepairFile
  <2> QED
    BY <1>0, <1>2, <2>1, JobOrder DEF RepairFile, projVars
<1>3. CASE RepairFails \/ RepairProjected
  BY <1>0, <1>1, <1>3, JobOrder DEF RepairFails, RepairProjected, projVars
<1>4. CASE AdoptRepair
  <2>1. CASE jobs' = Tail(jobs) /\ UNCHANGED <<projVars, sequence>>
    BY <1>0, <1>1, <2>1, JobOrder DEF projVars
  <2>2. CASE /\ Unchanged(Head1) /\ Project(FALSE, doc, editRev, Head1.output)
             /\ jobs' = [jobs EXCEPT ![1].stage = "projecting", ![1].gen = projGen + 1]
    <3>1. LineStep(0, 0)
      BY <1>0, <2>2, HeadLine
    <3>2. \A i \in Persists : jobs[i].sn # sequence
      <4>1. /\ 1 \in Turned /\ 1 \notin Persists /\ jobs[1].sn = sequence
            /\ \A i \in Persists : i \in Nat /\ i >= 1 /\ jobs[i].sn \in Nat
            /\ sequence \in Nat
        BY <1>0, <2>2, HeadThere, JobFacts DEF Turned, Persists, Unchanged, RepairJobs
      <4>2. \A i \in Persists : 1 < i
        BY <4>1
      <4> QED
        BY <1>0, <4>1, <4>2 DEF LineInv
    <3> QED
      BY <1>0, <2>2, <3>1, <3>2, JobOrder
  <2> QED
    BY <1>4, <2>1, <2>2 DEF AdoptRepair
<1> QED
  BY <1>2, <1>3, <1>4 DEF RepairStep

LEMMA SaveOrder ==
    ASSUME TypeInv, TypeInv', OrderInv, SaveStep \/ WillSave \/ SaveTimesOut
    PROVE  OrderInv'
<1>0. /\ UNCHANGED <<webVars, channelVars, policy, editRev, sequence>>
      /\ UNCHANGED <<pending, projGen, activeGen>>
  BY DEF SaveStep, SaveFlushed, SaveTimesOut, SaveDrained, DidSave, SaveSidecar, WillSave, SaveSide, projVars, fileVars,
     WriteFresh, WriteFreshFails
<1>1. \E e \in {0, 1} : LineStep(e, 0)
  <2>1. CASE DidSave
    <3>1. NewJob([kind |-> "save", stage |-> "queued"], 0)
      BY DEF NewJob
    <3>2. UNCHANGED jobs \/ jobs' = Append(jobs, [kind |-> "save", stage |-> "queued"])
      BY <2>1 DEF DidSave
    <3> QED
      BY <3>1, <3>2, LineStays
  <2>2. CASE SaveSidecar
    BY <2>2, LineStays DEF SaveSidecar, Running
  <2>3. CASE SaveFlushed \/ SaveTimesOut \/ SaveDrained \/ WillSave
    BY <2>3, LineStays DEF SaveFlushed, SaveTimesOut, SaveDrained, WillSave
  <2> QED
    BY <2>1, <2>2, <2>3 DEF SaveStep
<1> QED
  BY <1>0, <1>1, JobOrder

LEMMA PolicyOrder ==
    ASSUME TypeInv, TypeInv', OrderInv, PolicyNotice \/ ProtectPolicy
    PROVE  OrderInv'
<1>0. /\ UNCHANGED <<webVars, toHost, toView, editRev, sequence>> /\ PolicyGoes
      /\ UNCHANGED <<pending, projGen, activeGen>>
  BY DEF PolicyNotice, ProtectPolicy, OutsideVars, projVars, PolicyGoes
<1>1. LineStep(0, 0)
  <2>1. PICK x : x = [kind |-> "repair", stage |-> "queued", by |-> known.by,
                      rev |-> editRev, sn |-> sequence, input |-> file, output |-> file, gen |-> 0]
    OBVIOUS
  <2>2. NewJob(x, 0)
    <3>1. sequence \in Nat
      BY DEF TypeInv, Scalars, SessionType
    <3> QED
      BY <2>1, <3>1 DEF NewJob
  <2>3. UNCHANGED jobs \/ jobs' = Append(jobs, x)
    BY <2>1 DEF PolicyNotice, ProtectPolicy
  <2> QED
    BY <2>2, <2>3, LineStays
<1> QED
  BY <1>0, <1>1, MailStays, OrderFrame DEF webVars

LEMMA CloseOrder ==
    ASSUME TypeInv, TypeInv', OrderInv,
           CloseStep \/ \E choice \in {"Save", "Discard", None} : AnswerPrompt(choice)
    PROVE  OrderInv'
<1>0. /\ UNCHANGED <<viewGen, viewRev, toView, policy, editRev, sequence, jobs, projGen, activeGen>>
      /\ \/ UNCHANGED pending
         \/ pending # None /\ pending' = [pending EXCEPT !.stage = "stalled"]
      /\ UNCHANGED toHost \/ \E n \in 0 .. Len(toHost) : toHost' = SubSeq(toHost, 1, n)
  BY DEF CloseStep, CloseFinals, CloseUnload, CloseAdmission, CloseDrained, SaveDraft, RecoverDraft,
     SettleClose, AnswerPrompt, CloseSide, webVars, projVars, fileVars, WriteFresh, WriteFreshFails, PendingAt
<1>1. MailStep(0) /\ LineStep(0, 0) /\ PolicyGoes
  BY <1>0, MailStays, LineStays DEF PolicyGoes
<1> QED
  BY <1>0, <1>1, OrderFrame

(* What is neither about the queue nor about what is shown. *)
LEMMA IdleOrder ==
    ASSUME TypeInv, TypeInv', OrderInv,
           \/ UNCHANGED vars \/ Hide \/ ProjectionTimesOut
           \/ \E m \in Metas : ForeignWrite(m)
           \/ \E i \in DOMAIN flush : StartFlush(i) \/ FlushTimesOut(i)
    PROVE  OrderInv'
<1>1. CASE \/ UNCHANGED vars \/ Hide \/ ProjectionTimesOut
           \/ \E m \in Metas : ForeignWrite(m)
           \/ \E i \in DOMAIN flush : FlushTimesOut(i)
  <2>0. /\ UNCHANGED <<webVars, toHost, toView, policy, editRev, sequence, jobs, projGen, activeGen>>
        /\ \/ UNCHANGED pending
           \/ pending # None /\ pending' = [pending EXCEPT !.stage = "stalled"]
    BY <1>1 DEF vars, Hide, ProjectionTimesOut, ForeignWrite, FlushTimesOut, OutsideVars, channelVars,
       fileVars, projVars, PendingAt
  <2> QED
    BY <2>0, MailStays, LineStays, OrderFrame DEF webVars, PolicyGoes
<1>2. CASE \E i \in DOMAIN flush : StartFlush(i)
  <2>0. PICK i \in DOMAIN flush : StartFlush(i)
    BY <1>2
  <2>1. /\ UNCHANGED <<webVars, toHost, policy, editRev, sequence, jobs, projGen, activeGen, pending>>
        /\ UNCHANGED toView \/ toView' = Append(toView, [type |-> "flush", id |-> i])
    BY <2>0 DEF StartFlush, fileVars, projVars
  <2>2. MailStep(0)
    BY <2>1, MailStays DEF webVars
  <2> QED
    BY <2>1, <2>2, LineStays, OrderFrame DEF webVars, PolicyGoes
<1> QED
  BY <1>1, <1>2

(* The projection is posted. *)
LEMMA PostOrder ==
    ASSUME TypeInv, TypeInv', OrderInv, PostProjection
    PROVE  OrderInv'
<1>0. /\ UNCHANGED <<webVars, toHost, policy, editRev, sequence, jobs, projGen, activeGen>>
      /\ Preparing /\ pending # None /\ pending \in Projections /\ pending.gen = projGen
  BY DEF PostProjection, fileVars, Preparing, PendingAt, TypeInv, Scalars, ProjType, OrderInv, WayInv
<1>1. LineStep(0, 0) /\ PolicyGoes
  BY <1>0, LineStays DEF PolicyGoes
<1>2. CASE UNCHANGED toView /\ pending' = [pending EXCEPT !.stage = "stalled"]
  BY <1>0, <1>1, <1>2, MailStays, OrderFrame DEF webVars
<1>3. CASE /\ pending' = [pending EXCEPT !.stage = "posted"]
           /\ \E x : toView' = Append(toView, x) /\ x.gen = pending.gen /\ x.rev = editRev
  <2>0. PICK x : toView' = Append(toView, x) /\ x.gen = pending.gen /\ x.rev = editRev
    BY <1>3
  <2>1. ~Preparing'
    BY <1>0, <1>3 DEF Preparing, PendingAt, Projections
  <2>2. \A i \in DOMAIN toView' : \/ i + 0 \in DOMAIN toView /\ toView'[i] = toView[i + 0]
                                  \/ i = Len(toView) + 1 /\ toView'[i] = x
    BY <2>0, ViewKinds, Appended
  <2>3. ViewStep
    BY <1>0, <2>0, <2>1, <2>2 DEF ViewStep
  <2>4. HostStep(0) /\ WebGoes
    BY <1>0, MailKinds DEF HostStep, WebGoes, webVars
  <2> QED
    BY <1>0, <1>1, <1>3, <2>3, <2>4, OrderFrame DEF MailStep, webVars
<1> QED
  BY <1>2, <1>3 DEF PostProjection

(* The webview sends what it shows. *)
LEMMA SendOrder ==
    ASSUME TypeInv, TypeInv', OrderInv, ViewStep,
           UNCHANGED <<viewGen, policy, editRev, sequence, jobs, projGen, activeGen, pending>>,
           viewRev <= viewRev',
           NEW x, toHost' = Append(toHost, x), x.type = "persist", x.gen = viewGen, x.rev = viewRev'
    PROVE  OrderInv'
<1>1. \A i \in DOMAIN toHost' : \/ i + 0 \in DOMAIN toHost /\ toHost'[i] = toHost[i + 0]
                                \/ i = Len(toHost) + 1 /\ toHost'[i] = x
  BY MailKinds, Appended
<1>2. HostStep(0)
  BY <1>1 DEF HostStep
<1>3. WebGoes
  BY DEF WebGoes
<1> QED
  BY <1>2, <1>3, LineStays, OrderFrame DEF MailStep, PolicyGoes

LEMMA ViewStays ==
    ASSUME TypeInv
    PROVE  /\ UNCHANGED toView => ViewStep
           /\ toView' = <<>> => ViewStep
           /\ toView # <<>> /\ toView' = Tail(toView) =>
                ViewStep /\ \A i \in DOMAIN toView' : i + 1 \in DOMAIN toView /\ toView'[i] = toView[i + 1]
<1>0. toView \in Seq(Requests) /\ \A i \in DOMAIN toView : i + 0 = i
  BY ViewKinds
<1>1. UNCHANGED toView => ViewStep
  BY <1>0 DEF ViewStep
<1>2. toView' = <<>> => ViewStep
  BY DEF ViewStep
<1>3. ASSUME toView # <<>>, toView' = Tail(toView)
      PROVE  ViewStep /\ \A i \in DOMAIN toView' : i + 1 \in DOMAIN toView /\ toView'[i] = toView[i + 1]
  <2>1. \A i \in DOMAIN toView' : i + 1 \in DOMAIN toView /\ toView'[i] = toView[i + 1]
    BY <1>0, <1>3
  <2> QED
    BY <2>1 DEF ViewStep
<1> QED
  BY <1>1, <1>2, <1>3

LEMMA EditOrder ==
    ASSUME TypeInv, TypeInv', OrderInv,
           \/ \E c \in Contents : EditView(c)
           \/ DisposePanel
           \/ \E t \in Texts : ExternalEdit(t)
    PROVE  OrderInv'
<1>0. viewRev \in Nat
  BY MailKinds
<1>1. CASE \E c \in Contents : EditView(c)
  <2>0. PICK c \in Contents : EditView(c)
    BY <1>1
  <2>1. PICK x : x = Snapshot(c, viewRev + 1, None, FALSE)
    OBVIOUS
  <2>2. /\ UNCHANGED <<viewGen, toView, policy, editRev, sequence, jobs, projGen, activeGen, pending>>
        /\ viewRev' = viewRev + 1 /\ toHost' = Append(toHost, x)
    BY <2>0, <2>1 DEF EditView, HostSide, projVars
  <2>3. x.type = "persist" /\ x.gen = viewGen /\ x.rev = viewRev'
    BY <2>1, <2>2 DEF Snapshot
  <2> QED
    BY <1>0, <2>2, <2>3, ViewStays, SendOrder
<1>2. CASE DisposePanel
  <2>1. PICK x : x = Snapshot(view, viewRev, None, TRUE)
    OBVIOUS
  <2>2. /\ UNCHANGED <<viewGen, viewRev, policy, editRev, sequence, jobs, projGen, activeGen, pending>>
        /\ toView' = <<>> /\ (UNCHANGED toHost \/ toHost' = Append(toHost, x))
    BY <1>2, <2>1 DEF DisposePanel, webVars, projVars, fileVars
  <2>3. x.type = "persist" /\ x.gen = viewGen /\ x.rev = viewRev'
    BY <2>1, <2>2 DEF Snapshot
  <2>4. toView' = <<>>
    BY <1>2 DEF DisposePanel
  <2>5. CASE UNCHANGED toHost
    BY <2>2, <2>4, <2>5, MailStays, LineStays, OrderFrame DEF PolicyGoes
  <2>6. CASE toHost' = Append(toHost, x)
    BY <1>0, <2>2, <2>3, <2>4, <2>6, ViewStays, SendOrder
  <2> QED
    BY <2>2, <2>5, <2>6
<1>3. CASE \E t \in Texts : ExternalEdit(t)
  <2>0. PICK t \in Texts : ExternalEdit(t)
    BY <1>3
  <2>1. UNCHANGED <<webVars, channelVars, policy, editRev, jobs>>
    BY <2>0 DEF ExternalEdit, OutsideVars, channelVars, fileVars
  <2>2. UNCHANGED <<projVars, sequence>> \/ Project(TRUE, t, None, sidecar)
    BY <2>0 DEF ExternalEdit
  <2> QED
    BY <2>1, <2>2, LineStays, JobOrder DEF projVars
<1> QED
  BY <1>1, <1>2, <1>3

LEMMA ViewOrder ==
    ASSUME TypeInv, TypeInv', OrderInv, ReceiveView
    PROVE  OrderInv'
<1>0. /\ UNCHANGED <<policy, editRev, sequence, jobs, projGen, activeGen, pending>> /\ PolicyGoes
      /\ toView # <<>> /\ toView' = Tail(toView) /\ viewRev \in Nat
  BY MailKinds DEF ReceiveView, HostSide, projVars, PolicyGoes
<1>1. PICK m : m = Head(toView)
  OBVIOUS
<1>2. m = toView[1] /\ 1 \in DOMAIN toView /\ m \in Requests
  BY <1>0, <1>1, ViewKinds
<1>3. /\ ViewStep
      /\ \A i \in DOMAIN toView' : i + 1 \in DOMAIN toView /\ toView'[i] = toView[i + 1]
  BY <1>0, ViewStays
<1>4. CASE m.type = "flush"
  <2>1. PICK x : x = Snapshot(view, viewRev, m.id, FALSE)
    OBVIOUS
  <2>2. toHost' = Append(toHost, x) /\ UNCHANGED webVars
    BY <1>1, <1>4, <2>1 DEF ReceiveView
  <2>3. x.type = "persist" /\ x.gen = viewGen /\ x.rev = viewRev'
    BY <2>1, <2>2 DEF Snapshot, webVars
  <2> QED
    BY <1>0, <1>3, <2>2, <2>3, SendOrder DEF webVars
<1>5. ASSUME NEW a \in BOOLEAN, NEW r, m.type = "data",
             toHost' = Append(toHost, [type |-> "reload", gen |-> m.gen, applied |-> a, rev |-> r]),
             \/ ~a /\ r = viewRev /\ UNCHANGED webVars
             \/ a /\ r = m.rev /\ viewRev' = m.rev /\ viewGen' = m.gen
      PROVE  OrderInv'
  <2>0. 1 \in Projected
    BY <1>2, <1>5 DEF Projected
  <2>2. PICK x : x = [type |-> "reload", gen |-> m.gen, applied |-> a, rev |-> r]
    OBVIOUS
  <2>3. WebGoes
    BY <1>0, <1>2, <1>3, <1>5, <2>0 DEF WebGoes, webVars
  <2>4. Answers(x) /\ x.type = "reload"
    BY <1>2, <1>3, <1>5, <2>0, <2>2 DEF Answers, webVars
  <2>5. \A i \in DOMAIN toHost' : \/ i + 0 \in DOMAIN toHost /\ toHost'[i] = toHost[i + 0]
                                  \/ i = Len(toHost) + 1 /\ toHost'[i] = x
    BY <1>5, <2>2, MailKinds, Appended
  <2>6. HostStep(0)
    BY <2>4, <2>5 DEF HostStep
  <2>7. MailStep(0) /\ LineStep(0, 0)
    BY <1>0, <1>3, <2>3, <2>6, LineStays DEF MailStep
  <2>8. ProjGoes /\ TurnKept
    <3>1. activeGen <= viewGen /\ viewGen <= viewGen' /\ activeGen \in Nat /\ viewGen \in Nat /\ viewGen' \in Nat
      BY <2>3, WebTakes, MailKinds DEF OrderInv, WayInv, TypeInv, Scalars, ViewType
    <3> QED
      BY <1>0, <3>1, MailKinds DEF ProjGoes, TurnKept, OrderInv, WayInv, Preparing, PendingAt
  <2> QED
    BY <1>0, <2>7, <2>8, OrderMoves
<1>6. CASE m.type = "data"
  <2>1. ReceiveData(m)
    BY <1>1, <1>6 DEF ReceiveView
  <2>2. CASE Reply(m, FALSE, viewRev) /\ UNCHANGED webVars
    BY <1>5, <1>6, <2>2 DEF Reply
  <2>3. CASE Reply(m, TRUE, m.rev) /\ viewRev' = m.rev /\ viewGen' = m.gen
    BY <1>5, <1>6, <2>3 DEF Reply
  <2> QED
    BY <2>1, <2>2, <2>3 DEF ReceiveData
<1> QED
  BY <1>2, <1>4, <1>6 DEF Requests

(* A message is taken, and admitted if it is of the active generation; it  *)
(* is not stale then.                                                      *)
LEMMA AdmitOrder ==
    ASSUME TypeInv, TypeInv', OrderInv, toHost # <<>>, toHost' = Tail(toHost), NEW m, m = toHost[1],
           UNCHANGED <<webVars, toView, policy, editRev>>, m.type = "persist", Persist(m)
    PROVE  OrderInv'
<1>0. /\ MailStep(1) /\ PolicyGoes /\ WayInv /\ UNCHANGED <<viewGen, viewRev>>
      /\ sequence \in Nat /\ projGen \in Nat /\ sequence' \in Nat
  BY MailStays DEF webVars, PolicyGoes, OrderInv, TypeInv, Scalars, SessionType, ProjType
<1>1. CASE UNCHANGED <<sequence, jobs, projVars>>
  BY <1>0, <1>1, LineStays, OrderFrame DEF projVars
<1>2. CASE RetireProjection(m) /\ ~UNCHANGED <<sequence, jobs, projVars>>
  <2>1. /\ UNCHANGED activeGen
        /\ \/ UNCHANGED <<pending, projGen>>
           \/ pending' = None /\ projGen <= projGen'
    BY <1>0, <1>2 DEF RetireProjection, projVars
  <2>2. ProjGoes /\ (pending' # None => pending # None /\ projGen' = projGen)
    BY <1>0, <2>1, ProjStays
  <2>3. CASE UNCHANGED <<sequence, jobs>>
    <3>1. LineStep(0, 1)
      BY <2>3, LineStays
    <3>2. TurnKept
      BY <2>2, <2>3 DEF TurnKept
    <3> QED
      BY <1>0, <2>1, <2>2, <3>1, <3>2, OrderMoves
  <2>4. CASE Admitted(m) /\ sequence' = sequence + 1 /\ jobs' = Append(jobs, Job(m))
    <3>1. TurnKept
      BY <1>0, <2>4 DEF TurnKept
    <3>2. pending' = None
      BY <1>2, <2>4 DEF Admitted, RetireProjection, projVars
    <3>3. Floor(1, activeGen, m.rev)
      <4>1. 1 \in Snapshots
        BY MailKinds DEF Snapshots
      <4> QED
        BY <2>4, <4>1 DEF OrderInv, FreshInv, MailFresh, Admitted
    <3>4. PICK x : x = Job(m)
      OBVIOUS
    <3>5. NewJob(x, 1)
      BY <1>0, <2>4, <3>2, <3>3, <3>4 DEF NewJob, Job
    <3>6. LineStep(0, 1)
      BY <2>4, <3>4, <3>5, LineStays
    <3> QED
      BY <1>0, <2>1, <2>2, <3>1, <3>6, OrderMoves
  <2> QED
    BY <1>2, <2>3, <2>4 DEF Persist
<1> QED
  BY <1>1, <1>2 DEF Persist

LEMMA OthersNotOf ==
    ASSUME NEW I, NEW p, NEW q, NEW g \in Nat,
           \A i \in I : q[i] = p[i + 1], \A i \in I : g < p[i + 1].gen /\ p[i + 1].gen \in Nat
    PROVE  \A i \in I : q[i].gen # g
<1> TAKE i \in I
<1> QED
  OBVIOUS

(* The answer to the reload the host waits for. *)
LEMMA AnswerOrder ==
    ASSUME TypeInv, TypeInv', OrderInv, toHost # <<>>, toHost' = Tail(toHost), NEW m, m = toHost[1],
           m.type = "reload", m.gen = projGen, pending # None,
           UNCHANGED <<webVars, toView, policy, sequence, jobs, projGen>>,
           editRev' = Newer(editRev, m.rev),
           \/ m.applied /\ activeGen' = projGen /\ pending' = None
           \/ ~m.applied /\ UNCHANGED activeGen /\ pending' = [pending EXCEPT !.stage = "stalled"]
    PROVE  OrderInv'
<1>0. /\ MailStep(1) /\ LineStep(0, 1) /\ PolicyGoes /\ UNCHANGED <<viewGen, viewRev>>
      /\ LineInv /\ WayInv /\ MailFresh /\ HostFresh /\ NextFresh
  BY MailStays, LineStays DEF webVars, PolicyGoes, OrderInv, FreshInv
<1>1. /\ 1 \in Replies /\ m.rev \in Nat /\ editRev \in Nat /\ projGen \in Nat /\ activeGen \in Nat
      /\ viewGen \in Nat /\ toHost \in Seq(Messages)
  <2>1. 1 \in Replies
    BY MailKinds DEF Replies
  <2> QED
    BY <2>1, MailKinds
<1>2. activeGen < projGen /\ activeGen <= viewGen /\ viewGen <= projGen
  BY <1>0 DEF WayInv
<1>3. ProjGoes
  <2>1. CASE m.applied /\ activeGen' = projGen /\ pending' = None
    <3>1. m.gen <= viewGen
      BY <1>0, <1>1, <2>1 DEF WayInv
    <3> QED
      BY <1>0, <1>1, <2>1, <3>1 DEF ProjGoes, Preparing, PendingAt
  <2>2. CASE UNCHANGED activeGen /\ pending' = [pending EXCEPT !.stage = "stalled"]
    BY <1>0, <2>2, ProjStays
  <2> QED
    BY <2>1, <2>2
<1>4. TurnKept /\ WebStep
  BY <1>0, WebTakes DEF TurnKept, MailStep
<1>5. LineInv' /\ WayInv' /\ MailFresh'
  BY <1>0, <1>3, <1>4, LineMoves, WayMoves, MailFreshMoves DEF MailStep
<1>6. \A i \in Persists' : jobs'[i].sn # sequence'
  BY <1>0 DEF Persists, LineInv
<1>7. PICK v : v = editRev' /\ v \in Nat
  BY <1>1 DEF Newer
<1>8. CASE m.applied /\ activeGen' = projGen /\ pending' = None
  <2>1. m.gen <= viewGen /\ m.rev = editRev /\ Floor(0, projGen, editRev)
    BY <1>0, <1>1, <1>8 DEF WayInv, NextFresh
  <2>2. v = editRev
    BY <1>7, <2>1 DEF Newer
  <2>3. PICK g : g = projGen
    OBVIOUS
  <2>4. Floor(0, g, v)'
    BY <1>0, <1>1, <1>7, <2>1, <2>2, <2>3, FloorOn
  <2>5. HostFresh'
    BY <1>6, <1>7, <1>8, <2>3, <2>4 DEF HostFresh, Floor
  <2>6. NextFresh'
    BY <1>8 DEF NextFresh
  <2> QED
    BY <1>5, <2>5, <2>6 DEF OrderInv, FreshInv
<1>9. CASE ~m.applied /\ UNCHANGED activeGen /\ pending' = [pending EXCEPT !.stage = "stalled"]
  <2>1. PICK g : g = activeGen
    OBVIOUS
  <2>2. Floor(1, g, m.rev) /\ Floor(0, g, editRev)
    BY <1>0, <1>1, <1>2, <1>9, <2>1 DEF MailFresh, HostFresh
  <2>3. Floor(0, g, v)'
    <3>1. v = editRev \/ v = m.rev
      BY <1>7 DEF Newer
    <3> QED
      BY <1>0, <1>1, <1>2, <1>7, <2>1, <2>2, <3>1, FloorOn
  <2>4. HostFresh'
    BY <1>6, <1>7, <1>9, <2>1, <2>3 DEF HostFresh, Floor
  <2>5. NextFresh'
    <3>1. viewGen' # projGen' /\ \A k \in Snapshots : toHost[k].gen # projGen
      BY <1>0, <1>1, <1>9 DEF WayInv
    <3>2. \A i \in DOMAIN toHost' : i \in Nat /\ i >= 1 /\ i + 1 \in DOMAIN toHost /\ toHost'[i] = toHost[i + 1]
      BY <1>1
    <3>3. \A i \in Snapshots' : toHost'[i].gen # projGen'
      BY <3>1, <3>2 DEF Snapshots
    <3>4. Floor(0, projGen, editRev)'
      BY <3>1, <3>3 DEF Floor
    <3>5. \A i \in Projected' : toView'[i].gen # projGen'
      <4>1. \A i \in Projected : projGen < toView[i].gen
        BY <1>0, <1>1 DEF WayInv
      <4> QED
        BY <1>1, <4>1, ViewKinds DEF Projected
    <3>6. \A i \in Replies' : toHost'[i].gen # projGen'
      <4>1. \A i \in Replies' : i + 1 \in Replies /\ 1 < i + 1 /\ toHost'[i] = toHost[i + 1]
        BY <3>2 DEF Replies
      <4>2. \A i \in Replies' : projGen < toHost[i + 1].gen /\ toHost[i + 1].gen \in Nat
        BY <1>0, <1>1, <4>1, MailKinds DEF WayInv
      <4>3. projGen' = projGen
        OBVIOUS
      <4>4. PICK I, q, h : I = Replies' /\ q = toHost' /\ h = projGen
        OBVIOUS
      <4>5. \A i \in I : q[i] = toHost[i + 1]
        BY <4>1, <4>4
      <4>6. \A i \in I : h < toHost[i + 1].gen /\ toHost[i + 1].gen \in Nat
        BY <4>2, <4>4
      <4>7. h \in Nat
        BY <1>1, <4>4
      <4>8. \A i \in I : q[i].gen # h
        BY <4>5, <4>6, <4>7, OthersNotOf
      <4> QED
        BY <4>3, <4>4, <4>8
    <3> QED
      BY <3>4, <3>5, <3>6 DEF NextFresh
  <2> QED
    BY <1>5, <2>4, <2>5 DEF OrderInv, FreshInv
<1> QED
  BY <1>8, <1>9

LEMMA HostOrder ==
    ASSUME TypeInv, TypeInv', OrderInv, ReceiveHost
    PROVE  OrderInv'
<1>0. /\ toHost # <<>> /\ toHost' = Tail(toHost) /\ UNCHANGED <<webVars, toView, policy>>
  BY DEF ReceiveHost, fileVars
<1>1. PICK m : m = Head(toHost)
  OBVIOUS
<1>2. m = toHost[1] /\ m \in Messages
  BY <1>0, <1>1, MailFacts
<1>3. \/ UNCHANGED <<sequence, jobs, projVars, editRev>>
      \/ m.type = "persist" /\ Persist(m) /\ UNCHANGED editRev
      \/ m.type # "persist" /\ CompleteReload(m)
  BY <1>1 DEF ReceiveHost, Retained
<1>4. MailStep(1) /\ PolicyGoes /\ WayInv
  BY <1>0, MailStays DEF webVars, PolicyGoes, OrderInv
<1>5. CASE UNCHANGED <<sequence, jobs, projVars, editRev>>
  BY <1>0, <1>4, <1>5, LineStays, OrderFrame DEF projVars, webVars
<1>6. CASE m.type = "persist" /\ Persist(m) /\ UNCHANGED editRev
  BY <1>0, <1>2, <1>6, AdmitOrder
<1>7. CASE m.type # "persist" /\ CompleteReload(m)
  <2>1. UNCHANGED <<sequence, jobs, projGen>> /\ m.type = "reload"
    BY <1>2, <1>7 DEF CompleteReload, Messages
  <2>2. CASE PendingAt("posted") /\ pending.gen = m.gen /\ IsProjectionCurrent
    <3>1. pending # None /\ m.gen = projGen
      BY <1>4, <2>2 DEF PendingAt, WayInv
    <3>2. /\ editRev' = Newer(editRev, m.rev)
          /\ \/ m.applied /\ activeGen' = projGen /\ pending' = None
             \/ ~m.applied /\ UNCHANGED activeGen /\ pending' = [pending EXCEPT !.stage = "stalled"]
      BY <1>7, <2>2, <3>1 DEF CompleteReload
    <3> QED
      BY <1>0, <1>2, <2>1, <3>1, <3>2, AnswerOrder
  <2>3. CASE ~(PendingAt("posted") /\ pending.gen = m.gen /\ IsProjectionCurrent)
    <3>1. /\ UNCHANGED <<editRev, activeGen>>
          /\ \/ UNCHANGED pending
             \/ pending # None /\ pending' = [pending EXCEPT !.stage = "stalled"]
      BY <1>7, <2>3 DEF CompleteReload, PendingAt
    <3> QED
      BY <1>0, <1>4, <2>1, <3>1, LineStays, OrderFrame DEF webVars
  <2> QED
    BY <2>2, <2>3
<1> QED
  BY <1>3, <1>5, <1>6, <1>7

LEMMA NextOrder == TypeInv /\ OrderInv /\ [Next]_vars => OrderInv'
<1> SUFFICES ASSUME TypeInv, OrderInv, [Next]_vars PROVE OrderInv'
  OBVIOUS
<1>0. TypeInv'
  BY NextTyped
<1>1. CASE PostProjection \/ ReceiveView \/ ReceiveHost
  BY <1>0, <1>1, PostOrder, ViewOrder, HostOrder
<1>2. CASE PersistStep \/ PreparationFails
  BY <1>0, <1>2, PersistOrder
<1>3. CASE RepairStep \/ RepairFails
  BY <1>0, <1>3, RepairOrder
<1>4. CASE SaveStep \/ WillSave \/ SaveTimesOut
  BY <1>0, <1>4, SaveOrder
<1>5. CASE PolicyNotice \/ ProtectPolicy
  BY <1>0, <1>5, PolicyOrder
<1>6. CASE CloseStep \/ \E choice \in {"Save", "Discard", None} : AnswerPrompt(choice)
  BY <1>0, <1>6, CloseOrder
<1>7. CASE \/ UNCHANGED vars \/ Hide \/ ProjectionTimesOut
           \/ \E m \in Metas : ForeignWrite(m)
           \/ \E i \in DOMAIN flush : StartFlush(i) \/ FlushTimesOut(i)
  BY <1>0, <1>7, IdleOrder
<1>8. CASE \/ \E c \in Contents : EditView(c)
           \/ DisposePanel
           \/ \E t \in Texts : ExternalEdit(t)
  BY <1>0, <1>8, EditOrder
<1> QED
  BY <1>1, <1>2, <1>3, <1>4, <1>5, <1>6, <1>7, <1>8 DEF Next, Work, Outside

LEMMA InitOrder == Init => OrderInv
<1> SUFFICES ASSUME Init PROVE OrderInv
  OBVIOUS
<1>1. jobs = <<>> /\ toHost = <<>> /\ toView = <<>> /\ pending = None
  BY DEF Init
<1>2. DOMAIN jobs = {} /\ DOMAIN toHost = {} /\ DOMAIN toView = {}
  BY <1>1
<1>3. Snapshots = {} /\ Replies = {} /\ Projected = {} /\ Persists = {} /\ Turned = {} /\ ~Preparing
  BY <1>1, <1>2 DEF Snapshots, Replies, Projected, Persists, Turned, Preparing, PendingAt
<1> QED
  BY <1>1, <1>2, <1>3 DEF Init, OrderInv, LineInv, WayInv, FreshInv, MailFresh, HostFresh, NextFresh, Floor

-----------------------------------------------------------------------------
(* The last snapshot of a webview that is torn down. *)

Unloads == {i \in Snapshots : toHost[i].unload}

(* It shows what the webview shows, nothing comes after it, and once it is *)
(* in, no repair waits for a projection as if nothing had been admitted.   *)
UnloadInv ==
    /\ \A i \in Unloads : /\ Disposed /\ ~unloaded /\ i = Len(toHost)
                          /\ toHost[i].flush = None /\ Shown(toHost[i])
    /\ unloaded => /\ Disposed /\ toHost = <<>>
                   /\ \A i \in Turned : jobs[i].stage = "projecting" => jobs[i].sn < sequence

(* No repair starts to wait for a projection of a panel that is gone. *)
NoneProjects ==
    \A i \in Turned' : jobs'[i].stage = "projecting" =>
      ~Disposed \/ \E k \in Turned : jobs[k].stage = "projecting" /\ jobs'[i].sn = jobs[k].sn

LEMMA ProjectingStays ==
    ASSUME TypeInv, TypeInv',
           \/ UNCHANGED jobs
           \/ jobs # <<>> /\ jobs' = Tail(jobs)
           \/ \E x : jobs' = Append(jobs, x) /\ x.stage = "queued"
           \/ jobs # <<>> /\ HeadGoesOn /\ (jobs'[1].stage = "projecting" => ~Disposed)
    PROVE  NoneProjects
<1>0. jobs \in Seq(Jobs) /\ \A i \in DOMAIN jobs : i \in Nat /\ i >= 1
  BY JobFacts DEF TypeInv, MailType
<1>1. CASE UNCHANGED jobs
  BY <1>1 DEF NoneProjects, Turned
<1>2. CASE jobs # <<>> /\ jobs' = Tail(jobs)
  <2>1. \A i \in DOMAIN jobs' : i + 1 \in DOMAIN jobs /\ jobs'[i] = jobs[i + 1]
    BY <1>0, <1>2
  <2> QED
    BY <2>1 DEF NoneProjects, Turned
<1>3. CASE \E x : jobs' = Append(jobs, x) /\ x.stage = "queued"
  <2>0. PICK x : jobs' = Append(jobs, x) /\ x.stage = "queued"
    BY <1>3
  <2>1. \A i \in DOMAIN jobs' : (i \in DOMAIN jobs /\ jobs'[i] = jobs[i]) \/ jobs'[i] = x
    BY <1>0, <2>0, Appended
  <2> QED
    BY <2>0, <2>1 DEF NoneProjects, Turned
<1>4. CASE jobs # <<>> /\ HeadGoesOn /\ (jobs'[1].stage = "projecting" => ~Disposed)
  <2>1. DOMAIN jobs' = DOMAIN jobs
    BY <1>4 DEF HeadGoesOn
  <2> QED
    BY <1>4, <2>1 DEF NoneProjects, Turned, HeadGoesOn
<1> QED
  BY <1>1, <1>2, <1>3, <1>4

LEMMA UnloadFrame ==
    ASSUME TypeInv, TypeInv', UnloadInv, NoneProjects, UNCHANGED <<view, unloaded>>,
           Disposed => Disposed', sequence <= sequence',
           UNCHANGED toHost \/ \E n \in 0 .. Len(toHost) : toHost' = SubSeq(toHost, 1, n)
    PROVE  UnloadInv'
<1>0. toHost \in Seq(Messages) /\ sequence \in Nat /\ sequence' \in Nat
  BY MailKinds DEF TypeInv, Scalars, SessionType
<1>1. /\ \A i \in Unloads' : i \in Unloads /\ toHost'[i] = toHost[i] /\ (i = Len(toHost) => i = Len(toHost'))
      /\ toHost = <<>> => toHost' = <<>>
  <2>1. CASE UNCHANGED toHost
    BY <2>1 DEF Unloads, Snapshots
  <2>2. CASE \E n \in 0 .. Len(toHost) : toHost' = SubSeq(toHost, 1, n)
    <3>0. PICK n \in 0 .. Len(toHost) : toHost' = SubSeq(toHost, 1, n)
      BY <2>2
    <3>1. /\ Len(toHost') = n /\ toHost' \in Seq(Messages)
          /\ \A i \in 1 .. n : toHost'[i] = toHost[i] /\ i \in DOMAIN toHost /\ i <= Len(toHost)
      BY <1>0, <3>0, SubSeqProperties
    <3>2. \A i \in DOMAIN toHost' : i \in 1 .. n
      BY <3>1
    <3>3. \A i \in Unloads' : i \in Unloads /\ toHost'[i] = toHost[i] /\ i \in 1 .. n
      BY <3>1, <3>2 DEF Unloads, Snapshots
    <3>4. \A i \in 1 .. n : i = Len(toHost) => i = Len(toHost')
      BY <1>0, <3>0, <3>1
    <3>5. toHost = <<>> => toHost' = <<>>
      BY <1>0, <3>0, <3>1
    <3> QED
      BY <3>3, <3>4, <3>5
  <2> QED
    BY <2>1, <2>2
<1>2. \A i \in Unloads' : /\ Disposed' /\ ~unloaded' /\ i = Len(toHost')
                          /\ toHost'[i].flush = None /\ Shown(toHost[i])'
  BY <1>1 DEF UnloadInv, Shown
<1>3. ASSUME unloaded', NEW i \in Turned', jobs'[i].stage = "projecting" PROVE jobs'[i].sn < sequence'
  <2>1. PICK k \in Turned : jobs[k].stage = "projecting" /\ jobs'[i].sn = jobs[k].sn
    BY <1>3 DEF NoneProjects, UnloadInv
  <2>2. jobs[k].sn < sequence /\ jobs[k].sn \in Nat
    BY <1>3, <2>1, LineFacts DEF UnloadInv
  <2> QED
    BY <1>0, <2>1, <2>2
<1> QED
  BY <1>1, <1>2, <1>3 DEF UnloadInv

(* While the panel is open there is no such snapshot. *)
LEMMA UnloadOpen ==
    ASSUME TypeInv, UnloadInv, ~Disposed, UNCHANGED unloaded,
           \/ UNCHANGED toHost
           \/ \E x : toHost' = Append(toHost, x) /\ (x.type = "persist" => ~x.unload)
    PROVE  UnloadInv'
<1>0. toHost \in Seq(Messages) /\ ~unloaded /\ Unloads = {}
  BY MailKinds DEF UnloadInv, TypeInv, Scalars, SessionType
<1>1. Unloads' = {}
  <2>1. CASE UNCHANGED toHost
    BY <1>0, <2>1 DEF Unloads, Snapshots
  <2>2. CASE \E x : toHost' = Append(toHost, x) /\ (x.type = "persist" => ~x.unload)
    <3>0. PICK x : toHost' = Append(toHost, x) /\ (x.type = "persist" => ~x.unload)
      BY <2>2
    <3>1. \A i \in DOMAIN toHost' : (i \in DOMAIN toHost /\ toHost'[i] = toHost[i]) \/ toHost'[i] = x
      BY <1>0, <3>0, Appended
    <3> QED
      BY <1>0, <3>0, <3>1 DEF Unloads, Snapshots
  <2> QED
    BY <2>1, <2>2
<1> QED
  BY <1>0, <1>1 DEF UnloadInv

LEMMA QueueHere ==
    ASSUME TypeInv, jobs # <<>>
    PROVE  IsQueue(jobs) /\ 1 \in DOMAIN jobs /\ Head1 = jobs[1]
BY QueueOf, HeadThere DEF TypeInv, MailType

(* The queue as a persist leaves it. *)
LEMMA PersistQueue ==
    ASSUME TypeInv, PersistStep \/ PreparationFails
    PROVE  /\ jobs # <<>> /\ Head1 \in PersistJobs
           /\ \/ jobs' = Tail(jobs)
              \/ HeadGoesOn /\ jobs'[1].kind = "persist" /\ jobs'[1].stage \in PersistStages
<1>0. jobs # <<>> /\ Head1 \in PersistJobs
  <2>1. \E stage : Running("persist", stage)
    BY DEF PersistStep, StartPersist, SanitizeState, MaterializeState, PreparationFails, ApplySourceText,
       ResumeApplied, RestoreSourceText
  <2> QED
    BY <2>1, JobKinds DEF TypeInv
<1>1. \/ jobs' = Tail(jobs)
      \/ \E s \in PersistStages : Advance(s)
      \/ \E s \in PersistStages : \E m : jobs' = [jobs EXCEPT ![1].stage = s, ![1].meta = m]
      \/ \E s \in PersistStages : \E m, n : jobs' = [jobs EXCEPT ![1].stage = s, ![1].copy = m, ![1].version = n]
      \/ \E s \in PersistStages : \E m, n : jobs' = [jobs EXCEPT ![1].stage = s, ![1].epoch = m, ![1].version = n]
      \/ jobs' = [jobs EXCEPT ![1].tries = @ + 1]
  BY DEF PersistStep, StartPersist, SanitizeState, MaterializeState, PreparationFails, ApplySourceText,
     ResumeApplied, RestoreSourceText, EndPersist, Commit, PersistStages
<1>2. ASSUME NEW s \in PersistStages, Advance(s)
      PROVE  HeadGoesOn /\ jobs'[1].kind = "persist" /\ jobs'[1].stage \in PersistStages
  <2>1. HeadGoesOn /\ jobs'[1] = [Head1 EXCEPT !.stage = s]
    BY <1>2, QueueHere, Goes, <1>0 DEF Advance
  <2> QED
    BY <1>0, <2>1 DEF PersistJobs
<1>3. ASSUME NEW s \in PersistStages, NEW m, jobs' = [jobs EXCEPT ![1].stage = s, ![1].meta = m]
      PROVE  HeadGoesOn /\ jobs'[1].kind = "persist" /\ jobs'[1].stage \in PersistStages
  <2>1. HeadGoesOn /\ jobs'[1] = [Head1 EXCEPT !.stage = s, !.meta = m]
    BY <1>3, QueueHere, Goes, <1>0 DEF Advance
  <2> QED
    BY <1>0, <2>1 DEF PersistJobs
<1>4. ASSUME NEW s \in PersistStages, NEW m, NEW n, jobs' = [jobs EXCEPT ![1].stage = s, ![1].copy = m, ![1].version = n]
      PROVE  HeadGoesOn /\ jobs'[1].kind = "persist" /\ jobs'[1].stage \in PersistStages
  <2>1. HeadGoesOn /\ jobs'[1] = [Head1 EXCEPT !.stage = s, !.copy = m, !.version = n]
    BY <1>4, QueueHere, Goes, <1>0 DEF Advance
  <2> QED
    BY <1>0, <2>1 DEF PersistJobs
<1>5. ASSUME NEW s \in PersistStages, NEW m, NEW n, jobs' = [jobs EXCEPT ![1].stage = s, ![1].epoch = m, ![1].version = n]
      PROVE  HeadGoesOn /\ jobs'[1].kind = "persist" /\ jobs'[1].stage \in PersistStages
  <2>1. HeadGoesOn /\ jobs'[1] = [Head1 EXCEPT !.stage = s, !.epoch = m, !.version = n]
    BY <1>5, QueueHere, Goes, <1>0 DEF Advance
  <2> QED
    BY <1>0, <2>1 DEF PersistJobs
<1>6. CASE jobs' = [jobs EXCEPT ![1].tries = @ + 1]
  <2>1. HeadGoesOn /\ jobs'[1] = [Head1 EXCEPT !.tries = @ + 1]
    BY <1>0, <1>6, QueueHere, Goes
  <2> QED
    BY <1>0, <2>1 DEF PersistJobs
<1> QED
  BY <1>0, <1>1, <1>2, <1>3, <1>4, <1>5, <1>6

(* ... and a repair. *)
LEMMA RepairQueue ==
    ASSUME TypeInv, RepairStep \/ RepairFails
    PROVE  /\ jobs # <<>> /\ Head1 \in RepairJobs
           /\ \/ jobs' = Tail(jobs)
              \/ RepairFile /\ HeadGoesOn /\ jobs'[1].kind = "repair" /\ jobs'[1].stage = "repaired"
              \/ AdoptRepair /\ HeadGoesOn /\ jobs'[1].kind = "repair" /\ jobs'[1].stage = "projecting"
                 /\ ~Disposed
<1>0. jobs # <<>> /\ Head1 \in RepairJobs
  <2>1. \E stage : Running("repair", stage)
    BY DEF RepairStep, RepairFile, AdoptRepair, RepairProjected, RepairFails
  <2> QED
    BY <2>1, JobKinds DEF TypeInv
<1>1. CASE RepairFile
  <2>1. PICK m, n : jobs' = [jobs EXCEPT ![1].stage = "repaired", ![1].input = m, ![1].output = n]
    BY <1>1 DEF RepairFile
  <2>2. HeadGoesOn /\ jobs'[1] = [Head1 EXCEPT !.stage = "repaired", !.input = m, !.output = n]
    BY <1>0, <2>1, QueueHere, Goes
  <2> QED
    BY <1>0, <1>1, <2>2 DEF RepairJobs
<1>2. CASE AdoptRepair
  <2>1. \/ jobs' = Tail(jobs)
        \/ ~Disposed /\ \E m : jobs' = [jobs EXCEPT ![1].stage = "projecting", ![1].gen = m]
    BY <1>2 DEF AdoptRepair
  <2> QED
    <3>1. ASSUME NEW m, jobs' = [jobs EXCEPT ![1].stage = "projecting", ![1].gen = m]
          PROVE  HeadGoesOn /\ jobs'[1] = [Head1 EXCEPT !.stage = "projecting", !.gen = m]
      BY <1>0, <3>1, QueueHere, Goes
    <3> QED
      BY <1>0, <1>2, <2>1, <3>1 DEF RepairJobs
<1>3. CASE RepairProjected \/ RepairFails
  BY <1>0, <1>3 DEF RepairProjected, RepairFails
<1> QED
  BY <1>1, <1>2, <1>3 DEF RepairStep

LEMMA PersistUnload ==
    ASSUME TypeInv, TypeInv', UnloadInv, PersistStep \/ PreparationFails PROVE UnloadInv'
<1>1. NoneProjects
  BY PersistQueue, ProjectingStays DEF PersistStages
<1>2. UNCHANGED <<view, unloaded, close, toHost>>
  BY DEF PersistStep, StartPersist, SanitizeState, MaterializeState, PreparationFails, ApplySourceText,
     ResumeApplied, RestoreSourceText, JobSide, webVars, channelVars, closeVars
<1>3. sequence' = sequence \/ sequence' = sequence + 1
  BY DEF PersistStep, StartPersist, SanitizeState, MaterializeState, PreparationFails, ApplySourceText,
     ResumeApplied, RestoreSourceText, Project
<1>4. sequence \in Nat
  BY JobFacts
<1> QED
  BY <1>1, <1>2, <1>3, <1>4, UnloadFrame DEF Disposed

LEMMA RepairUnload ==
    ASSUME TypeInv, TypeInv', UnloadInv, RepairStep \/ RepairFails PROVE UnloadInv'
<1>1. NoneProjects
  BY RepairQueue, ProjectingStays
<1>2. UNCHANGED <<view, unloaded, close, toHost, sequence>>
  BY DEF RepairStep, RepairFile, AdoptRepair, RepairProjected, RepairFails, RepairSide, webVars, closeVars,
     Project
<1>3. sequence \in Nat
  BY JobFacts
<1> QED
  BY <1>1, <1>2, <1>3, UnloadFrame DEF Disposed

(* What is added to the queue besides persists. *)
LEMMA QueueGrows ==
    ASSUME SaveStep \/ WillSave \/ SaveTimesOut \/ PolicyNotice \/ ProtectPolicy
    PROVE  \/ UNCHANGED jobs
           \/ jobs # <<>> /\ Head1.kind = "save" /\ jobs' = Tail(jobs)
           \/ \E x : jobs' = Append(jobs, x) /\ x.stage = "queued" /\ x.kind # "persist"
<1>1. CASE DidSave
  <2>1. PICK x : x = [kind |-> "save", stage |-> "queued"]
    OBVIOUS
  <2>2. UNCHANGED jobs \/ jobs' = Append(jobs, x)
    BY <1>1, <2>1 DEF DidSave
  <2> QED
    BY <2>1, <2>2
<1>2. CASE PolicyNotice
  <2>1. PICK x : x = [kind |-> "repair", stage |-> "queued", by |-> known.by,
                      rev |-> editRev, sn |-> sequence, input |-> file, output |-> file, gen |-> 0]
    OBVIOUS
  <2>2. UNCHANGED jobs \/ jobs' = Append(jobs, x)
    BY <1>2, <2>1 DEF PolicyNotice
  <2> QED
    BY <2>1, <2>2
<1>3. CASE SaveFlushed \/ SaveTimesOut \/ SaveDrained \/ WillSave \/ ProtectPolicy
  BY <1>3 DEF SaveFlushed, SaveTimesOut, SaveDrained, WillSave, ProtectPolicy
<1>4. CASE SaveSidecar
  BY <1>4 DEF SaveSidecar, Running
<1> QED
  BY <1>1, <1>2, <1>3, <1>4 DEF SaveStep

(* Steps that move neither the webview nor the projections. *)
LEMMA SideUnload ==
    ASSUME TypeInv, TypeInv', UnloadInv,
           \/ SaveStep \/ WillSave \/ SaveTimesOut \/ PolicyNotice \/ ProtectPolicy
           \/ CloseStep \/ \E choice \in {"Save", "Discard", None} : AnswerPrompt(choice)
           \/ UNCHANGED vars \/ Hide \/ ProjectionTimesOut \/ PostProjection
           \/ \E m \in Metas : ForeignWrite(m)
           \/ \E t \in Texts : ExternalEdit(t)
           \/ \E i \in DOMAIN flush : StartFlush(i) \/ FlushTimesOut(i)
    PROVE  UnloadInv'
<1>0. sequence \in Nat
  BY JobFacts
<1>1. CASE SaveStep \/ WillSave \/ SaveTimesOut \/ PolicyNotice \/ ProtectPolicy
  <2>1. NoneProjects
    BY <1>1, QueueGrows, ProjectingStays
  <2>2. UNCHANGED <<view, unloaded, close, toHost, sequence>>
    BY <1>1 DEF SaveStep, SaveFlushed, SaveTimesOut, SaveDrained, DidSave, SaveSidecar, WillSave, PolicyNotice, ProtectPolicy,
       SaveSide, OutsideVars, webVars, channelVars, closeVars
  <2> QED
    BY <1>0, <2>1, <2>2, UnloadFrame DEF Disposed
<1>2. CASE CloseStep \/ \E choice \in {"Save", "Discard", None} : AnswerPrompt(choice)
  <2>1. /\ UNCHANGED <<view, unloaded, jobs, sequence>> /\ close' # "open"
        /\ UNCHANGED toHost \/ \E n \in 0 .. Len(toHost) : toHost' = SubSeq(toHost, 1, n)
    BY <1>2 DEF CloseStep, CloseFinals, CloseUnload, CloseAdmission, CloseDrained, SaveDraft, RecoverDraft,
     SettleClose, AnswerPrompt, CloseSide, webVars
  <2> QED
    BY <1>0, <2>1, ProjectingStays, UnloadFrame DEF Disposed
<1>3. CASE \/ UNCHANGED vars \/ Hide \/ ProjectionTimesOut \/ PostProjection
           \/ \E m \in Metas : ForeignWrite(m)
           \/ \E i \in DOMAIN flush : StartFlush(i) \/ FlushTimesOut(i)
  <2>1. UNCHANGED <<view, unloaded, jobs, sequence, close, toHost>>
    BY <1>3 DEF vars, Hide, ProjectionTimesOut, PostProjection, ForeignWrite, StartFlush, FlushTimesOut,
       OutsideVars, webVars, channelVars, closeVars
  <2> QED
    BY <1>0, <2>1, ProjectingStays, UnloadFrame DEF Disposed
<1>4. CASE \E t \in Texts : ExternalEdit(t)
  <2>1. /\ UNCHANGED <<view, unloaded, jobs, close, toHost>>
        /\ sequence' = sequence \/ sequence' = sequence + 1
    BY <1>4 DEF ExternalEdit, OutsideVars, webVars, closeVars, Project
  <2> QED
    BY <1>0, <2>1, ProjectingStays, UnloadFrame DEF Disposed
<1> QED
  BY <1>1, <1>2, <1>3, <1>4

LEMMA ViewUnload ==
    ASSUME TypeInv, TypeInv', UnloadInv, ReceiveView \/ \E c \in Contents : EditView(c)
    PROVE  UnloadInv'
<1>0. ~Disposed /\ UNCHANGED unloaded
  BY DEF ReceiveView, EditView, HostSide, closeVars
<1>1. CASE \E c \in Contents : EditView(c)
  <2>0. PICK c \in Contents : EditView(c)
    BY <1>1
  <2>1. PICK x : x = Snapshot(c, viewRev + 1, None, FALSE)
    OBVIOUS
  <2>2. toHost' = Append(toHost, x) /\ ~x.unload
    BY <2>0, <2>1 DEF EditView, Snapshot
  <2> QED
    BY <1>0, <2>2, UnloadOpen
<1>2. CASE ReceiveView
  <2>0. PICK m : m = Head(toView)
    OBVIOUS
  <2>1. m \in Requests
    <3>1. toView # <<>> /\ toView \in Seq(Requests)
      BY <1>2, ViewKinds DEF ReceiveView
    <3> QED
      BY <2>0, <3>1
  <2>2. CASE m.type = "flush"
    <3>1. PICK x : x = Snapshot(view, viewRev, m.id, FALSE)
      OBVIOUS
    <3>2. toHost' = Append(toHost, x) /\ ~x.unload
      BY <1>2, <2>0, <2>2, <3>1 DEF ReceiveView, Snapshot
    <3> QED
      BY <1>0, <3>2, UnloadOpen
  <2>3. CASE m.type = "data"
    <3>1. ReceiveData(m)
      BY <1>2, <2>0, <2>3 DEF ReceiveView
    <3>2. PICK a, r : toHost' = Append(toHost, [type |-> "reload", gen |-> m.gen, applied |-> a, rev |-> r])
      BY <3>1 DEF ReceiveData, Reply
    <3>3. PICK x : x = [type |-> "reload", gen |-> m.gen, applied |-> a, rev |-> r]
      OBVIOUS
    <3>4. toHost' = Append(toHost, x) /\ x.type # "persist"
      BY <3>2, <3>3
    <3> QED
      BY <1>0, <3>4, UnloadOpen
  <2> QED
    BY <2>1, <2>2, <2>3 DEF Requests
<1> QED
  BY <1>1, <1>2

LEMMA DisposeUnload ==
    ASSUME TypeInv, TypeInv', UnloadInv, DisposePanel
    PROVE  UnloadInv'
<1>0. /\ ~Disposed /\ Disposed' /\ UNCHANGED <<view, unloaded, jobs, sequence>> /\ toHost \in Seq(Messages)
      /\ sequence \in Nat
  BY MailKinds, JobFacts DEF DisposePanel, webVars, Disposed
<1>1. ~unloaded /\ Unloads = {}
  BY <1>0 DEF UnloadInv, TypeInv, Scalars, SessionType
<1>2. PICK x : x = Snapshot(view, viewRev, None, TRUE)
  OBVIOUS
<1>3. UNCHANGED toHost \/ toHost' = Append(toHost, x)
  BY <1>2 DEF DisposePanel
<1>4. CASE UNCHANGED toHost
  <2>1. Unloads' = {}
    BY <1>1, <1>4 DEF Unloads, Snapshots
  <2> QED
    BY <1>0, <1>1, <2>1 DEF UnloadInv
<1>5. CASE toHost' = Append(toHost, x)
  <2>1. \A i \in DOMAIN toHost' : (i \in DOMAIN toHost /\ toHost'[i] = toHost[i])
                                  \/ (i = Len(toHost) + 1 /\ toHost'[i] = x)
    BY <1>0, <1>5, Appended
  <2>2. Len(toHost') = Len(toHost) + 1
    BY <1>0, <1>5
  <2>3. x.flush = None /\ x.text = view.text /\ x.meta = view.meta
    BY <1>2 DEF Snapshot
  <2>4. \A i \in Unloads' : i = Len(toHost') /\ toHost'[i] = x
    BY <1>1, <2>1, <2>2 DEF Unloads, Snapshots
  <2> QED
    BY <1>0, <1>1, <2>3, <2>4 DEF UnloadInv, Shown
<1> QED
  BY <1>3, <1>4, <1>5

(* When it is let in, it is queued. *)
LEMMA LastAdmitted ==
    ASSUME TypeInv, OrderInv, UnloadInv, ReceiveHost, ~unloaded, unloaded'
    PROVE  \E m : /\ m = toHost[1] /\ jobs' = Append(jobs, Job(m)) /\ sequence' = sequence + 1
                  /\ Shown(m) /\ editRev <= m.rev /\ Disposed /\ toHost' = <<>> /\ m \in PersistMessages
<1>0. toHost # <<>> /\ toHost' = Tail(toHost) /\ toHost \in Seq(Messages)
  BY MailKinds DEF ReceiveHost
<1>1. PICK m : m = Head(toHost)
  OBVIOUS
<1>2. m = toHost[1] /\ m \in Messages /\ 1 \in DOMAIN toHost
  BY <1>0, <1>1
<1>3. m.type = "persist" /\ Persist(m)
  BY <1>1, <1>2 DEF ReceiveHost, Retained, CompleteReload, Messages
<1>4. m.unload /\ Admitted(m) /\ ~closing
  BY <1>3 DEF Persist
<1>5. 1 \in Snapshots /\ 1 \in Unloads
  BY <1>2, <1>3, <1>4 DEF Snapshots, Unloads
<1>6. Disposed /\ Len(toHost) = 1 /\ m.flush = None /\ Shown(m)
  BY <1>2, <1>5 DEF UnloadInv
<1>7. editRev <= m.rev
  <2>1. m.gen = activeGen /\ HostFresh
    BY <1>4 DEF Admitted, OrderInv, FreshInv
  <2> QED
    BY <1>2, <1>5, <2>1 DEF HostFresh, Floor
<1>8. ~IsStale(m.rev)
  BY <1>2, <1>5, <1>7, MailKinds DEF IsStale
<1>9. jobs' = Append(jobs, Job(m)) /\ sequence' = sequence + 1
  BY <1>3, <1>4, <1>6, <1>8 DEF Persist
<1>10. toHost' = <<>>
  BY <1>0, <1>6
<1> QED
  BY <1>2, <1>5, <1>6, <1>7, <1>9, <1>10, MailKinds

LEMMA HostUnload ==
    ASSUME TypeInv, TypeInv', OrderInv, UnloadInv, ReceiveHost
    PROVE  UnloadInv'
<1>0. /\ toHost # <<>> /\ toHost' = Tail(toHost) /\ toHost \in Seq(Messages) /\ UNCHANGED <<view, close>>
      /\ ~unloaded
  BY MailKinds DEF ReceiveHost, webVars, UnloadInv
<1>1. CASE ~unloaded'
  <2>1. \A i \in DOMAIN toHost' : i + 1 \in DOMAIN toHost /\ toHost'[i] = toHost[i + 1]
    BY <1>0
  <2>2. Len(toHost') = Len(toHost) - 1 /\ \A i \in DOMAIN toHost' : i \in Nat
    BY <1>0
  <2>3. \A i \in Unloads' : i + 1 \in Unloads /\ toHost'[i] = toHost[i + 1] /\ i \in Nat
    BY <2>1, <2>2 DEF Unloads, Snapshots
  <2>4. \A i \in Unloads' : i = Len(toHost')
    BY <2>2, <2>3 DEF UnloadInv
  <2> QED
    BY <1>0, <1>1, <2>3, <2>4 DEF UnloadInv, Shown, Disposed
<1>2. CASE unloaded'
  <2>1. PICK m : /\ jobs' = Append(jobs, Job(m)) /\ sequence' = sequence + 1
                 /\ Disposed /\ toHost' = <<>>
    BY <1>0, <1>2, LastAdmitted
  <2>2. Unloads' = {} /\ Disposed'
    BY <1>0, <2>1 DEF Unloads, Snapshots, Disposed
  <2>3. NoneProjects
    <3>1. PICK x : x = Job(m)
      OBVIOUS
    <3>2. jobs' = Append(jobs, x) /\ x.stage = "queued"
      BY <2>1, <3>1 DEF Job
    <3> QED
      BY <3>2, ProjectingStays
  <2>4. ASSUME NEW i \in Turned', jobs'[i].stage = "projecting" PROVE jobs'[i].sn < sequence'
    <3>1. PICK k \in Turned : jobs'[i].sn = jobs[k].sn
      BY <2>1, <2>3, <2>4 DEF NoneProjects
    <3>2. jobs[k].sn <= sequence /\ jobs[k].sn \in Nat /\ sequence \in Nat
      BY LineFacts DEF OrderInv, LineInv
    <3> QED
      BY <2>1, <3>1, <3>2
  <2> QED
    BY <2>1, <2>2, <2>4 DEF UnloadInv
<1> QED
  BY <1>1, <1>2

LEMMA NextUnload ==
    ASSUME TypeInv, TypeInv', OrderInv, UnloadInv, [Next]_vars
    PROVE  UnloadInv'
<1>1. CASE PersistStep \/ PreparationFails
  BY <1>1, PersistUnload
<1>2. CASE RepairStep \/ RepairFails
  BY <1>2, RepairUnload
<1>3. CASE \/ SaveStep \/ WillSave \/ SaveTimesOut \/ PolicyNotice \/ ProtectPolicy
           \/ CloseStep \/ \E choice \in {"Save", "Discard", None} : AnswerPrompt(choice)
           \/ UNCHANGED vars \/ Hide \/ ProjectionTimesOut \/ PostProjection
           \/ \E m \in Metas : ForeignWrite(m)
           \/ \E t \in Texts : ExternalEdit(t)
           \/ \E i \in DOMAIN flush : StartFlush(i) \/ FlushTimesOut(i)
  BY <1>3, SideUnload
<1>4. CASE ReceiveView \/ \E c \in Contents : EditView(c)
  BY <1>4, ViewUnload
<1>5. CASE DisposePanel
  BY <1>5, DisposeUnload
<1>6. CASE ReceiveHost
  BY <1>6, HostUnload
<1> QED
  BY <1>1, <1>2, <1>3, <1>4, <1>5, <1>6 DEF Next, Work, Outside

LEMMA InitUnload == Init => UnloadInv
<1> SUFFICES ASSUME Init PROVE UnloadInv
  OBVIOUS
<1>1. ~unloaded /\ DOMAIN toHost = {}
  BY DEF Init
<1> QED
  BY <1>1 DEF UnloadInv, Unloads, Snapshots

-----------------------------------------------------------------------------
(* What becomes of the last snapshot. *)

(* The job that carries it: nothing retires it, and its text is refused    *)
(* only when the source was edited elsewhere.                              *)
Carries(j) ==
    /\ j.sn = sequence /\ editRev <= j.rev /\ j.text = view.text /\ Kin(j.meta, view.meta)
    /\ j.stage # "restoring"
    /\ j.stage = "applying" => j.version = externals \/ (doc # j.text /\ externals > 0)
    /\ j.stage = "applied" => doc = j.text \/ externals > 0

LastInv ==
    (unloaded /\ externals < 2) =>
      \/ \E i \in Persists : Carries(jobs[i])
      \/ Persists = {} /\ Kin(known.meta, view.meta)
      \/ Persists = {} /\ doc # view.text /\ externals > 0

LEMMA CarryOn ==
    ASSUME NEW j, Carries(j), UNCHANGED <<view, sequence, editRev>>, PolicyGoes,
           UNCHANGED <<doc, externals>> \/ j.stage = "queued"
    PROVE  Carries(j)'
<1>1. Kin(j.meta, view.meta)'
  <2>1. PICK a, b : a = j.meta /\ b = view.meta
    OBVIOUS
  <2>2. Kin(a, b)'
    BY <2>1, KinOn DEF Carries
  <2> QED
    BY <2>1, <2>2 DEF Kin, Sanitize
<1> QED
  BY <1>1 DEF Carries

(* The carrier is the last persist. *)
LEMMA CarrierLast ==
    ASSUME TypeInv, LineInv, NEW i \in Persists, Carries(jobs[i])
    PROVE  /\ i = 1 => Persists = {1}
           /\ i # 1 => jobs[i].stage = "queued" /\ (1 \in Turned => jobs[1].sn < sequence)
<1>0. /\ \A k \in Persists : k \in Turned /\ k \in Nat /\ k >= 1 /\ jobs[k].sn \in Nat /\ jobs[k].sn <= sequence
      /\ sequence \in Nat /\ jobs[i].sn = sequence /\ i \in DOMAIN jobs
  BY LineFacts, JobFacts DEF LineInv, Persists, Carries
<1>1. ASSUME i = 1, NEW k \in Persists, k # 1 PROVE FALSE
  <2>1. 1 < k /\ jobs[1].sn < jobs[k].sn
    BY <1>0, <1>1 DEF LineInv
  <2> QED
    BY <1>0, <1>1, <2>1
<1>2. ASSUME i # 1 PROVE jobs[i].stage = "queued" /\ (1 \in Turned => jobs[1].sn < sequence)
  BY <1>0, <1>2 DEF LineInv
<1> QED
  BY <1>1, <1>2

(* The persists behind the head stay. *)
LEMMA TailKeeps ==
    ASSUME TypeInv, TypeInv', jobs # <<>>,
           jobs' = Tail(jobs) \/ (HeadGoesOn /\ jobs'[1].kind = Head1.kind)
    PROVE  /\ \A i \in Persists : i # 1 => \E k \in Persists' : jobs'[k] = jobs[i]
           /\ Persists \subseteq {1} /\ (jobs' = Tail(jobs) \/ Head1.kind # "persist") => Persists' = {}
           /\ HeadGoesOn => Persists' = Persists
<1>0. jobs \in Seq(Jobs) /\ Head1 = jobs[1] /\ \A i \in DOMAIN jobs : i \in Nat /\ i >= 1
  BY JobFacts, HeadThere DEF TypeInv, MailType
<1>1. CASE jobs' = Tail(jobs)
  <2>1. \A i \in DOMAIN jobs' : i + 1 \in DOMAIN jobs /\ jobs'[i] = jobs[i + 1] /\ i + 1 # 1
    BY <1>0, <1>1
  <2>2. \A i \in DOMAIN jobs : i # 1 => i - 1 \in DOMAIN jobs' /\ jobs'[i - 1] = jobs[i]
    BY <1>0, <1>1
  <2>3. \A i \in Persists' : i + 1 \in Persists /\ i + 1 # 1
    BY <2>1 DEF Persists
  <2>4. \A i \in Persists : i # 1 => i - 1 \in Persists' /\ jobs'[i - 1] = jobs[i]
    BY <2>2 DEF Persists
  <2>5. ~HeadGoesOn
    <3>1. Len(jobs') = Len(jobs) - 1 /\ Len(jobs) \in Nat /\ DOMAIN jobs' = 1 .. Len(jobs')
      BY <1>0, <1>1
    <3>2. DOMAIN jobs # DOMAIN jobs'
      BY <1>0, <3>1
    <3> QED
      BY <3>2 DEF HeadGoesOn
  <2> QED
    BY <2>3, <2>4, <2>5
<1>2. CASE HeadGoesOn /\ jobs'[1].kind = Head1.kind
  <2>1. DOMAIN jobs' = DOMAIN jobs
    BY <1>2 DEF HeadGoesOn
  <2>2. Persists' = Persists
    BY <1>0, <1>2, <2>1 DEF Persists, HeadGoesOn
  <2>3. \A i \in Persists : i # 1 => jobs'[i] = jobs[i]
    BY <1>2 DEF Persists, HeadGoesOn
  <2>4. Head1.kind # "persist" => 1 \notin Persists
    BY <1>0 DEF Persists
  <2>5. jobs' # Tail(jobs)
    <3>1. jobs' = Tail(jobs) => Len(jobs') = Len(jobs) - 1 /\ DOMAIN jobs' = 1 .. Len(jobs')
      BY <1>0
    <3>2. Len(jobs) \in Nat /\ DOMAIN jobs = 1 .. Len(jobs) /\ Len(jobs) >= 1
      BY <1>0
    <3> QED
      <4>1. Len(jobs) \in DOMAIN jobs /\ Len(jobs) \notin 1 .. (Len(jobs) - 1)
        BY <3>2
      <4>2. jobs' = Tail(jobs) => DOMAIN jobs' = 1 .. (Len(jobs) - 1)
        BY <3>1
      <4> QED
        BY <2>1, <4>1, <4>2
  <2> QED
    BY <2>2, <2>3, <2>4, <2>5
<1> QED
  BY <1>1, <1>2

(* Steps that are not about persists. *)
LEMMA LastFrame ==
    ASSUME TypeInv, TypeInv', LineInv, LastInv, unloaded,
           UNCHANGED <<view, sequence, editRev, doc, externals>>, PolicyGoes,
           UNCHANGED known \/ (UNCHANGED policy /\ known'.meta = Sanitize(known.meta)),
           \/ UNCHANGED jobs
           \/ jobs # <<>> /\ Head1.kind # "persist" /\ jobs' = Tail(jobs)
           \/ \E x : jobs' = Append(jobs, x) /\ x.kind # "persist"
           \/ jobs # <<>> /\ Head1.kind # "persist" /\ HeadGoesOn /\ jobs'[1].kind = Head1.kind
    PROVE  LastInv'
<1>1. (\A i \in Persists : \E k \in Persists' : jobs'[k] = jobs[i]) /\ (Persists = {} => Persists' = {})
  <2>0. jobs \in Seq(Jobs)
    BY DEF TypeInv, MailType
  <2>1. CASE UNCHANGED jobs
    BY <2>1 DEF Persists
  <2>2. CASE \E x : jobs' = Append(jobs, x) /\ x.kind # "persist"
    <3>0. PICK x : jobs' = Append(jobs, x) /\ x.kind # "persist"
      BY <2>2
    <3>1. /\ \A i \in DOMAIN jobs' : (i \in DOMAIN jobs /\ jobs'[i] = jobs[i]) \/ jobs'[i] = x
          /\ \A i \in DOMAIN jobs : i \in DOMAIN jobs' /\ jobs'[i] = jobs[i]
      BY <2>0, <3>0, Appended
    <3>2. Persists' = Persists /\ \A i \in Persists : jobs'[i] = jobs[i]
      BY <3>0, <3>1 DEF Persists
    <3> QED
      BY <3>2
  <2>3. CASE /\ jobs # <<>> /\ Head1.kind # "persist"
             /\ jobs' = Tail(jobs) \/ (HeadGoesOn /\ jobs'[1].kind = Head1.kind)
    <3>1. 1 \notin Persists
      BY <2>3, HeadThere DEF Persists
    <3> QED
      BY <2>3, <3>1, TailKeeps
  <2> QED
    BY <2>1, <2>2, <2>3
<1>2. Kin(known.meta, view.meta) => Kin(known.meta, view.meta)'
  <2>1. PICK a, b, c : a = known.meta /\ b = view.meta /\ c = known'.meta
    OBVIOUS
  <2>2. Kin(a, b) => Kin(c, b)
    BY <2>1, SanitizeTwice DEF Kin
  <2>3. Kin(c, b) => Kin(c, b)'
    BY KinOn
  <2> QED
    BY <2>1, <2>2, <2>3 DEF Kin, Sanitize
<1> SUFFICES ASSUME externals < 2
             PROVE  \/ \E i \in Persists' : Carries(jobs[i])'
                    \/ Persists' = {} /\ Kin(known.meta, view.meta)'
                    \/ Persists' = {} /\ doc' # view'.text /\ externals' > 0
  BY DEF LastInv
<1>3. CASE \E i \in Persists : Carries(jobs[i])
  <2>1. PICK i \in Persists : Carries(jobs[i])
    BY <1>3
  <2>2. PICK j : j = jobs[i]
    OBVIOUS
  <2>3. PICK k \in Persists' : jobs'[k] = j
    BY <1>1, <2>2
  <2>4. Carries(j)'
    BY <2>1, <2>2, CarryOn
  <2> QED
    BY <2>3, <2>4 DEF Carries, Kin, Sanitize
<1>4. CASE Persists = {} /\ Kin(known.meta, view.meta)
  BY <1>1, <1>2, <1>4
<1>5. CASE Persists = {} /\ doc # view.text /\ externals > 0
  BY <1>1, <1>5
<1> QED
  BY <1>3, <1>4, <1>5 DEF LastInv

LEMMA FaultRaises == ASSUME TypeInv, Fault PROVE faults' # 0
BY DEF Fault, TypeInv, Scalars, CountType

(* An older persist is in front of the carrier. *)
LEMMA OlderLast ==
    ASSUME TypeInv, TypeInv', LineInv, PersistStep, Disposed,
           NEW i \in Persists, Carries(jobs[i]), i # 1
    PROVE  \E k \in Persists' : Carries(jobs[k])'
<1>0. /\ jobs # <<>> /\ Head1 \in PersistJobs
      /\ jobs' = Tail(jobs) \/ (HeadGoesOn /\ jobs'[1].kind = Head1.kind)
      /\ UNCHANGED <<view, policy, externals>> /\ PolicyGoes
  <2>1. UNCHANGED <<view, policy, externals>>
    BY DEF PersistStep, StartPersist, SanitizeState, MaterializeState, ApplySourceText, ResumeApplied,
       RestoreSourceText, JobSide, webVars, fileVars, boundVars
  <2> QED
    BY <2>1, PersistQueue DEF PersistJobs, PolicyGoes
<1>1. jobs[i].stage = "queued" /\ ~IsCurrent(Head1)
  <2>1. 1 \in Turned /\ Head1 = jobs[1] /\ jobs[1].sn \in Nat /\ sequence \in Nat
    <3>1. Head1 = jobs[1] /\ 1 \in DOMAIN jobs /\ Head1.kind = "persist"
      BY <1>0, HeadThere DEF PersistJobs
    <3>2. 1 \in Turned
      BY <3>1 DEF Turned
    <3> QED
      BY <3>1, <3>2, LineFacts
  <2>2. jobs[i].stage = "queued" /\ jobs[1].sn < sequence
    BY <2>1, CarrierLast
  <2> QED
    BY <2>1, <2>2 DEF IsCurrent
<1>2. UNCHANGED <<editRev, sequence>>
  <2>1. CASE ResumeApplied
    BY <2>1 DEF ResumeApplied, Project, projVars
  <2>2. CASE StartPersist
    BY <1>1, <2>2 DEF StartPersist
  <2> QED
    BY <2>1, <2>2 DEF PersistStep, SanitizeState, MaterializeState, ApplySourceText, RestoreSourceText
<1>3. PICK j : j = jobs[i]
  OBVIOUS
<1>4. PICK k \in Persists' : jobs'[k] = j
  BY <1>0, <1>3, TailKeeps
<1>5. Carries(j)'
  BY <1>0, <1>1, <1>2, <1>3, CarryOn
<1> QED
  BY <1>4, <1>5 DEF Carries, Kin, Sanitize

(* The carrier is at the head. *)
LEMMA CarrierSteps ==
    ASSUME TypeInv, TypeInv', LineInv, PersistStep, Disposed, faults' = 0,
           1 \in Persists, Carries(Head1)
    PROVE  \/ 1 \in Persists' /\ Carries(jobs[1])'
           \/ Persists' = {} /\ Kin(known.meta, view.meta)'
           \/ Persists' = {} /\ doc' # view'.text /\ externals' > 0
<1>0. /\ jobs # <<>> /\ Head1 \in PersistJobs /\ Head1 = jobs[1] /\ 1 \in DOMAIN jobs /\ Persists = {1}
      /\ UNCHANGED <<view, policy, externals>> /\ editRev \in Nat /\ externals \in Nat
      /\ ~Fault /\ IsQueue(jobs)
  <2>1. UNCHANGED <<view, policy, externals>>
    BY DEF PersistStep, StartPersist, SanitizeState, MaterializeState, ApplySourceText, ResumeApplied,
       RestoreSourceText, JobSide, webVars, fileVars, boundVars
  <2>2. jobs # <<>> /\ Head1 \in PersistJobs
    BY PersistQueue
  <2>3. Head1 = jobs[1]
    BY <2>2, QueueHere
  <2> QED
    BY <2>1, <2>2, <2>3, QueueHere, FaultRaises, CarrierLast
    DEF TypeInv, Scalars, SessionType, CountType
<1>1. PICK j : j = Head1
  OBVIOUS
<1>2. j \in PersistJobs /\ Carries(j) /\ j.rev \in Nat /\ IsCurrent(Head1)
  <2>1. Head1.rev \in Nat
    BY <1>0 DEF PersistJobs
  <2> QED
    BY <1>0, <1>1, <2>1 DEF IsCurrent, IsStale, Carries
<1>3. \A a, b : Kin(a, b) => Kin(a, b)'
  BY <1>0 DEF Kin, Sanitize
<1>4. jobs' = Tail(jobs) => Persists' = {}
  BY <1>0, TailKeeps
<1>5. HeadGoesOn /\ jobs'[1].kind = "persist" => 1 \in Persists'
  BY <1>0 DEF HeadGoesOn, Persists
<1>6. CASE StartPersist
  <2>1. HeadGoesOn /\ jobs'[1] = [j EXCEPT !.stage = "sanitizing"] /\ editRev' = Newer(editRev, j.rev)
    BY <1>0, <1>1, <1>2, <1>6, Goes DEF StartPersist, Advance
  <2>2. editRev' <= j.rev /\ sequence' = sequence
    BY <1>0, <1>2, <1>6, <2>1 DEF Newer, StartPersist, Carries
  <2>3. Kin(j.meta, view.meta)'
    BY <1>0, <1>2, <1>3 DEF Carries, Kin, Sanitize
  <2>4. jobs'[1] \in PersistJobs /\ jobs'[1].meta = j.meta /\ jobs'[1].rev = j.rev /\ jobs'[1].sn = j.sn
        /\ jobs'[1].text = j.text /\ jobs'[1].stage = "sanitizing" /\ jobs'[1].kind = "persist"
    BY <1>2, <2>1 DEF PersistJobs, PersistStages
  <2> QED
    BY <1>0, <1>2, <1>5, <2>1, <2>2, <2>3, <2>4 DEF Carries, Kin, Sanitize
<1>7. CASE SanitizeState
  <2>1. PICK c : c = Sanitize(j.meta)
    OBVIOUS
  <2>2. jobs' = [jobs EXCEPT ![1].stage = "materializing", ![1].meta = c]
    BY <1>1, <1>2, <1>7, <2>1 DEF SanitizeState
  <2>3. HeadGoesOn /\ jobs'[1] = [j EXCEPT !.stage = "materializing", !.meta = Sanitize(j.meta)]
    BY <1>0, <1>1, <2>1, <2>2, Goes
  <2>4. UNCHANGED <<editRev, sequence>>
    BY <1>7 DEF SanitizeState
  <2>5. Kin(Sanitize(j.meta), view.meta)
    BY <1>2, SanitizeTwice DEF Carries, Kin
  <2>6. jobs'[1].meta = Sanitize(j.meta) /\ jobs'[1].rev = j.rev /\ jobs'[1].sn = j.sn
        /\ jobs'[1].text = j.text /\ jobs'[1].stage = "materializing" /\ jobs'[1].kind = "persist"
    BY <1>2, <2>3 DEF PersistJobs
  <2>7. Kin(jobs[1].meta, view.meta)'
    BY <1>0, <2>5, <2>6 DEF Kin, Sanitize
  <2> QED
    BY <1>0, <1>2, <1>5, <2>3, <2>4, <2>6, <2>7 DEF Carries
<1>8. ASSUME NEW copy, Commit(copy) PROVE Persists' = {} /\ Kin(known.meta, view.meta)'
  <2>1. jobs' = Tail(jobs) /\ known'.meta = j.meta
    BY <1>1, <1>8 DEF Commit, SetDraft, EndPersist
  <2>2. Kin(known.meta, view.meta)'
    BY <1>0, <1>2, <2>1 DEF Carries, Kin, Sanitize
  <2> QED
    BY <1>4, <2>1, <2>2
<1>9. CASE MaterializeState
  <2>1. CASE Head1.text = doc
    BY <1>2, <1>8, <1>9, <2>1 DEF MaterializeState
  <2>2. CASE Head1.text # doc
    <3>1. PICK c, n : c = Sanitize(j.meta) /\ n = externals
      OBVIOUS
    <3>2. jobs' = [jobs EXCEPT ![1].stage = "applying", ![1].copy = c, ![1].version = n]
      BY <1>1, <1>2, <1>9, <2>2, <3>1 DEF MaterializeState
    <3>3. HeadGoesOn /\ jobs'[1] = [j EXCEPT !.stage = "applying", !.copy = Sanitize(j.meta), !.version = externals]
      BY <1>0, <1>1, <3>1, <3>2, Goes
    <3>4. UNCHANGED <<editRev, sequence>>
      BY <1>9 DEF MaterializeState
    <3>5. jobs'[1].meta = j.meta /\ jobs'[1].rev = j.rev /\ jobs'[1].sn = j.sn /\ jobs'[1].text = j.text
          /\ jobs'[1].stage = "applying" /\ jobs'[1].kind = "persist" /\ jobs'[1].version = externals
      BY <1>2, <3>3 DEF PersistJobs
    <3>6. Kin(jobs[1].meta, view.meta)'
      BY <1>0, <1>2, <3>5 DEF Carries, Kin, Sanitize
    <3> QED
      BY <1>0, <1>2, <1>5, <3>3, <3>4, <3>5, <3>6 DEF Carries
  <2> QED
    BY <2>1, <2>2
<1>10. CASE ApplySourceText
  <2>0. UNCHANGED <<editRev, sequence>> /\ j.stage = "applying"
    BY <1>1, <1>10 DEF ApplySourceText, Running
  <2>1. CASE doc' = Head1.text /\ Advance("applied")
    <3>1. HeadGoesOn /\ jobs'[1] = [j EXCEPT !.stage = "applied"] /\ doc' = j.text
      BY <1>0, <1>1, <2>1, Goes DEF Advance
    <3>3. jobs'[1].meta = j.meta /\ jobs'[1].rev = j.rev /\ jobs'[1].sn = j.sn /\ jobs'[1].text = j.text
          /\ jobs'[1].stage = "applied" /\ jobs'[1].kind = "persist"
      BY <1>2, <3>1 DEF PersistJobs
    <3>4. Kin(jobs[1].meta, view.meta)'
      BY <1>0, <1>2, <3>3 DEF Carries, Kin, Sanitize
    <3> QED
      BY <1>0, <1>2, <1>5, <2>0, <3>1, <3>3, <3>4 DEF Carries
  <2>2. CASE Head1.version # externals /\ EndPersist(FALSE) /\ UNCHANGED doc
    <3>1. doc # j.text /\ externals > 0 /\ j.text = view.text
      BY <1>1, <1>2, <2>0, <2>2 DEF Carries
    <3> QED
      BY <1>0, <1>4, <2>2, <3>1 DEF EndPersist
  <2> QED
    BY <1>0, <1>10, <2>1, <2>2 DEF ApplySourceText
<1>11. CASE ResumeApplied
  <2>0. j.stage = "applied" /\ UNCHANGED doc
    BY <1>1, <1>11 DEF ResumeApplied, Running
  <2>1. CASE doc # Head1.text
    <3>1. EndPersist(FALSE) /\ externals > 0 /\ j.text = view.text
      BY <1>1, <1>2, <1>11, <2>0, <2>1 DEF ResumeApplied, Carries
    <3> QED
      BY <1>0, <1>1, <1>4, <2>0, <2>1, <3>1 DEF EndPersist
  <2>2. CASE doc = Head1.text
    BY <1>2, <1>8, <1>11, <2>2 DEF ResumeApplied
  <2> QED
    BY <2>1, <2>2
<1>12. CASE RestoreSourceText
  BY <1>1, <1>2, <1>12 DEF RestoreSourceText, Running, Carries
<1> QED
  BY <1>6, <1>7, <1>9, <1>10, <1>11, <1>12 DEF PersistStep

LEMMA FaultsBefore == ASSUME TypeInv, [Next]_vars, faults' = 0 PROVE faults = 0
<1>0. (UNCHANGED faults \/ Fault) => faults = 0
  BY FaultRaises
<1>1. CASE UNCHANGED vars
  BY <1>0, <1>1 DEF vars
<1>2. CASE PostProjection \/ ReceiveView \/ ReceiveHost \/ ProjectionTimesOut
  BY <1>0, <1>2 DEF PostProjection, ReceiveView, ReceiveHost, ProjectionTimesOut, HostSide
<1>3. CASE PersistStep \/ PreparationFails
  BY <1>0, <1>3 DEF PersistStep, StartPersist, SanitizeState, MaterializeState, ApplySourceText,
     ResumeApplied, RestoreSourceText, PreparationFails
<1>4. CASE RepairStep \/ RepairFails \/ PolicyNotice \/ ProtectPolicy
  BY <1>0, <1>4 DEF RepairStep, RepairFile, AdoptRepair, RepairProjected, RepairFails, PolicyNotice, ProtectPolicy
<1>5. CASE SaveStep \/ WillSave \/ SaveTimesOut
  BY <1>0, <1>5 DEF SaveStep, SaveFlushed, SaveTimesOut, SaveDrained, DidSave, SaveSidecar, WriteFreshFails, WillSave
<1>6. CASE CloseStep \/ DisposePanel \/ \E choice \in {"Save", "Discard", None} : AnswerPrompt(choice)
  BY <1>0, <1>6 DEF CloseStep, CloseFinals, CloseUnload, CloseAdmission, CloseDrained, SaveDraft, RecoverDraft,
     SettleClose, WriteFreshFails, DisposePanel, AnswerPrompt
<1>7. CASE \/ \E c \in Contents : EditView(c)
           \/ \E t \in Texts : ExternalEdit(t)
           \/ \E m \in Metas : ForeignWrite(m)
           \/ Hide
           \/ \E i \in DOMAIN flush : FlushTimesOut(i) \/ StartFlush(i)
  BY <1>0, <1>7 DEF EditView, ExternalEdit, ForeignWrite, Hide, FlushTimesOut, StartFlush, HostSide
<1> QED
  BY <1>1, <1>2, <1>3, <1>4, <1>5, <1>6, <1>7 DEF Next, Work, Outside

LEMMA PersistLast ==
    ASSUME TypeInv, TypeInv', LineInv, UnloadInv, LastInv, unloaded, PersistStep, faults' = 0
    PROVE  LastInv'
<1>0. Disposed /\ UNCHANGED externals /\ 1 \in Persists
  <2>1. UNCHANGED externals
    BY DEF PersistStep, StartPersist, SanitizeState, MaterializeState, ApplySourceText, ResumeApplied,
       RestoreSourceText, JobSide, boundVars
  <2>2. 1 \in DOMAIN jobs /\ Head1 = jobs[1] /\ Head1.kind = "persist"
    BY PersistQueue, QueueHere DEF PersistJobs
  <2> QED
    BY <2>1, <2>2 DEF UnloadInv, Persists
<1> SUFFICES ASSUME externals < 2 PROVE LastInv'
  BY <1>0 DEF LastInv
<1>1. PICK i \in Persists : Carries(jobs[i])
  BY <1>0 DEF LastInv
<1>2. CASE i # 1
  BY <1>0, <1>1, <1>2, OlderLast DEF LastInv
<1>3. CASE i = 1
  <2>1. Carries(Head1)
    BY <1>1, <1>3 DEF Head1
  <2> QED
    BY <1>0, <2>1, CarrierSteps DEF LastInv
<1> QED
  BY <1>2, <1>3

LEMMA RepairLast ==
    ASSUME TypeInv, TypeInv', LineInv, UnloadInv, LastInv, unloaded, RepairStep
    PROVE  LastInv'
<1>0. /\ jobs # <<>> /\ Head1 \in RepairJobs /\ 1 \in Turned /\ Head1 = jobs[1] /\ Disposed
      /\ UNCHANGED <<view, editRev, doc, externals, policy>> /\ PolicyGoes
  <2>1. UNCHANGED <<view, editRev, doc, externals, policy>>
    BY DEF RepairStep, RepairFile, AdoptRepair, RepairProjected, RepairSide, webVars, boundVars, fileVars
  <2>2. jobs # <<>> /\ Head1 \in RepairJobs
    BY RepairQueue
  <2>3. 1 \in DOMAIN jobs /\ Head1 = jobs[1] /\ Head1.kind = "repair"
    BY <2>2, QueueHere DEF RepairJobs
  <2> QED
    BY <2>1, <2>2, <2>3 DEF Turned, UnloadInv, PolicyGoes
<1>1. jobs' = Tail(jobs) \/ (HeadGoesOn /\ jobs'[1].kind = "repair")
  BY RepairQueue
<1>2. /\ UNCHANGED sequence
      /\ UNCHANGED known \/ known'.meta = Sanitize(known.meta)
  <2>1. CASE RepairFile
    BY <2>1 DEF RepairFile, draftVars
  <2>2. CASE AdoptRepair
    <3>1. known \in Drafts
      BY DEF TypeInv, Scalars, DraftType
    <3>2. UNCHANGED known \/ known' = [known EXCEPT !.meta = Sanitize(known.meta)]
      BY <2>2 DEF AdoptRepair
    <3> QED
      BY <1>0, <2>2, <3>1, <3>2 DEF AdoptRepair, Drafts, Project
  <2>3. CASE RepairProjected
    <3>1. jobs[1].stage = "projecting" /\ jobs[1].sn < sequence /\ jobs[1].sn \in Nat /\ sequence \in Nat
      BY <1>0, <2>3, LineFacts DEF RepairProjected, Running, UnloadInv
    <3> QED
      BY <1>0, <2>3, <3>1 DEF RepairProjected
  <2> QED
    BY <2>1, <2>2, <2>3 DEF RepairStep
<1> QED
  BY <1>0, <1>1, <1>2, LastFrame DEF RepairJobs

(* The source is edited elsewhere; the last snapshot's edit is refused, or *)
(* its text is replaced. *)
LEMMA ExternalLast ==
    ASSUME TypeInv, TypeInv', LineInv, UnloadInv, LastInv, unloaded, NEW t \in Texts, ExternalEdit(t)
    PROVE  LastInv'
<1>0. /\ Disposed /\ UNCHANGED <<view, editRev, jobs, sequence, policy, known>> /\ externals' = externals + 1
      /\ doc' = t /\ t # doc /\ externals \in Nat /\ Persists' = Persists
  BY DEF UnloadInv, ExternalEdit, OutsideVars, webVars, fileVars, draftVars, Project, TypeInv, Scalars, CountType,
     Persists
<1> SUFFICES ASSUME externals = 0
             PROVE  \/ \E i \in Persists' : Carries(jobs[i])'
                    \/ Persists' = {} /\ Kin(known.meta, view.meta)'
  BY <1>0 DEF LastInv
<1>1. CASE \E i \in Persists : Carries(jobs[i])
  <2>1. PICK i \in Persists : Carries(jobs[i])
    BY <1>1
  <2>2. jobs[i].stage = "applying" => t # jobs[i].text
    <3>1. jobs[i].stage = "applying" => i = 1 /\ jobs # <<>> /\ Head1 = jobs[1] /\ jobs[1].kind = "persist"
      BY <2>1 DEF LineInv, Persists, Head1
    <3> QED
      BY <3>1 DEF ExternalEdit, Running
  <2>3. Carries(jobs[i])'
    BY <1>0, <2>1, <2>2 DEF Carries, Kin, Sanitize
  <2> QED
    BY <1>0, <2>1, <2>3
<1>2. CASE Persists = {} /\ Kin(known.meta, view.meta)
  BY <1>0, <1>2 DEF Kin, Sanitize
<1> QED
  BY <1>1, <1>2 DEF LastInv

(* It is let in. *)
LEMMA AdmittedLast ==
    ASSUME TypeInv, TypeInv', OrderInv, UnloadInv, ReceiveHost, ~unloaded
    PROVE  LastInv'
<1> SUFFICES ASSUME unloaded' PROVE \E i \in Persists' : Carries(jobs[i])'
  BY DEF LastInv
<1>0. PICK m : /\ jobs' = Append(jobs, Job(m)) /\ sequence' = sequence + 1 /\ Disposed
               /\ Shown(m) /\ editRev <= m.rev
  BY LastAdmitted
<1>1. PICK x : x = Job(m)
  OBVIOUS
<1>2. /\ x.kind = "persist" /\ x.stage = "queued" /\ x.sn = sequence + 1 /\ x.rev = m.rev
      /\ x.text = m.text /\ x.meta = m.meta
  BY <1>1 DEF Job
<1>3. UNCHANGED <<view, editRev, policy>>
  BY <1>0 DEF ReceiveHost, webVars, fileVars
<1>4. jobs \in Seq(Jobs) /\ jobs' = Append(jobs, x)
  BY <1>0, <1>1 DEF TypeInv, MailType
<1>5. PICK n : n = Len(jobs) + 1
  OBVIOUS
<1>6. n \in DOMAIN jobs' /\ jobs'[n] = x
  BY <1>4, <1>5, Appended
<1>7. Carries(jobs[n])'
  BY <1>0, <1>2, <1>3, <1>6 DEF Carries, Shown, Kin, Sanitize
<1> QED
  BY <1>2, <1>6, <1>7 DEF Persists

LEMMA SideLast ==
    ASSUME TypeInv, TypeInv', LineInv, UnloadInv, LastInv, unloaded,
           \/ SaveStep \/ WillSave \/ SaveTimesOut \/ PolicyNotice \/ ProtectPolicy
           \/ CloseStep \/ \E choice \in {"Save", "Discard", None} : AnswerPrompt(choice)
           \/ UNCHANGED vars \/ Hide \/ ProjectionTimesOut \/ PostProjection
           \/ \E m \in Metas : ForeignWrite(m)
           \/ \E i \in DOMAIN flush : StartFlush(i) \/ FlushTimesOut(i)
    PROVE  LastInv'
<1>1. CASE SaveStep \/ WillSave \/ SaveTimesOut \/ PolicyNotice \/ ProtectPolicy
  <2>1. UNCHANGED <<view, sequence, editRev, doc, externals, known>> /\ PolicyGoes
    BY <1>1 DEF SaveStep, SaveFlushed, SaveTimesOut, SaveDrained, DidSave, SaveSidecar, WriteFresh, WriteFreshFails, WillSave,
       PolicyNotice, ProtectPolicy, SaveSide, OutsideVars, webVars, boundVars, draftVars, fileVars, PolicyGoes
  <2>2. \/ UNCHANGED jobs
        \/ jobs # <<>> /\ Head1.kind # "persist" /\ jobs' = Tail(jobs)
        \/ \E x : jobs' = Append(jobs, x) /\ x.kind # "persist"
    BY <1>1, QueueGrows
  <2> QED
    BY <2>1, <2>2, LastFrame
<1>2. CASE CloseStep \/ \E choice \in {"Save", "Discard", None} : AnswerPrompt(choice)
  <2>1. UNCHANGED <<view, sequence, editRev, doc, externals, known, jobs>> /\ PolicyGoes
    BY <1>2 DEF CloseStep, CloseFinals, CloseUnload, CloseAdmission, CloseDrained, SaveDraft, RecoverDraft,
       SettleClose, AnswerPrompt, CloseSide, WriteFresh, WriteFreshFails, webVars, boundVars, draftVars, fileVars,
       PolicyGoes
  <2> QED
    BY <2>1, LastFrame
<1>3. CASE \/ UNCHANGED vars \/ Hide \/ ProjectionTimesOut \/ PostProjection
           \/ \E m \in Metas : ForeignWrite(m)
           \/ \E i \in DOMAIN flush : StartFlush(i) \/ FlushTimesOut(i)
  <2>1. UNCHANGED <<view, sequence, editRev, doc, externals, known, jobs>> /\ PolicyGoes
    BY <1>3 DEF vars, Hide, ProjectionTimesOut, PostProjection, ForeignWrite, StartFlush, FlushTimesOut,
       OutsideVars, webVars, boundVars, draftVars, fileVars, PolicyGoes
  <2> QED
    BY <2>1, LastFrame
<1> QED
  BY <1>1, <1>2, <1>3

LEMMA NextLast ==
    ASSUME TypeInv, TypeInv', OrderInv, UnloadInv, faults = 0 => LastInv, [Next]_vars, faults' = 0
    PROVE  LastInv'
<1>0. LastInv /\ LineInv /\ ~Fault
  BY FaultsBefore, FaultRaises DEF OrderInv
<1>1. CASE ~unloaded
  <2>1. CASE ReceiveHost
    BY <1>1, <2>1, AdmittedLast
  <2>2. CASE ~ReceiveHost
    <3>1. CASE PersistStep \/ PreparationFails
      BY <1>1, <3>1 DEF PersistStep, StartPersist, SanitizeState, MaterializeState, PreparationFails,
         ApplySourceText, ResumeApplied, RestoreSourceText, JobSide, closeVars, LastInv
    <3>2. CASE RepairStep \/ RepairFails \/ SaveStep \/ WillSave \/ SaveTimesOut \/ PolicyNotice \/ ProtectPolicy
      BY <1>1, <3>2 DEF RepairStep, RepairFile, AdoptRepair, RepairProjected, RepairFails, RepairSide,
         SaveStep, SaveFlushed, SaveTimesOut, SaveDrained, DidSave, SaveSidecar, WillSave, PolicyNotice, ProtectPolicy,
         SaveSide, OutsideVars, closeVars, LastInv
    <3>3. CASE CloseStep \/ DisposePanel \/ \E choice \in {"Save", "Discard", None} : AnswerPrompt(choice)
      BY <1>1, <3>3 DEF CloseStep, CloseFinals, CloseUnload, CloseAdmission, CloseDrained, SaveDraft,
         RecoverDraft, SettleClose, AnswerPrompt, DisposePanel, LastInv
    <3>4. CASE \/ UNCHANGED vars \/ Hide \/ ProjectionTimesOut \/ PostProjection \/ ReceiveView
               \/ \E c \in Contents : EditView(c)
               \/ \E m \in Metas : ForeignWrite(m)
               \/ \E t \in Texts : ExternalEdit(t)
               \/ \E i \in DOMAIN flush : StartFlush(i) \/ FlushTimesOut(i)
      BY <1>1, <3>4 DEF vars, Hide, ProjectionTimesOut, PostProjection, ReceiveView, EditView, ForeignWrite,
         ExternalEdit, StartFlush, FlushTimesOut, HostSide, OutsideVars, closeVars, LastInv
    <3> QED
      BY <2>2, <3>1, <3>2, <3>3, <3>4 DEF Next, Work, Outside
  <2> QED
    BY <2>1, <2>2
<1>2. CASE unloaded
  <2>0. Disposed /\ toHost = <<>>
    BY <1>2 DEF UnloadInv
  <2>1. ~ReceiveHost /\ ~ReceiveView /\ ~DisposePanel /\ ~(\E c \in Contents : EditView(c))
        /\ ~PreparationFails /\ ~RepairFails
    BY <1>0, <2>0 DEF ReceiveHost, ReceiveView, DisposePanel, EditView, PreparationFails, RepairFails, Disposed
  <2>2. CASE PersistStep
    BY <1>0, <1>2, <2>2, PersistLast
  <2>3. CASE RepairStep
    BY <1>0, <1>2, <2>3, RepairLast
  <2>4. CASE \E t \in Texts : ExternalEdit(t)
    BY <1>0, <1>2, <2>4, ExternalLast
  <2>5. CASE \/ SaveStep \/ WillSave \/ SaveTimesOut \/ PolicyNotice \/ ProtectPolicy
             \/ CloseStep \/ \E choice \in {"Save", "Discard", None} : AnswerPrompt(choice)
             \/ UNCHANGED vars \/ Hide \/ ProjectionTimesOut \/ PostProjection
             \/ \E m \in Metas : ForeignWrite(m)
             \/ \E i \in DOMAIN flush : StartFlush(i) \/ FlushTimesOut(i)
    BY <1>0, <1>2, <2>5, SideLast
  <2> QED
    BY <2>1, <2>2, <2>3, <2>4, <2>5 DEF Next, Work, Outside
<1> QED
  BY <1>1, <1>2 DEF TypeInv, Scalars, SessionType

-----------------------------------------------------------------------------
(* What is on disk. *)

(* Nothing failed, no other window wrote, and the user was not asked. *)
Undisturbed ==
    /\ faults = 0 /\ foreigns = 0
    /\ close \in {"open", "finals", "unload", "admission", "draining"}

Repairs == {i \in DOMAIN jobs : jobs[i].kind = "repair"}

(* The sidecar in memory is the one on disk, a repair leaves it so, and    *)
(* without a draft it is what the webview was last known to show.          *)
DraftInv ==
    /\ Kin(file, written)
    /\ \A i \in Repairs :
         /\ jobs[i].stage = "repaired" => Kin(jobs[i].output, file)
         /\ jobs[i].stage = "projecting" => Kin(jobs[i].output, written)
    /\ ~dirty => Kin(known.meta, written)

RepairsKept == \A i \in Repairs' : jobs'[i].stage = "queued" \/ \E k \in Repairs : jobs'[i] = jobs[k]

LEMMA RepairsStay ==
    ASSUME TypeInv, TypeInv',
           \/ UNCHANGED jobs
           \/ jobs # <<>> /\ jobs' = Tail(jobs)
           \/ \E x : jobs' = Append(jobs, x) /\ x.stage = "queued"
           \/ jobs # <<>> /\ HeadGoesOn /\ jobs'[1].kind = "persist"
    PROVE  RepairsKept
<1>0. jobs \in Seq(Jobs)
  BY DEF TypeInv, MailType
<1>1. CASE UNCHANGED jobs
  BY <1>1 DEF RepairsKept, Repairs
<1>2. CASE jobs # <<>> /\ jobs' = Tail(jobs)
  <2>1. \A i \in DOMAIN jobs' : i + 1 \in DOMAIN jobs /\ jobs'[i] = jobs[i + 1]
    BY <1>0, <1>2
  <2> QED
    BY <2>1 DEF RepairsKept, Repairs
<1>3. CASE \E x : jobs' = Append(jobs, x) /\ x.stage = "queued"
  <2>0. PICK x : jobs' = Append(jobs, x) /\ x.stage = "queued"
    BY <1>3
  <2>1. \A i \in DOMAIN jobs' : (i \in DOMAIN jobs /\ jobs'[i] = jobs[i]) \/ jobs'[i] = x
    BY <1>0, <2>0, Appended
  <2> QED
    BY <2>0, <2>1 DEF RepairsKept, Repairs
<1>4. CASE jobs # <<>> /\ HeadGoesOn /\ jobs'[1].kind = "persist"
  <2>1. DOMAIN jobs' = DOMAIN jobs
    BY <1>4 DEF HeadGoesOn
  <2> QED
    BY <1>4, <2>1 DEF RepairsKept, Repairs, HeadGoesOn
<1> QED
  BY <1>1, <1>2, <1>3, <1>4

(* Steps that write nothing. *)
LEMMA DraftFrame ==
    ASSUME DraftInv, RepairsKept, UNCHANGED <<file, written>>, PolicyGoes,
           ~dirty' => \/ ~dirty /\ UNCHANGED known
                      \/ Kin(known.meta, written)'
    PROVE  DraftInv'
<1>1. Kin(file, written)'
  <2>1. PICK a, b : a = file /\ b = written
    OBVIOUS
  <2>2. Kin(a, b)'
    BY <2>1, KinOn DEF DraftInv
  <2> QED
    BY <2>1, <2>2 DEF Kin, Sanitize
<1>2. ASSUME NEW i \in Repairs'
      PROVE  /\ jobs'[i].stage = "repaired" => Kin(jobs[i].output, file)'
             /\ jobs'[i].stage = "projecting" => Kin(jobs[i].output, written)'
  <2>1. CASE jobs'[i].stage = "queued"
    BY <2>1
  <2>2. CASE \E k \in Repairs : jobs'[i] = jobs[k]
    <3>0. PICK k \in Repairs : jobs'[i] = jobs[k]
      BY <2>2
    <3>1. PICK a, b, c : a = jobs[k].output /\ b = file /\ c = written
      OBVIOUS
    <3>2. /\ jobs'[i].stage = "repaired" => Kin(a, b)
          /\ jobs'[i].stage = "projecting" => Kin(a, c)
      BY <3>0, <3>1 DEF DraftInv
    <3>3. /\ jobs'[i].stage = "repaired" => Kin(a, b)'
          /\ jobs'[i].stage = "projecting" => Kin(a, c)'
      BY <3>2, KinOn
    <3> QED
      BY <3>0, <3>1, <3>3 DEF Kin, Sanitize
  <2> QED
    BY <2>1, <2>2 DEF RepairsKept
<1>3. ~dirty' => Kin(known.meta, written)'
  <2>1. CASE ~dirty /\ UNCHANGED known
    <3>1. PICK a, b : a = known.meta /\ b = written
      OBVIOUS
    <3>2. Kin(a, b)'
      BY <2>1, <3>1, KinOn DEF DraftInv
    <3> QED
      BY <2>1, <3>1, <3>2 DEF Kin, Sanitize
  <2> QED
    BY <2>1
<1> QED
  BY <1>1, <1>2, <1>3 DEF DraftInv

(* A snapshot is taken over. *)
LEMMA CommitDraft ==
    ASSUME TypeInv, TypeInv', DraftInv, UNCHANGED <<file, policy>>, jobs # <<>>,
           NEW copy, Kin(copy, Head1.meta), Commit(copy)
    PROVE  DraftInv'
<1>1. RepairsKept
  BY RepairsStay DEF Commit, EndPersist
<1>2. PICK m : m = Head1.meta
  OBVIOUS
<1>3. known'.meta = m /\ UNCHANGED written /\ (~dirty' => copy = written)
  BY <1>2 DEF Commit, SetDraft, DirtyAfter
<1>4. ~dirty' => Kin(known.meta, written)'
  BY <1>2, <1>3 DEF Kin, Sanitize
<1> QED
  BY <1>1, <1>3, <1>4, DraftFrame DEF PolicyGoes

LEMMA PersistDraft ==
    ASSUME TypeInv, TypeInv', LineInv, DraftInv, PersistStep
    PROVE  DraftInv'
<1>0. /\ UNCHANGED <<file, policy>> /\ jobs # <<>> /\ PolicyGoes
      /\ 1 \in Persists /\ Head1 = jobs[1] /\ RepairsKept
  <2>1. UNCHANGED <<file, policy>>
    BY DEF PersistStep, StartPersist, SanitizeState, MaterializeState, ApplySourceText, ResumeApplied,
       RestoreSourceText, JobSide, fileVars
  <2>2. jobs # <<>> /\ Head1.kind = "persist" /\ RepairsKept
    BY PersistQueue, RepairsStay DEF PersistJobs
  <2>3. 1 \in DOMAIN jobs /\ Head1 = jobs[1]
    BY <2>2, QueueHere
  <2> QED
    BY <2>1, <2>2, <2>3 DEF Persists, PolicyGoes
<1>1. CASE UNCHANGED draftVars
  BY <1>0, <1>1, DraftFrame DEF draftVars
<1>2. CASE MaterializeState /\ Commit(Sanitize(Head1.meta))
  BY <1>0, <1>2, SanitizeTwice, CommitDraft
<1>3. CASE ResumeApplied /\ Commit(Head1.copy)
  <2>1. Kin(Head1.copy, Head1.meta)
    BY <1>0 DEF LineInv
  <2> QED
    BY <1>0, <1>3, <2>1, CommitDraft
<1> QED
  BY <1>1, <1>2, <1>3 DEF PersistStep, StartPersist, SanitizeState, MaterializeState, ApplySourceText,
     ResumeApplied, RestoreSourceText, draftVars

LEMMA KinFacts == \A a, b, c : Kin(a, a) /\ (Kin(a, b) => Kin(b, a)) /\ (Kin(a, b) /\ Kin(b, c) => Kin(a, c))
BY DEF Kin

(* A repair sanitizes the file, and what it leaves is kin to what it found. *)
LEMMA RepairDraft ==
    ASSUME TypeInv, TypeInv', LineInv, DraftInv, RepairStep
    PROVE  DraftInv'
<1>0. /\ jobs # <<>> /\ Head1 \in RepairJobs /\ 1 \in Repairs /\ Head1 = jobs[1] /\ UNCHANGED policy /\ PolicyGoes
      /\ \A i \in DOMAIN jobs : i # 1 => jobs[i].stage = "queued"
  <2>1. UNCHANGED policy
    BY DEF RepairStep, RepairFile, AdoptRepair, RepairProjected, fileVars
  <2>2. jobs # <<>> /\ Head1 \in RepairJobs
    BY RepairQueue
  <2>3. 1 \in DOMAIN jobs /\ Head1 = jobs[1] /\ Head1.kind = "repair"
    BY <2>2, QueueHere DEF RepairJobs
  <2> QED
    BY <2>1, <2>2, <2>3 DEF Repairs, PolicyGoes, LineInv
<1>1. \A a, b : Kin(a, b)' <=> Kin(a, b)
  BY <1>0 DEF Kin, Sanitize
<1>2. PICK j, f, w, k : j = Head1 /\ f = file /\ w = written /\ k = known.meta
  OBVIOUS
<1>3. /\ Kin(f, w)
      /\ j.stage = "repaired" => Kin(j.output, f)
      /\ j.stage = "projecting" => Kin(j.output, w)
      /\ ~dirty => Kin(k, w)
  BY <1>0, <1>2 DEF DraftInv
<1>4. ASSUME jobs' = Tail(jobs) PROVE \A i \in Repairs' : jobs'[i].stage = "queued"
  <2>1. jobs \in Seq(Jobs)
    BY DEF TypeInv, MailType
  <2>2. \A i \in DOMAIN jobs' : i + 1 \in DOMAIN jobs /\ jobs'[i] = jobs[i + 1] /\ i + 1 # 1
    BY <1>0, <1>4, <2>1
  <2> QED
    BY <1>0, <2>2 DEF Repairs
<1>5. ASSUME HeadGoesOn PROVE \A i \in Repairs' : i = 1 \/ jobs'[i].stage = "queued"
  <2>1. DOMAIN jobs' = DOMAIN jobs
    BY <1>5 DEF HeadGoesOn
  <2> QED
    BY <1>0, <1>5, <2>1 DEF Repairs, HeadGoesOn
<1>6. CASE RepairFile
  <2>1. PICK a, b : a = file /\ b = Sanitize(file)
    OBVIOUS
  <2>2. /\ jobs' = [jobs EXCEPT ![1].stage = "repaired", ![1].input = a, ![1].output = b]
        /\ file' = b /\ UNCHANGED <<written, known, dirty>>
    BY <1>6, <2>1 DEF RepairFile, draftVars
  <2>3. HeadGoesOn /\ jobs'[1] = [j EXCEPT !.stage = "repaired", !.input = a, !.output = b]
    BY <1>0, <1>2, <2>2, QueueHere, Goes
  <2>4. jobs'[1].stage = "repaired" /\ jobs'[1].output = b
    BY <1>0, <1>2, <2>3 DEF RepairJobs
  <2>5. Kin(b, w)
    BY <1>2, <1>3, <2>1, SanitizeTwice, KinFacts
  <2>6. \A i \in Repairs' : /\ jobs'[i].stage = "repaired" => jobs'[i].output = b
                            /\ jobs'[i].stage # "projecting"
    BY <1>5, <2>3, <2>4
  <2> QED
    BY <1>0, <1>1, <1>2, <1>3, <2>2, <2>5, <2>6, KinFacts DEF DraftInv, Kin, Sanitize
<1>7. CASE AdoptRepair
  <2>1. /\ written' = j.output /\ UNCHANGED <<file, dirty>> /\ j.stage = "repaired"
        /\ UNCHANGED known \/ known' = [known EXCEPT !.meta = Sanitize(known.meta)]
    BY <1>2, <1>7 DEF AdoptRepair, fileVars, Running
  <2>2. PICK o : o = j.output
    OBVIOUS
  <2>3. Kin(f, o) /\ (~dirty => Kin(k, o))
    BY <1>3, <2>1, <2>2, KinFacts
  <2>4. PICK n : n = known'.meta
    OBVIOUS
  <2>5. n = k \/ n = Sanitize(k)
    <3>1. known \in Drafts
      BY DEF TypeInv, Scalars, DraftType
    <3> QED
      BY <1>2, <2>1, <2>4, <3>1 DEF Drafts
  <2>6. ~dirty => Kin(n, o)
    BY <2>3, <2>5, SanitizeTwice, KinFacts
  <2>7. \A i \in Repairs' : /\ jobs'[i].stage # "repaired"
                            /\ jobs'[i].stage = "projecting" => jobs'[i].output = o
    <3>1. CASE jobs' = Tail(jobs)
      BY <1>4, <3>1
    <3>2. CASE \E m : jobs' = [jobs EXCEPT ![1].stage = "projecting", ![1].gen = m]
      <4>0. PICK m : jobs' = [jobs EXCEPT ![1].stage = "projecting", ![1].gen = m]
        BY <3>2
      <4>1. HeadGoesOn /\ jobs'[1] = [j EXCEPT !.stage = "projecting", !.gen = m]
        BY <1>0, <1>2, <4>0, QueueHere, Goes
      <4>2. jobs'[1].stage = "projecting" /\ jobs'[1].output = o
        BY <1>0, <1>2, <2>2, <4>1 DEF RepairJobs
      <4> QED
        BY <1>5, <4>1, <4>2
    <3> QED
      BY <1>7, <3>1, <3>2 DEF AdoptRepair
  <2> QED
    BY <1>0, <1>1, <1>2, <2>1, <2>2, <2>3, <2>4, <2>6, <2>7, KinFacts DEF DraftInv, Kin, Sanitize
<1>8. CASE RepairProjected
  <2>1. /\ jobs' = Tail(jobs) /\ UNCHANGED <<file, written>> /\ j.stage = "projecting"
        /\ \/ known' = [known EXCEPT !.meta = j.output]
           \/ UNCHANGED <<known, dirty>>
    BY <1>2, <1>8 DEF RepairProjected, fileVars, Running
  <2>2. RepairsKept
    BY <1>4, <2>1 DEF RepairsKept
  <2>3. ASSUME known' = [known EXCEPT !.meta = j.output] PROVE Kin(known.meta, written)'
    <3>1. known \in Drafts
      BY DEF TypeInv, Scalars, DraftType
    <3>2. known'.meta = j.output
      BY <2>3, <3>1 DEF Drafts
    <3> QED
      BY <1>0, <1>2, <1>3, <2>1, <3>2 DEF Kin, Sanitize
  <2> QED
    BY <1>0, <2>1, <2>2, <2>3, DraftFrame
<1> QED
  BY <1>6, <1>7, <1>8 DEF RepairStep

(* The draft is saved. *)
LEMMA SaveDraftInv ==
    ASSUME TypeInv, TypeInv', LineInv, DraftInv, SaveStep \/ WillSave \/ SaveTimesOut
    PROVE  DraftInv'
<1>0. UNCHANGED policy /\ PolicyGoes
  BY DEF SaveStep, SaveFlushed, SaveTimesOut, SaveDrained, DidSave, SaveSidecar, WillSave, WriteFresh, WriteFreshFails,
     fileVars, PolicyGoes
<1>1. RepairsKept
  BY QueueGrows, RepairsStay
<1>2. CASE UNCHANGED <<file, draftVars>>
  BY <1>0, <1>1, <1>2, DraftFrame DEF draftVars
<1>3. CASE SaveSidecar /\ WriteFresh
  <2>1. file' = Published /\ written' = Published /\ UNCHANGED known
    BY <1>3 DEF WriteFresh
  <2>2. Kin(known.meta, written)' /\ Kin(file, written)'
    <3>1. Kin(known.meta, Published)
      BY SanitizeTwice, KinFacts DEF Published
    <3> QED
      BY <1>0, <2>1, <3>1 DEF Kin, Sanitize
  <2>3. \A i \in Repairs' : jobs'[i].stage = "queued"
    <3>1. jobs # <<>> /\ jobs' = Tail(jobs) /\ jobs \in Seq(Jobs)
      BY <1>3 DEF SaveSidecar, Running, TypeInv, MailType
    <3>2. \A i \in DOMAIN jobs' : i + 1 \in DOMAIN jobs /\ jobs'[i] = jobs[i + 1] /\ i + 1 # 1
      BY <3>1
    <3> QED
      BY <3>2 DEF Repairs, LineInv
  <2> QED
    BY <2>2, <2>3 DEF DraftInv
<1> QED
  BY <1>2, <1>3 DEF SaveStep, SaveFlushed, SaveTimesOut, SaveDrained, DidSave, SaveSidecar, WillSave, WriteFreshFails, fileVars

LEMMA UndisturbedBefore == ASSUME TypeInv, [Next]_vars, Undisturbed' PROVE Undisturbed
<1>0. faults = 0
  BY FaultsBefore DEF Undisturbed
<1> SUFFICES foreigns = 0 /\ close \in {"open", "finals", "unload", "admission", "draining"}
  BY <1>0 DEF Undisturbed
<1>1. CASE UNCHANGED vars
  BY <1>1 DEF vars, closeVars, boundVars, Undisturbed
<1>2. CASE PostProjection \/ ReceiveView \/ ReceiveHost \/ ProjectionTimesOut
  BY <1>2 DEF PostProjection, ReceiveView, ReceiveHost, ProjectionTimesOut, HostSide, closeVars, boundVars,
     Undisturbed
<1>3. CASE PersistStep \/ PreparationFails
  BY <1>3 DEF PersistStep, StartPersist, SanitizeState, MaterializeState, ApplySourceText, ResumeApplied,
     RestoreSourceText, PreparationFails, JobSide, closeVars, boundVars, Undisturbed
<1>4. CASE RepairStep \/ RepairFails \/ PolicyNotice \/ ProtectPolicy
  BY <1>4 DEF RepairStep, RepairFile, AdoptRepair, RepairProjected, RepairFails, PolicyNotice, ProtectPolicy,
     RepairSide, OutsideVars, closeVars, boundVars, Undisturbed
<1>5. CASE SaveStep \/ WillSave \/ SaveTimesOut \/ Hide
  BY <1>5 DEF SaveStep, SaveFlushed, SaveTimesOut, SaveDrained, DidSave, SaveSidecar, WillSave, Hide, SaveSide, closeVars,
     boundVars, Undisturbed
<1>6. CASE CloseFinals \/ CloseUnload \/ CloseAdmission \/ CloseDrained \/ DisposePanel
  BY <1>6 DEF CloseFinals, CloseUnload, CloseAdmission, CloseDrained, DisposePanel, CloseSide, boundVars, Undisturbed
<1>7. CASE SaveDraft \/ RecoverDraft \/ SettleClose \/ \E choice \in {"Save", "Discard", None} : AnswerPrompt(choice)
  <2>1. close' \in {"recovering", "repair", "closed", "saving"} \/ close = "prompt"
    BY <1>7 DEF SaveDraft, RecoverDraft, SettleClose, AnswerPrompt
  <2>2. close = "prompt" => close' = "saving" \/ close' = "repair" \/ close' = "recovering"
    BY <1>7, SidecarAssumption DEF SaveDraft, RecoverDraft, SettleClose, AnswerPrompt
  <2> QED
    BY <2>1, <2>2 DEF Undisturbed
<1>8. CASE \/ \E c \in Contents : EditView(c)
           \/ \E t \in Texts : ExternalEdit(t)
           \/ \E i \in DOMAIN flush : FlushTimesOut(i) \/ StartFlush(i)
  BY <1>8 DEF EditView, ExternalEdit, FlushTimesOut, StartFlush, HostSide, OutsideVars, closeVars, boundVars,
     Undisturbed
<1>9. CASE \E m \in Metas : ForeignWrite(m)
  <2>1. foreigns' = foreigns + 1 /\ foreigns \in Nat
    BY <1>9 DEF ForeignWrite, TypeInv, Scalars, CountType
  <2> QED
    BY <2>1 DEF Undisturbed
<1> QED
  BY <1>1, <1>2, <1>3, <1>4, <1>5, <1>6, <1>7, <1>8, <1>9 DEF Next, Work, Outside, CloseStep

(* Steps that leave the draft alone. *)
LEMMA SideDraft ==
    ASSUME TypeInv, TypeInv', DraftInv,
           \/ PolicyNotice \/ ProtectPolicy
           \/ CloseFinals \/ CloseUnload \/ CloseAdmission \/ CloseDrained \/ DisposePanel
           \/ UNCHANGED vars \/ Hide \/ ProjectionTimesOut \/ PostProjection \/ ReceiveView \/ ReceiveHost
           \/ \E c \in Contents : EditView(c)
           \/ \E t \in Texts : ExternalEdit(t)
           \/ \E i \in DOMAIN flush : StartFlush(i) \/ FlushTimesOut(i)
    PROVE  DraftInv'
<1>1. CASE PolicyNotice \/ ProtectPolicy
  <2>1. UNCHANGED <<file, written, dirty, known>> /\ PolicyGoes
    BY <1>1 DEF PolicyNotice, ProtectPolicy, OutsideVars, draftVars, PolicyGoes
  <2> QED
    BY <1>1, <2>1, QueueGrows, RepairsStay, DraftFrame
<1>2. CASE \/ CloseFinals \/ CloseUnload \/ CloseAdmission \/ CloseDrained \/ DisposePanel
           \/ UNCHANGED vars \/ Hide \/ ProjectionTimesOut \/ PostProjection \/ ReceiveView
           \/ \E c \in Contents : EditView(c)
           \/ \E t \in Texts : ExternalEdit(t)
           \/ \E i \in DOMAIN flush : StartFlush(i) \/ FlushTimesOut(i)
  <2>1. UNCHANGED <<file, written, dirty, known, jobs, policy>> /\ PolicyGoes
    BY <1>2 DEF CloseFinals, CloseUnload, CloseAdmission, CloseDrained, DisposePanel, vars, Hide,
       ProjectionTimesOut, PostProjection, ReceiveView, EditView, ExternalEdit, StartFlush, FlushTimesOut,
       HostSide, OutsideVars, draftVars, fileVars, PolicyGoes
  <2> QED
    BY <2>1, RepairsStay, DraftFrame
<1>3. CASE ReceiveHost
  <2>1. UNCHANGED <<file, written, dirty, known>> /\ PolicyGoes
    BY <1>3 DEF ReceiveHost, draftVars, fileVars, PolicyGoes
  <2>2. \/ UNCHANGED jobs
        \/ \E x : jobs' = Append(jobs, x) /\ x.stage = "queued"
    <3>1. PICK m : m = Head(toHost)
      OBVIOUS
    <3>2. PICK x : x = Job(m)
      OBVIOUS
    <3>3. UNCHANGED jobs \/ jobs' = Append(jobs, x)
      BY <1>3, <3>1, <3>2 DEF ReceiveHost, Persist, CompleteReload
    <3>4. x.stage = "queued"
      BY <3>2 DEF Job
    <3> QED
      BY <3>3, <3>4
  <2> QED
    BY <2>1, <2>2, RepairsStay, DraftFrame
<1> QED
  BY <1>1, <1>2, <1>3

LEMMA NextDraft ==
    ASSUME TypeInv, TypeInv', LineInv, Undisturbed => DraftInv, [Next]_vars, Undisturbed'
    PROVE  DraftInv'
<1>0. DraftInv /\ ~Fault
  BY UndisturbedBefore, FaultRaises DEF Undisturbed
<1>1. ~PreparationFails /\ ~RepairFails
  BY <1>0 DEF PreparationFails, RepairFails
<1>2. ~(\E m \in Metas : ForeignWrite(m))
  <2>1. \A m : ForeignWrite(m) => foreigns' = foreigns + 1
    BY DEF ForeignWrite
  <2>2. foreigns \in Nat /\ foreigns' = 0
    BY DEF Undisturbed, TypeInv, Scalars, CountType
  <2> QED
    BY <2>1, <2>2
<1>3. ~SaveDraft /\ ~RecoverDraft /\ ~SettleClose /\ ~(\E choice \in {"Save", "Discard", None} : AnswerPrompt(choice))
  BY UndisturbedBefore DEF SaveDraft, RecoverDraft, SettleClose, AnswerPrompt, Undisturbed
<1>4. CASE PersistStep
  BY <1>0, <1>4, PersistDraft
<1>5. CASE RepairStep
  BY <1>0, <1>5, RepairDraft
<1>6. CASE SaveStep \/ WillSave \/ SaveTimesOut
  BY <1>0, <1>6, SaveDraftInv
<1>7. CASE \/ PolicyNotice \/ ProtectPolicy
           \/ CloseFinals \/ CloseUnload \/ CloseAdmission \/ CloseDrained \/ DisposePanel
           \/ UNCHANGED vars \/ Hide \/ ProjectionTimesOut \/ PostProjection \/ ReceiveView \/ ReceiveHost
           \/ \E c \in Contents : EditView(c)
           \/ \E t \in Texts : ExternalEdit(t)
           \/ \E i \in DOMAIN flush : StartFlush(i) \/ FlushTimesOut(i)
  BY <1>0, <1>7, SideDraft
<1> QED
  BY <1>1, <1>2, <1>3, <1>4, <1>5, <1>6, <1>7 DEF Next, Work, Outside, CloseStep

-----------------------------------------------------------------------------
(* The queue's order, what became of the last snapshot, and the disk. *)
ClosedInv ==
    /\ OrderInv /\ UnloadInv
    /\ faults = 0 => LastInv
    /\ Undisturbed => DraftInv

LEMMA NextClosed == TypeInv /\ ClosedInv /\ [Next]_vars => ClosedInv'
<1> SUFFICES ASSUME TypeInv, ClosedInv, [Next]_vars PROVE ClosedInv'
  OBVIOUS
<1>1. TypeInv' /\ OrderInv /\ OrderInv' /\ UnloadInv /\ LineInv
  BY NextTyped, NextOrder DEF ClosedInv, OrderInv
<1>2. UnloadInv'
  BY <1>1, NextUnload
<1>3. faults' = 0 => LastInv'
  BY <1>1, NextLast DEF ClosedInv
<1>4. Undisturbed' => DraftInv'
  BY <1>1, NextDraft DEF ClosedInv
<1> QED
  BY <1>1, <1>2, <1>3, <1>4 DEF ClosedInv

LEMMA InitClosed == Init => ClosedInv
<1> SUFFICES ASSUME Init PROVE ClosedInv
  OBVIOUS
<1>1. LastInv
  BY DEF Init, LastInv
<1>2. DraftInv
  BY DEF Init, DraftInv, Repairs, Kin
<1> QED
  BY <1>1, <1>2, InitOrder, InitUnload DEF ClosedInv

LEMMA ClosedSaved ==
    ASSUME TypeInv, ClosedInv, [Next]_vars,
           close = "draining", close' = "repair", unloaded, faults = 0, doc = view.text,
           externals < 2, foreigns = 0
    PROVE  Sanitize(view.meta) = Sanitize(written)
<1>1. jobs = <<>> /\ ~dirty
  <2>1. CASE CloseDrained
    BY <2>1 DEF CloseDrained
  <2>2. CASE UNCHANGED <<close>>
    BY <2>2
  <2>3. CASE CloseStep \/ DisposePanel \/ \E choice \in {"Save", "Discard", None} : AnswerPrompt(choice)
    BY <2>1, <2>3 DEF CloseStep, CloseFinals, CloseUnload, CloseAdmission, SaveDraft, RecoverDraft, SettleClose,
       DisposePanel, AnswerPrompt
  <2>4. CASE UNCHANGED vars \/ PostProjection \/ ReceiveView \/ ReceiveHost \/ ProjectionTimesOut
    BY <2>2, <2>4 DEF vars, PostProjection, ReceiveView, ReceiveHost, ProjectionTimesOut, HostSide, closeVars
  <2>5. CASE PersistStep \/ PreparationFails
    BY <2>2, <2>5 DEF PersistStep, StartPersist, SanitizeState, MaterializeState, ApplySourceText, ResumeApplied,
       RestoreSourceText, PreparationFails, JobSide, closeVars
  <2>6. CASE RepairStep \/ RepairFails \/ PolicyNotice \/ ProtectPolicy
    BY <2>2, <2>6 DEF RepairStep, RepairFile, AdoptRepair, RepairProjected, RepairFails, PolicyNotice,
       ProtectPolicy, RepairSide, OutsideVars, closeVars
  <2>7. CASE SaveStep \/ WillSave \/ SaveTimesOut \/ Hide
    BY <2>2, <2>7 DEF SaveStep, SaveFlushed, SaveTimesOut, SaveDrained, DidSave, SaveSidecar, WillSave, Hide, SaveSide, closeVars
  <2>8. CASE \/ \E c \in Contents : EditView(c)
             \/ \E t \in Texts : ExternalEdit(t)
             \/ \E m \in Metas : ForeignWrite(m)
             \/ \E i \in DOMAIN flush : FlushTimesOut(i) \/ StartFlush(i)
    BY <2>2, <2>8 DEF EditView, ExternalEdit, ForeignWrite, FlushTimesOut, StartFlush, HostSide, OutsideVars,
       closeVars
  <2> QED
    BY <2>3, <2>4, <2>5, <2>6, <2>7, <2>8 DEF Next, Work, Outside
<1>2. Persists = {}
  <2>1. DOMAIN jobs = {}
    BY <1>1
  <2> QED
    BY <2>1 DEF Persists
<1>3. Kin(known.meta, view.meta)
  BY <1>2 DEF ClosedInv, LastInv
<1>4. Kin(known.meta, written)
  BY <1>1 DEF ClosedInv, DraftInv, Undisturbed
<1> QED
  BY <1>3, <1>4 DEF Kin

(* A panel whose last snapshot came in and that is closed without a        *)
(* question leaves on disk the metadata its webview showed (admitPersist,  *)
(* queuePersist, waitForPersists), however edits, reloads, saves, policy   *)
(* changes and the closing raced: the snapshot is never stale, nothing is  *)
(* admitted after it, and what carries it is committed before the queue is *)
(* empty.  Only a failure, another window's write and a second edit of the *)
(* source elsewhere are left out, as in the property.                      *)
THEOREM ClosesOnlyWhatIsSaved == Spec => ClosedUnaskedIsSaved
<1>1. TypeInv /\ ClosedInv /\ [Next]_vars =>
        [(close = "draining" /\ close' = "repair" /\ unloaded /\ faults = 0
            /\ doc = view.text /\ externals < 2 /\ foreigns = 0)
           => Sanitize(view.meta) = Sanitize(written)]_vars
  BY ClosedSaved
<1> QED
  BY <1>1, InitTyped, NextTyped, InitClosed, NextClosed, PTL DEF Spec, ClosedUnaskedIsSaved
=============================================================================
