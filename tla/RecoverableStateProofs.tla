----------------------- MODULE RecoverableStateProofs -----------------------
(***************************************************************************)
(* Theorems about RecoverableState, for any number of windows, refreshes,  *)
(* texts, failed writes and crashes: what a store reads under the lock is  *)
(* the last commit, and without damage from outside it is always there.    *)
(***************************************************************************)
EXTENDS RecoverableState, TLAPS

USE DEF Slots, Files, Commits, Jobs, IsCommit

WriteSteps == {"backup", "primary", "commit", "rollback", "marker"}

(* The lock is held by the one window in a transaction, which has a job    *)
(* once it writes.                                                         *)
LockInv ==
    \A w \in Windows : /\ step[w] # "idle" => lock = w
                       /\ step[w] \in WriteSteps => job[w] \in Jobs

ReaderInv == \A r \in Readers : rstep[r] = "parse" => IsCommit(seen[r].commit)

LastInv == IsCommit(commit) => commit.text = last

TypeInv == TypeOK /\ LockInv /\ ReaderInv /\ LastInv

LEMMA ReleaseType ==
    ASSUME TypeInv, NEW w \in Windows, Release(w)
    PROVE  /\ lock' \in Windows \cup {None}
           /\ step' \in [Windows -> {"idle", "locked", "backup", "primary", "commit", "rollback",
                                      "marker"}]
           /\ job' \in [Windows -> Jobs \cup {None}]
           /\ step[w] # "idle" => LockInv'
<1>1. lock' = None /\ step' = [step EXCEPT ![w] = "idle"] /\ job' = [job EXCEPT ![w] = None]
  BY DEF Release, Goto
<1>2. /\ lock' \in Windows \cup {None}
      /\ step' \in [Windows -> {"idle", "locked", "backup", "primary", "commit", "rollback",
                                 "marker"}]
  BY <1>1 DEF TypeInv, TypeOK
<1>3. job' \in [Windows -> Jobs \cup {None}]
  BY <1>1 DEF TypeInv, TypeOK
<1>4. ASSUME step[w] # "idle"
      PROVE  \A v \in Windows : step'[v] = "idle"
  BY <1>1, <1>4 DEF TypeInv, TypeOK, LockInv
<1> QED
  BY <1>2, <1>3, <1>4 DEF LockInv, WriteSteps

LEMMA TypeInit == Init => TypeInv
<1> SUFFICES ASSUME Init PROVE TypeInv
  OBVIOUS
<1>1. LockInv /\ ReaderInv /\ LastInv
  BY NoneIsNoCommit DEF Init, LockInv, ReaderInv, LastInv, WriteSteps
<1>2. /\ primary \in Files /\ slot \in [Slots -> Files]
      /\ commit \in Commits \cup {None, Bad} /\ marker \in BOOLEAN
      /\ lock \in Windows \cup {None} /\ job \in [Windows -> Jobs \cup {None}]
      /\ {legacy, last} \subseteq Texts \cup {None}
  BY DEF Init
<1>3. /\ seen \in [Readers -> [primary : Files, commit : Commits \cup {None, Bad}]]
      /\ result \in [Readers -> Texts \cup {None}]
      /\ recent \in [Readers -> SUBSET (Texts \cup {None})]
  BY DEF Init
<1>4. faults \in 0 .. MaxFaults /\ damage \in 0 .. MaxDamage
  BY RecoverableStateAssumption DEF Init
<1>5. /\ step \in [Windows -> {"idle", "locked", "backup", "primary", "commit", "rollback",
                                "marker"}]
      /\ rstep \in [Readers -> {"primary", "commit", "verify", "parse", "repair", "done",
                                 "unreadable"}]
  BY DEF Init
<1> QED
  BY <1>1, <1>2, <1>3, <1>4, <1>5 DEF TypeInv, TypeOK

LEMMA DurableType == TypeOK => Durable \in Texts \cup {None} /\ (Durable # None => primary \in Files)
  BY DEF TypeOK, Durable, Readable, Verified

LEMMA WindowType ==
    ASSUME TypeInv, NEW w \in Windows, Transaction(w)
    PROVE  TypeInv'
<1> USE RecoverableStateAssumption DEF fileVars, readerVars, historyVars
<1>1. CASE Acquire(w)
  BY <1>1 DEF Acquire, Goto, TypeInv, TypeOK, LockInv, ReaderInv, LastInv, WriteSteps
<1>2. CASE EndRead(w)
  BY <1>2, ReleaseType, DurableType DEF EndRead, TypeInv, TypeOK, ReaderInv, LastInv
<1>3. ASSUME NEW t \in Texts, Begin(w, t)
      PROVE  TypeInv'
  <2>1. [text |-> t, slot |-> NextSlot, previous |-> primary] \in Jobs
    BY DEF NextSlot, TypeInv, TypeOK
  <2> QED
    BY <1>3, <2>1 DEF Begin, Goto, TypeInv, TypeOK, LockInv, ReaderInv, LastInv, WriteSteps
<1>4. CASE WriteBackup(w)
  BY <1>4 DEF WriteBackup, Goto, TypeInv, TypeOK, LockInv, ReaderInv, LastInv, WriteSteps
<1>5. CASE WritePrimary(w)
  BY <1>5 DEF WritePrimary, Goto, TypeInv, TypeOK, LockInv, ReaderInv, LastInv, WriteSteps
<1>6. CASE WriteCommit(w)
  <2>1. job[w] \in Jobs
    BY <1>6 DEF WriteCommit, TypeInv, LockInv, WriteSteps
  <2>2. commit' \in Commits /\ commit'.text = last' /\ last' \in Texts
    BY <1>6, <2>1 DEF WriteCommit
  <2>3. recent' \in [Readers -> SUBSET (Texts \cup {None})]
    BY <1>6, <2>1 DEF WriteCommit, TypeInv, TypeOK
  <2>4. LockInv' /\ step' \in [Windows -> {"idle", "locked", "backup", "primary", "commit",
                                            "rollback", "marker"}]
    BY <1>6 DEF WriteCommit, Goto, TypeInv, TypeOK, LockInv, WriteSteps
  <2> QED
    BY <1>6, <2>2, <2>3, <2>4 DEF WriteCommit, TypeInv, TypeOK, ReaderInv, LastInv
<1>7. ASSUME NEW ok \in BOOLEAN, WriteMarker(w, ok)
      PROVE  TypeInv'
  BY <1>7, ReleaseType DEF WriteMarker, TypeInv, TypeOK, ReaderInv, LastInv
<1>8. CASE WriteFails(w)
  <2>1. CASE Release(w) /\ step[w] # "idle"
    BY <1>8, <2>1, ReleaseType DEF WriteFails, TypeInv, TypeOK, ReaderInv, LastInv
  <2>2. CASE step[w] = "commit" /\ Goto(w, "rollback") /\ UNCHANGED <<lock, job>>
    BY <1>8, <2>2 DEF WriteFails, Goto, TypeInv, TypeOK, LockInv, ReaderInv, LastInv, WriteSteps
  <2> QED
    BY <1>8, <2>1, <2>2 DEF WriteFails
<1>9. CASE Rollback(w)
  <2>1. job[w] \in Jobs
    BY <1>9 DEF Rollback, TypeInv, LockInv, WriteSteps
  <2> QED
    BY <1>9, <2>1, ReleaseType DEF Rollback, TypeInv, TypeOK, ReaderInv, LastInv
<1>10. CASE Crash(w)
  BY <1>10, ReleaseType DEF Crash, TypeInv, TypeOK, ReaderInv, LastInv
<1> QED
  BY <1>1, <1>2, <1>3, <1>4, <1>5, <1>6, <1>7, <1>8, <1>9, <1>10 DEF Transaction

LEMMA RefreshType ==
    ASSUME TypeInv, NEW r \in Readers, Refresh(r)
    PROVE  TypeInv'
<1> USE DEF fileVars, windowVars, historyVars
<1>1. CASE ReadPrimary(r)
  BY <1>1, DurableType DEF ReadPrimary, TypeInv, TypeOK, LockInv, ReaderInv, LastInv
<1>2. CASE ReadCommit(r)
  BY <1>2 DEF ReadCommit, TypeInv, TypeOK, LockInv, ReaderInv, LastInv
<1>3. CASE VerifySlot(r)
  BY <1>3 DEF VerifySlot, Verified, TypeInv, TypeOK, LockInv, ReaderInv, LastInv
<1>4. CASE ParseSlot(r)
  BY <1>4 DEF ParseSlot, TypeInv, TypeOK, LockInv, ReaderInv, LastInv
<1>5. CASE Repair(r)
  BY <1>5 DEF Repair, TypeInv, TypeOK, LockInv, ReaderInv, LastInv
<1> QED
  BY <1>1, <1>2, <1>3, <1>4, <1>5 DEF Refresh

LEMMA DamageType == TypeInv /\ Damage => TypeInv'
<1> SUFFICES ASSUME TypeInv, Damage PROVE TypeInv'
  OBVIOUS
<1>1. damage' \in 0 .. MaxDamage
  BY RecoverableStateAssumption DEF Damage, TypeInv, TypeOK
<1>2. /\ primary' \in Files /\ slot' \in [Slots -> Files]
      /\ commit' \in Commits \cup {None, Bad}
      /\ IsCommit(commit') => commit' = commit
  BY NoneIsNoCommit DEF Damage, TypeInv, TypeOK
<1> QED
  BY <1>1, <1>2 DEF Damage, TypeInv, TypeOK, LockInv, ReaderInv, LastInv, windowVars, readerVars, historyVars

LEMMA TypeStep == TypeInv /\ [Next]_vars => TypeInv'
<1> SUFFICES ASSUME TypeInv, [Next]_vars PROVE TypeInv'
  OBVIOUS
<1>1. CASE UNCHANGED vars
  BY <1>1 DEF vars, fileVars, windowVars, readerVars, historyVars, TypeInv, TypeOK, LockInv, ReaderInv, LastInv
<1>2. CASE Next
  BY <1>2, WindowType, RefreshType, DamageType DEF Next
<1> QED
  BY <1>1, <1>2

(* A store that reads under the lock gets the text of the last commit or   *)
(* nothing, whatever crashed, failed or was damaged before.                *)
THEOREM LastCommitIsRead == Spec => [](TypeOK /\ ReadsLastCommit)
<1>1. Spec => []TypeInv
  BY TypeInit, TypeStep, PTL DEF Spec
<1>2. TypeInv => TypeOK /\ ReadsLastCommit
  BY DEF TypeInv, TypeOK, ReaderInv, LastInv, ReadsLastCommit, Durable, Readable, Verified
<1> QED
  BY <1>1, <1>2, PTL

-----------------------------------------------------------------------------
(* Without damage.  A transaction writes the slot the commit does not      *)
(* name, and has written it before it commits; so the commit always names  *)
(* a slot that holds its text, and only the commit changes what is read.   *)
PreCommit == {"backup", "primary", "commit"}

SlotInv ==
    \A w \in Windows : /\ step[w] \in PreCommit /\ IsCommit(commit) => job[w].slot # commit.slot
                       /\ step[w] \in {"primary", "commit"} => slot[job[w].slot] = job[w].text

CommitInv == IF last = None THEN commit = None ELSE Verified(commit)

SafeInv == TypeInv /\ (damage = 0 => SlotInv /\ CommitInv)

LEMMA DurableIsLast == SafeInv /\ damage = 0 => Durable = last
  BY NoneIsNoCommit
  DEF SafeInv, TypeInv, TypeOK, LastInv, CommitInv, Durable, Readable, Verified

(* Steps that touch neither the slots nor the commit, and begin nothing.   *)
LEMMA QuietSafe ==
    ASSUME SafeInv, TypeInv', UNCHANGED <<slot, commit, last, damage>>,
           \A w \in Windows :
               \/ step'[w] \notin PreCommit
               \/ UNCHANGED <<step[w], job[w]>>
               \/ step[w] = "primary" /\ step'[w] = "commit" /\ UNCHANGED job[w]
    PROVE  SafeInv'
<1> SUFFICES ASSUME damage' = 0 PROVE SlotInv' /\ CommitInv'
  BY DEF SafeInv
<1>1. SlotInv /\ CommitInv
  BY DEF SafeInv
<1>2. CommitInv'
  BY <1>1 DEF CommitInv, Verified
<1>3. SlotInv'
  BY <1>1 DEF SlotInv, PreCommit
<1> QED
  BY <1>2, <1>3

LEMMA ReleaseQuiet ==
    ASSUME TypeInv, NEW w \in Windows, Release(w)
    PROVE  \A v \in Windows : step'[v] \notin PreCommit \/ UNCHANGED <<step[v], job[v]>>
  BY DEF TypeInv, TypeOK, Release, Goto, PreCommit

LEMMA WindowSafe ==
    ASSUME SafeInv, TypeInv', NEW w \in Windows, Transaction(w)
    PROVE  SafeInv'
<1> USE DEF fileVars, readerVars, historyVars
<1>t. TypeInv
  BY DEF SafeInv
<1>o. ASSUME step[w] # "idle", NEW v \in Windows, v # w
      PROVE  step[v] = "idle"
  BY <1>o, <1>t DEF TypeInv, LockInv
<1>1. CASE Acquire(w)
  BY <1>1, <1>t, QuietSafe DEF Acquire, Goto, TypeInv, TypeOK, PreCommit
<1>2. CASE EndRead(w)
  BY <1>2, <1>t, QuietSafe, ReleaseQuiet DEF EndRead
<1>3. ASSUME NEW t \in Texts, Begin(w, t)
      PROVE  SafeInv'
  <2> SUFFICES ASSUME damage' = 0 PROVE SlotInv' /\ CommitInv'
    BY DEF SafeInv
  <2>1. SlotInv /\ CommitInv
    BY <1>3 DEF SafeInv, Begin
  <2>2. CommitInv' /\ UNCHANGED <<slot, commit>>
    BY <1>3, <2>1 DEF Begin, CommitInv, Verified
  <2>3. /\ step'[w] = "backup" /\ job'[w].slot = NextSlot
        /\ \A v \in Windows \ {w} : step'[v] = "idle"
    BY <1>3, <1>o, <1>t DEF Begin, Goto, TypeInv, TypeOK
  <2>4. IsCommit(commit) => Verified(commit)
    BY <2>1, NoneIsNoCommit DEF CommitInv
  <2>5. IsCommit(commit) => NextSlot # commit.slot
    BY <2>4 DEF NextSlot
  <2> QED
    BY <2>2, <2>3, <2>5 DEF SlotInv, PreCommit
<1>4. CASE WriteBackup(w)
  <2> SUFFICES ASSUME damage' = 0 PROVE SlotInv' /\ CommitInv'
    BY DEF SafeInv
  <2>1. SlotInv /\ CommitInv /\ UNCHANGED <<commit, last, job>>
    BY <1>4 DEF SafeInv, WriteBackup
  <2>2. job[w] \in Jobs
    BY <1>4, <1>t DEF WriteBackup, TypeInv, LockInv, WriteSteps
  <2>3. /\ slot'[job[w].slot] = job[w].text
        /\ \A s \in Slots \ {job[w].slot} : slot'[s] = slot[s]
    BY <1>4, <1>t, <2>2 DEF WriteBackup, TypeInv, TypeOK
  <2>4. IsCommit(commit) => job[w].slot # commit.slot
    BY <1>4, <2>1 DEF WriteBackup, SlotInv, PreCommit
  <2>5. CommitInv'
    BY <2>1, <2>3, <2>4 DEF CommitInv, Verified
  <2>6. step'[w] = "primary" /\ \A v \in Windows \ {w} : step'[v] = "idle"
    BY <1>4, <1>o, <1>t DEF WriteBackup, Goto, TypeInv, TypeOK
  <2>7. SlotInv'
    BY <2>1, <2>3, <2>4, <2>6 DEF SlotInv, PreCommit
  <2> QED
    BY <2>5, <2>7
<1>5. CASE WritePrimary(w)
  BY <1>5, <1>t, QuietSafe DEF WritePrimary, Goto, TypeInv, TypeOK
<1>6. CASE WriteCommit(w)
  <2> SUFFICES ASSUME damage' = 0 PROVE SlotInv' /\ CommitInv'
    BY DEF SafeInv
  <2>1. SlotInv /\ CommitInv /\ UNCHANGED <<slot, job>>
    BY <1>6 DEF SafeInv, WriteCommit
  <2>2. job[w] \in Jobs
    BY <1>6, <1>t DEF WriteCommit, TypeInv, LockInv, WriteSteps
  <2>3. slot[job[w].slot] = job[w].text
    BY <1>6, <2>1 DEF WriteCommit, SlotInv
  <2>4. CommitInv'
    BY <1>6, <2>1, <2>2, <2>3, RecoverableStateAssumption DEF WriteCommit, CommitInv, Verified
  <2>5. step'[w] = "marker" /\ \A v \in Windows \ {w} : step'[v] = "idle"
    BY <1>6, <1>o, <1>t DEF WriteCommit, Goto, TypeInv, TypeOK
  <2>6. SlotInv'
    BY <2>5 DEF SlotInv, PreCommit
  <2> QED
    BY <2>4, <2>6
<1>7. ASSUME NEW ok \in BOOLEAN, WriteMarker(w, ok)
      PROVE  SafeInv'
  BY <1>7, <1>t, QuietSafe, ReleaseQuiet DEF WriteMarker
<1>8. CASE WriteFails(w)
  <2>1. CASE Release(w)
    BY <1>8, <1>t, <2>1, QuietSafe, ReleaseQuiet DEF WriteFails
  <2>2. CASE Goto(w, "rollback") /\ UNCHANGED <<lock, job>>
    BY <1>8, <1>t, <2>2, QuietSafe DEF WriteFails, Goto, TypeInv, TypeOK, PreCommit
  <2> QED
    BY <1>8, <2>1, <2>2 DEF WriteFails
<1>9. CASE Rollback(w)
  BY <1>9, <1>t, QuietSafe, ReleaseQuiet DEF Rollback
<1>10. CASE Crash(w)
  BY <1>10, <1>t, QuietSafe, ReleaseQuiet DEF Crash
<1> QED
  BY <1>1, <1>2, <1>3, <1>4, <1>5, <1>6, <1>7, <1>8, <1>9, <1>10 DEF Transaction

LEMMA SafeStep == SafeInv /\ [Next]_vars => SafeInv'
<1> SUFFICES ASSUME SafeInv, [Next]_vars PROVE SafeInv'
  OBVIOUS
<1>t. TypeInv'
  BY TypeStep DEF SafeInv
<1>1. CASE UNCHANGED vars
  BY <1>1, <1>t, QuietSafe DEF vars, fileVars, windowVars, readerVars, historyVars
<1>2. ASSUME NEW w \in Windows, Transaction(w)
      PROVE  SafeInv'
  BY <1>2, <1>t, WindowSafe
<1>3. ASSUME NEW r \in Readers, Refresh(r)
      PROVE  SafeInv'
  BY <1>3, <1>t, QuietSafe
  DEF Refresh, ReadPrimary, ReadCommit, VerifySlot, ParseSlot, Repair, fileVars, windowVars,
      historyVars
<1>4. CASE Damage
  BY <1>4, <1>t DEF Damage, SafeInv, TypeInv, TypeOK
<1> QED
  BY <1>1, <1>2, <1>3, <1>4 DEF Next

LEMMA SafeInit == Init => SafeInv
<1> SUFFICES ASSUME Init PROVE SafeInv
  OBVIOUS
<1>1. SlotInv /\ CommitInv
  BY DEF Init, SlotInv, CommitInv, PreCommit
<1> QED
  BY <1>1, TypeInit DEF SafeInv

(* Once anything is committed it can be read for ever, through any number  *)
(* of crashes and failed writes.                                           *)
THEOREM CommitIsForEver == Spec => []CommittedStaysReadable
<1>1. SafeInv => CommittedStaysReadable
  BY DurableIsLast DEF CommittedStaysReadable
<1> QED
  BY <1>1, SafeInit, SafeStep, PTL DEF Spec

-----------------------------------------------------------------------------
(* The refinement of AtomicRegister. *)
Offers == [w \in Windows |-> IF Writing(w) THEN job[w].text ELSE None]

RegisterStep == [Register!RegisterNext]_(Register!registerVars)

(* A step that ends w's attempt, if it made one, and commits nothing.      *)
LEMMA WithdrawStep ==
    ASSUME NEW w \in Windows, Value' = Value,
           Offers' = [Offers EXCEPT ![w] = None] \/ Offers' = Offers
    PROVE  RegisterStep
<1>1. CASE Offers' = Offers
  BY <1>1 DEF RegisterStep, Register!registerVars, Offers
<1>2. CASE Offers[w] = None /\ Offers' = [Offers EXCEPT ![w] = None]
  <2>1. Offers' = Offers
    BY <1>2 DEF Offers
  <2> QED
    BY <2>1, <1>1
<1>3. CASE Offers[w] # None /\ Offers' = [Offers EXCEPT ![w] = None]
  <2>1. Register!Withdraw(w)
    BY <1>3 DEF Register!Withdraw, Offers
  <2> QED
    BY <2>1 DEF RegisterStep, Register!RegisterNext
<1> QED
  BY <1>1, <1>2, <1>3

LEMMA OffersStep ==
    ASSUME TypeInv, NEW w \in Windows
    PROVE  /\ UNCHANGED <<step, job>> => Offers' = Offers
           /\ Release(w) => Offers' = [Offers EXCEPT ![w] = None]
           /\ \A s \in PreCommit : Goto(w, s) /\ UNCHANGED job /\ Writing(w) => Offers' = Offers
           /\ \A s : Goto(w, s) /\ UNCHANGED job /\ s \notin PreCommit
                => Offers' = [Offers EXCEPT ![w] = None]
<1>1. UNCHANGED <<step, job>> => Offers' = Offers
  BY DEF Offers, Writing
<1>2. Release(w) => Offers' = [Offers EXCEPT ![w] = None]
  BY DEF Release, Goto, Offers, Writing, TypeInv, TypeOK
<1>3. \A s \in PreCommit : Goto(w, s) /\ UNCHANGED job /\ Writing(w) => Offers' = Offers
  BY DEF Goto, Offers, Writing, PreCommit, TypeInv, TypeOK
<1>4. \A s : Goto(w, s) /\ UNCHANGED job /\ s \notin PreCommit
        => Offers' = [Offers EXCEPT ![w] = None]
  BY DEF Goto, Offers, Writing, PreCommit, TypeInv, TypeOK
<1> QED
  BY <1>1, <1>2, <1>3, <1>4

LEMMA NextIsRegisterStep ==
    ASSUME SafeInv, SafeInv', [Next]_vars
    PROVE  RegisterStep
<1> USE DEF fileVars, readerVars, historyVars
<1>t. TypeInv
  BY DEF SafeInv
<1>v. Value = last /\ Value' = last'
  <2>1. damage = 0 => Durable = last
    BY DurableIsLast
  <2>2. damage' = 0 => Durable' = last'
    BY NoneIsNoCommit
    DEF SafeInv, TypeInv, TypeOK, LastInv, CommitInv, Durable, Readable, Verified
  <2> QED
    BY <2>1, <2>2 DEF Value
<1>d. last' = last => Value' = Value
  BY <1>v
<1>q. UNCHANGED <<last, step, job>> => RegisterStep
  BY <1>d DEF RegisterStep, Register!registerVars, Writing
<1>1. CASE UNCHANGED vars
  BY <1>1, <1>q DEF vars, windowVars
<1>2. ASSUME NEW r \in Readers, Refresh(r)
      PROVE  RegisterStep
  BY <1>2, <1>q
  DEF Refresh, ReadPrimary, ReadCommit, VerifySlot, ParseSlot, Repair, windowVars
<1>3. CASE Damage
  BY <1>3, <1>q DEF Damage, windowVars
<1>4. ASSUME NEW w \in Windows, Transaction(w)
      PROVE  RegisterStep
  <2>1. CASE Acquire(w)
    <3>1. Goto(w, "locked") /\ UNCHANGED job /\ ~Writing(w)
      BY <2>1 DEF Acquire, Writing
    <3> QED
      BY <2>1, <3>1, <1>d, <1>t, OffersStep, WithdrawStep DEF Acquire, PreCommit
  <2>2. CASE \/ EndRead(w) \/ Rollback(w) \/ Crash(w) \/ (WriteFails(w) /\ Release(w))
             \/ \E ok \in BOOLEAN : WriteMarker(w, ok)
    <3>1. Release(w) /\ last' = last
      BY <2>2 DEF EndRead, Rollback, Crash, WriteFails, WriteMarker
    <3> QED
      BY <3>1, <1>d, <1>t, OffersStep, WithdrawStep
  <2>3. ASSUME NEW t \in Texts, Begin(w, t)
        PROVE  RegisterStep
    <3>1. Offers[w] = None
      BY <2>3 DEF Begin, Offers, Writing
    <3>2. Offers' = [Offers EXCEPT ![w] = t]
      BY <2>3, <1>t DEF Begin, Goto, Offers, Writing, TypeInv, TypeOK
    <3>3. Register!Offer(w, t)
      BY <2>3, <1>d, <3>1, <3>2 DEF Register!Offer, Offers, Begin
    <3> QED
      BY <3>3 DEF RegisterStep, Register!RegisterNext
  <2>4. CASE WriteBackup(w) \/ WritePrimary(w)
    <3>1. CASE WriteBackup(w)
      <4>1. Goto(w, "primary") /\ UNCHANGED <<job, last>> /\ Writing(w)
        BY <3>1 DEF WriteBackup, Writing
      <4> QED
        BY <4>1, <1>d, <1>t, OffersStep, WithdrawStep DEF PreCommit
    <3>2. CASE WritePrimary(w)
      <4>1. Goto(w, "commit") /\ UNCHANGED <<job, last>> /\ Writing(w)
        BY <3>2 DEF WritePrimary, Writing
      <4> QED
        BY <4>1, <1>d, <1>t, OffersStep, WithdrawStep DEF PreCommit
    <3> QED
      BY <2>4, <3>1, <3>2
  <2>5. CASE WriteCommit(w)
    <3>1. Goto(w, "marker") /\ UNCHANGED job /\ last' = job[w].text /\ Writing(w)
      BY <2>5 DEF WriteCommit, Writing
    <3>2. Offers' = [Offers EXCEPT ![w] = None]
      BY <3>1, <1>t, OffersStep DEF PreCommit
    <3>3. job[w] \in Jobs
      BY <2>5, <1>t DEF WriteCommit, TypeInv, LockInv, WriteSteps
    <3>4. Offers[w] = job[w].text /\ Offers[w] # None
      BY <3>1, <3>3, RecoverableStateAssumption DEF Offers
    <3>5. Register!Commit(w)
      BY <3>1, <3>2, <3>4, <1>v DEF Register!Commit, Offers
    <3> QED
      BY <3>5 DEF RegisterStep, Register!RegisterNext
  <2>6. CASE WriteFails(w) /\ ~Release(w)
    <3>1. Goto(w, "rollback") /\ UNCHANGED <<job, last>>
      BY <2>6 DEF WriteFails
    <3> QED
      BY <3>1, <1>d, <1>t, OffersStep, WithdrawStep DEF PreCommit
  <2> QED
    BY <1>4, <2>1, <2>2, <2>3, <2>4, <2>5, <2>6 DEF Transaction
<1> QED
  BY <1>1, <1>2, <1>3, <1>4 DEF Next

(* Until something damages the files, four files written one after the     *)
(* other under a lock, with crashes, failed writes and unlocked repairs,   *)
(* are one atomic register.                                                *)
THEOREM FilesAreRegister == Spec => ImplementsRegister
<1>1. Init => Register!RegisterInit
  BY DEF Init, Register!RegisterInit, Value, Durable, Readable, Verified, Writing, NoneIsNoCommit
<1>2. SafeInv /\ SafeInv' /\ [Next]_vars => [Register!RegisterNext]_(Register!registerVars)
  BY NextIsRegisterStep DEF RegisterStep
<1>3. Spec => []SafeInv
  BY SafeInit, SafeStep, PTL DEF Spec
<1> QED
  BY <1>1, <1>2, <1>3, PTL DEF Spec, ImplementsRegister, Register!RegisterSpec

-----------------------------------------------------------------------------
(* Unlocked refreshes.  What is durable when a refresh begins, and what is  *)
(* committed later, is recent; so is the text of the commit it has read.   *)
RecentInv ==
    \A r \in Readers :
        /\ rstep[r] = "primary" => result[r] = None
        /\ rstep[r] # "primary" => last \in recent[r]
        /\ rstep[r] \notin {"primary", "commit"} /\ IsCommit(seen[r].commit)
              => seen[r].commit.text \in recent[r]
        /\ result[r] # None => result[r] \in recent[r]

RefreshInv == SafeInv /\ (damage = 0 => RecentInv)

(* Whatever was recent stays so, and a commit makes its text recent. *)
LEMMA OthersRecent ==
    ASSUME RecentInv, UNCHANGED readerVars,
           \A r \in Readers : recent[r] \subseteq recent'[r],
           \A r \in Readers : last' = last \/ last' \in recent'[r]
    PROVE  RecentInv'
BY DEF RecentInv, readerVars

LEMMA RefreshRecent ==
    ASSUME SafeInv, RecentInv, damage = 0, NEW r \in Readers, Refresh(r)
    PROVE  RecentInv'
<1> USE DEF fileVars, historyVars, SafeInv
<1>1. CASE ReadPrimary(r)
  <2>1. recent' = [recent EXCEPT ![r] = {last}] /\ rstep' = [rstep EXCEPT ![r] = "commit"]
        /\ \A q \in Readers \ {r} : seen'[q] = seen[q]
    BY <1>1, DurableIsLast DEF ReadPrimary, TypeInv, TypeOK
  <2> QED
    BY <1>1, <2>1 DEF ReadPrimary, RecentInv, TypeInv, TypeOK
<1>2. CASE ReadCommit(r)
  <2>1. seen'[r].commit = commit /\ \A q \in Readers \ {r} : seen'[q] = seen[q]
    BY <1>2 DEF ReadCommit, TypeInv, TypeOK
  <2>2. IsCommit(commit) => commit.text \in recent[r]
    BY <1>2 DEF ReadCommit, RecentInv, TypeInv, LastInv
  <2> QED
    BY <1>2, <2>1, <2>2 DEF ReadCommit, RecentInv, TypeInv, TypeOK
<1>3. CASE VerifySlot(r)
  BY <1>3 DEF VerifySlot, RecentInv, TypeInv, TypeOK
<1>4. CASE ParseSlot(r)
  <2>1. seen[r].commit.text \in recent[r]
    BY <1>4 DEF ParseSlot, RecentInv, TypeInv, ReaderInv
  <2> QED
    BY <1>4, <2>1 DEF ParseSlot, RecentInv, TypeInv, TypeOK
<1>5. CASE Repair(r)
  BY <1>5 DEF Repair, RecentInv, TypeInv, TypeOK
<1> QED
  BY <1>1, <1>2, <1>3, <1>4, <1>5 DEF Refresh

LEMMA RefreshInvStep == RefreshInv /\ [Next]_vars => RefreshInv'
<1> SUFFICES ASSUME RefreshInv, [Next]_vars, damage' = 0
             PROVE  RecentInv'
  BY SafeStep DEF RefreshInv
<1>d. damage = 0 /\ ~Damage
  BY RecoverableStateAssumption
  DEF RefreshInv, SafeInv, TypeInv, TypeOK, Next, Damage, Transaction, Acquire, EndRead, Begin,
      WriteBackup, WritePrimary, WriteCommit, WriteMarker, WriteFails, Rollback, Crash, Refresh,
      ReadPrimary, ReadCommit, VerifySlot, ParseSlot, Repair, vars
<1>i. SafeInv /\ RecentInv
  BY <1>d DEF RefreshInv
<1>1. CASE UNCHANGED vars
  BY <1>1, <1>i, OthersRecent DEF vars, historyVars
<1>2. ASSUME NEW w \in Windows, Transaction(w), ~WriteCommit(w)
      PROVE  RecentInv'
  <2>1. UNCHANGED <<readerVars, historyVars>>
    BY <1>2 DEF Transaction, Acquire, EndRead, Begin, WriteBackup, WritePrimary, WriteMarker,
       WriteFails, Rollback, Crash
  <2> QED
    BY <1>i, <2>1, OthersRecent DEF historyVars
<1>3. ASSUME NEW w \in Windows, WriteCommit(w)
      PROVE  RecentInv'
  BY <1>3, <1>i, OthersRecent DEF WriteCommit
<1>4. ASSUME NEW r \in Readers, Refresh(r)
      PROVE  RecentInv'
  BY <1>d, <1>i, <1>4, RefreshRecent
<1> QED
  BY <1>d, <1>1, <1>2, <1>3, <1>4 DEF Next

(* A refresh that reads without the lock, while any number of transactions  *)
(* run and crash, returns a text that was durable since it began.          *)
THEOREM RefreshIsRecent == Spec => []RefreshReturnsRecent
<1>1. Init => RefreshInv
  BY SafeInit DEF Init, RefreshInv, RecentInv
<1>2. RefreshInv => RefreshReturnsRecent
  BY DEF RefreshInv, RecentInv, RefreshReturnsRecent
<1> QED
  BY <1>1, <1>2, RefreshInvStep, PTL DEF Spec
=============================================================================
