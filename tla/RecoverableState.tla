-------------------------- MODULE RecoverableState --------------------------
(***************************************************************************)
(* The recoverable state files of the extension (host/sql/                 *)
(* sqlStateTransaction.ts): a primary file, two backup slots and a commit  *)
(* record naming the slot whose text is durable.  The Kusto and SQL        *)
(* Leave-No-Trace policies, the SQL connections and the SQL account map    *)
(* are kept in such files, written by every VS Code window under one file  *)
(* lock.                                                                   *)
(*                                                                         *)
(* A file is replaced by an atomic rename, so a write happens or fails as  *)
(* a whole; a window may crash between any two of them, after which its    *)
(* lock goes stale.  The SQL policy store also reads, and repairs the      *)
(* primary, without the lock (refresh).  Texts stands for snapshots with   *)
(* distinct versions; the hash of a text is the text.                      *)
(***************************************************************************)
EXTENDS Naturals

CONSTANTS
    Windows,    \* windows that run locked transactions
    Readers,    \* unlocked refreshes, at most one round each
    Texts,
    None,       \* a file that does not exist
    Bad,        \* a file that does not parse
    MaxFaults,  \* bound on failed writes and crashes
    MaxDamage   \* bound on files damaged from outside

ASSUME RecoverableStateAssumption ==
    /\ MaxFaults \in Nat /\ MaxDamage \in Nat
    /\ None \notin Texts \cup Windows /\ Bad \notin Texts /\ None # Bad

Slots == {0, 1}
Files == Texts \cup {None, Bad}
Commits == [text : Texts, slot : Slots]
Jobs == [text : Texts, slot : Slots, previous : Files]

ASSUME NoneIsNoCommit == {None, Bad} \cap (Commits \cup Jobs) = {}

VARIABLES
    primary, slot, commit, marker,  \* the files
    lock,                           \* the window holding the file lock
    step, job,                      \* where each window is in its transaction
    rstep, seen, result,            \* and each unlocked refresh in its reading
    legacy,                         \* history: the primary of an older release
    last,                           \* history: the text of the last commit
    recent,                         \* history: durable texts since a refresh began
    faults, damage

fileVars == <<primary, slot, commit, marker>>
windowVars == <<lock, step, job>>
readerVars == <<rstep, seen, result>>
historyVars == <<legacy, last, recent>>
vars == <<fileVars, windowVars, readerVars, historyVars, faults, damage>>

Init ==
    /\ primary \in Texts \cup {None}          \* an older release left it, or nothing did
    /\ legacy = primary
    /\ slot = [s \in Slots |-> None]
    /\ commit = None
    /\ marker = FALSE
    /\ lock = None
    /\ step = [w \in Windows |-> "idle"]
    /\ job = [w \in Windows |-> None]
    /\ rstep = [r \in Readers |-> "primary"]
    /\ seen = [r \in Readers |-> [primary |-> None, commit |-> None]]
    /\ result = [r \in Readers |-> None]
    /\ last = None
    /\ recent = [r \in Readers |-> {}]
    /\ faults = 0 /\ damage = 0

IsCommit(c) == c \in Commits

(* readVerifiedSqlStateBackup: the slot the commit names holds its text.   *)
VerifiedUnhashed(c) == IsCommit(c) /\ slot[c.slot] \in Texts    \* mutant: no hash

Verified(c) == IsCommit(c) /\ slot[c.slot] = c.text

Artifacts == commit # None \/ \E s \in Slots : slot[s] # None

(* readRecoverableSqlStateSnapshot and its fallback                        *)
(* readCommittedSqlStateBackup, as a store holding the lock calls them:    *)
(* the text they return, or None.                                          *)
Readable(allowUncommittedPrimary) ==
    CASE Verified(commit) -> slot[commit.slot]
      [] ~Verified(commit) /\ primary \in Texts /\ allowUncommittedPrimary /\ ~Artifacts -> primary
      [] OTHER -> None

Durable == Readable(FALSE)

-----------------------------------------------------------------------------
(* writeRecoverableSqlStateSnapshot, one file write at a time.             *)

NextSlotZero == 0                            \* mutant: always the first slot

(* The slot that is not the verified one. *)
NextSlot == IF Verified(commit) /\ commit.slot = 0 THEN 1 ELSE 0

Goto(w, s) == step' = [step EXCEPT ![w] = s]

Acquire(w) ==
    /\ step[w] = "idle" /\ lock = None
    /\ lock' = w
    /\ Goto(w, "locked")
    /\ UNCHANGED <<fileVars, job, readerVars, historyVars, faults, damage>>

Release(w) ==
    /\ lock' = None
    /\ Goto(w, "idle")
    /\ job' = [job EXCEPT ![w] = None]

(* The action under the lock read what it wanted and writes nothing; a SQL *)
(* store that found the primary behind the backup has restored it.         *)
EndRead(w) ==
    /\ step[w] = "locked"
    /\ Release(w)
    /\ primary' \in {primary} \cup (IF Durable = None THEN {} ELSE {Durable})
    /\ UNCHANGED <<slot, commit, marker, readerVars, historyVars, faults, damage>>

Begin(w, t) ==
    /\ step[w] = "locked"
    /\ job' = [job EXCEPT ![w] = [text |-> t, slot |-> NextSlot, previous |-> primary]]
    /\ Goto(w, "backup")
    /\ UNCHANGED <<fileVars, lock, readerVars, historyVars, faults, damage>>

WriteBackup(w) ==
    /\ step[w] = "backup"
    /\ slot' = [slot EXCEPT ![job[w].slot] = job[w].text]
    /\ Goto(w, "primary")
    /\ UNCHANGED <<primary, commit, marker, lock, job, readerVars, historyVars, faults, damage>>

WritePrimary(w) ==
    /\ step[w] = "primary"
    /\ primary' = job[w].text
    /\ Goto(w, "commit")
    /\ UNCHANGED <<slot, commit, marker, lock, job, readerVars, historyVars, faults, damage>>

(* The commit makes the text durable; refreshes under way may return it.   *)
WriteCommit(w) ==
    /\ step[w] = "commit"
    /\ commit' = [text |-> job[w].text, slot |-> job[w].slot]
    /\ last' = job[w].text
    /\ recent' = [r \in Readers |-> recent[r] \cup {job[w].text}]
    /\ Goto(w, "marker")
    /\ UNCHANGED <<primary, slot, marker, lock, job, readerVars, legacy, faults, damage>>

(* The migration marker is written if it is missing; a failure is ignored. *)
WriteMarker(w, ok) ==
    /\ step[w] = "marker"
    /\ ~ok => ~marker /\ faults < MaxFaults
    /\ faults' = IF ok THEN faults ELSE faults + 1
    /\ marker' = (marker \/ ok)
    /\ Release(w)
    /\ UNCHANGED <<primary, slot, commit, readerVars, historyVars, damage>>

(* A rename fails for good.  Before the commit the transaction just throws; *)
(* when the commit itself fails the primary is put back first.              *)
WriteFails(w) ==
    /\ faults < MaxFaults
    /\ faults' = faults + 1
    /\ \/ /\ step[w] \in {"backup", "primary", "rollback"}
          /\ Release(w)
       \/ /\ step[w] = "commit"
          /\ Goto(w, "rollback")
          /\ UNCHANGED <<lock, job>>
    /\ UNCHANGED <<fileVars, readerVars, historyVars, damage>>

Rollback(w) ==
    /\ step[w] = "rollback"
    /\ primary' = job[w].previous
    /\ Release(w)
    /\ UNCHANGED <<slot, commit, marker, readerVars, historyVars, faults, damage>>

(* The window dies; the lock it held goes stale and can be taken.          *)
Crash(w) ==
    /\ faults < MaxFaults
    /\ step[w] # "idle"
    /\ faults' = faults + 1
    /\ Release(w)
    /\ UNCHANGED <<fileVars, readerVars, historyVars, damage>>

(* A file is deleted or garbled by something else. *)
Damage ==
    /\ damage < MaxDamage
    /\ damage' = damage + 1
    /\ \E x \in {None, Bad} :
        \/ primary' = x /\ UNCHANGED <<slot, commit>>
        \/ \E s \in Slots : slot' = [slot EXCEPT ![s] = x] /\ UNCHANGED <<primary, commit>>
        \/ commit' = x /\ UNCHANGED <<primary, slot>>
    /\ UNCHANGED <<marker, windowVars, readerVars, historyVars, faults>>

-----------------------------------------------------------------------------
(* An unlocked refresh: primary, commit, slot, slot again, each read at a  *)
(* time of its own, and the repair of a primary that is behind.  What it   *)
(* cannot verify it leaves to a recovery under the lock.                   *)

ReadPrimary(r) ==
    /\ rstep[r] = "primary"
    /\ seen' = [seen EXCEPT ![r].primary = primary]
    /\ recent' = [recent EXCEPT ![r] = {Durable}]
    /\ rstep' = [rstep EXCEPT ![r] = "commit"]
    /\ UNCHANGED <<fileVars, windowVars, result, legacy, last, faults, damage>>

ReadCommit(r) ==
    /\ rstep[r] = "commit"
    /\ seen' = [seen EXCEPT ![r].commit = commit]
    /\ rstep' = [rstep EXCEPT ![r] = "verify"]
    /\ UNCHANGED <<fileVars, windowVars, result, historyVars, faults, damage>>

VerifySlot(r) ==
    /\ rstep[r] = "verify"
    /\ rstep' = [rstep EXCEPT ![r] = IF Verified(seen[r].commit) THEN "parse" ELSE "unreadable"]
    /\ UNCHANGED <<fileVars, windowVars, seen, result, historyVars, faults, damage>>

(* The slot is read a second time to be parsed; another text in it has     *)
(* another version than the commit.                                        *)
ParseSlotUnchecked(r) ==                     \* mutant: the identity is not compared
    /\ rstep[r] = "parse"
    /\ LET c == seen[r].commit IN
       IF slot[c.slot] \in Texts
       THEN /\ result' = [result EXCEPT ![r] = slot[c.slot]]
            /\ rstep' = [rstep EXCEPT ![r] = IF seen[r].primary = c.text THEN "done" ELSE "repair"]
       ELSE rstep' = [rstep EXCEPT ![r] = "unreadable"] /\ UNCHANGED result
    /\ UNCHANGED <<fileVars, windowVars, seen, historyVars, faults, damage>>

ParseSlot(r) ==
    /\ rstep[r] = "parse"
    /\ LET c == seen[r].commit IN
       IF slot[c.slot] = c.text
       THEN /\ result' = [result EXCEPT ![r] = c.text]
            /\ rstep' = [rstep EXCEPT ![r] = IF seen[r].primary = c.text THEN "done" ELSE "repair"]
       ELSE rstep' = [rstep EXCEPT ![r] = "unreadable"] /\ UNCHANGED result
    /\ UNCHANGED <<fileVars, windowVars, seen, historyVars, faults, damage>>

(* writeAtomic(policyPath, read.text), while a transaction may be running. *)
Repair(r) ==
    /\ rstep[r] = "repair"
    /\ primary' = result[r]
    /\ rstep' = [rstep EXCEPT ![r] = "done"]
    /\ UNCHANGED <<slot, commit, marker, windowVars, seen, result, historyVars, faults, damage>>

Transaction(w) ==
    \/ Acquire(w) \/ EndRead(w) \/ (\E t \in Texts : Begin(w, t))
    \/ WriteBackup(w) \/ WritePrimary(w) \/ WriteCommit(w)
    \/ (\E ok \in BOOLEAN : WriteMarker(w, ok))
    \/ WriteFails(w) \/ Rollback(w) \/ Crash(w)

Refresh(r) == ReadPrimary(r) \/ ReadCommit(r) \/ VerifySlot(r) \/ ParseSlot(r) \/ Repair(r)

Next == (\E w \in Windows : Transaction(w)) \/ (\E r \in Readers : Refresh(r)) \/ Damage

Spec == Init /\ [][Next]_vars

-----------------------------------------------------------------------------
TypeOK ==
    /\ primary \in Files /\ slot \in [Slots -> Files]
    /\ commit \in Commits \cup {None, Bad} /\ marker \in BOOLEAN
    /\ lock \in Windows \cup {None}
    /\ step \in [Windows -> {"idle", "locked", "backup", "primary", "commit", "rollback", "marker"}]
    /\ job \in [Windows -> Jobs \cup {None}]
    /\ rstep \in [Readers -> {"primary", "commit", "verify", "parse", "repair", "done", "unreadable"}]
    /\ seen \in [Readers -> [primary : Files, commit : Commits \cup {None, Bad}]]
    /\ result \in [Readers -> Texts \cup {None}]
    /\ {legacy, last} \subseteq Texts \cup {None} /\ recent \in [Readers -> SUBSET (Texts \cup {None})]
    /\ faults \in 0 .. MaxFaults /\ damage \in 0 .. MaxDamage

(* Whatever files are damaged, and wherever a window crashed, a store that *)
(* reads under the lock gets the text of the last commit or nothing: never *)
(* an older text and never one that was not committed.                     *)
ReadsLastCommit == Durable \in {None, last}

(* Unless a file was damaged, the first commit is the end of "nothing".    *)
CommittedStaysReadable == damage = 0 /\ last # None => Durable = last

(* An unlocked refresh that returns a text returns one that was durable    *)
(* at some time since it began, however many transactions ran meanwhile.   *)
RefreshReturnsRecent ==
    damage = 0 => \A r \in Readers : result[r] # None => result[r] \in recent[r]

Writing(w) == step[w] \in {"backup", "primary", "commit"}

Value == IF damage = 0 THEN Durable ELSE last

(* Until something damages them, the files implement one atomic register;  *)
(* from then on it is the register of what was committed.                  *)
Register == INSTANCE AtomicRegister WITH
                Writers <- Windows,
                value <- Value,
                offered <- [w \in Windows |-> IF Writing(w) THEN job[w].text ELSE None]

ImplementsRegister == Register!RegisterSpec
=============================================================================
