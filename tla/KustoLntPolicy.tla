--------------------------- MODULE KustoLntPolicy ---------------------------
(***************************************************************************)
(* The Kusto Leave-No-Trace policy shared by all VS Code windows           *)
(* (host/kustoLeaveNoTracePolicyStore.ts): which clusters may leave no     *)
(* trace, and the revocation generation of each, by which a query that was *)
(* dispatched before a change is refused admission after it.               *)
(*                                                                         *)
(* The state files are the atomic register that RecoverableState proves    *)
(* them to be.  The migration marker is a file of its own, written after   *)
(* the commit and on a best effort: a crash in between, or a failure that  *)
(* is swallowed, leaves a committed policy without it.  What a window does *)
(* under the file lock is one step, except a publication, which keeps the  *)
(* lock while the webview applies a result. What a window read under the   *)
(* lock it applies to its own snapshot later, in any order.                *)
(***************************************************************************)
EXTENDS Naturals

CONSTANTS
    Windows, Clusters, Queries,
    None,
    MaxVersion,     \* bound on policy versions
    MaxStarts,      \* bound on window starts
    MaxLosses,      \* bound on losses of the committed policy
    MaxTimeouts     \* bound on lock acquisitions that give up

ASSUME KustoLntPolicyAssumption ==
    {MaxVersion, MaxStarts, MaxLosses, MaxTimeouts} \subseteq Nat /\ None \notin Windows

(* A protected cluster has a generation. *)
Snapshots ==
    {s \in [version : Nat, keys : SUBSET Clusters, gens : [Clusters -> Nat], blocked : BOOLEAN] :
        \A c \in s.keys : s.gens[c] > 0}
QueryRecords == [window : Windows, cluster : Clusters, gen : Nat, touched : BOOLEAN,
                 orphaned : BOOLEAN, stage : {"dispatched", "publishing"}]

ASSUME NoneIsNoSnapshot == None \notin Snapshots \cup QueryRecords

VARIABLES
    durable,        \* the committed snapshot
    marker,         \* the migration marker exists
    mirror,         \* the clusters in VS Code's global state, also of older releases
    lock,
    phase,          \* of each window: off, starting, ready
    mayMigrate,     \* allowLegacyMigration, computed before initialize locks
    snapshot,       \* this.snapshot of each window
    pending,        \* snapshots read under the lock and not applied yet
    modified,       \* the watched policy file changed since the last refresh
    query,          \* the executions that go through the policy
    told,           \* history: last generation each window's editors heard of
    unmarked,       \* history: losses that found no marker
    starts, losses, timeouts

windowVars == <<phase, mayMigrate, snapshot, pending, told>>
fileVars == <<durable, marker>>
bounded == <<starts, losses, unmarked, timeouts>>
vars == <<fileVars, mirror, lock, windowVars, modified, query, bounded>>

Protects(s, c) == s.blocked \/ c \in s.keys

(* A snapshot of clusters taken from the global state. *)
FromKeys(v, keys, blocked) ==
    [version |-> v, keys |-> keys, blocked |-> blocked,
     gens |-> [c \in Clusters |-> IF c \in keys THEN 1 ELSE 0]]

Init ==
    /\ durable = None /\ marker = FALSE
    /\ mirror \in SUBSET Clusters
    /\ lock = None
    /\ phase = [w \in Windows |-> "off"]
    /\ mayMigrate = [w \in Windows |-> FALSE]
    /\ snapshot = [w \in Windows |-> FromKeys(0, {}, FALSE)]
    /\ pending = [w \in Windows |-> {}]
    /\ modified = [w \in Windows |-> FALSE]
    /\ query = [q \in Queries |-> None]
    /\ told = [w \in Windows |-> [c \in Clusters |-> 0]]
    /\ starts = 0 /\ losses = 0 /\ unmarked = 0 /\ timeouts = 0

-----------------------------------------------------------------------------
(* readOrRecoverUnderLock.  Without a committed snapshot the clusters of   *)
(* the global state are migrated if that was never done; otherwise every   *)
(* cluster is blocked.                                                     *)
RecoveredUnchecked(w, allow) ==              \* mutant: the marker is not looked at again
    FromKeys(snapshot[w].version + 1, IF allow THEN mirror ELSE {}, ~allow)

Recovered(w, allow) ==
    LET migrate == allow /\ ~marker IN
    FromKeys(snapshot[w].version + 1, IF migrate THEN mirror ELSE {}, ~migrate)

Current(w, allow) == IF durable = None THEN Recovered(w, allow) ELSE durable

(* The commit, then the marker if it is missing: the window may die before *)
(* it, and a failure to write it is swallowed.                             *)
Write(s) ==
    /\ durable' = s /\ marker' \in {marker, TRUE}
    /\ modified' = [w \in Windows |-> phase[w] # "off"]

(* History: a change of the policy of cs touches the queries under way.    *)
Touched(cs) ==
    [q \in Queries |-> IF query[q] # None /\ query[q].cluster \in cs
                       THEN [query[q] EXCEPT !.touched = TRUE] ELSE query[q]]
TouchedByRead == IF durable = None THEN Touched(Clusters) ELSE query

(* What a read under the lock writes: the recovery, if one was needed.     *)
WriteRecovery(w, allow) ==
    IF durable = None
    THEN Write(Recovered(w, allow))
    ELSE UNCHANGED <<fileVars, modified>>

SkipsSameKeys(s, previous) ==                \* mutant: the version is not compared
    \/ previous.blocked /\ ~s.blocked
    \/ ~s.blocked /\ s.version < previous.version
    \/ s.keys = previous.keys /\ s.blocked = previous.blocked
SkipsOnlySame(s, previous) ==                \* mutant: an older snapshot is applied
    s.version = previous.version /\ s.keys = previous.keys /\ s.blocked = previous.blocked

(* applySnapshot returns without effect. *)
Skips(s, previous) ==
    \/ previous.blocked /\ ~s.blocked
    \/ ~s.blocked /\ s.version < previous.version
    \/ s.version = previous.version /\ s.keys = previous.keys /\ s.blocked = previous.blocked

-----------------------------------------------------------------------------
(* A window's life. *)

Start(w) ==
    /\ phase[w] = "off" /\ starts < MaxStarts
    /\ starts' = starts + 1
    /\ phase' = [phase EXCEPT ![w] = "starting"]
    /\ snapshot' = [snapshot EXCEPT ![w] = FromKeys(0, mirror, FALSE)]
    /\ mayMigrate' = [mayMigrate EXCEPT ![w] = ~marker]
    /\ UNCHANGED <<fileVars, mirror, lock, pending, told, modified, query, losses, unmarked, timeouts>>

(* initialize: what it read is applied without an announcement. *)
Initialize(w) ==
    LET s == Current(w, mayMigrate[w])
        applied == IF Skips(s, snapshot[w]) THEN snapshot[w] ELSE s
    IN
    /\ phase[w] = "starting" /\ lock = None
    /\ WriteRecovery(w, mayMigrate[w])
    /\ phase' = [phase EXCEPT ![w] = "ready"]
    /\ snapshot' = [snapshot EXCEPT ![w] = applied]
    /\ told' = [told EXCEPT ![w] = applied.gens]
    /\ mirror' = IF Skips(s, snapshot[w]) \/ s.blocked THEN mirror ELSE s.keys
    /\ mayMigrate' = [mayMigrate EXCEPT ![w] = FALSE]
    /\ query' = TouchedByRead
    /\ UNCHANGED <<lock, pending, bounded>>

(* The window is closed or dies; a lock it held goes stale. *)
Stop(w) ==
    /\ phase[w] # "off"
    /\ phase' = [phase EXCEPT ![w] = "off"]
    /\ pending' = [pending EXCEPT ![w] = {}]
    /\ told' = [told EXCEPT ![w] = [c \in Clusters |-> 0]]
    /\ snapshot' = [snapshot EXCEPT ![w] = FromKeys(0, {}, FALSE)]
    /\ mayMigrate' = [mayMigrate EXCEPT ![w] = FALSE]
    /\ modified' = [modified EXCEPT ![w] = FALSE]
    /\ lock' = IF lock = w THEN None ELSE lock
    /\ query' = [q \in Queries |->
                   IF query[q] # None /\ query[q].window = w THEN None ELSE query[q]]
    /\ UNCHANGED <<fileVars, mirror, bounded>>

Free(w) == phase[w] = "ready" /\ lock = None

BumpOnEnable(s, c, keys) ==                  \* mutant: unprotecting does not revoke
    [s EXCEPT !.version = @ + 1, !.keys = keys, !.gens[c] = IF c \in keys THEN @ + 1 ELSE @]

(* nextSnapshot *)
NextSnapshot(s, c, keys) ==
    [s EXCEPT !.version = @ + 1, !.keys = keys, !.gens[c] = @ + 1]

(* setCluster *)
SetCluster(w, c, enabled) ==
    LET current == Current(w, FALSE)
        next == NextSnapshot(current, c, IF enabled THEN current.keys \cup {c}
                                                     ELSE current.keys \ {c})
        same == (c \in current.keys) = enabled
    IN
    /\ Free(w)
    /\ current.version < MaxVersion
    /\ IF same
       THEN /\ WriteRecovery(w, FALSE)
            /\ query' = TouchedByRead
            /\ pending' = [pending EXCEPT ![w] = @ \cup {current}]
       ELSE /\ Write(next)
            /\ query' = Touched(IF durable = None THEN Clusters ELSE {c})
            /\ pending' = [pending EXCEPT ![w] = @ \cup {next}]
    /\ UNCHANGED <<mirror, lock, phase, mayMigrate, snapshot, told, bounded>>

(* The watcher of the policy file fires and refresh obtains the lock.      *)
Refresh(w) ==
    /\ Free(w) /\ modified[w]
    /\ IF durable = None
       THEN WriteRecovery(w, FALSE)
       ELSE /\ modified' = [modified EXCEPT ![w] = FALSE]
            /\ UNCHANGED fileVars
    /\ query' = TouchedByRead
    /\ pending' = [pending EXCEPT ![w] = @ \cup {Current(w, FALSE)}]
    /\ UNCHANGED <<mirror, lock, phase, mayMigrate, snapshot, told, bounded>>

(* refresh gives up on a lock that is held for too long, by a publication   *)
(* or by a slow transaction (a step here): the failure is logged, and      *)
(* nothing reads the file again until it changes once more.                *)
RefreshTimesOut(w) ==
    /\ phase[w] = "ready" /\ modified[w]
    /\ timeouts < MaxTimeouts
    /\ timeouts' = timeouts + 1
    /\ modified' = [modified EXCEPT ![w] = FALSE]
    /\ UNCHANGED <<fileVars, mirror, lock, windowVars, query, starts, losses, unmarked>>

(* applySnapshot mirrors what it applied and emits the change: the editors *)
(* of the window retire what runs on the clusters whose generation moved   *)
(* on, on all clusters when the policy is blocked.                         *)
Apply(w, s) ==
    LET invalidated == {c \in Clusters : s.gens[c] > snapshot[w].gens[c]} IN
    /\ s \in pending[w]
    /\ pending' = [pending EXCEPT ![w] = @ \ {s}]
    /\ IF Skips(s, snapshot[w])
       THEN UNCHANGED <<snapshot, told, mirror>>
       ELSE /\ snapshot' = [snapshot EXCEPT ![w] = s]
            /\ told' = [told EXCEPT ![w] = [c \in Clusters |->
                          IF c \in invalidated THEN s.gens[c] ELSE @[c]]]
            /\ mirror' = IF s.blocked THEN mirror ELSE s.keys
    /\ UNCHANGED <<fileVars, lock, phase, mayMigrate, modified, query, bounded>>

-----------------------------------------------------------------------------
(* Queries. *)

(* prepareDispatch: the generation is read under the lock. *)
Dispatch(w, q, c) ==
    /\ Free(w) /\ query[q] = None
    /\ WriteRecovery(w, FALSE)
    /\ query' = [TouchedByRead EXCEPT ![q] =
                   [window |-> w, cluster |-> c, gen |-> Current(w, FALSE).gens[c],
                    touched |-> FALSE, orphaned |-> FALSE, stage |-> "dispatched"]]
    /\ UNCHANGED <<mirror, lock, windowVars, bounded>>

Admissible(w, q) ==
    /\ ~Current(w, FALSE).blocked
    /\ Current(w, FALSE).gens[query[q].cluster] = query[q].gen

(* admitRevision: the lock is kept while admit() publishes the result.     *)
Admit(w, q) ==
    LET admitted == Admissible(w, q) IN
    /\ Free(w)
    /\ query[q] # None /\ query[q].stage = "dispatched" /\ query[q].window = w
    /\ WriteRecovery(w, FALSE)
    /\ query' = [TouchedByRead EXCEPT ![q] = IF admitted THEN [@ EXCEPT !.stage = "publishing"]
                                                        ELSE None]
    /\ lock' = IF admitted THEN w ELSE lock
    /\ UNCHANGED <<mirror, windowVars, bounded>>

(* admitRevision gives up on the lock: the caller publishes nothing.       *)
AdmitTimesOut(w, q) ==
    /\ phase[w] = "ready"
    /\ query[q] # None /\ query[q].stage = "dispatched" /\ query[q].window = w
    /\ timeouts < MaxTimeouts
    /\ timeouts' = timeouts + 1
    /\ query' = [query EXCEPT ![q] = None]
    /\ UNCHANGED <<fileVars, mirror, lock, windowVars, modified, starts, losses, unmarked>>

(* The publication settled, however it ended. *)
Published(w, q) ==
    /\ query[q] # None /\ query[q].stage = "publishing" /\ query[q].window = w
    /\ query' = [query EXCEPT ![q] = None]
    /\ lock' = None
    /\ UNCHANGED <<fileVars, mirror, windowVars, modified, bounded>>

(* The committed policy is lost: deleted or garbled from outside.  Without *)
(* a marker nothing tells it from a policy that never was; history: the    *)
(* queries under way were dispatched under a policy nobody knows of.       *)
Lose ==
    /\ durable # None /\ losses < MaxLosses
    /\ losses' = losses + 1
    /\ durable' = None
    /\ modified' = [w \in Windows |-> phase[w] # "off"]
    /\ IF marker
       THEN UNCHANGED <<unmarked, query>>
       ELSE /\ unmarked' = unmarked + 1
            /\ query' = [q \in Queries |-> IF query[q] # None
                                           THEN [query[q] EXCEPT !.orphaned = TRUE] ELSE None]
    /\ UNCHANGED <<marker, mirror, lock, windowVars, starts, timeouts>>

-----------------------------------------------------------------------------
Window(w) ==
    \/ Start(w) \/ Initialize(w) \/ Stop(w) \/ Refresh(w)
    \/ RefreshTimesOut(w)
    \/ \E c \in Clusters, enabled \in BOOLEAN : SetCluster(w, c, enabled)
    \/ \E s \in pending[w] : Apply(w, s)

Query(q) ==
    \E w \in Windows : (\E c \in Clusters : Dispatch(w, q, c))
                   \/ Admit(w, q) \/ AdmitTimesOut(w, q) \/ Published(w, q)

Next == (\E w \in Windows : Window(w)) \/ (\E q \in Queries : Query(q)) \/ Lose

Spec == Init /\ [][Next]_vars

(* The watcher polls, what was read is applied, and a publication settles  *)
(* by its deadline.                                                        *)
Fairness ==
    /\ \A w \in Windows :
        /\ WF_vars(Initialize(w))
        /\ SF_vars(Refresh(w))
        /\ WF_vars(\E s \in pending[w] : Apply(w, s))
    /\ \A q \in Queries : WF_vars(\E w \in Windows : Published(w, q))

FairSpec == Spec /\ Fairness

-----------------------------------------------------------------------------
TypeOK ==
    /\ durable \in Snapshots \cup {None} /\ marker \in BOOLEAN
    /\ mirror \subseteq Clusters /\ lock \in Windows \cup {None}
    /\ phase \in [Windows -> {"off", "starting", "ready"}]
    /\ mayMigrate \in [Windows -> BOOLEAN]
    /\ snapshot \in [Windows -> Snapshots] /\ pending \in [Windows -> SUBSET Snapshots]
    /\ modified \in [Windows -> BOOLEAN]
    /\ query \in [Queries -> QueryRecords \cup {None}]
    /\ told \in [Windows -> [Clusters -> Nat]]
    /\ starts \in 0 .. MaxStarts /\ timeouts \in 0 .. MaxTimeouts
    /\ losses \in 0 .. MaxLosses /\ unmarked \in 0 .. losses

(* While a result is being published nobody has protected or unprotected   *)
(* its cluster since the query was dispatched, in this window or another,  *)
(* and the policy was not recovered from a loss in between.  Except for a  *)
(* query that was under way when the policy was lost and the marker with   *)
(* which its loss is told had not been written: a window that starts then  *)
(* migrates the global state again, and generations begin anew.            *)
NoAdmissionAcrossChange ==
    \A q \in Queries :
        query[q] # None /\ query[q].stage = "publishing" => ~query[q].touched \/ query[q].orphaned

(* A lost policy is never taken for an empty one: whatever window recovers *)
(* it, and however its start raced with the first migration, all clusters  *)
(* are blocked from then on, once a loss found the marker, which one crash *)
(* or failed write leaves missing until the policy changes again.  Losses  *)
(* before that may be migrated over, as the code does not know of them.    *)
LossFailsClosed == losses > unmarked /\ durable # None => durable.blocked

(* A window that has read the last change and applied what it read has     *)
(* told its editors of every revocation committed while it was open, also  *)
(* of two changes that cancel out between two reads, in whatever order it  *)
(* applied them.  A refresh that gave up on the lock has read nothing, and *)
(* versions and generations are comparable as long as no loss was migrated *)
(* over.                                                                   *)
NoSilentRevocation ==
    \A w \in Windows, c \in Clusters :
        (/\ phase[w] = "ready" /\ ~modified[w] /\ pending[w] = {} /\ durable # None
         /\ timeouts = 0 /\ unmarked = 0)
        => IF durable.blocked THEN snapshot[w].blocked ELSE told[w][c] >= durable.gens[c]

(* Every window that stays open ends up protecting what the committed      *)
(* policy protects, in whatever order it applied what it had read, if no   *)
(* wait for the lock timed out: a refresh that did is not repeated.  After *)
(* a loss without marker a window keeps its own, newer, snapshot.          *)
WindowsConverge ==
    \A w \in Windows :
        <>[](phase[w] = "ready" /\ durable # None /\ timeouts = 0 /\ unmarked = 0 =>
               \A c \in Clusters : Protects(snapshot[w], c) = Protects(durable, c))
=============================================================================
