------------------------ MODULE KustoLntPolicyProofs ------------------------
(***************************************************************************)
(* Theorems about KustoLntPolicy, for every set of windows, clusters and   *)
(* queries and every bound: type correctness, that no result is admitted   *)
(* across a change of the policy of its cluster, and that a lost policy    *)
(* fails closed.                                                           *)
(***************************************************************************)
EXTENDS KustoLntPolicy, TLAPS

(* What the marker of the migration witnesses: a loss that found it.  A     *)
(* policy that is gone without it leaves only queries that are known to    *)
(* have lost theirs.                                                       *)
Marked ==
    /\ losses > unmarked => marker
    /\ \A q \in Queries : query[q] # None /\ durable = None /\ ~marker => query[q].orphaned

(* A query that waits for admission was dispatched at a generation of its   *)
(* cluster that has not gone down; a change has moved it on.               *)
Waiting(q) == query[q] # None /\ query[q].stage = "dispatched" /\ ~query[q].orphaned

Dispatched ==
    \A q \in Queries :
        Waiting(q) /\ durable # None /\ ~durable.blocked =>
            /\ query[q].gen <= durable.gens[query[q].cluster]
            /\ query[q].touched => query[q].gen < durable.gens[query[q].cluster]

(* The publication of a result holds the lock. *)
Publishing ==
    \A q \in Queries :
        query[q] # None /\ query[q].stage = "publishing" =>
            /\ lock = query[q].window
            /\ \A r \in Queries : query[r] # None /\ query[r].stage = "publishing" => r = q

PolicyInv ==
    /\ TypeOK /\ Marked /\ Dispatched /\ Publishing
    /\ NoAdmissionAcrossChange /\ LossFailsClosed

-----------------------------------------------------------------------------
(* The operators the actions are built from. *)

(* The bounds are natural numbers. *)
LEMMA BoundsType == MaxStarts \in Nat /\ MaxLosses \in Nat /\ MaxTimeouts \in Nat
  BY KustoLntPolicyAssumption

(* A snapshot made of keys is one. *)
LEMMA FromKeysType ==
    ASSUME NEW v \in Nat, NEW keys \in SUBSET Clusters, NEW blocked \in BOOLEAN
    PROVE  FromKeys(v, keys, blocked) \in Snapshots
  BY DEF FromKeys, Snapshots

(* So is what a window takes for current, recovered or not. *)
LEMMA CurrentType ==
    ASSUME TypeOK, NEW w \in Windows, NEW allow \in BOOLEAN
    PROVE  Recovered(w, allow) \in Snapshots /\ Current(w, allow) \in Snapshots
<1>1. snapshot[w].version + 1 \in Nat
  BY DEF TypeOK, Snapshots
<1>2. Recovered(w, allow) \in Snapshots
  BY <1>1, FromKeysType DEF TypeOK, Recovered
<1> QED
  BY <1>2 DEF TypeOK, Current

(* And the snapshot after a change, which moves only the changed clusters. *)
LEMMA NextSnapshotType ==
    ASSUME NEW s \in Snapshots, NEW c \in Clusters, NEW keys \in SUBSET Clusters,
           keys \subseteq s.keys \cup {c}
    PROVE  /\ NextSnapshot(s, c, keys) \in Snapshots
           /\ NextSnapshot(s, c, keys).blocked = s.blocked
           /\ \A d \in Clusters : NextSnapshot(s, c, keys).gens[d] =
                                     (IF d = c THEN s.gens[d] + 1 ELSE s.gens[d])
<1> DEFINE n == NextSnapshot(s, c, keys)
           g == [s.gens EXCEPT ![c] = s.gens[c] + 1]
<1>1. /\ s.version \in Nat /\ s.keys \in SUBSET Clusters /\ s.gens \in [Clusters -> Nat]
      /\ s.blocked \in BOOLEAN /\ \A d \in s.keys : s.gens[d] > 0
  BY DEF Snapshots
<1>2. /\ g \in [Clusters -> Nat]
      /\ \A d \in Clusters : g[d] = (IF d = c THEN s.gens[d] + 1 ELSE s.gens[d])
  BY <1>1
<1>3. n = [version |-> s.version + 1, keys |-> keys, gens |-> g, blocked |-> s.blocked]
  <2>1. n = [[[s EXCEPT !.version = s.version + 1] EXCEPT !.keys = keys] EXCEPT !.gens = g]
    BY DEF NextSnapshot, Snapshots
  <2> HIDE DEF n, g
  <2> QED
    BY <1>1, <2>1 DEF Snapshots
<1>4. \A d \in keys : g[d] > 0
  BY <1>1, <1>2
<1>5. n \in Snapshots
  <2> HIDE DEF g
  <2> QED
    BY <1>1, <1>2, <1>3, <1>4 DEF Snapshots
<1> QED
  BY <1>2, <1>3, <1>5

(* Marking the queries of a change keeps their records. *)
LEMMA TouchedType ==
    ASSUME TypeOK, NEW cs \in SUBSET Clusters
    PROVE  /\ Touched(cs) \in [Queries -> QueryRecords \cup {None}]
           /\ \A q \in Queries :
                 /\ query[q] = None => Touched(cs)[q] = None
                 /\ query[q] # None =>
                      /\ Touched(cs)[q] # None
                      /\ Touched(cs)[q].stage = query[q].stage
                      /\ Touched(cs)[q].window = query[q].window
                      /\ Touched(cs)[q].gen = query[q].gen
                      /\ Touched(cs)[q].orphaned = query[q].orphaned
                      /\ Touched(cs)[q].cluster = query[q].cluster
                      /\ query[q].cluster \notin cs => Touched(cs)[q] = query[q]
  BY NoneIsNoSnapshot DEF TypeOK, Touched, QueryRecords

(* What a read under the lock leaves behind: the current policy, which is   *)
(* blocked if one was lost, and queries that are untouched unless it was.  *)
LEMMA ReadEffect ==
    ASSUME PolicyInv, NEW w \in Windows, NEW allow \in BOOLEAN, WriteRecovery(w, allow)
    PROVE  /\ durable' = Current(w, allow) /\ durable' \in Snapshots /\ durable' # None
           /\ marker' \in BOOLEAN /\ (marker => marker')
           /\ modified' \in [Windows -> BOOLEAN]
           /\ durable = None /\ (marker \/ allow = FALSE) => durable'.blocked
           /\ durable # None => durable' = durable
           /\ TouchedByRead \in [Queries -> QueryRecords \cup {None}]
           /\ durable # None => TouchedByRead = query
           /\ \A q \in Queries :
                 /\ query[q] = None => TouchedByRead[q] = None
                 /\ query[q] # None =>
                      /\ TouchedByRead[q] # None
                      /\ TouchedByRead[q].stage = query[q].stage
                      /\ TouchedByRead[q].window = query[q].window
                      /\ TouchedByRead[q].gen = query[q].gen
                      /\ TouchedByRead[q].orphaned = query[q].orphaned
                      /\ TouchedByRead[q].cluster = query[q].cluster
<1>1. Current(w, allow) \in Snapshots /\ Recovered(w, allow) \in Snapshots
  BY CurrentType DEF PolicyInv
<1>2. /\ durable' = Current(w, allow) /\ modified' \in [Windows -> BOOLEAN]
      /\ marker' \in BOOLEAN /\ (marker => marker')
  BY DEF WriteRecovery, Write, Current, PolicyInv, TypeOK, fileVars
<1>3. durable = None /\ (marker \/ allow = FALSE) => durable'.blocked
  BY <1>2 DEF Current, Recovered, FromKeys, PolicyInv, TypeOK
<1>4. durable # None => durable' = durable
  BY <1>2 DEF Current
<1>5. /\ TouchedByRead \in [Queries -> QueryRecords \cup {None}]
      /\ durable # None => TouchedByRead = query
      /\ \A q \in Queries :
            /\ query[q] = None => TouchedByRead[q] = None
            /\ query[q] # None =>
                 /\ TouchedByRead[q] # None
                 /\ TouchedByRead[q].stage = query[q].stage
                 /\ TouchedByRead[q].window = query[q].window
                 /\ TouchedByRead[q].gen = query[q].gen
                 /\ TouchedByRead[q].orphaned = query[q].orphaned
                 /\ TouchedByRead[q].cluster = query[q].cluster
  <2>1. CASE durable = None
    BY <2>1, TouchedType DEF TouchedByRead, PolicyInv
  <2>2. CASE durable # None
    BY <2>2 DEF TouchedByRead, PolicyInv, TypeOK
  <2> QED
    BY <2>1, <2>2
<1> QED
  BY <1>1, <1>2, <1>3, <1>4, <1>5, NoneIsNoSnapshot

(* While the lock is free nothing is being published. *)
LEMMA NobodyPublishes ==
    ASSUME PolicyInv, lock = None
    PROVE  \A q \in Queries : query[q] # None => query[q].stage = "dispatched"
  BY KustoLntPolicyAssumption DEF PolicyInv, TypeOK, Publishing, QueryRecords

(* A read under the free lock keeps what is said of durable and query. *)
LEMMA ReadKeeps ==
    ASSUME PolicyInv, NEW w \in Windows, lock = None,
           WriteRecovery(w, FALSE), query' = TouchedByRead, UNCHANGED <<losses, unmarked, lock>>
    PROVE  Marked' /\ Dispatched' /\ Publishing' /\ NoAdmissionAcrossChange' /\ LossFailsClosed'
<1>1. \A q \in Queries : query'[q] # None => query[q] # None /\ query'[q].stage = "dispatched"
  BY ReadEffect, NobodyPublishes
<1>2. Marked'
  BY ReadEffect DEF PolicyInv, Marked
<1>3. Dispatched'
  BY <1>1, ReadEffect DEF PolicyInv, Dispatched, Waiting
<1>4. Publishing' /\ NoAdmissionAcrossChange'
  BY <1>1 DEF Publishing, NoAdmissionAcrossChange
<1>5. LossFailsClosed'
  BY ReadEffect DEF PolicyInv, Marked, LossFailsClosed
<1> QED
  BY <1>2, <1>3, <1>4, <1>5

(* No window runs, nothing is committed and no query is under way.         *)
THEOREM InitPolicy == Init => PolicyInv
<1> SUFFICES ASSUME Init PROVE PolicyInv
  OBVIOUS
<1>1. \A keys \in SUBSET Clusters : FromKeys(0, keys, FALSE) \in Snapshots
  BY FromKeysType
<1>2. TypeOK
  <2>1. starts \in 0 .. MaxStarts /\ timeouts \in 0 .. MaxTimeouts
        /\ losses \in 0 .. MaxLosses /\ unmarked \in 0 .. losses
    BY BoundsType DEF Init
  <2>2. snapshot \in [Windows -> Snapshots] /\ pending \in [Windows -> SUBSET Snapshots]
    BY <1>1 DEF Init
  <2>3. told \in [Windows -> [Clusters -> Nat]]
    BY DEF Init
  <2> QED
    BY <2>1, <2>2, <2>3 DEF Init, TypeOK
<1> QED
  BY <1>2, KustoLntPolicyAssumption
     DEF Init, PolicyInv, Marked, Dispatched, Waiting, Publishing, NoAdmissionAcrossChange, LossFailsClosed

-----------------------------------------------------------------------------
(* A window's steps. *)

LEMMA StartKeeps ==
    ASSUME PolicyInv, NEW w \in Windows, Start(w) PROVE PolicyInv'
<1>1. FromKeys(0, mirror, FALSE) \in Snapshots
  BY FromKeysType DEF PolicyInv, TypeOK
<1>2. TypeOK'
  <2>1. starts' \in 0 .. MaxStarts
    BY BoundsType DEF PolicyInv, TypeOK, Start
  <2>2. snapshot' \in [Windows -> Snapshots]
    BY <1>1 DEF PolicyInv, TypeOK, Start
  <2>3. phase' \in [Windows -> {"off", "starting", "ready"}]
        /\ mayMigrate' \in [Windows -> BOOLEAN]
    BY DEF PolicyInv, TypeOK, Start
  <2> QED
    BY <2>1, <2>2, <2>3 DEF PolicyInv, TypeOK, Start, fileVars
<1> QED
  BY <1>2 DEF PolicyInv, Start, fileVars, Marked, Dispatched, Waiting, Publishing, NoAdmissionAcrossChange,
              LossFailsClosed

LEMMA InitializeKeeps ==
    ASSUME PolicyInv, NEW w \in Windows, Initialize(w) PROVE PolicyInv'
<1> DEFINE s == Current(w, mayMigrate[w])
           applied == IF Skips(s, snapshot[w]) THEN snapshot[w] ELSE s
<1>1. mayMigrate[w] \in BOOLEAN /\ WriteRecovery(w, mayMigrate[w]) /\ lock = None
  BY DEF PolicyInv, TypeOK, Initialize
<1>2. s \in Snapshots /\ snapshot[w] \in Snapshots
  BY <1>1, CurrentType DEF PolicyInv, TypeOK
<1>3. applied \in Snapshots
  BY <1>2
<1>4. applied.gens \in [Clusters -> Nat] /\ s.keys \in SUBSET Clusters
  BY <1>2, <1>3 DEF Snapshots
<1>5. TypeOK'
  <2> HIDE DEF s, applied
  <2>1. durable' \in Snapshots /\ marker' \in BOOLEAN /\ modified' \in [Windows -> BOOLEAN]
        /\ query' \in [Queries -> QueryRecords \cup {None}]
    BY <1>1, ReadEffect DEF Initialize
  <2>2. phase' \in [Windows -> {"off", "starting", "ready"}]
        /\ mayMigrate' \in [Windows -> BOOLEAN] /\ lock' = lock /\ pending' = pending
        /\ UNCHANGED <<starts, losses, unmarked, timeouts>>
    BY DEF Initialize, bounded, PolicyInv, TypeOK
  <2>3. snapshot' = [snapshot EXCEPT ![w] = applied] /\ told' = [told EXCEPT ![w] = applied.gens]
        /\ mirror' = (IF Skips(s, snapshot[w]) \/ s.blocked THEN mirror ELSE s.keys)
    BY DEF Initialize, s, applied
  <2>4. snapshot' \in [Windows -> Snapshots]
    BY <2>3, <1>3 DEF PolicyInv, TypeOK
  <2>5. told' \in [Windows -> [Clusters -> Nat]]
    BY <2>3, <1>4 DEF PolicyInv, TypeOK
  <2>6. mirror' \subseteq Clusters
    BY <2>3, <1>4 DEF PolicyInv, TypeOK
  <2> QED
    BY <2>1, <2>2, <2>4, <2>5, <2>6 DEF PolicyInv, TypeOK
<1>6. query' = TouchedByRead /\ UNCHANGED <<losses, unmarked, lock>>
  BY DEF Initialize, bounded
<1>7. \A q \in Queries : query'[q] # None => query[q] # None /\ query'[q].stage = "dispatched"
  BY <1>1, <1>6, ReadEffect, NobodyPublishes
<1>8. Marked'
  BY <1>1, <1>6, ReadEffect DEF PolicyInv, Marked
<1>9. Dispatched' /\ LossFailsClosed'
  <2>1. CASE marker
    BY <2>1, <1>1, <1>6, <1>7, ReadEffect DEF PolicyInv, Dispatched, Waiting, LossFailsClosed
  <2>2. CASE ~marker
    BY <2>2, <1>1, <1>6, <1>7, ReadEffect
       DEF PolicyInv, Marked, Dispatched, Waiting, LossFailsClosed, TypeOK
  <2> QED
    BY <2>1, <2>2
<1>10. Publishing' /\ NoAdmissionAcrossChange'
  BY <1>7 DEF Publishing, NoAdmissionAcrossChange
<1> QED
  BY <1>5, <1>8, <1>9, <1>10 DEF PolicyInv

LEMMA StopKeeps ==
    ASSUME PolicyInv, NEW w \in Windows, Stop(w) PROVE PolicyInv'
<1>1. FromKeys(0, {}, FALSE) \in Snapshots
  BY FromKeysType
<1>2. TypeOK'
  BY <1>1 DEF PolicyInv, TypeOK, Stop, fileVars, bounded
<1>3. \A q \in Queries : query'[q] # None => query'[q] = query[q] /\ query[q].window # w
  BY DEF Stop
<1>4. lock' = (IF lock = w THEN None ELSE lock) /\ UNCHANGED <<durable, marker, losses, unmarked>>
  BY DEF Stop, fileVars, bounded
<1> QED
  BY <1>2, <1>3, <1>4
     DEF PolicyInv, Marked, Dispatched, Waiting, Publishing, NoAdmissionAcrossChange,
         LossFailsClosed

LEMMA RefreshKeeps ==
    ASSUME PolicyInv, NEW w \in Windows, Refresh(w) PROVE PolicyInv'
<1>1. lock = None /\ query' = TouchedByRead /\ UNCHANGED <<losses, unmarked, lock>>
  BY DEF Refresh, Free, bounded
<1>2. Current(w, FALSE) \in Snapshots
  BY CurrentType DEF PolicyInv
<1>3. pending' \in [Windows -> SUBSET Snapshots]
  BY <1>2 DEF Refresh, PolicyInv, TypeOK
<1>4. CASE durable = None
  <2>1. WriteRecovery(w, FALSE)
    BY <1>4 DEF Refresh
  <2>2. TypeOK'
    BY <1>1, <1>3, <2>1, ReadEffect DEF Refresh, PolicyInv, TypeOK, bounded
  <2> QED
    BY <1>1, <2>1, <2>2, ReadKeeps DEF PolicyInv
<1>5. CASE durable # None
  <2>1. query' = query /\ UNCHANGED fileVars
    BY <1>1, <1>5 DEF Refresh, TouchedByRead
  <2>2. TypeOK'
    BY <1>1, <1>3, <2>1, <1>5 DEF Refresh, PolicyInv, TypeOK, bounded, fileVars
  <2> QED
    BY <1>1, <2>1, <2>2 DEF PolicyInv, Marked, Dispatched, Waiting, Publishing,
                            NoAdmissionAcrossChange, LossFailsClosed, fileVars
<1> QED
  BY <1>4, <1>5

LEMMA RefreshTimesOutKeeps ==
    ASSUME PolicyInv, NEW w \in Windows, RefreshTimesOut(w) PROVE PolicyInv'
<1>1. timeouts' \in 0 .. MaxTimeouts /\ modified' \in [Windows -> BOOLEAN]
  BY BoundsType DEF PolicyInv, TypeOK, RefreshTimesOut
<1>2. TypeOK'
  BY <1>1 DEF PolicyInv, TypeOK, RefreshTimesOut, fileVars, windowVars
<1> QED
  BY <1>2 DEF PolicyInv, RefreshTimesOut, fileVars, Marked, Dispatched, Waiting, Publishing,
              NoAdmissionAcrossChange, LossFailsClosed

(* What a change of the policy leaves behind.                              *)
LEMMA SetClusterKeeps ==
    ASSUME PolicyInv, NEW w \in Windows, NEW c \in Clusters, NEW enabled \in BOOLEAN,
           SetCluster(w, c, enabled)
    PROVE  PolicyInv'
<1> DEFINE current == Current(w, FALSE)
           keys == IF enabled THEN current.keys \cup {c} ELSE current.keys \ {c}
           next == NextSnapshot(current, c, keys)
           same == (c \in current.keys) = enabled
<1>1. lock = None /\ UNCHANGED <<losses, unmarked, lock>>
      /\ UNCHANGED <<mirror, phase, mayMigrate, snapshot, told, bounded>>
  BY DEF SetCluster, Free, bounded
<1>2. current \in Snapshots
  BY CurrentType DEF PolicyInv
<1>3. CASE same
  <2>1. /\ WriteRecovery(w, FALSE) /\ query' = TouchedByRead
        /\ pending' = [pending EXCEPT ![w] = @ \cup {current}]
    BY <1>3 DEF SetCluster
  <2>2. pending' \in [Windows -> SUBSET Snapshots]
    BY <1>2, <2>1 DEF PolicyInv, TypeOK
  <2>3. TypeOK'
    BY <1>1, <2>1, <2>2, ReadEffect DEF PolicyInv, TypeOK, bounded
  <2> QED
    BY <1>1, <2>1, <2>3, ReadKeeps DEF PolicyInv
<1>4. CASE ~same
  <2> DEFINE cs == IF durable = None THEN Clusters ELSE {c}
  <2>1. /\ Write(next) /\ query' = Touched(cs)
        /\ pending' = [pending EXCEPT ![w] = @ \cup {next}]
    BY <1>4 DEF SetCluster
  <2>2. keys \in SUBSET Clusters /\ keys \subseteq current.keys \cup {c}
    BY <1>2 DEF Snapshots
  <2>3. /\ next \in Snapshots /\ next.blocked = current.blocked
        /\ \A d \in Clusters : next.gens[d] = (IF d = c THEN current.gens[d] + 1
                                                        ELSE current.gens[d])
    <3> HIDE DEF keys, current
    <3> QED
      BY <1>2, <2>2, NextSnapshotType
  <2> HIDE DEF next
  <2>4. /\ durable' = next /\ durable' # None /\ modified' \in [Windows -> BOOLEAN]
        /\ marker' \in BOOLEAN /\ (marker => marker')
    BY <2>1, <2>3, NoneIsNoSnapshot DEF Write, PolicyInv, TypeOK
  <2>5. pending' \in [Windows -> SUBSET Snapshots]
    BY <2>1, <2>3 DEF PolicyInv, TypeOK
  <2>6. /\ query' \in [Queries -> QueryRecords \cup {None}]
        /\ \A q \in Queries :
              query'[q] # None =>
                /\ query[q] # None /\ query[q].stage = "dispatched"
                /\ query'[q].stage = "dispatched"
                /\ query'[q].gen = query[q].gen
                /\ query'[q].orphaned = query[q].orphaned
                /\ query'[q].cluster = query[q].cluster
                /\ query[q].cluster \notin cs => query'[q] = query[q]
    BY <1>1, <2>1, TouchedType, NobodyPublishes DEF PolicyInv
  <2>7. TypeOK'
    BY <1>1, <2>3, <2>4, <2>5, <2>6 DEF PolicyInv, TypeOK, bounded
  <2>8. durable = None => next.blocked
    BY <2>3 DEF Current, Recovered, FromKeys
  <2>9. Marked' /\ Publishing' /\ NoAdmissionAcrossChange'
    BY <1>1, <2>4, <2>6 DEF PolicyInv, Marked, Publishing, NoAdmissionAcrossChange
  <2>10. LossFailsClosed'
    BY <1>1, <2>3, <2>4, <2>8 DEF PolicyInv, LossFailsClosed, Current
  <2>11. Dispatched'
    <3> SUFFICES ASSUME NEW q \in Queries, query'[q] # None, ~query'[q].orphaned, ~next.blocked
                 PROVE  /\ query'[q].gen <= next.gens[query'[q].cluster]
                        /\ query'[q].touched => query'[q].gen < next.gens[query'[q].cluster]
      BY <2>4 DEF Dispatched, Waiting
    <3>1. durable # None /\ current = durable /\ cs = {c} /\ ~durable.blocked
      BY <2>3, <2>8 DEF Current
    <3>2. query[q] # None /\ query[q].stage = "dispatched"
          /\ query'[q].gen = query[q].gen /\ query'[q].cluster = query[q].cluster
          /\ ~query[q].orphaned
      BY <2>6
    <3>3. query[q].cluster \in Clusters /\ query[q].gen \in Nat /\ durable.gens \in [Clusters -> Nat]
      BY <1>2, <3>1, <3>2 DEF PolicyInv, TypeOK, QueryRecords, Snapshots
    <3>4. /\ query[q].gen <= durable.gens[query[q].cluster]
          /\ query[q].touched => query[q].gen < durable.gens[query[q].cluster]
      BY <3>1, <3>2 DEF PolicyInv, Dispatched, Waiting
    <3>5. CASE query[q].cluster = c
      <4>1. next.gens[c] = durable.gens[c] + 1 /\ durable.gens[c] \in Nat
        BY <2>3, <3>1, <3>3
      <4>2. query[q].gen <= durable.gens[c]
        BY <3>4, <3>5
      <4>3. query[q].gen < next.gens[c]
        BY <4>1, <4>2, <3>3
      <4> QED
        BY <4>1, <4>3, <3>2, <3>3, <3>5
    <3>6. CASE query[q].cluster # c
      BY <2>3, <2>6, <3>1, <3>2, <3>3, <3>4, <3>6
    <3> QED
      BY <3>5, <3>6
  <2> QED
    BY <2>7, <2>9, <2>10, <2>11 DEF PolicyInv
<1> QED
  BY <1>3, <1>4

LEMMA ApplyKeeps ==
    ASSUME PolicyInv, NEW w \in Windows, NEW s \in pending[w], Apply(w, s) PROVE PolicyInv'
<1>1. s \in Snapshots /\ snapshot[w] \in Snapshots /\ told[w] \in [Clusters -> Nat]
  BY DEF PolicyInv, TypeOK
<1>2. s.gens \in [Clusters -> Nat] /\ s.keys \in SUBSET Clusters
  BY <1>1 DEF Snapshots
<1>3. pending' \in [Windows -> SUBSET Snapshots]
  BY DEF PolicyInv, TypeOK, Apply
<1>4. snapshot' \in [Windows -> Snapshots]
  BY <1>1 DEF PolicyInv, TypeOK, Apply
<1>5. told' \in [Windows -> [Clusters -> Nat]]
  <2>1. CASE Skips(s, snapshot[w])
    BY <2>1 DEF Apply, PolicyInv, TypeOK
  <2>2. CASE ~Skips(s, snapshot[w])
    <3> DEFINE heard == [c \in Clusters |->
                           IF c \in {d \in Clusters : s.gens[d] > snapshot[w].gens[d]}
                           THEN s.gens[c] ELSE told[w][c]]
    <3>1. heard \in [Clusters -> Nat]
      BY <1>1, <1>2
    <3>2. told' = [told EXCEPT ![w] = heard]
      BY <2>2 DEF Apply, PolicyInv, TypeOK
    <3> HIDE DEF heard
    <3> QED
      BY <3>1, <3>2 DEF PolicyInv, TypeOK
  <2> QED
    BY <2>1, <2>2
<1>6. mirror' \subseteq Clusters
  BY <1>2 DEF PolicyInv, TypeOK, Apply
<1>7. TypeOK'
  BY <1>3, <1>4, <1>5, <1>6 DEF PolicyInv, TypeOK, Apply, fileVars, bounded
<1> QED
  BY <1>7 DEF PolicyInv, Apply, fileVars, bounded, Marked, Dispatched, Waiting, Publishing,
              NoAdmissionAcrossChange, LossFailsClosed

-----------------------------------------------------------------------------
(* The steps of queries, and a loss. *)

LEMMA DispatchKeeps ==
    ASSUME PolicyInv, NEW w \in Windows, NEW q \in Queries, NEW c \in Clusters, Dispatch(w, q, c)
    PROVE  PolicyInv'
<1> DEFINE current == Current(w, FALSE)
           new == [window |-> w, cluster |-> c, gen |-> current.gens[c], touched |-> FALSE,
                   orphaned |-> FALSE, stage |-> "dispatched"]
<1>1. lock = None /\ UNCHANGED <<lock, losses, unmarked>> /\ WriteRecovery(w, FALSE)
      /\ query' = [TouchedByRead EXCEPT ![q] = new]
      /\ UNCHANGED <<mirror, lock, windowVars, bounded>>
  BY DEF Dispatch, Free, bounded
<1>2. current \in Snapshots
  BY CurrentType DEF PolicyInv
<1>3. current.gens \in [Clusters -> Nat]
  BY <1>2 DEF Snapshots
<1>4. /\ new \in QueryRecords /\ new # None
      /\ new.gen = current.gens[c] /\ new.cluster = c /\ new.touched = FALSE
  <2> HIDE DEF current
  <2>1. current.gens[c] \in Nat
    BY <1>3
  <2>2. new \in QueryRecords
    BY <2>1 DEF QueryRecords
  <2> QED
    BY <2>2, NoneIsNoSnapshot
<1>5. /\ durable' = current /\ durable' # None /\ modified' \in [Windows -> BOOLEAN]
      /\ marker' \in BOOLEAN /\ (marker => marker')
  BY <1>1, ReadEffect
<1>6. query' \in [Queries -> QueryRecords \cup {None}]
      /\ query'[q] = new /\ \A r \in Queries \ {q} : query'[r] = TouchedByRead[r]
  <2> HIDE DEF new
  <2> QED
    BY <1>1, <1>4, ReadEffect
<1>7. TypeOK'
  <2> HIDE DEF new, current
  <2> QED
    BY <1>1, <1>2, <1>5, <1>6 DEF PolicyInv, TypeOK, windowVars, bounded
<1>8. \A r \in Queries \ {q} : query'[r] # None =>
         query[r] # None /\ query'[r].stage = "dispatched"
         /\ query'[r].gen = query[r].gen /\ query'[r].cluster = query[r].cluster
         /\ query[r].stage = "dispatched" /\ query'[r].orphaned = query[r].orphaned
  BY <1>1, <1>6, ReadEffect, NobodyPublishes
<1>9. \A r \in Queries : query'[r] # None => query'[r].stage = "dispatched"
  BY <1>6, <1>8
<1>10. Marked' /\ Publishing' /\ NoAdmissionAcrossChange'
  BY <1>1, <1>5, <1>9 DEF PolicyInv, Marked, Publishing, NoAdmissionAcrossChange
<1>11. LossFailsClosed'
  BY <1>1, ReadEffect DEF PolicyInv, Marked, LossFailsClosed
<1>12. Dispatched'
  <2> SUFFICES ASSUME NEW r \in Queries, query'[r] # None, ~query'[r].orphaned, ~durable'.blocked
               PROVE  /\ query'[r].gen <= durable'.gens[query'[r].cluster]
                      /\ query'[r].touched => query'[r].gen < durable'.gens[query'[r].cluster]
    BY DEF Dispatched, Waiting
  <2>1. durable # None /\ durable' = durable /\ TouchedByRead = query
    BY <1>1, ReadEffect
  <2>2. CASE r = q
    <3> HIDE DEF new, current
    <3>1. query'[r].gen = durable'.gens[c] /\ query'[r].cluster = c /\ query'[r].touched = FALSE
      BY <2>2, <1>4, <1>5, <1>6
    <3>2. durable'.gens[c] \in Nat
      BY <1>3, <1>5
    <3> QED
      BY <3>1, <3>2
  <2>3. CASE r # q
    BY <2>1, <2>3, <1>6, <1>8 DEF PolicyInv, Dispatched, Waiting
  <2> QED
    BY <2>2, <2>3
<1> QED
  BY <1>7, <1>10, <1>11, <1>12 DEF PolicyInv

LEMMA AdmitKeeps ==
    ASSUME PolicyInv, NEW w \in Windows, NEW q \in Queries, Admit(w, q) PROVE PolicyInv'
<1> DEFINE admitted == Admissible(w, q)
<1>1. lock = None /\ UNCHANGED <<losses, unmarked>> /\ WriteRecovery(w, FALSE)
      /\ query[q] # None /\ query[q].stage = "dispatched" /\ query[q].window = w
      /\ lock' = (IF admitted THEN w ELSE lock)
      /\ UNCHANGED <<mirror, windowVars, bounded>>
  BY DEF Admit, Free, bounded
<1>2. durable' = Current(w, FALSE) /\ durable' \in Snapshots /\ durable' # None
      /\ marker' \in BOOLEAN /\ (marker => marker')
      /\ modified' \in [Windows -> BOOLEAN]
      /\ TouchedByRead \in [Queries -> QueryRecords \cup {None}]
      /\ TouchedByRead[q] # None
  BY <1>1, ReadEffect
<1>3. /\ query' \in [Queries -> QueryRecords \cup {None}]
      /\ \A r \in Queries \ {q} : query'[r] = TouchedByRead[r]
      /\ admitted => query'[q] # None /\ query'[q].stage = "publishing"
                     /\ query'[q].window = w /\ query'[q].touched = TouchedByRead[q].touched
                     /\ query'[q].orphaned = query[q].orphaned
      /\ ~admitted => query'[q] = None
  <2>1. query' = [TouchedByRead EXCEPT ![q] =
                    IF admitted THEN [TouchedByRead[q] EXCEPT !.stage = "publishing"] ELSE None]
    BY <1>2 DEF Admit
  <2>2. TouchedByRead[q] \in QueryRecords /\ TouchedByRead[q].window = w
    BY <1>1, <1>2, ReadEffect
  <2>3. [TouchedByRead[q] EXCEPT !.stage = "publishing"] \in QueryRecords
        /\ [TouchedByRead[q] EXCEPT !.stage = "publishing"].stage = "publishing"
        /\ [TouchedByRead[q] EXCEPT !.stage = "publishing"].window = w
        /\ [TouchedByRead[q] EXCEPT !.stage = "publishing"].touched = TouchedByRead[q].touched
        /\ [TouchedByRead[q] EXCEPT !.stage = "publishing"].orphaned = query[q].orphaned
    BY <1>1, <2>2, ReadEffect DEF QueryRecords
  <2> HIDE DEF admitted
  <2> QED
    BY <1>2, <2>1, <2>3, NoneIsNoSnapshot
<1>4. TypeOK'
  <2>1. lock' \in Windows \cup {None}
    BY <1>1
  <2> QED
    BY <1>1, <1>2, <1>3, <2>1 DEF PolicyInv, TypeOK, windowVars, bounded
<1>5. \A r \in Queries \ {q} : query'[r] # None =>
         query[r] # None /\ query'[r].stage = "dispatched" /\ query[r].stage = "dispatched"
         /\ query'[r].gen = query[r].gen /\ query'[r].cluster = query[r].cluster
         /\ query'[r].orphaned = query[r].orphaned
  BY <1>1, <1>3, ReadEffect, NobodyPublishes
<1>6. Marked'
  BY <1>1, <1>2 DEF PolicyInv, Marked
<1>7. Publishing'
  BY <1>1, <1>3, <1>5 DEF Publishing
<1>8. admitted => ~TouchedByRead[q].touched \/ query[q].orphaned
  <2> SUFFICES ASSUME admitted, ~query[q].orphaned PROVE ~TouchedByRead[q].touched
    OBVIOUS
  <2>1. ~durable'.blocked /\ durable'.gens[query[q].cluster] = query[q].gen
    BY <1>2 DEF Admissible
  <2>2. durable # None /\ durable' = durable /\ TouchedByRead = query
    BY <1>1, <2>1, ReadEffect
  <2>3. query[q].cluster \in Clusters /\ query[q].gen \in Nat
    BY <1>1 DEF PolicyInv, TypeOK, QueryRecords
  <2> QED
    BY <1>1, <2>1, <2>2, <2>3 DEF PolicyInv, Dispatched, Waiting
<1>9. NoAdmissionAcrossChange'
  BY <1>3, <1>5, <1>8 DEF NoAdmissionAcrossChange
<1>10. LossFailsClosed'
  BY <1>1, ReadEffect DEF PolicyInv, Marked, LossFailsClosed
<1>11. Dispatched'
  <2> SUFFICES ASSUME NEW r \in Queries, query'[r] # None, query'[r].stage = "dispatched",
                      ~query'[r].orphaned, ~durable'.blocked
               PROVE  /\ query'[r].gen <= durable'.gens[query'[r].cluster]
                      /\ query'[r].touched => query'[r].gen < durable'.gens[query'[r].cluster]
    BY DEF Dispatched, Waiting
  <2>1. durable # None /\ durable' = durable /\ TouchedByRead = query
    BY <1>1, ReadEffect
  <2>2. r # q
    BY <1>3
  <2> QED
    BY <2>1, <2>2, <1>3, <1>5 DEF PolicyInv, Dispatched, Waiting
<1> QED
  BY <1>4, <1>6, <1>7, <1>9, <1>10, <1>11 DEF PolicyInv

(* A query that is dropped, by a lock that was not obtained or after its    *)
(* publication.                                                            *)
LEMMA DropKeeps ==
    ASSUME PolicyInv, NEW w \in Windows, NEW q \in Queries,
           AdmitTimesOut(w, q) \/ Published(w, q)
    PROVE  PolicyInv'
<1>1. query' = [query EXCEPT ![q] = None] /\ UNCHANGED <<fileVars, mirror, windowVars, modified>>
      /\ UNCHANGED <<losses, unmarked, starts>> /\ lock' \in {lock, None}
  BY DEF AdmitTimesOut, Published, bounded
<1>2. timeouts' \in 0 .. MaxTimeouts
  BY BoundsType DEF PolicyInv, TypeOK, AdmitTimesOut, Published, bounded
<1>3. query' \in [Queries -> QueryRecords \cup {None}]
      /\ \A r \in Queries : query'[r] # None => r # q /\ query'[r] = query[r]
  BY <1>1 DEF PolicyInv, TypeOK
<1>4. TypeOK'
  BY <1>1, <1>2, <1>3 DEF PolicyInv, TypeOK, fileVars, windowVars
<1>5. Publishing'
  <2>1. CASE lock' = lock
    BY <2>1, <1>3 DEF PolicyInv, Publishing
  <2>2. CASE lock' # lock
    <3>1. query[q] # None /\ query[q].stage = "publishing"
      BY <2>2 DEF AdmitTimesOut, Published
    <3> QED
      BY <3>1, <1>3 DEF PolicyInv, Publishing
  <2> QED
    BY <2>1, <2>2
<1> QED
  BY <1>1, <1>3, <1>4, <1>5 DEF PolicyInv, fileVars, Marked, Dispatched, Waiting,
                                NoAdmissionAcrossChange, LossFailsClosed

LEMMA LoseKeeps == ASSUME PolicyInv, Lose PROVE PolicyInv'
<1>1. /\ losses' \in 0 .. MaxLosses /\ unmarked' \in 0 .. losses'
      /\ modified' \in [Windows -> BOOLEAN] /\ losses' = losses + 1
      /\ durable' = None /\ UNCHANGED <<marker, mirror, lock, windowVars, starts, timeouts>>
      /\ marker => unmarked' = unmarked /\ query' = query
      /\ ~marker => unmarked' = unmarked + 1
  BY BoundsType DEF PolicyInv, TypeOK, Lose
<1>2. /\ query' \in [Queries -> QueryRecords \cup {None}]
      /\ \A q \in Queries :
            query'[q] # None =>
              /\ query[q] # None /\ (~marker => query'[q].orphaned)
              /\ query'[q].stage = query[q].stage /\ query'[q].window = query[q].window
              /\ query'[q].touched = query[q].touched
              /\ query[q].orphaned => query'[q].orphaned
  <2>1. CASE marker
    BY <1>1, <2>1 DEF PolicyInv, TypeOK
  <2>2. CASE ~marker
    <3>1. query' = [q \in Queries |-> IF query[q] # None
                                     THEN [query[q] EXCEPT !.orphaned = TRUE] ELSE None]
      BY <2>2 DEF Lose
    <3>2. ASSUME NEW q \in Queries, query[q] # None
          PROVE  LET lost == [query[q] EXCEPT !.orphaned = TRUE]
                 IN  /\ lost \in QueryRecords /\ lost.orphaned
                     /\ lost.stage = query[q].stage /\ lost.window = query[q].window
                     /\ lost.touched = query[q].touched
      BY <3>2 DEF PolicyInv, TypeOK, QueryRecords
    <3> QED
      BY <2>2, <3>1, <3>2
  <2> QED
    BY <2>1, <2>2
<1>3. TypeOK'
  BY <1>1, <1>2 DEF PolicyInv, TypeOK, windowVars
<1>4. Marked'
  <2>1. losses' > unmarked' => marker
    BY <1>1 DEF PolicyInv, TypeOK, Marked
  <2> QED
    BY <1>1, <1>2, <2>1 DEF Marked
<1>5. Publishing' /\ NoAdmissionAcrossChange'
  BY <1>1, <1>2 DEF PolicyInv, Publishing, NoAdmissionAcrossChange
<1> QED
  BY <1>1, <1>3, <1>4, <1>5 DEF PolicyInv, Dispatched, LossFailsClosed

-----------------------------------------------------------------------------
(* Every step of a window, of a query and of a loss keeps the invariant.    *)
THEOREM PolicyStep == PolicyInv /\ [Next]_vars => PolicyInv'
<1> SUFFICES ASSUME PolicyInv, [Next]_vars PROVE PolicyInv'
  OBVIOUS
<1>1. CASE \E w \in Windows : Window(w)
  <2> PICK w \in Windows : Window(w)
    BY <1>1
  <2>1. CASE Start(w)
    BY <2>1, StartKeeps
  <2>2. CASE Initialize(w)
    BY <2>2, InitializeKeeps
  <2>3. CASE Stop(w)
    BY <2>3, StopKeeps
  <2>4. CASE Refresh(w)
    BY <2>4, RefreshKeeps
  <2>5. CASE RefreshTimesOut(w)
    BY <2>5, RefreshTimesOutKeeps
  <2>6. CASE \E c \in Clusters, enabled \in BOOLEAN : SetCluster(w, c, enabled)
    BY <2>6, SetClusterKeeps
  <2>7. CASE \E s \in pending[w] : Apply(w, s)
    BY <2>7, ApplyKeeps
  <2> QED
    BY <2>1, <2>2, <2>3, <2>4, <2>5, <2>6, <2>7 DEF Window
<1>2. CASE \E q \in Queries : Query(q)
  <2> PICK q \in Queries : Query(q)
    BY <1>2
  <2>1. PICK w \in Windows : \/ \E c \in Clusters : Dispatch(w, q, c)
                             \/ Admit(w, q) \/ AdmitTimesOut(w, q) \/ Published(w, q)
    BY DEF Query
  <2> QED
    BY <2>1, DispatchKeeps, AdmitKeeps, DropKeeps
<1>3. CASE Lose
  BY <1>3, LoseKeeps
<1>4. CASE UNCHANGED vars
  BY <1>4 DEF PolicyInv, TypeOK, Marked, Dispatched, Waiting, Publishing, NoAdmissionAcrossChange,
              LossFailsClosed, vars, fileVars, windowVars, bounded
<1> QED
  BY <1>1, <1>2, <1>3, <1>4 DEF Next

(* In every behaviour types are right, the marker tells of every policy     *)
(* there was, generations do not go down and publication holds the lock.   *)
THEOREM PolicyHolds == Spec => []PolicyInv
  BY InitPolicy, PolicyStep, PTL DEF Spec

(* No result is published whose cluster was protected or unprotected, or   *)
(* whose policy was lost and recovered, since its dispatch, for any number *)
(* of windows, clusters and queries; unless the query was under way when a *)
(* policy was lost whose marker had not been written.                      *)
THEOREM AdmissionIsCurrent == Spec => []NoAdmissionAcrossChange
<1>1. PolicyInv => NoAdmissionAcrossChange
  BY DEF PolicyInv
<1> QED
  BY <1>1, PolicyHolds, PTL

(* Whichever window recovers a lost policy blocks every cluster for good,   *)
(* once a loss found the marker.                                           *)
THEOREM LossIsClosed == Spec => []LossFailsClosed
<1>1. PolicyInv => LossFailsClosed
  BY DEF PolicyInv
<1> QED
  BY <1>1, PolicyHolds, PTL

-----------------------------------------------------------------------------
(* Revocations: what a window knows of the committed policy.               *)

(* A window that has not read the policy has the snapshot of its start. *)
Unread ==
    \A w \in Windows : phase[w] # "ready" =>
        snapshot[w].version = 0 /\ ~snapshot[w].blocked /\ pending[w] = {}

(* A window that is ready has a policy, or the marker of one. *)
ReadyMeansMarked == \A w \in Windows : phase[w] = "ready" => durable # None \/ marker

(* While the committed policy is not blocked, no snapshot of a window that  *)
(* has read it is ahead of it or blocked, and generations grow with the    *)
(* version.                                                                *)
Known(w) == pending[w] \cup {snapshot[w], durable}

Ordered(r, s) == r.version <= s.version => \A c \in Clusters : r.gens[c] <= s.gens[c]

Behind(w) ==
    \A s \in Known(w) : /\ ~s.blocked /\ s.version <= durable.version
                        /\ \A r \in Known(w) : Ordered(r, s)

Open == durable # None /\ ~durable.blocked

AllBehind ==
    Open => durable.version > 0 /\ \A w \in Windows : phase[w] = "ready" => Behind(w)

ToldOfSnapshot ==
    Open => \A w \in Windows : phase[w] = "ready" =>
                \A c \in Clusters : told[w][c] = snapshot[w].gens[c]

(* What a window that read the last change was told, or is going to be. *)
Heard ==
    \A w \in Windows :
        phase[w] = "ready" /\ ~modified[w] /\ durable # None /\ timeouts = 0 =>
            IF durable.blocked
            THEN snapshot[w].blocked \/ \E s \in pending[w] : s.blocked
            ELSE (\A c \in Clusters : told[w][c] >= durable.gens[c]) \/ durable \in pending[w]

RevocationInv == Unread /\ ReadyMeansMarked /\ AllBehind /\ ToldOfSnapshot /\ Heard

(* A step that only writes down that a policy was lost. *)
LEMMA RecoveryKeeps ==
    ASSUME PolicyInv, RevocationInv, NEW w \in Windows, NEW allow \in BOOLEAN,
           durable = None, Write(Recovered(w, allow)), marker \/ allow = FALSE
    PROVE  /\ durable'.blocked
           /\ AllBehind' /\ ToldOfSnapshot' /\ (phase' = phase => ReadyMeansMarked' /\ Heard')
<1>1. durable' = Recovered(w, allow) /\ durable' # None
      /\ modified' = [v \in Windows |-> phase[v] # "off"]
  BY CurrentType, NoneIsNoSnapshot DEF Write, PolicyInv
<1>2. durable'.blocked
  BY <1>1 DEF Recovered, FromKeys
<1> QED
  BY <1>1, <1>2 DEF AllBehind, ToldOfSnapshot, Open, ReadyMeansMarked, Heard

LEMMA InitRevocation == Init => RevocationInv
<1> SUFFICES ASSUME Init PROVE RevocationInv
  OBVIOUS
<1>1. \A w \in Windows : snapshot[w].version = 0 /\ ~snapshot[w].blocked
  BY DEF Init, FromKeys
<1> QED
  BY <1>1 DEF Init, RevocationInv, Unread, ReadyMeansMarked, AllBehind, Open, ToldOfSnapshot, Heard

(* A step of one window that leaves the committed policy as it is. *)
LEMMA OthersKeep ==
    ASSUME RevocationInv, NEW w \in Windows, durable' = durable, marker' = marker,
           timeouts' = timeouts,
           \A v \in Windows \ {w} : /\ snapshot'[v] = snapshot[v] /\ phase'[v] = phase[v]
                                    /\ pending'[v] = pending[v] /\ told'[v] = told[v]
                                    /\ modified'[v] = modified[v],
           phase'[w] # "ready", snapshot'[w].version = 0, ~snapshot'[w].blocked, pending'[w] = {}
    PROVE  RevocationInv'
<1>1. Unread' /\ ReadyMeansMarked' /\ ToldOfSnapshot' /\ Heard'
  BY DEF RevocationInv, Unread, ReadyMeansMarked, ToldOfSnapshot, Open, Heard
<1>2. \A v \in Windows : phase'[v] = "ready" => phase[v] = "ready" /\ Known(v)' = Known(v)
  BY DEF Known
<1>3. AllBehind'
  BY <1>2 DEF RevocationInv, AllBehind, Open, Behind, Ordered
<1> QED
  BY <1>1, <1>3 DEF RevocationInv

LEMMA StartRevocation ==
    ASSUME PolicyInv, RevocationInv, NEW w \in Windows, Start(w) PROVE RevocationInv'
<1>1. /\ \A v \in Windows \ {w} : snapshot'[v] = snapshot[v] /\ phase'[v] = phase[v]
      /\ snapshot'[w] = FromKeys(0, mirror, FALSE) /\ phase'[w] = "starting" /\ phase[w] = "off"
      /\ UNCHANGED <<durable, marker, pending, told, modified, timeouts>>
  BY DEF Start, PolicyInv, TypeOK, fileVars
<1>2. snapshot'[w].version = 0 /\ ~snapshot'[w].blocked /\ pending[w] = {}
  BY <1>1 DEF FromKeys, RevocationInv, Unread
<1> QED
  BY <1>1, <1>2, OthersKeep

LEMMA StopRevocation ==
    ASSUME PolicyInv, RevocationInv, NEW w \in Windows, Stop(w) PROVE RevocationInv'
<1>1. /\ \A v \in Windows \ {w} :
            /\ snapshot'[v] = snapshot[v] /\ phase'[v] = phase[v] /\ pending'[v] = pending[v]
            /\ told'[v] = told[v] /\ modified'[v] = modified[v]
      /\ snapshot'[w] = FromKeys(0, {}, FALSE) /\ phase'[w] = "off" /\ pending'[w] = {}
      /\ UNCHANGED <<durable, marker, timeouts>>
  BY DEF Stop, PolicyInv, TypeOK, fileVars, bounded
<1>2. snapshot'[w].version = 0 /\ ~snapshot'[w].blocked
  BY <1>1 DEF FromKeys
<1> QED
  BY <1>1, <1>2, OthersKeep

LEMMA InitializeRevocation ==
    ASSUME PolicyInv, RevocationInv, NEW w \in Windows, Initialize(w) PROVE RevocationInv'
<1> DEFINE s == Current(w, mayMigrate[w])
           applied == IF Skips(s, snapshot[w]) THEN snapshot[w] ELSE s
<1>1. mayMigrate[w] \in BOOLEAN /\ WriteRecovery(w, mayMigrate[w])
      /\ phase[w] = "starting" /\ s \in Snapshots /\ snapshot[w] \in Snapshots
  BY CurrentType DEF PolicyInv, TypeOK, Initialize
<1>2. /\ \A v \in Windows \ {w} :
            snapshot'[v] = snapshot[v] /\ phase'[v] = phase[v] /\ told'[v] = told[v]
      /\ snapshot'[w] = applied /\ phase'[w] = "ready" /\ told'[w] = applied.gens
      /\ UNCHANGED <<pending, timeouts>>
  <2> HIDE DEF applied
  <2>1. /\ phase' = [phase EXCEPT ![w] = "ready"] /\ snapshot' = [snapshot EXCEPT ![w] = applied]
        /\ told' = [told EXCEPT ![w] = applied.gens] /\ UNCHANGED <<pending, timeouts>>
    BY DEF Initialize, bounded, applied
  <2> QED
    BY <2>1 DEF PolicyInv, TypeOK
<1>3. durable' = s /\ durable' \in Snapshots /\ durable' # None
  BY <1>1, ReadEffect
<1>4. snapshot[w].version = 0 /\ ~snapshot[w].blocked /\ pending[w] = {}
  BY <1>1 DEF RevocationInv, Unread
<1>5. s.version > 0 \/ s.blocked => applied = s
  BY <1>1, <1>4 DEF Skips, Snapshots
<1>6. Unread' /\ ReadyMeansMarked'
  BY <1>2, <1>3 DEF RevocationInv, Unread, ReadyMeansMarked
<1>7. \A c \in Clusters : durable'.gens[c] \in Nat
  BY <1>3 DEF Snapshots
<1>8. durable'.version \in Nat
  BY <1>3 DEF Snapshots
<1>9. ASSUME ~durable'.blocked, durable'.version > 0 PROVE Behind(w)' /\ applied = durable'
  <2>1. applied = durable'
    BY <1>3, <1>5, <1>9
  <2>2. Known(w)' = {durable'}
    BY <1>2, <1>4, <2>1 DEF Known
  <2> QED
    BY <1>7, <1>8, <1>9, <2>1, <2>2 DEF Behind, Ordered
<1>10. CASE durable # None
  <2>1. s = durable /\ UNCHANGED <<durable, marker, modified>>
    BY <1>1, <1>10 DEF Current, WriteRecovery, fileVars
  <2>2. CASE durable.blocked
    <3>1. applied = durable
      BY <1>5, <2>1, <2>2
    <3>2. Heard'
      BY <1>2, <1>10, <2>1, <2>2, <3>1 DEF RevocationInv, Heard
    <3> QED
      BY <1>6, <2>1, <2>2, <3>2 DEF RevocationInv, AllBehind, ToldOfSnapshot, Open
  <2>3. CASE ~durable.blocked
    <3>1. durable.version > 0 /\ \A v \in Windows : phase[v] = "ready" => Behind(v)
      BY <1>10, <2>3 DEF RevocationInv, AllBehind, Open
    <3>2. applied = durable /\ Behind(w)'
      BY <1>9, <2>1, <2>3, <3>1
    <3> HIDE DEF s, applied
    <3>3. \A v \in Windows \ {w} : Known(v)' = Known(v)
      BY <1>2, <2>1 DEF Known
    <3>4. AllBehind'
      BY <1>2, <2>1, <3>1, <3>2, <3>3 DEF AllBehind, Behind, Ordered
    <3>5. ToldOfSnapshot'
      BY <1>2, <1>10, <2>1, <2>3 DEF RevocationInv, ToldOfSnapshot, Open
    <3>6. Heard'
      <4>1. \A c \in Clusters : told'[w][c] >= durable.gens[c]
        BY <1>2, <1>7, <2>1, <3>2
      <4> QED
        BY <1>2, <1>10, <2>1, <2>3, <4>1 DEF RevocationInv, Heard
    <3> QED
      BY <1>6, <3>4, <3>5, <3>6 DEF RevocationInv
  <2> QED
    BY <2>2, <2>3
<1>11. CASE durable = None /\ marker
  <2>1. Write(Recovered(w, mayMigrate[w]))
    BY <1>1, <1>11 DEF WriteRecovery
  <2>2. durable'.blocked /\ modified' = [v \in Windows |-> phase[v] # "off"]
    BY <1>1, <1>11, <2>1, RecoveryKeeps DEF Write
  <2> QED
    BY <1>1, <1>2, <1>6, <2>2 DEF RevocationInv, AllBehind, ToldOfSnapshot, Open, Heard
<1>12. CASE durable = None /\ ~marker
  <2>1. Write(Recovered(w, mayMigrate[w])) /\ s = Recovered(w, mayMigrate[w])
    BY <1>1, <1>12 DEF WriteRecovery, Current
  <2>2. modified' = [v \in Windows |-> phase[v] # "off"]
    BY <2>1 DEF Write
  <2>3. \A v \in Windows : phase[v] # "ready"
    BY <1>12 DEF RevocationInv, ReadyMeansMarked
  <2>4. durable'.version = 1
    BY <1>3, <1>4, <2>1 DEF Recovered, FromKeys
  <2>5. AllBehind' /\ ToldOfSnapshot'
    BY <1>2, <1>9, <2>3, <2>4 DEF AllBehind, ToldOfSnapshot, Open
  <2>6. Heard'
    BY <1>1, <1>2, <2>2, <2>3 DEF Heard
  <2> QED
    BY <1>6, <2>5, <2>6 DEF RevocationInv
<1> QED
  BY <1>10, <1>11, <1>12 DEF PolicyInv, TypeOK

(* A window reads the policy as it is, which may be new to it. *)
LEMMA ReadingKeeps ==
    ASSUME PolicyInv, RevocationInv, NEW w \in Windows, durable # None, phase[w] = "ready",
           UNCHANGED <<durable, marker, phase, snapshot, told, timeouts>>,
           pending'[w] \in {pending[w], pending[w] \cup {durable}},
           \A v \in Windows \ {w} : pending'[v] = pending[v] /\ modified'[v] = modified[v],
           modified'[w] = modified[w] \/ durable \in pending'[w]
    PROVE  RevocationInv'
<1>1. Unread' /\ ReadyMeansMarked' /\ ToldOfSnapshot'
  BY DEF RevocationInv, Unread, ReadyMeansMarked, ToldOfSnapshot, Open
<1>2. \A v \in Windows : Known(v)' = Known(v)
  BY DEF Known
<1>3. AllBehind'
  BY <1>2 DEF RevocationInv, AllBehind, Open, Behind, Ordered
<1>4. Heard'
  BY DEF RevocationInv, Heard
<1> QED
  BY <1>1, <1>3, <1>4 DEF RevocationInv

(* Steps that at most write down a loss, and read the policy or not. *)
LEMMA ReadRevocation ==
    ASSUME PolicyInv, RevocationInv, NEW w \in Windows, phase[w] = "ready", WriteRecovery(w, FALSE),
           UNCHANGED windowVars, timeouts' = timeouts
    PROVE  RevocationInv'
<1>1. Unread'
  BY DEF RevocationInv, Unread, windowVars
<1>2. CASE durable = None
  BY <1>1, <1>2, RecoveryKeeps DEF WriteRecovery, RevocationInv, windowVars
<1>3. CASE durable # None
  BY <1>3, ReadingKeeps DEF WriteRecovery, windowVars, fileVars
<1> QED
  BY <1>2, <1>3

LEMMA RefreshRevocation ==
    ASSUME PolicyInv, RevocationInv, NEW w \in Windows, Refresh(w) PROVE RevocationInv'
<1> DEFINE s == Current(w, FALSE)
<1>1. /\ phase[w] = "ready" /\ UNCHANGED <<phase, snapshot, told, timeouts>>
      /\ pending'[w] = pending[w] \cup {s}
      /\ \A v \in Windows \ {w} : pending'[v] = pending[v]
  BY DEF Refresh, Free, bounded, PolicyInv, TypeOK
<1>2. Unread'
  BY <1>1 DEF RevocationInv, Unread
<1>3. CASE durable = None
  BY <1>1, <1>2, <1>3, RecoveryKeeps DEF Refresh, WriteRecovery, RevocationInv
<1>4. CASE durable # None
  <2>1. s = durable /\ UNCHANGED <<durable, marker>>
        /\ \A v \in Windows \ {w} : modified'[v] = modified[v]
    BY <1>4 DEF Refresh, Current, fileVars, PolicyInv, TypeOK
  <2> QED
    BY <1>1, <1>4, <2>1, ReadingKeeps
<1> QED
  BY <1>3, <1>4

(* Steps that leave everything a window knows. *)
LEMMA IdleRevocation ==
    ASSUME RevocationInv, UNCHANGED <<fileVars, windowVars>>,
           timeouts' # 0 \/ (timeouts' = timeouts /\ modified' = modified)
    PROVE  RevocationInv'
<1>1. \A v \in Windows : Known(v)' = Known(v)
  BY DEF Known, fileVars, windowVars
<1> QED
  BY <1>1 DEF RevocationInv, Unread, ReadyMeansMarked, AllBehind, Open, Behind, Ordered,
              ToldOfSnapshot, Heard, fileVars, windowVars

LEMMA RefreshTimesOutRevocation ==
    ASSUME PolicyInv, RevocationInv, NEW w \in Windows, RefreshTimesOut(w) PROVE RevocationInv'
<1>1. timeouts' # 0 /\ UNCHANGED <<fileVars, windowVars>>
  BY DEF RefreshTimesOut, PolicyInv, TypeOK
<1> QED
  BY <1>1, IdleRevocation

LEMMA SetClusterRevocation ==
    ASSUME PolicyInv, RevocationInv, NEW w \in Windows, NEW c \in Clusters, NEW enabled \in BOOLEAN,
           SetCluster(w, c, enabled)
    PROVE  RevocationInv'
<1> DEFINE current == Current(w, FALSE)
           keys == IF enabled THEN current.keys \cup {c} ELSE current.keys \ {c}
           next == NextSnapshot(current, c, keys)
           same == (c \in current.keys) = enabled
<1>1. current \in Snapshots
  BY CurrentType DEF PolicyInv
<1>2. phase[w] = "ready" /\ UNCHANGED <<phase, snapshot, told, timeouts>>
  BY DEF SetCluster, Free, bounded
<1>3. CASE same
  <2>1. /\ WriteRecovery(w, FALSE) /\ pending'[w] = pending[w] \cup {current}
        /\ \A v \in Windows \ {w} : pending'[v] = pending[v]
    BY <1>3 DEF SetCluster, PolicyInv, TypeOK
  <2>2. Unread'
    BY <1>2, <2>1 DEF RevocationInv, Unread
  <2>3. CASE durable = None
    BY <1>2, <2>1, <2>2, <2>3, RecoveryKeeps DEF WriteRecovery, RevocationInv
  <2>4. CASE durable # None
    <3>1. current = durable /\ UNCHANGED <<durable, marker, modified>>
      BY <2>1, <2>4 DEF WriteRecovery, Current, fileVars
    <3> QED
      BY <1>2, <2>1, <2>4, <3>1, ReadingKeeps
  <2> QED
    BY <2>3, <2>4
<1>4. CASE ~same
  <2>1. /\ Write(next) /\ pending'[w] = pending[w] \cup {next}
        /\ \A v \in Windows \ {w} : pending'[v] = pending[v]
    BY <1>4 DEF SetCluster, PolicyInv, TypeOK
  <2>2. /\ next.blocked = current.blocked /\ next.version = current.version + 1
        /\ next \in Snapshots /\ \A d \in Clusters : next.gens[d] >= current.gens[d]
    <3>1. keys \in SUBSET Clusters /\ keys \subseteq current.keys \cup {c}
      BY <1>1 DEF Snapshots
    <3>2. \A d \in Clusters : current.gens[d] \in Nat
      BY <1>1 DEF Snapshots
    <3> HIDE DEF keys, current
    <3>3. /\ next.blocked = current.blocked /\ next \in Snapshots
          /\ \A d \in Clusters : next.gens[d] = (IF d = c THEN current.gens[d] + 1
                                                          ELSE current.gens[d])
      BY <1>1, <3>1, NextSnapshotType
    <3>4. next.version = current.version + 1
      BY <1>1 DEF NextSnapshot, Snapshots
    <3> HIDE DEF next
    <3> QED
      BY <3>2, <3>3, <3>4
  <2> HIDE DEF next
  <2>3. durable' = next /\ durable' # None /\ modified' = [v \in Windows |-> phase[v] # "off"]
    BY <2>1, <2>2, NoneIsNoSnapshot DEF Write
  <2>4. Unread' /\ ReadyMeansMarked' /\ Heard'
    BY <1>2, <2>1, <2>3 DEF RevocationInv, Unread, ReadyMeansMarked, Heard
  <2>5. AllBehind' /\ ToldOfSnapshot'
    <3> SUFFICES ASSUME ~next.blocked PROVE AllBehind' /\ ToldOfSnapshot'
      BY <2>3 DEF AllBehind, ToldOfSnapshot, Open
    <3>1. current = durable /\ Open
      BY <2>2 DEF Current, Recovered, FromKeys, Open
    <3>2. durable.version \in Nat /\ next.version = durable.version + 1
      BY <1>1, <2>2, <3>1 DEF Snapshots
    <3>3. durable.version > 0 /\ \A v \in Windows : phase[v] = "ready" => Behind(v)
      BY <3>1 DEF RevocationInv, AllBehind
    <3>4. ToldOfSnapshot'
      BY <1>2, <3>1 DEF RevocationInv, ToldOfSnapshot
    <3>5. \A d \in Clusters : durable.gens[d] \in Nat /\ next.gens[d] \in Nat
      BY <1>1, <2>2, <3>1 DEF Snapshots
    <3> HIDE DEF current, keys
    <3>6. ASSUME NEW v \in Windows, phase[v] = "ready" PROVE Behind(v)'
      <4>1. \A s \in Known(v) : /\ ~s.blocked /\ s.version <= durable.version /\ Ordered(s, durable)
                                /\ \A r \in Known(v) : Ordered(r, s)
        BY <3>3, <3>6 DEF Behind, Known
      <4>2. \A s \in Known(v) : s.version \in Nat /\ \A d \in Clusters : s.gens[d] \in Nat
        BY <1>1, <3>1 DEF Known, PolicyInv, TypeOK, Snapshots
      <4>3. Known(v)' \subseteq Known(v) \cup {next}
        BY <1>2, <2>1, <2>3 DEF Known
      <4>4. \A s \in Known(v) : Ordered(s, next) /\ ~(next.version <= s.version)
                                /\ s.version <= next.version
        <5> TAKE s \in Known(v)
        <5>1. s.version <= durable.version /\ \A d \in Clusters : s.gens[d] <= durable.gens[d]
          BY <4>1 DEF Ordered
        <5>2. \A d \in Clusters : s.gens[d] <= next.gens[d]
          <6> TAKE d \in Clusters
          <6> QED
            BY <2>2, <3>1, <3>5, <4>2, <5>1
        <5> QED
          BY <3>2, <4>2, <5>1, <5>2 DEF Ordered
      <4>5. Ordered(next, next) /\ next.version <= next.version
        BY <3>2, <3>5 DEF Ordered
      <4>6. \A s \in Known(v)' : /\ ~s.blocked /\ s.version <= next.version
                                 /\ \A r \in Known(v)' : Ordered(r, s)
        BY <4>1, <4>3, <4>4, <4>5 DEF Ordered
      <4> QED
        BY <2>3, <4>6 DEF Behind, Ordered
    <3>7. durable'.version > 0
      BY <2>3, <3>2
    <3> QED
      BY <1>2, <3>4, <3>6, <3>7 DEF AllBehind
  <2> QED
    BY <2>4, <2>5 DEF RevocationInv
<1> QED
  BY <1>3, <1>4

LEMMA ApplyRevocation ==
    ASSUME PolicyInv, RevocationInv, NEW w \in Windows, NEW s \in pending[w], Apply(w, s)
    PROVE  RevocationInv'
<1> DEFINE skips == Skips(s, snapshot[w])
<1>1. /\ pending'[w] = pending[w] \ {s} /\ \A v \in Windows \ {w} : pending'[v] = pending[v]
      /\ snapshot'[w] = (IF skips THEN snapshot[w] ELSE s)
      /\ \A v \in Windows \ {w} : snapshot'[v] = snapshot[v] /\ told'[v] = told[v]
      /\ \A c \in Clusters :
            told'[w][c] = IF ~skips /\ s.gens[c] > snapshot[w].gens[c] THEN s.gens[c] ELSE told[w][c]
      /\ UNCHANGED <<durable, marker, phase, modified, timeouts>>
  BY DEF Apply, PolicyInv, TypeOK, fileVars, bounded
<1>2. s \in Snapshots /\ snapshot[w] \in Snapshots
  BY DEF PolicyInv, TypeOK
<1>3. phase[w] = "ready"
  BY DEF RevocationInv, Unread
<1>4. Unread' /\ ReadyMeansMarked'
  BY <1>1, <1>3 DEF RevocationInv, Unread, ReadyMeansMarked
<1>5. AllBehind'
  <2>1. Known(w)' \subseteq Known(w) /\ \A v \in Windows \ {w} : Known(v)' = Known(v)
    BY <1>1 DEF Known
  <2> QED
    BY <1>1, <2>1 DEF RevocationInv, AllBehind, Open, Behind, Ordered
<1>6. ASSUME Open
      PROVE  /\ ~skips => \A c \in Clusters : /\ told'[w][c] = s.gens[c]
                                               /\ told'[w][c] >= told[w][c]
             /\ skips => \A c \in Clusters : told'[w][c] = told[w][c]
             /\ \A c \in Clusters : told[w][c] = snapshot[w].gens[c]
  <2>1. \A c \in Clusters : told[w][c] = snapshot[w].gens[c]
    BY <1>3, <1>6 DEF RevocationInv, ToldOfSnapshot
  <2>2. \A c \in Clusters : s.gens[c] \in Nat /\ snapshot[w].gens[c] \in Nat
    BY <1>2 DEF Snapshots
  <2>3. ASSUME ~skips PROVE \A c \in Clusters : snapshot[w].gens[c] <= s.gens[c]
    <3>1. Ordered(snapshot[w], s) /\ ~s.blocked
      BY <1>3, <1>6 DEF RevocationInv, AllBehind, Behind, Known
    <3>2. snapshot[w].version <= s.version
      BY <1>2, <2>3, <3>1 DEF Skips, Snapshots
    <3> QED
      BY <3>1, <3>2 DEF Ordered
  <2>4. ASSUME ~skips, NEW c \in Clusters
        PROVE  told'[w][c] = s.gens[c] /\ told'[w][c] >= told[w][c]
    <3>1. told'[w][c] = IF s.gens[c] > snapshot[w].gens[c] THEN s.gens[c] ELSE told[w][c]
      BY <1>1, <2>4
    <3>2. snapshot[w].gens[c] <= s.gens[c] /\ told[w][c] = snapshot[w].gens[c]
          /\ s.gens[c] \in Nat /\ snapshot[w].gens[c] \in Nat
      BY <2>1, <2>2, <2>3, <2>4
    <3>3. CASE s.gens[c] > snapshot[w].gens[c]
      <4>1. told'[w][c] = s.gens[c]
        BY <3>1, <3>3
      <4> QED
        BY <3>2, <4>1
    <3>4. CASE s.gens[c] = snapshot[w].gens[c]
      <4>1. told'[w][c] = told[w][c]
        BY <3>1, <3>2, <3>4
      <4> QED
        BY <3>2, <3>4, <4>1
    <3> QED
      BY <3>2, <3>3, <3>4
  <2> QED
    BY <1>1, <2>1, <2>4
<1>7. ToldOfSnapshot'
  BY <1>1, <1>6 DEF RevocationInv, ToldOfSnapshot, Open
<1>8. Heard'
  <2> SUFFICES ASSUME phase[w] = "ready", ~modified[w], durable # None, timeouts = 0
               PROVE  IF durable.blocked
                      THEN snapshot'[w].blocked \/ \E p \in pending'[w] : p.blocked
                      ELSE (\A c \in Clusters : told'[w][c] >= durable.gens[c])
                           \/ durable \in pending'[w]
    BY <1>1 DEF RevocationInv, Heard
  <2>1. IF durable.blocked
        THEN snapshot[w].blocked \/ \E p \in pending[w] : p.blocked
        ELSE (\A c \in Clusters : told[w][c] >= durable.gens[c]) \/ durable \in pending[w]
    BY DEF RevocationInv, Heard
  <2>2. CASE durable.blocked
    <3>1. CASE snapshot[w].blocked
      BY <1>1, <1>2, <2>2, <3>1 DEF Skips
    <3>2. CASE s.blocked
      <4>1. skips => snapshot[w].blocked
        BY <1>2, <3>2 DEF Skips, Snapshots
      <4> QED
        BY <1>1, <2>2, <3>2, <4>1
    <3>3. CASE ~s.blocked /\ ~snapshot[w].blocked
      BY <1>1, <2>1, <2>2, <3>3
    <3> QED
      BY <3>1, <3>2, <3>3
  <2>3. CASE ~durable.blocked /\ s = durable
    <3>1. Open
      BY <2>3 DEF Open
    <3>2. \A c \in Clusters : durable.gens[c] \in Nat
      BY <1>2, <2>3 DEF Snapshots
    <3>3. ASSUME skips PROVE \A c \in Clusters : durable.gens[c] <= snapshot[w].gens[c]
      <4>1. Ordered(durable, snapshot[w]) /\ ~snapshot[w].blocked
            /\ snapshot[w].version <= durable.version
        BY <3>1 DEF RevocationInv, AllBehind, Behind, Known
      <4>2. durable.version <= snapshot[w].version
        BY <1>2, <2>3, <3>3, <4>1 DEF Skips, Snapshots
      <4> QED
        BY <4>1, <4>2 DEF Ordered
    <3>4. \A c \in Clusters : snapshot[w].gens[c] \in Nat
      BY <1>2 DEF Snapshots
    <3>5. CASE skips
      BY <1>6, <2>3, <3>1, <3>2, <3>3, <3>4, <3>5
    <3>6. CASE ~skips
      BY <1>6, <2>3, <3>1, <3>2, <3>6
    <3> QED
      BY <3>5, <3>6
  <2>4. CASE ~durable.blocked /\ s # durable
    <3>1. CASE durable \in pending[w]
      BY <1>1, <2>4, <3>1
    <3>2. CASE durable \notin pending[w]
      <4>1. \A c \in Clusters : durable.gens[c] \in Nat /\ told'[w][c] \in Nat /\ told[w][c] \in Nat
        BY <1>1, <1>2 DEF PolicyInv, TypeOK, Snapshots
      <4>2. \A c \in Clusters : told'[w][c] >= told[w][c]
        BY <1>6, <2>4, <4>1 DEF Open
      <4>3. \A c \in Clusters : told[w][c] >= durable.gens[c]
        BY <2>1, <2>4, <3>2
      <4> QED
        BY <2>4, <4>1, <4>2, <4>3
    <3> QED
      BY <3>1, <3>2
  <2> QED
    BY <2>2, <2>3, <2>4
<1> QED
  BY <1>4, <1>5, <1>7, <1>8 DEF RevocationInv

(* Queries read the policy, and a loss only makes every window modified. *)
LEMMA OtherRevocation ==
    ASSUME PolicyInv, RevocationInv, unmarked' = unmarked, Lose \/ \E q \in Queries : Query(q)
    PROVE  RevocationInv'
<1>1. ASSUME Lose PROVE RevocationInv'
  <2>1. durable' = None /\ marker /\ UNCHANGED <<marker, windowVars>>
    BY <1>1 DEF Lose, PolicyInv, TypeOK
  <2> QED
    BY <2>1 DEF RevocationInv, Unread, ReadyMeansMarked, AllBehind, ToldOfSnapshot, Open, Heard,
                windowVars
<1>2. ASSUME NEW q \in Queries, NEW w \in Windows,
             (\E c \in Clusters : Dispatch(w, q, c)) \/ Admit(w, q)
      PROVE  RevocationInv'
  BY <1>2, ReadRevocation DEF Dispatch, Admit, Free, bounded
<1>3. ASSUME NEW q \in Queries, NEW w \in Windows, AdmitTimesOut(w, q) \/ Published(w, q)
      PROVE  RevocationInv'
  <2>1. UNCHANGED <<fileVars, windowVars, modified>> /\ (timeouts' = timeouts \/ timeouts' # 0)
    BY <1>3 DEF AdmitTimesOut, Published, bounded, PolicyInv, TypeOK
  <2> QED
    BY <2>1, IdleRevocation
<1> QED
  BY <1>1, <1>2, <1>3 DEF Query

(* Every step keeps what is known of revocations that are not heard yet, as *)
(* long as no policy is lost without a marker.                             *)
RevocationsKnown == unmarked = 0 => RevocationInv

THEOREM RevocationStep == PolicyInv /\ RevocationsKnown /\ [Next]_vars => RevocationsKnown'
<1> SUFFICES ASSUME PolicyInv, RevocationsKnown, [Next]_vars, unmarked' = 0 PROVE RevocationInv'
  BY DEF RevocationsKnown
<1>1. unmarked' \in {unmarked, unmarked + 1} /\ unmarked \in Nat
  <2>1. ASSUME NEW w \in Windows, Window(w) PROVE unmarked' = unmarked
    BY <2>1 DEF Window, Start, Initialize, Stop, Refresh, RefreshTimesOut, SetCluster, Apply, bounded
  <2>2. ASSUME NEW q \in Queries, Query(q) PROVE unmarked' = unmarked
    BY <2>2 DEF Query, Dispatch, Admit, AdmitTimesOut, Published, bounded
  <2>3. Lose => unmarked' \in {unmarked, unmarked + 1}
    BY DEF Lose
  <2>4. UNCHANGED vars => unmarked' = unmarked
    BY DEF vars, bounded
  <2> QED
    BY <2>1, <2>2, <2>3, <2>4 DEF Next, PolicyInv, TypeOK
<1>2. unmarked = 0 /\ unmarked' = unmarked /\ RevocationInv
  BY <1>1 DEF RevocationsKnown
<1>3. ASSUME NEW w \in Windows, Window(w) PROVE RevocationInv'
  BY <1>2, <1>3, StartRevocation, InitializeRevocation, StopRevocation, RefreshRevocation,
     RefreshTimesOutRevocation, SetClusterRevocation, ApplyRevocation DEF Window
<1>4. CASE UNCHANGED vars
  BY <1>2, <1>4, IdleRevocation DEF vars, bounded
<1> QED
  BY <1>2, <1>3, <1>4, OtherRevocation DEF Next

(* A window that read the last change and applied what it read has told its *)
(* editors of every revocation, unless a wait for the lock timed out or a   *)
(* policy was lost without a marker.                                       *)
THEOREM RevocationIsHeard == Spec => []NoSilentRevocation
<1>1. PolicyInv /\ RevocationsKnown => NoSilentRevocation
  BY DEF RevocationsKnown, RevocationInv, Heard, NoSilentRevocation
<1>2. Init => RevocationsKnown
  BY InitRevocation DEF RevocationsKnown
<1> QED
  BY <1>1, <1>2, RevocationStep, PolicyHolds, PTL DEF Spec

=============================================================================
