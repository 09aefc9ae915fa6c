------------------------ MODULE KustoExecutionProofs ------------------------
(***************************************************************************)
(* Theorems about KustoExecution, for every set of sections, executions    *)
(* and connections and every bound: type correctness, the exactly-once     *)
(* answer of every reservation, the refinement of SectionSlot, and what is *)
(* reached by a cancellation, told to a caller and published, under which  *)
(* policy and for which target.                                            *)
(***************************************************************************)
EXTENDS KustoExecution, TLAPS

USE DEF Kinds, NextSequence

(* An execution whose handler is past its reservation has one. *)
Reserved == Stages \ {"idle", "rejecting", "done"}

StageInv == \A e \in Execs : stage[e] \in Reserved => reservation[e] # None

TypeInv == TypeOK /\ StageInv

-----------------------------------------------------------------------------
(* The operators the actions are built from, typed once. *)

LEMMA QueueType ==
    ASSUME TypeOK, NEW S \in SUBSET Execs, NEW k \in Kinds, Queue(S, k)
    PROVE  outbox' \subseteq Terminals /\ queued' \in [Execs -> Nat]
  BY DEF TypeOK, Queue, Terminal, Terminals

LEMMA DropType ==
    ASSUME TypeOK, NEW S \in SUBSET Execs, Drop(S)
    PROVE  /\ active' \in [Boxes -> Execs \cup {None}]
           /\ runs' \in [Boxes -> Runs \cup {None}]
           /\ outbox' \subseteq Terminals
           /\ queued' \in [Execs -> Nat]
<1>1. Queue(S, "cancelled")
  BY DEF Drop
<1>2. outbox' \subseteq Terminals /\ queued' \in [Execs -> Nat]
  BY <1>1, QueueType
<1>3. active' \in [Boxes -> Execs \cup {None}]
  BY DEF TypeOK, Drop
<1>4. runs' \in [Boxes -> Runs \cup {None}]
  BY DEF TypeOK, Drop
<1> QED
  BY <1>2, <1>3, <1>4

LEMMA CancelledType ==
    ASSUME TypeOK, NEW S
    PROVE  Cancelled(S) \in [Execs -> {"none", "open", "resolved", "failed", "cancelled"}]
  BY DEF TypeOK, Cancelled

LEMMA RetireType ==
    ASSUME TypeOK, NEW S \in SUBSET Execs, Retire(S)
    PROVE  /\ active' \in [Boxes -> Execs \cup {None}]
           /\ runs' \in [Boxes -> Runs \cup {None}]
           /\ outbox' \subseteq Terminals
           /\ queued' \in [Execs -> Nat]
           /\ transport' \in [Execs -> {"none", "open", "resolved", "failed", "cancelled"}]
  BY DropType, CancelledType DEF Retire

LEMMA ActiveType ==
    ASSUME TypeOK
    PROVE  /\ ActiveExecs \subseteq Execs
           /\ \A b \in Boxes : {active[b]} \ {None} \subseteq Execs
           /\ \A e \in Execs : IfCurrent(e) \subseteq Execs
  BY DEF TypeOK, ActiveExecs, IfCurrent

LEMMA FailType ==
    ASSUME TypeOK, NEW e \in Execs, Fail(e)
    PROVE  /\ active' \in [Boxes -> Execs \cup {None}]
           /\ runs' \in [Boxes -> Runs \cup {None}]
           /\ outbox' \subseteq Terminals
           /\ queued' \in [Execs -> Nat]
<1>1. Queue({e}, "error")
  BY DEF Fail
<1>2. outbox' \subseteq Terminals /\ queued' \in [Execs -> Nat]
  BY <1>1, QueueType
<1>3. active' \in [Boxes -> Execs \cup {None}] /\ runs' \in [Boxes -> Runs \cup {None}]
  BY DEF TypeOK, Fail
<1> QED
  BY <1>2, <1>3

LEMMA ReturnType ==
    ASSUME TypeOK, NEW e \in Execs, NEW s \in {"success", "failed", "cancelled", "superseded"},
           Return(e, s)
    PROVE  /\ stage' \in [Execs -> Stages]
           /\ status' \in [Execs -> {"success", "failed", "cancelled", "superseded", None}]
           /\ \A f \in Execs : stage'[f] \in Reserved => f # e /\ stage'[f] = stage[f]
  BY DEF TypeOK, Return, Stages, Reserved

-----------------------------------------------------------------------------
(* Type correctness, action by action. *)

LEMMA SectionsType ==
    ASSUME TypeInv, Sections
    PROVE  TypeInv'
<1> USE KustoExecutionAssumption
<1> SUFFICES ASSUME NEW b \in Boxes,
                    \/ \E i \in Instances : OpenSection(b, i)
                    \/ \E i \in Instances, g \in 1 .. MaxGen, c \in Conns \cup {None} :
                          AdoptTarget(b, i, g, c)
                    \/ CloseSection(b)
                    \/ ForeignRegister(b)
                    \/ ForeignUnregister(b)
             PROVE  TypeInv'
  BY DEF Sections
<1>1. ASSUME NEW i \in Instances, OpenSection(b, i)
      PROVE  TypeInv'
  <2>1. Retire({active[b]} \ {None}) /\ {active[b]} \ {None} \subseteq Execs
    BY <1>1, ActiveType DEF OpenSection, RetireBox, TypeInv
  <2>2. lifecycle' \in [Boxes -> Lifecycles \cup {None}]
    BY <1>1 DEF OpenSection, TypeInv, TypeOK, Lifecycles
  <2> QED
    BY <1>1, <2>1, <2>2, RetireType
    DEF OpenSection, TypeInv, TypeOK, StageInv, handlerVars, serviceVars
<1>2. ASSUME NEW i \in Instances, NEW g \in 1 .. MaxGen, NEW c \in Conns \cup {None},
             AdoptTarget(b, i, g, c)
      PROVE  TypeInv'
  <2>1. Retire({active[b]} \ {None}) /\ {active[b]} \ {None} \subseteq Execs
    BY <1>2, ActiveType DEF AdoptTarget, RetireBox, TypeInv
  <2>2. lifecycle' \in [Boxes -> Lifecycles \cup {None}]
    BY <1>2 DEF AdoptTarget, TypeInv, TypeOK, Lifecycles
  <2> QED
    BY <1>2, <2>1, <2>2, RetireType
    DEF AdoptTarget, TypeInv, TypeOK, StageInv, handlerVars, serviceVars
<1>3. ASSUME CloseSection(b)
      PROVE  TypeInv'
  <2>1. Retire({active[b]} \ {None}) /\ {active[b]} \ {None} \subseteq Execs
    BY <1>3, ActiveType DEF CloseSection, RetireBox, TypeInv
  <2>2. /\ lifecycle' \in [Boxes -> Lifecycles \cup {None}]
        /\ closed' \subseteq Instances
    BY <1>3 DEF CloseSection, TypeInv, TypeOK, Lifecycles
  <2> QED
    BY <1>3, <2>1, <2>2, RetireType
    DEF CloseSection, TypeInv, TypeOK, StageInv, handlerVars, serviceVars
<1>4. ASSUME ForeignRegister(b) \/ ForeignUnregister(b)
      PROVE  TypeInv'
  <2>1. runs' \in [Boxes -> Runs \cup {None}]
    BY <1>4 DEF ForeignRegister, ForeignUnregister, TypeInv, TypeOK, Run, Runs
  <2> QED
    BY <1>4, <2>1
    DEF ForeignRegister, ForeignUnregister, TypeInv, TypeOK, StageInv, coordinatorVars,
        handlerVars, deliveryVars, serviceVars
<1> QED
  BY <1>1, <1>2, <1>3, <1>4

LEMMA SubmitType ==
    ASSUME TypeInv, Submit
    PROVE  TypeInv'
<1> SUFFICES ASSUME NEW e \in Execs, NEW b \in Boxes, NEW t \in Targets,
                    Reserve(e, b, t) \/ Refuse(e, b, t)
             PROVE  TypeInv'
  BY DEF Submit
<1>1. CASE Reserve(e, b, t)
  <2>1. lifecycle[b].owner \in Nat
    BY <1>1, NoneIsNoRecord
    DEF Reserve, MayReserve, IsCurrentOwner, TypeInv, TypeOK, Targets
  <2> DEFINE r == [box |-> b, instance |-> t.instance, gen |-> t.gen, conn |-> t.conn,
                   owner |-> lifecycle[b].owner, seq |-> sequence + 1]
  <2>2. r \in Reservations /\ r # None
    BY <2>1, KustoExecutionAssumption, NoneIsNoRecord
    DEF TypeInv, TypeOK, Targets, Reservations
  <2>r. reservation' = [reservation EXCEPT ![e] = r]
    BY <1>1 DEF Reserve
  <2> HIDE DEF r
  <2>3. /\ reservation' \in [Execs -> Reservations \cup {None}]
        /\ reservation'[e] # None
        /\ \A f \in Execs \ {e} : reservation'[f] = reservation[f]
    BY <2>2, <2>r DEF TypeInv, TypeOK
  <2>4. Queue({active[b]} \ {None}, "cancelled") /\ {active[b]} \ {None} \subseteq Execs
    BY <1>1, ActiveType DEF Reserve, TypeInv
  <2>5. outbox' \subseteq Terminals /\ queued' \in [Execs -> Nat]
    BY <2>4, QueueType DEF TypeInv
  <2>6. transport' \in [Execs -> {"none", "open", "resolved", "failed", "cancelled"}]
    BY <1>1, CancelledType DEF Reserve, TypeInv
  <2>7. runs' \in [Boxes -> Runs \cup {None}] /\ active' \in [Boxes -> Execs \cup {None}]
    BY <1>1 DEF Reserve, TypeInv, TypeOK, Run, Runs
  <2>8. stage' \in [Execs -> Stages]
    BY <1>1 DEF Reserve, TypeInv, TypeOK, Stages
  <2>9. StageInv'
    BY <1>1, <2>3 DEF Reserve, TypeInv, TypeOK, StageInv
  <2>10. UNCHANGED <<lifecycle, closed, disposed, dispatch, status, applied, present,
                     revision, account, policy, notices, lock>>
    BY <1>1 DEF Reserve, serviceVars
  <2>11. sequence' \in Nat
    BY <1>1 DEF Reserve, TypeInv, TypeOK
  <2> QED
    BY <2>3, <2>5, <2>6, <2>7, <2>8, <2>9, <2>10, <2>11 DEF TypeInv, TypeOK
<1>2. CASE Refuse(e, b, t) /\ e \in HostStarted
  <2>1. /\ stage' \in [Execs -> Stages]
        /\ status' \in [Execs -> {"success", "failed", "cancelled", "superseded", None}]
        /\ StageInv'
    BY <1>2 DEF Refuse, TypeInv, TypeOK, StageInv, Stages, Reserved
  <2> QED
    BY <1>2, <2>1 DEF Refuse, TypeInv, TypeOK, serviceVars
<1>3. CASE Refuse(e, b, t) /\ e \notin HostStarted
  <2>1. outbox' \subseteq Terminals /\ queued' \in [Execs -> Nat]
    BY <1>3, QueueType DEF Refuse, TypeInv
  <2>2. stage' \in [Execs -> Stages] /\ StageInv'
    BY <1>3 DEF Refuse, TypeInv, TypeOK, StageInv, Stages, Reserved
  <2> QED
    BY <1>3, <2>1, <2>2 DEF Refuse, TypeInv, TypeOK, serviceVars
<1> QED
  BY <1>1, <1>2, <1>3

(* A handler changes where it is and what ends an execution; a stage past  *)
(* the reservation is only reached from one.                               *)
Statuses == {"success", "failed", "cancelled", "superseded"}
Transports == {"none", "open", "resolved", "failed", "cancelled"}

EndsTyped ==
    /\ active' \in [Boxes -> Execs \cup {None}]
    /\ runs' \in [Boxes -> Runs \cup {None}]
    /\ transport' \in [Execs -> Transports]
    /\ outbox' \subseteq Terminals
    /\ queued' \in [Execs -> Nat]

StageTyped ==
    /\ stage' \in [Execs -> Stages]
    /\ status' \in [Execs -> Statuses \cup {None}]
    /\ \A f \in Execs : stage'[f] \in Reserved => stage[f] \in Reserved

Untouched ==
    UNCHANGED <<lifecycle, closed, sequence, disposed, reservation, dispatch, applied,
                present, revision, account, policy, notices>>

LEMMA HandlerStep ==
    ASSUME TypeInv, EndsTyped, StageTyped, Untouched, lock' \in Execs \cup {None}
    PROVE  TypeInv'
  BY DEF TypeInv, TypeOK, StageInv, EndsTyped, StageTyped, Untouched, Statuses, Transports

LEMMA StageStep ==
    ASSUME TypeInv, NEW e \in Execs, stage[e] \in Reserved
    PROVE  /\ \A s \in Statuses : Return(e, s) => StageTyped
           /\ \A s \in Stages : stage' = [stage EXCEPT ![e] = s] /\ status' = status
                                 => StageTyped
  BY DEF TypeInv, TypeOK, Return, StageTyped, Statuses, Stages, Reserved

LEMMA EndsStep ==
    ASSUME TypeInv, NEW e \in Execs
    PROVE  /\ CancelExpected(e) => EndsTyped
           /\ Fail(e) /\ transport' = transport => EndsTyped
           /\ FailIfCurrent(e) /\ transport' = transport => EndsTyped
           /\ UNCHANGED <<active, runs, transport, outbox, queued>> => EndsTyped
           /\ runs' = Released(e) /\ UNCHANGED <<active, transport, outbox, queued>>
                => EndsTyped
<1>1. CancelExpected(e) => EndsTyped
  BY RetireType, ActiveType DEF CancelExpected, EndsTyped, Transports, TypeInv
<1>2. UNCHANGED <<active, runs, transport, outbox, queued>> => EndsTyped
  BY DEF EndsTyped, Transports, TypeInv, TypeOK
<1>3. Fail(e) /\ transport' = transport => EndsTyped
  BY FailType DEF EndsTyped, Transports, TypeInv, TypeOK
<1>4. FailIfCurrent(e) /\ transport' = transport => EndsTyped
  BY <1>2, <1>3 DEF FailIfCurrent
<1>5. runs' = Released(e) /\ UNCHANGED <<active, transport, outbox, queued>> => EndsTyped
  BY DEF Released, EndsTyped, Transports, TypeInv, TypeOK
<1> QED
  BY <1>1, <1>2, <1>3, <1>4, <1>5

LEMMA HandlerType ==
    ASSUME TypeInv, NEW e \in Execs, Handler(e)
    PROVE  TypeInv'
<1> USE DEF handlerVars, serviceVars, Untouched
<1>l. lock' = lock => lock' \in Execs \cup {None}
  BY DEF TypeInv, TypeOK
<1>1. ASSUME NEW accepted \in BOOLEAN, ClaimAnswered(e, accepted)
      PROVE  TypeInv'
  <2>1. stage[e] \in Reserved
    BY <1>1 DEF ClaimAnswered, Reserved, Stages
  <2>2. EndsTyped
    BY <1>1, EndsStep DEF ClaimAnswered
  <2>3. StageTyped
    BY <1>1, <2>1, StageStep DEF ClaimAnswered, Statuses, Stages
  <2> QED
    BY <1>1, <2>2, <2>3, <1>l, HandlerStep DEF ClaimAnswered
<1>2. ASSUME NEW ok \in BOOLEAN, SelectionSaved(e, ok)
      PROVE  TypeInv'
  <2>1. stage[e] \in Reserved
    BY <1>2 DEF SelectionSaved, Reserved, Stages
  <2>2. EndsTyped
    BY <1>2, EndsStep DEF SelectionSaved
  <2>3. StageTyped
    BY <1>2, <2>1, StageStep DEF SelectionSaved, Statuses, Stages
  <2> QED
    BY <1>2, <2>2, <2>3, <1>l, HandlerStep DEF SelectionSaved
<1>3. CASE ConnectionMissing(e)
  <2>1. EndsTyped
    BY <1>3, EndsStep DEF ConnectionMissing
  <2>2. StageTyped
    BY <1>3, StageStep DEF ConnectionMissing, Statuses, Reserved, Stages
  <2> QED
    BY <1>3, <2>1, <2>2, <1>l, HandlerStep DEF ConnectionMissing
<1>4. CASE StartRefused(e)
  <2>1. EndsTyped
    BY <1>4, EndsStep DEF StartRefused
  <2>2. StageTyped
    BY <1>4, StageStep DEF StartRefused, Statuses, Reserved, Stages
  <2> QED
    BY <1>4, <2>1, <2>2, <1>l, HandlerStep DEF StartRefused
<1>5. CASE StartThrows(e)
  <2>1. EndsTyped
    BY <1>5, EndsStep DEF StartThrows
  <2>2. StageTyped
    BY <1>5, StageStep DEF StartThrows, MayStart, Statuses, Reserved, Stages
  <2> QED
    BY <1>5, <2>1, <2>2, <1>l, HandlerStep DEF StartThrows
<1>6. CASE StartTransport(e)
  <2>1. EndsTyped
    BY <1>6 DEF StartTransport, coordinatorVars, deliveryVars, EndsTyped, TypeInv, TypeOK,
                Run, Runs, Transports
  <2>2. StageTyped
    BY <1>6, StageStep DEF StartTransport, MayStart, Reserved, Stages
  <2> QED
    BY <1>6, <2>1, <2>2, <1>l, HandlerStep
    DEF StartTransport, coordinatorVars, deliveryVars
<1>7. CASE StartDisplaced(e)
  <2>1. EndsTyped
    BY <1>7 DEF StartDisplaced, deliveryVars, EndsTyped, TypeInv, TypeOK, Transports
  <2>2. StageTyped
    BY <1>7, StageStep DEF StartDisplaced, MayStart, Statuses, Reserved, Stages
  <2> QED
    BY <1>7, <2>1, <2>2, <1>l, HandlerStep DEF StartDisplaced, deliveryVars
<1>8. CASE QueryResolved(e)
  <2>1. EndsTyped
    BY <1>8, EndsStep DEF QueryResolved, Supersede
  <2>2. StageTyped
    BY <1>8, StageStep DEF QueryResolved, Supersede, Statuses, Reserved, Stages
  <2> QED
    BY <1>8, <2>1, <2>2, <1>l, HandlerStep DEF QueryResolved
<1>9. CASE QueryCancelled(e)
  <2>1. EndsTyped
    BY <1>9, EndsStep DEF QueryCancelled
  <2>2. StageTyped
    BY <1>9, StageStep DEF QueryCancelled, Statuses, Reserved, Stages
  <2> QED
    BY <1>9, <2>1, <2>2, <1>l, HandlerStep DEF QueryCancelled
<1>10. CASE QueryFailed(e) \/ AdmitLockTimeout(e)
  <2>1. FailOrSupersede(e) /\ stage[e] \in Reserved
    BY <1>10 DEF QueryFailed, AdmitLockTimeout, Reserved, Stages
  <2>2. EndsTyped
    BY <2>1, EndsStep DEF FailOrSupersede, Supersede
  <2>3. StageTyped
    BY <2>1, StageStep DEF FailOrSupersede, Supersede, Statuses
  <2> QED
    BY <2>1, <2>2, <2>3, <1>l, HandlerStep DEF FailOrSupersede
<1>11. CASE AccountRefreshed(e)
  <2>1. EndsTyped
    BY <1>11, EndsStep DEF AccountRefreshed, Supersede
  <2>2. StageTyped
    BY <1>11, StageStep DEF AccountRefreshed, Supersede, Statuses, Reserved, Stages
  <2> QED
    BY <1>11, <2>1, <2>2, <1>l, HandlerStep DEF AccountRefreshed
<1>12. CASE ConnectionsRefreshed(e)
  <2>1. EndsTyped
    BY <1>12, EndsStep DEF ConnectionsRefreshed, Discard
  <2>2. StageTyped
    BY <1>12, StageStep DEF ConnectionsRefreshed, Discard, Statuses, Reserved, Stages
  <2> QED
    BY <1>12, <2>1, <2>2, <1>l, HandlerStep DEF ConnectionsRefreshed
<1>13. CASE Admit(e) /\ MayPublish(e)
  <2>1. outbox' \subseteq Terminals /\ queued' \in [Execs -> Nat]
    BY <1>13, QueueType DEF Admit, TypeInv
  <2>a. active' \in [Boxes -> Execs \cup {None}] /\ transport' = transport
    BY <1>13 DEF Admit, TypeInv, TypeOK
  <2>r. runs' \in [Boxes -> Runs \cup {None}]
    BY <1>13 DEF Admit, Released, TypeInv, TypeOK
  <2>2. EndsTyped
    BY <2>1, <2>a, <2>r DEF EndsTyped, TypeInv, TypeOK, Transports
  <2>3. StageTyped
    BY <1>13, StageStep DEF Admit, Reserved, Stages
  <2> QED
    BY <1>13, <2>2, <2>3, HandlerStep DEF Admit
<1>14. CASE Admit(e) /\ ~MayPublish(e)
  <2>1. EndsTyped
    BY <1>14, EndsStep DEF Admit, Discard
  <2>2. StageTyped
    BY <1>14, StageStep DEF Admit, Discard, Statuses, Reserved, Stages
  <2> QED
    BY <1>14, <2>1, <2>2, <1>l, HandlerStep DEF Admit
<1> QED
  BY <1>1, <1>2, <1>3, <1>4, <1>5, <1>6, <1>7, <1>8, <1>9, <1>10, <1>11, <1>12, <1>13,
     <1>14
  DEF Handler
LEMMA TransportType ==
    ASSUME TypeInv, NEW e \in Execs, Transport(e)
    PROVE  TypeInv'
<1> USE KustoExecutionAssumption
<1>1. CASE stage[e] = "running" /\ \E a \in 1 .. account[ConnOf(e)] : Dispatch(e, a)
  <2>1. PICK a \in 1 .. account[ConnOf(e)] : Dispatch(e, a)
    BY <1>1
  <2>2. reservation[e] \in Reservations
    BY <1>1 DEF TypeInv, TypeOK, StageInv, Reserved, Stages
  <2>3. ConnOf(e) \in Conns
    BY <2>2 DEF ConnOf, Reservations
  <2>4. account[ConnOf(e)] \in Nat /\ policy[ConnOf(e)] \in Nat
    BY <2>3 DEF TypeInv, TypeOK
  <2>5. [account |-> a, policy |-> policy[ConnOf(e)]] \in Dispatches
    BY <2>1, <2>4 DEF Dispatches
  <2>6. dispatch' \in [Execs -> Dispatches \cup {None}]
    BY <2>1, <2>5 DEF Dispatch, TypeInv, TypeOK
  <2>7. EndsTyped
    <3>1. CASE UNCHANGED <<active, runs, transport, outbox, queued>>
      BY <3>1, EndsStep
    <3>2. CASE /\ Drop(IfCurrent(e))
               /\ transport' = [Cancelled(IfCurrent(e)) EXCEPT
                                  ![e] = IF @ = "open" THEN "failed" ELSE @]
      <4>1. IfCurrent(e) \in SUBSET Execs
        BY ActiveType DEF TypeInv
      <4>2. transport' \in [Execs -> Transports]
        BY <3>2, <4>1, CancelledType DEF TypeInv, Transports
      <4> QED
        BY <3>2, <4>1, <4>2, DropType DEF EndsTyped, TypeInv
    <3> QED
      BY <2>1, <3>1, <3>2 DEF Dispatch
  <2> QED
    BY <2>1, <2>6, <2>7
    DEF Dispatch, EndsTyped, Transports, TypeInv, TypeOK, StageInv, handlerVars, serviceVars
<1>2. ASSUME NEW outcome \in {"resolved", "failed", "cancelled"}, TransportSettles(e, outcome)
      PROVE  TypeInv'
  <2>1. transport' \in [Execs -> Transports]
    BY <1>2 DEF TransportSettles, TypeInv, TypeOK, Transports
  <2> QED
    BY <1>2, <2>1 DEF TransportSettles, TypeInv, TypeOK, StageInv, Transports, coordinatorVars,
                      handlerVars, deliveryVars, serviceVars
<1> QED
  BY <1>1, <1>2 DEF Transport

LEMMA DeliveriesType ==
    ASSUME TypeInv, Deliveries
    PROVE  TypeInv'
<1>1. PICK m \in outbox, ok \in BOOLEAN : Deliver(m, ok)
  BY DEF Deliveries
<1>2. m \in Terminals /\ m.exec \in Execs /\ m.kind \in Kinds
  BY DEF TypeInv, TypeOK, Terminals
<1>3. outbox' \subseteq Terminals
  BY <1>1, <1>2 DEF Deliver, Terminal, Terminals, TypeInv, TypeOK
<1>4. applied' \in [Execs -> SUBSET Kinds]
  BY <1>1, <1>2 DEF Deliver, TypeInv, TypeOK
<1>5. lock' \in Execs \cup {None}
  BY <1>1 DEF Deliver, TypeInv, TypeOK
<1>6. /\ stage' \in [Execs -> Stages]
      /\ status' \in [Execs -> Statuses \cup {None}]
      /\ StageInv'
  <2>1. CASE Return(m.exec, Outcome(m))
    <3>1. Outcome(m) \in Statuses
      BY DEF Outcome, Statuses
    <3>2. UNCHANGED reservation
      BY <1>1 DEF Deliver, coordinatorVars
    <3> QED
      BY <1>2, <2>1, <3>1, <3>2, ReturnType DEF TypeInv, Statuses, StageInv
  <2>2. CASE UNCHANGED handlerVars
    BY <1>1, <2>2 DEF Deliver, coordinatorVars, handlerVars, TypeInv, TypeOK, StageInv, Statuses
  <2> QED
    BY <1>1, <2>1, <2>2 DEF Deliver
<1> QED
  BY <1>1, <1>3, <1>4, <1>5, <1>6 DEF Deliver, coordinatorVars, TypeInv, TypeOK, Statuses

LEMMA ServicesType ==
    ASSUME TypeInv, Services
    PROVE  TypeInv'
<1>1. ASSUME NEW n \in notices, NoticeDelivered(n)
      PROVE  TypeInv'
  <2>1. OnConnection(n.conn) \ Spared(n) \in SUBSET Execs
    BY ActiveType DEF OnConnection, TypeInv
  <2>2. Retire(OnConnection(n.conn) \ Spared(n))
    BY <1>1 DEF NoticeDelivered
  <2>3. /\ active' \in [Boxes -> Execs \cup {None}]
        /\ runs' \in [Boxes -> Runs \cup {None}]
        /\ outbox' \subseteq Terminals
        /\ queued' \in [Execs -> Nat]
        /\ transport' \in [Execs -> {"none", "open", "resolved", "failed", "cancelled"}]
    BY <2>1, <2>2, RetireType DEF TypeInv
  <2>4. \A l \in Lifecycles : [l EXCEPT !.owner = None] \in Lifecycles
    BY DEF Lifecycles
  <2>5. lifecycle' \in [Boxes -> Lifecycles \cup {None}]
    BY <1>1, <2>4 DEF NoticeDelivered, TypeInv, TypeOK
  <2>6. notices' \subseteq Notices
    BY <1>1 DEF NoticeDelivered, TypeInv, TypeOK
  <2> QED
    BY <1>1, <2>3, <2>5, <2>6 DEF NoticeDelivered, TypeInv, TypeOK, StageInv, handlerVars
<1>2. ASSUME NEW c \in Conns,
             UpdateConnection(c) \/ RemoveConnection(c) \/ ChangeAccount(c) \/ ChangePolicy(c)
      PROVE  TypeInv'
  <2>1. /\ present' \subseteq Conns
        /\ revision' \in [Conns -> Nat \ {0}]
        /\ account' \in [Conns -> Nat]
        /\ policy' \in [Conns -> Nat]
    BY <1>2 DEF UpdateConnection, RemoveConnection, ChangeAccount, ChangePolicy, TypeInv, TypeOK
  <2>2. \A k \in {"physical", "account", "policy"}, v \in Nat :
            Notice(k, c, v) => notices' \subseteq Notices
    BY DEF Notice, Notices, TypeInv, TypeOK
  <2>3. notices' \subseteq Notices
    BY <1>2, <2>2 DEF UpdateConnection, RemoveConnection, ChangeAccount, ChangePolicy, TypeInv,
                      TypeOK
  <2> QED
    BY <1>2, <2>1, <2>3
    DEF UpdateConnection, RemoveConnection, ChangeAccount, ChangePolicy, TypeInv, TypeOK,
        StageInv, coordinatorVars, handlerVars, deliveryVars
<1> QED
  BY <1>1, <1>2 DEF Services

LEMMA CancelType ==
    ASSUME TypeInv, NEW e \in Execs, CancelQuery(e)
    PROVE  TypeInv'
<1>1. Retire({e})
  BY DEF CancelQuery
<1> QED
  BY <1>1, RetireType DEF CancelQuery, TypeInv, TypeOK, StageInv, handlerVars, serviceVars

LEMMA DisposeType ==
    ASSUME TypeInv, Dispose
    PROVE  TypeInv'
<1>1. outbox' \subseteq Terminals /\ queued' \in [Execs -> Nat]
  BY ActiveType, QueueType DEF Dispose, TypeInv
<1>2. transport' \in [Execs -> {"none", "open", "resolved", "failed", "cancelled"}]
  BY CancelledType DEF Dispose, TypeInv
<1> QED
  BY <1>1, <1>2 DEF Dispose, TypeInv, TypeOK, StageInv, handlerVars, serviceVars

LEMMA TypeInit == Init => TypeInv
<1> SUFFICES ASSUME Init PROVE TypeInv
  OBVIOUS
<1>1. StageInv
  BY DEF Init, StageInv, Reserved, Stages
<1>2. /\ sequence \in Nat /\ disposed \in BOOLEAN
      /\ stage \in [Execs -> Stages]
      /\ transport \in [Execs -> Transports]
  BY DEF Init, Stages, Transports
<1>3. /\ lifecycle \in [Boxes -> Lifecycles \cup {None}]
      /\ closed \subseteq Instances
      /\ active \in [Boxes -> Execs \cup {None}]
      /\ reservation \in [Execs -> Reservations \cup {None}]
      /\ dispatch \in [Execs -> Dispatches \cup {None}]
      /\ runs \in [Boxes -> Runs \cup {None}]
  BY DEF Init
<1>4. /\ status \in [Execs -> {"success", "failed", "cancelled", "superseded", None}]
      /\ outbox \subseteq Terminals
      /\ queued \in [Execs -> Nat]
      /\ applied \in [Execs -> SUBSET Kinds]
  BY DEF Init
<1>5. /\ present \subseteq Conns
      /\ revision \in [Conns -> Nat \ {0}]
      /\ account \in [Conns -> Nat]
      /\ policy \in [Conns -> Nat]
      /\ notices \subseteq Notices
      /\ lock \in Execs \cup {None}
  BY DEF Init
<1> QED
  BY <1>1, <1>2, <1>3, <1>4, <1>5 DEF TypeInv, TypeOK, Transports

LEMMA TypeStep == TypeInv /\ [Next]_vars => TypeInv'
<1> SUFFICES ASSUME TypeInv, [Next]_vars PROVE TypeInv'
  OBVIOUS
<1>1. CASE UNCHANGED vars
  BY <1>1 DEF vars, coordinatorVars, handlerVars, deliveryVars, serviceVars, TypeInv, TypeOK,
              StageInv
<1>2. CASE Next
  BY <1>2, SectionsType, SubmitType, DeliveriesType, ServicesType, DisposeType, HandlerType,
     TransportType, CancelType
  DEF Next
<1> QED
  BY <1>1, <1>2

(* In every reachable state every variable has its type, and an execution  *)
(* whose handler went past its reservation has that reservation.           *)
THEOREM TypeCorrect == Spec => [](TypeOK /\ StageInv)
<1>1. Spec => []TypeInv
  BY TypeInit, TypeStep, PTL DEF Spec
<1> QED
  BY <1>1, PTL DEF TypeInv

-----------------------------------------------------------------------------
(* Exactly one terminal.  ExactlyOneTerminal is not inductive: it needs    *)
(* that an execution is active only in its own section, that one not yet   *)
(* submitted has neither reservation nor answer, and that the registry     *)
(* entry of an execution which has not started is still its own - or the   *)
(* branch for a displaced entry, which answers nobody, could be taken.     *)
Preflight == {"claiming", "saving", "starting"}

IdleInv == \A e \in Execs : stage[e] = "idle" => reservation[e] = None /\ queued[e] = 0

HomeInv == \A b \in Boxes : active[b] # None => reservation[active[b]] # None /\ BoxOf(active[b]) = b

RunInv ==
    \A b \in Boxes \ SharedBoxes :
        active[b] # None /\ stage[active[b]] \in Preflight => runs[b] = Run(active[b], "preflight")

OneInv == TypeInv /\ IdleInv /\ HomeInv /\ RunInv /\ ExactlyOneTerminal

(* What every step but a reservation does: the executions of D lose their  *)
(* sections, and in sections no other engine uses each is answered once.   *)
Ends(D) ==
    /\ reservation' = reservation
    /\ D \subseteq ActiveExecs
    /\ active' = [b \in Boxes |-> IF active[b] \in D THEN None ELSE active[b]]
    /\ \A e \in Execs : reservation[e] # None /\ BoxOf(e) \notin SharedBoxes =>
            queued'[e] = IF e \in D THEN queued[e] + 1 ELSE queued[e]
    /\ \A e \in Execs : reservation[e] = None => queued'[e] = queued[e]
    /\ \A e \in Execs : stage'[e] = "idle" => stage[e] = "idle"
    /\ \A e \in Execs : stage'[e] \in Preflight => stage[e] \in Preflight
    /\ \A b \in Boxes \ SharedBoxes :
            active'[b] # None /\ stage'[active'[b]] \in Preflight
            /\ runs[b] = Run(active[b], "preflight") => runs'[b] = runs[b]

LEMMA ActiveReserved ==
    ASSUME OneInv
    PROVE  \A e \in ActiveExecs : e \in Execs /\ reservation[e] # None
  BY DEF ActiveExecs, OneInv, HomeInv, TypeInv, TypeOK

LEMMA EndsKeeps ==
    ASSUME OneInv, TypeInv', NEW D, Ends(D)
    PROVE  OneInv'
<1>1. HomeInv'
  BY DEF OneInv, HomeInv, Ends, BoxOf, TypeInv, TypeOK
<1>2. RunInv'
  <2> SUFFICES ASSUME NEW b \in Boxes \ SharedBoxes,
                      active'[b] # None, stage'[active'[b]] \in Preflight
               PROVE  runs'[b] = Run(active'[b], "preflight")
    BY DEF RunInv, Run
  <2>1. active'[b] = active[b] /\ active[b] \in Execs
    BY DEF Ends, OneInv, TypeInv, TypeOK
  <2>2. runs[b] = Run(active[b], "preflight")
    BY <2>1 DEF Ends, OneInv, RunInv
  <2> QED
    BY <2>1, <2>2 DEF Ends
<1>3. \A e \in D : e \in Execs /\ reservation[e] # None /\ IsCurrent(e)
  BY DEF Ends, ActiveExecs, OneInv, HomeInv, TypeInv, TypeOK, IsCurrent
<1>4. IdleInv'
  BY <1>3 DEF Ends, OneInv, IdleInv
<1>5. ExactlyOneTerminal'
  <2> SUFFICES ASSUME NEW e \in Execs, reservation[e] # None, BoxOf(e) \notin SharedBoxes
               PROVE  queued'[e] = IF IsCurrent(e)' THEN 0 ELSE 1
    BY DEF ExactlyOneTerminal, Ends, BoxOf
  <2>1. queued[e] = IF IsCurrent(e) THEN 0 ELSE 1
    BY DEF OneInv, ExactlyOneTerminal
  <2>2. BoxOf(e) \in Boxes /\ e # None
    BY KustoExecutionAssumption DEF OneInv, TypeInv, TypeOK, BoxOf, Reservations
  <2>3. IsCurrent(e)' <=> IsCurrent(e) /\ e \notin D
    BY <2>2 DEF IsCurrent, Ends, BoxOf
  <2> QED
    BY <1>3, <2>1, <2>3 DEF Ends
<1> QED
  BY <1>1, <1>2, <1>4, <1>5 DEF OneInv

(* No handler goes back: to the submission or to before the start.         *)
Forward ==
    \A e \in Execs : /\ stage'[e] = "idle" => stage[e] = "idle"
                     /\ stage'[e] \in Preflight => stage[e] \in Preflight

LEMMA ForwardStep ==
    ASSUME TypeInv, NEW e \in Execs
    PROVE  /\ stage' = stage => Forward
           /\ \A s \in Statuses : Return(e, s) => Forward
           /\ \A s : /\ stage' = [stage EXCEPT ![e] = s]
                     /\ s # "idle" /\ (s \in Preflight => stage[e] \in Preflight)
                     => Forward
  BY DEF Forward, Preflight, Return, TypeInv, TypeOK

LEMMA DropEnds ==
    ASSUME OneInv, NEW S, S \subseteq ActiveExecs, Drop(S), reservation' = reservation, Forward
    PROVE  Ends(S)
<1>1. \A b \in Boxes \ SharedBoxes :
          active'[b] # None /\ runs[b] = Run(active[b], "preflight") => runs'[b] = runs[b]
  <2> SUFFICES ASSUME NEW b \in Boxes \ SharedBoxes, active'[b] # None,
                      runs[b] = Run(active[b], "preflight"),
                      NEW e \in S, BoxOf(e) = b, OwnsRun(e)
               PROVE  FALSE
    BY DEF Drop
  <2>1. active[b] \notin S
    BY DEF Drop
  <2>2. runs[b].exec = e
    BY DEF OwnsRun
  <2> QED
    BY <2>1, <2>2 DEF Run
<1>2. \A e \in Execs : queued'[e] = IF e \in S THEN queued[e] + 1 ELSE queued[e]
  BY DEF Drop, Queue
<1>3. active' = [b \in Boxes |-> IF active[b] \in S THEN None ELSE active[b]]
  BY DEF Drop
<1> QED
  BY <1>1, <1>2, <1>3, ActiveReserved DEF Ends, Forward

LEMMA FailEnds ==
    ASSUME OneInv, NEW e \in Execs, IsCurrent(e), Fail(e), reservation' = reservation, Forward
    PROVE  Ends({e})
<1>1. BoxOf(e) \in Boxes /\ active[BoxOf(e)] = e /\ e # None
  BY KustoExecutionAssumption
  DEF OneInv, TypeInv, TypeOK, IsCurrent, BoxOf, Reservations
<1>2. \A b \in Boxes : active[b] = e <=> b = BoxOf(e)
  BY <1>1 DEF OneInv, HomeInv
<1>3. active' = [b \in Boxes |-> IF active[b] \in {e} THEN None ELSE active[b]]
  BY <1>1, <1>2 DEF Fail, OneInv, TypeInv, TypeOK
<1>4. \A b \in Boxes : active'[b] # None => runs'[b] = runs[b]
  BY <1>1, <1>2, <1>3 DEF Fail, OneInv, TypeInv, TypeOK
<1>5. \A f \in Execs : queued'[f] = IF f \in {e} THEN queued[f] + 1 ELSE queued[f]
  BY DEF Fail, Queue
<1>6. {e} \subseteq ActiveExecs
  BY <1>1 DEF ActiveExecs
<1> QED
  BY <1>3, <1>4, <1>5, <1>6, ActiveReserved DEF Ends, Forward

LEMMA QuietEnds ==
    ASSUME OneInv, UNCHANGED <<reservation, active, queued>>, Forward,
           \A b \in Boxes \ SharedBoxes :
               active[b] # None /\ stage'[active[b]] \in Preflight
               /\ runs[b] = Run(active[b], "preflight") => runs'[b] = runs[b]
    PROVE  Ends({})
  BY DEF Ends, Forward, OneInv, TypeInv, TypeOK

(* The release of an execution that has lost its section touches no run of *)
(* the execution that has it now.                                          *)
LEMMA ReleasedOwn ==
    ASSUME OneInv, NEW e \in Execs, ~IsCurrent(e), reservation[e] # None, runs' = Released(e)
    PROVE  \A b \in Boxes :
               active[b] # None /\ runs[b] = Run(active[b], "preflight") => runs'[b] = runs[b]
  BY DEF Released, OwnsRun, IsCurrent, Run, OneInv, TypeInv, TypeOK

LEMMA IfCurrentActive ==
    ASSUME OneInv, NEW e \in Execs
    PROVE  IfCurrent(e) \subseteq ActiveExecs
  BY KustoExecutionAssumption
  DEF IfCurrent, IsCurrent, ActiveExecs, BoxOf, OneInv, TypeInv, TypeOK, Reservations

LEMMA RetireEnds ==
    ASSUME OneInv, NEW e \in Execs, reservation' = reservation, Forward
    PROVE  /\ CancelExpected(e) => Ends(IfCurrent(e))
           /\ FailIfCurrent(e) => Ends(IfCurrent(e))
           /\ UNCHANGED <<active, runs, queued>> => Ends({})
           /\ ~IsCurrent(e) /\ reservation[e] # None /\ runs' = Released(e)
                /\ UNCHANGED <<active, queued>> => Ends({})
<1>1. CancelExpected(e) => Ends(IfCurrent(e))
  BY IfCurrentActive, DropEnds DEF CancelExpected, Retire
<1>2. UNCHANGED <<active, runs, queued>> => Ends({})
  BY QuietEnds
<1>3. FailIfCurrent(e) => Ends(IfCurrent(e))
  BY <1>2, FailEnds DEF FailIfCurrent, IfCurrent
<1>4. ~IsCurrent(e) /\ reservation[e] # None /\ runs' = Released(e)
        /\ UNCHANGED <<active, queued>> => Ends({})
  BY QuietEnds, ReleasedOwn
<1> QED
  BY <1>1, <1>2, <1>3, <1>4

LEMMA SectionsEnd ==
    ASSUME OneInv, Sections
    PROVE  \E D : Ends(D)
<1> SUFFICES ASSUME NEW b \in Boxes,
                    \/ \E i \in Instances : OpenSection(b, i)
                    \/ \E i \in Instances, g \in 1 .. MaxGen, c \in Conns \cup {None} :
                          AdoptTarget(b, i, g, c)
                    \/ CloseSection(b)
                    \/ ForeignRegister(b)
                    \/ ForeignUnregister(b)
             PROVE  \E D : Ends(D)
  BY DEF Sections
<1>1. UNCHANGED stage => Forward
  BY DEF Forward
<1>2. CASE RetireBox(b) /\ UNCHANGED <<reservation, stage>>
  <2>1. {active[b]} \ {None} \subseteq ActiveExecs
    BY DEF ActiveExecs
  <2> QED
    BY <1>1, <1>2, <2>1, DropEnds DEF RetireBox, Retire
<1>3. CASE ForeignRegister(b)
  <2>1. \A d \in Boxes \ SharedBoxes : runs'[d] = runs[d]
    BY <1>3 DEF ForeignRegister, OneInv, TypeInv, TypeOK
  <2> QED
    BY <1>1, <1>3, <2>1, QuietEnds
    DEF ForeignRegister, coordinatorVars, handlerVars, deliveryVars
<1>4. CASE ForeignUnregister(b)
  <2>1. \A d \in Boxes :
           active[d] # None /\ runs[d] = Run(active[d], "preflight") => runs'[d] = runs[d]
    BY <1>4 DEF ForeignUnregister, Run, OneInv, TypeInv, TypeOK
  <2> QED
    BY <1>1, <1>4, <2>1, QuietEnds
    DEF ForeignUnregister, coordinatorVars, handlerVars, deliveryVars
<1> QED
  BY <1>2, <1>3, <1>4 DEF OpenSection, AdoptTarget, CloseSection, handlerVars

LEMMA HandlerEnd ==
    ASSUME OneInv, NEW e \in Execs, Handler(e)
    PROVE  \E D : Ends(D)
<1> USE DEF handlerVars, coordinatorVars, deliveryVars
<1>t. TypeInv
  BY DEF OneInv
<1>1. ASSUME NEW accepted \in BOOLEAN, ClaimAnswered(e, accepted)
      PROVE  \E D : Ends(D)
  <2>1. Forward
    BY <1>1, <1>t, ForwardStep DEF ClaimAnswered, Preflight, Statuses
  <2> QED
    BY <1>1, <2>1, RetireEnds DEF ClaimAnswered
<1>2. ASSUME NEW ok \in BOOLEAN, SelectionSaved(e, ok)
      PROVE  \E D : Ends(D)
  <2>1. Forward
    BY <1>2, <1>t, ForwardStep DEF SelectionSaved, Preflight, Statuses
  <2> QED
    BY <1>2, <2>1, RetireEnds DEF SelectionSaved
<1>3. CASE ConnectionMissing(e)
  <2>1. Forward
    BY <1>3, <1>t, ForwardStep DEF ConnectionMissing, Statuses
  <2> QED
    BY <1>3, <2>1, RetireEnds DEF ConnectionMissing
<1>4. CASE StartRefused(e)
  <2>1. Forward
    BY <1>4, <1>t, ForwardStep DEF StartRefused, Statuses
  <2> QED
    BY <1>4, <2>1, RetireEnds DEF StartRefused
<1>5. CASE StartThrows(e)
  <2>1. Forward
    BY <1>5, <1>t, ForwardStep DEF StartThrows, Statuses
  <2> QED
    BY <1>5, <2>1, FailEnds DEF StartThrows, MayStart
<1>6. CASE StartTransport(e)
  <2>1. stage' = [stage EXCEPT ![e] = "running"]
    BY <1>6 DEF StartTransport
  <2>2. Forward
    BY <2>1, <1>t, ForwardStep DEF Preflight
  <2>3. BoxOf(e) \in Boxes /\ active[BoxOf(e)] = e
    BY <1>6 DEF StartTransport, MayStart, IsCurrent, BoxOf, OneInv, TypeInv, TypeOK, Reservations
  <2>4. stage'[e] \notin Preflight
    BY <2>1 DEF Preflight, OneInv, TypeInv, TypeOK
  <2>5. \A b \in Boxes \ {BoxOf(e)} : runs'[b] = runs[b]
    BY <1>6 DEF StartTransport, OneInv, TypeInv, TypeOK
  <2>6. UNCHANGED <<reservation, active, queued>>
    BY <1>6 DEF StartTransport
  <2> QED
    BY <2>2, <2>3, <2>4, <2>5, <2>6, QuietEnds
<1>7. CASE StartDisplaced(e)
  <2>1. Forward
    BY <1>7, <1>t, ForwardStep DEF StartDisplaced, Statuses
  <2>2. BoxOf(e) \in Boxes /\ active[BoxOf(e)] = e /\ e # None /\ stage[e] \in Preflight
    BY <1>7, KustoExecutionAssumption
    DEF StartDisplaced, MayStart, IsCurrent, BoxOf, OneInv, TypeInv, TypeOK, Reservations, Preflight
  <2>3. BoxOf(e) \in SharedBoxes
    BY <1>7, <2>2 DEF StartDisplaced, OneInv, RunInv
  <2>4. \A b \in Boxes : active[b] = e <=> b = BoxOf(e)
    BY <2>2 DEF OneInv, HomeInv
  <2>5. active' = [b \in Boxes |-> IF active[b] \in {e} THEN None ELSE active[b]]
    BY <1>7, <2>2, <2>4 DEF StartDisplaced, OneInv, TypeInv, TypeOK
  <2>6. {e} \subseteq ActiveExecs
    BY <2>2 DEF ActiveExecs
  <2> QED
    BY <1>7, <2>1, <2>3, <2>5, <2>6 DEF StartDisplaced, Ends, Forward
<1>8. CASE QueryResolved(e) \/ AccountRefreshed(e) \/ ConnectionsRefreshed(e)
            \/ (Admit(e) /\ ~MayPublish(e))
  <2>1. Forward
    BY <1>8, <1>t, ForwardStep
    DEF QueryResolved, AccountRefreshed, ConnectionsRefreshed, Admit, Discard, Supersede,
        Statuses, Preflight
  <2>2. reservation[e] # None
    BY <1>8 DEF QueryResolved, AccountRefreshed, ConnectionsRefreshed, Admit, OneInv, TypeInv,
                TypeOK, StageInv, Reserved, Stages
  <2> QED
    BY <1>8, <2>1, <2>2, RetireEnds
    DEF QueryResolved, AccountRefreshed, ConnectionsRefreshed, Admit, Discard, Supersede
<1>9. CASE QueryCancelled(e)
  <2>1. Forward
    BY <1>9, <1>t, ForwardStep DEF QueryCancelled, Statuses
  <2> QED
    BY <1>9, <2>1, RetireEnds DEF QueryCancelled
<1>10. CASE QueryFailed(e) \/ AdmitLockTimeout(e)
  <2>1. FailOrSupersede(e) /\ reservation[e] # None
    BY <1>10 DEF QueryFailed, AdmitLockTimeout, OneInv, TypeInv, TypeOK, StageInv, Reserved, Stages
  <2>2. Forward
    BY <2>1, <1>t, ForwardStep DEF FailOrSupersede, Supersede, Statuses
  <2> QED
    BY <2>1, <2>2, RetireEnds, FailEnds DEF FailOrSupersede, Supersede
<1>11. CASE Admit(e) /\ MayPublish(e)
  <2>1. Forward
    BY <1>11, <1>t, ForwardStep DEF Admit, Preflight
  <2>2. BoxOf(e) \in Boxes /\ active[BoxOf(e)] = e /\ e # None
    BY <1>11, KustoExecutionAssumption
    DEF Admit, MayPublish, IsAdmissible, IsCurrent, BoxOf, OneInv, TypeInv, TypeOK, Reservations
  <2>3. \A b \in Boxes : active[b] = e <=> b = BoxOf(e)
    BY <2>2 DEF OneInv, HomeInv
  <2>4. active' = [b \in Boxes |-> IF active[b] \in {e} THEN None ELSE active[b]]
    BY <1>11, <2>2, <2>3 DEF Admit, OneInv, TypeInv, TypeOK
  <2>5. \A b \in Boxes : active'[b] # None => runs'[b] = runs[b]
    BY <1>11, <2>2, <2>4 DEF Admit, Released, OneInv, TypeInv, TypeOK
  <2>6. \A f \in Execs : queued'[f] = IF f \in {e} THEN queued[f] + 1 ELSE queued[f]
    BY <1>11 DEF Admit, Queue
  <2>7. {e} \subseteq ActiveExecs
    BY <2>2 DEF ActiveExecs
  <2>8. reservation' = reservation
    BY <1>11 DEF Admit
  <2> QED
    BY <2>1, <2>4, <2>5, <2>6, <2>7, <2>8, ActiveReserved DEF Ends, Forward
<1> QED
  BY <1>1, <1>2, <1>3, <1>4, <1>5, <1>6, <1>7, <1>8, <1>9, <1>10, <1>11 DEF Handler

LEMMA OthersEnd ==
    ASSUME OneInv,
           \/ Deliveries \/ Services \/ Dispose
           \/ \E e \in Execs : Transport(e) \/ CancelQuery(e)
    PROVE  \E D : Ends(D)
<1> USE DEF handlerVars, coordinatorVars, deliveryVars
<1>t. TypeInv
  BY DEF OneInv
<1>f. UNCHANGED stage => Forward
  BY DEF Forward
<1>1. CASE Deliveries
  <2>1. PICK m \in outbox, ok \in BOOLEAN : Deliver(m, ok)
    BY <1>1 DEF Deliveries
  <2>2. m.exec \in Execs /\ Outcome(m) \in Statuses
    BY <1>t DEF TypeInv, TypeOK, Terminals, Outcome, Statuses
  <2>3. Forward
    BY <2>1, <2>2, <1>t, <1>f, ForwardStep DEF Deliver
  <2> QED
    BY <2>1, <2>2, <2>3, RetireEnds DEF Deliver
<1>2. ASSUME NEW n \in notices, NoticeDelivered(n)
      PROVE  \E D : Ends(D)
  <2>1. OnConnection(n.conn) \ Spared(n) \subseteq ActiveExecs
    BY DEF OnConnection
  <2> QED
    BY <1>2, <1>f, <2>1, DropEnds DEF NoticeDelivered, Retire
<1>3. ASSUME NEW c \in Conns,
             UpdateConnection(c) \/ RemoveConnection(c) \/ ChangeAccount(c) \/ ChangePolicy(c)
      PROVE  \E D : Ends(D)
  BY <1>3, <1>f, QuietEnds DEF UpdateConnection, RemoveConnection, ChangeAccount, ChangePolicy
<1>4. CASE Dispose
  <2>1. active' = [b \in Boxes |-> IF active[b] \in ActiveExecs THEN None ELSE active[b]]
    BY <1>4 DEF Dispose, ActiveExecs
  <2>2. \A f \in Execs : queued'[f] = IF f \in ActiveExecs THEN queued[f] + 1 ELSE queued[f]
    BY <1>4 DEF Dispose, Queue
  <2>3. \A b \in Boxes : active'[b] = None
    BY <1>4 DEF Dispose
  <2> QED
    BY <1>4, <1>f, <2>1, <2>2, <2>3, ActiveReserved DEF Dispose, Ends, Forward
<1>5. ASSUME NEW e \in Execs, NEW a, Dispatch(e, a)
      PROVE  \E D : Ends(D)
  BY <1>5, <1>f, IfCurrentActive, DropEnds, RetireEnds DEF Dispatch
<1>6. ASSUME NEW e \in Execs, NEW outcome, TransportSettles(e, outcome)
      PROVE  \E D : Ends(D)
  BY <1>6, <1>f, QuietEnds DEF TransportSettles
<1>7. ASSUME NEW e \in Execs, CancelQuery(e)
      PROVE  \E D : Ends(D)
  <2>1. {e} \subseteq ActiveExecs
    BY <1>7, IfCurrentActive DEF CancelQuery, IfCurrent
  <2> QED
    BY <1>7, <1>f, <2>1, DropEnds DEF CancelQuery, Retire
<1> QED
  BY <1>1, <1>2, <1>3, <1>4, <1>5, <1>6, <1>7 DEF Services, Transport

LEMMA RefuseKeeps ==
    ASSUME OneInv, TypeInv', NEW e \in Execs, NEW b \in Boxes, NEW t \in Targets, Refuse(e, b, t)
    PROVE  OneInv'
<1>1. /\ stage'[e] \notin Preflight \cup {"idle"}
      /\ \A f \in Execs \ {e} : stage'[f] = stage[f]
  BY DEF Refuse, Preflight, OneInv, TypeInv, TypeOK
<1>2. reservation[e] = None /\ UNCHANGED <<reservation, active, runs>>
  BY DEF Refuse, OneInv, IdleInv
<1>3. \A f \in Execs \ {e} : queued'[f] = queued[f]
  BY DEF Refuse, Queue
<1>4. IdleInv'
  BY <1>1, <1>2, <1>3 DEF OneInv, IdleInv
<1>6. HomeInv'
  BY <1>2 DEF OneInv, HomeInv, BoxOf
<1>7. RunInv'
  BY <1>1, <1>2 DEF OneInv, RunInv, Run, TypeInv, TypeOK
<1>5. ExactlyOneTerminal'
  BY <1>2, <1>3 DEF OneInv, ExactlyOneTerminal, BoxOf, IsCurrent
<1> QED
  BY <1>4, <1>5, <1>6, <1>7 DEF OneInv

(* A reservation takes the section and answers only whom it displaces.     *)
LEMMA ReserveKeeps ==
    ASSUME OneInv, TypeInv', NEW e \in Execs, NEW b \in Boxes, NEW t \in Targets,
           Reserve(e, b, t)
    PROVE  OneInv'
<1>1. /\ reservation[e] = None /\ queued[e] = 0
      /\ e # None /\ \A d \in Boxes : active[d] # e
  BY KustoExecutionAssumption DEF Reserve, OneInv, IdleInv, HomeInv
<1>2. reservation'[e] # None /\ BoxOf(e)' = b
  <2> DEFINE r == [box |-> b, instance |-> t.instance, gen |-> t.gen, conn |-> t.conn,
                   owner |-> lifecycle[b].owner, seq |-> sequence + 1]
  <2>1. r \in Reservations
    BY NoneIsNoRecord
    DEF Reserve, MayReserve, IsCurrentOwner, OneInv, TypeInv, TypeOK, Targets, Reservations
  <2>2. r # None /\ r.box = b
    BY <2>1, NoneIsNoRecord
  <2>3. reservation'[e] = r
    BY DEF Reserve, OneInv, TypeInv, TypeOK
  <2> QED
    BY <2>2, <2>3 DEF BoxOf
<1>3. \A f \in Execs \ {e} : reservation'[f] = reservation[f] /\ BoxOf(f)' = BoxOf(f)
  BY DEF Reserve, BoxOf, OneInv, TypeInv, TypeOK
<1>4. active'[b] = e /\ \A d \in Boxes \ {b} : active'[d] = active[d]
  BY DEF Reserve, OneInv, TypeInv, TypeOK
<1>5. \A f \in Execs : queued'[f] = IF f = active[b] /\ f # None THEN queued[f] + 1 ELSE queued[f]
  BY DEF Reserve, Queue
<1>6. stage'[e] \in {"claiming", "saving"} /\ \A f \in Execs \ {e} : stage'[f] = stage[f]
  BY DEF Reserve, OneInv, TypeInv, TypeOK
<1>7. IdleInv'
  BY <1>1, <1>3, <1>5, <1>6 DEF OneInv, IdleInv, HomeInv
<1>8. HomeInv'
  BY <1>1, <1>2, <1>3, <1>4 DEF OneInv, HomeInv, TypeInv, TypeOK
<1>9. RunInv'
  <2>1. runs'[b] = Run(e, "preflight") /\ \A d \in Boxes \ {b} : runs'[d] = runs[d]
    BY DEF Reserve, OneInv, TypeInv, TypeOK
  <2>2. \A d \in Boxes \ {b} : active[d] # None => active[d] \in Execs \ {e}
    BY <1>1 DEF OneInv, TypeInv, TypeOK
  <2> QED
    BY <1>4, <1>6, <2>1, <2>2 DEF OneInv, RunInv, Run
<1>10. ExactlyOneTerminal'
  <2> SUFFICES ASSUME NEW f \in Execs, reservation'[f] # None, BoxOf(f)' \notin SharedBoxes
               PROVE  queued'[f] = IF IsCurrent(f)' THEN 0 ELSE 1
    BY DEF ExactlyOneTerminal
  <2>1. CASE f = e
    <3>1. IsCurrent(e)'
      BY <1>2, <1>4 DEF IsCurrent
    <3> QED
      BY <1>1, <1>5, <2>1, <3>1
  <2>2. CASE f # e
    <3>1. BoxOf(f) \in Boxes /\ f # None
      BY <1>3, <2>2, KustoExecutionAssumption
      DEF OneInv, TypeInv, TypeOK, BoxOf, Reservations
    <3>2. queued[f] = IF IsCurrent(f) THEN 0 ELSE 1
      BY <1>3, <2>2 DEF OneInv, ExactlyOneTerminal
    <3>3. f = active[b] => IsCurrent(f) /\ ~IsCurrent(f)'
      BY <1>3, <1>4, <2>2, <3>1 DEF IsCurrent, OneInv, HomeInv
    <3>4. f # active[b] => (IsCurrent(f)' <=> IsCurrent(f))
      BY <1>3, <1>4, <2>2, <3>1 DEF IsCurrent
    <3> QED
      BY <1>5, <3>1, <3>2, <3>3, <3>4
  <2> QED
    BY <2>1, <2>2
<1> QED
  BY <1>7, <1>8, <1>9, <1>10 DEF OneInv

LEMMA OneInit == Init => OneInv
<1> SUFFICES ASSUME Init PROVE OneInv
  OBVIOUS
<1>1. IdleInv /\ HomeInv /\ RunInv /\ ExactlyOneTerminal
  BY DEF Init, IdleInv, HomeInv, RunInv, ExactlyOneTerminal
<1> QED
  BY <1>1, TypeInit DEF OneInv

LEMMA OneStep == OneInv /\ [Next]_vars => OneInv'
<1> SUFFICES ASSUME OneInv, [Next]_vars PROVE OneInv'
  OBVIOUS
<1>t. TypeInv'
  BY TypeStep DEF OneInv
<1>1. CASE UNCHANGED vars
  BY <1>1, <1>t
  DEF vars, coordinatorVars, handlerVars, deliveryVars, OneInv, IdleInv, HomeInv, RunInv,
      ExactlyOneTerminal, BoxOf, IsCurrent, Run
<1>2. CASE Submit
  <2>1. PICK e \in Execs, b \in Boxes, t \in Targets : Reserve(e, b, t) \/ Refuse(e, b, t)
    BY <1>2 DEF Submit
  <2> QED
    BY <1>t, <2>1, ReserveKeeps, RefuseKeeps, EndsKeeps
<1>3. CASE Next /\ ~Submit
  <2>1. \E D : Ends(D)
    BY <1>3, SectionsEnd, HandlerEnd, OthersEnd DEF Next
  <2> QED
    BY <1>t, <2>1, EndsKeeps
<1> QED
  BY <1>1, <1>2, <1>3

(* Whatever the interleaving of handlers, cancellations, revocations and   *)
(* section messages, each reservation that is no longer active has queued  *)
(* exactly one terminal and each active one none, in every section no      *)
(* other engine uses.                                                      *)
THEOREM OneTerminal == Spec => []ExactlyOneTerminal
<1>1. Spec => []OneInv
  BY OneInit, OneStep, PTL DEF Spec
<1> QED
  BY <1>1, PTL DEF OneInv

-----------------------------------------------------------------------------
(* The refinement of SectionSlot, in an editor whose sections no other     *)
(* engine uses.                                                            *)
Home == [e \in Execs |-> IF reservation[e] = None THEN None ELSE BoxOf(e)]

LEMMA EndsIsSlotStep ==
    ASSUME SharedBoxes = {}, OneInv, TypeInv', NEW D, Ends(D)
    PROVE  [Slot!SlotNext]_(Slot!slotVars)
<1>1. UNCHANGED Home
  BY DEF Ends, Home, BoxOf
<1>2. \A e \in D : e \in Execs /\ reservation[e] # None /\ BoxOf(e) \in Boxes
  BY DEF Ends, ActiveExecs, OneInv, HomeInv, TypeInv, TypeOK
<1>3. queued' = [e \in Execs |-> IF e \in D THEN queued[e] + 1 ELSE queued[e]]
  <2>1. \A e \in Execs : queued'[e] = IF e \in D THEN queued[e] + 1 ELSE queued[e]
    BY <1>2 DEF Ends
  <2>2. queued' = [e \in Execs |-> queued'[e]]
    BY DEF TypeInv, TypeOK
  <2> QED
    BY <2>1, <2>2
<1>4. CASE D = {}
  <2>1. active' = active /\ queued' = queued
    BY <1>3, <1>4 DEF Ends, OneInv, TypeInv, TypeOK
  <2> QED
    BY <1>1, <2>1 DEF Slot!slotVars, Home
<1>5. CASE D # {}
  <2>1. Slot!Release(D)
    BY <1>1, <1>3, <1>5 DEF Slot!Release, Slot!Answer, Slot!Holders, Home, Ends, ActiveExecs
  <2> QED
    BY <1>2, <2>1 DEF Slot!SlotNext
<1> QED
  BY <1>4, <1>5

LEMMA SubmitIsSlotStep ==
    ASSUME SharedBoxes = {}, OneInv, TypeInv', NEW e \in Execs, NEW b \in Boxes,
           NEW t \in Targets, Reserve(e, b, t) \/ Refuse(e, b, t)
    PROVE  [Slot!SlotNext]_(Slot!slotVars)
<1>1. reservation[e] = None /\ queued[e] = 0 /\ Home[e] = None
  BY DEF Reserve, Refuse, OneInv, IdleInv, Home
<1>2. CASE Reserve(e, b, t)
  <2>1. Home' = [Home EXCEPT ![e] = b]
    <3>1. reservation'[e] # None /\ BoxOf(e)' = b
      <4> DEFINE r == [box |-> b, instance |-> t.instance, gen |-> t.gen, conn |-> t.conn,
                       owner |-> lifecycle[b].owner, seq |-> sequence + 1]
      <4>1. reservation'[e] = r
        BY <1>2 DEF Reserve, OneInv, TypeInv, TypeOK
      <4>2. reservation'[e] # None
        BY <1>1, <1>2, <4>1, NoneIsNoRecord
        DEF Reserve, MayReserve, IsCurrentOwner, OneInv, TypeInv, TypeOK, Targets, Reservations
      <4> QED
        BY <4>1, <4>2 DEF BoxOf
    <3>2. \A f \in Execs \ {e} : reservation'[f] = reservation[f]
      BY <1>2 DEF Reserve, OneInv, TypeInv, TypeOK
    <3> QED
      BY <3>1, <3>2 DEF Home, BoxOf
  <2>2. active' = [active EXCEPT ![b] = e]
    BY <1>2 DEF Reserve
  <2>3. queued' = [f \in Execs |-> IF f \in {active[b]} \ {None} THEN queued[f] + 1 ELSE queued[f]]
    BY <1>2 DEF Reserve, Queue
  <2>4. Slot!Take(e, b)
    BY <1>1, <2>1, <2>2, <2>3 DEF Slot!Take, Slot!Answer, Home
  <2> QED
    BY <2>4 DEF Slot!SlotNext
<1>3. CASE Refuse(e, b, t)
  <2>1. UNCHANGED <<active, Home>>
    BY <1>3 DEF Refuse, Home, BoxOf
  <2>2. CASE queued' = queued
    BY <2>1, <2>2 DEF Slot!slotVars, Home
  <2>3. CASE queued' = [f \in Execs |-> IF f \in {e} THEN queued[f] + 1 ELSE queued[f]]
    <3>1. Slot!Refuse(e)
      BY <1>1, <2>1, <2>3 DEF Slot!Refuse, Slot!Answer, Home
    <3> QED
      BY <3>1 DEF Slot!SlotNext
  <2> QED
    BY <1>3, <2>2, <2>3 DEF Refuse, Queue
<1> QED
  BY <1>2, <1>3

(* Every behaviour of the coordinator is, seen through who holds each      *)
(* section and how often each execution was answered, a behaviour of the   *)
(* abstract slot - for any number of sections and executions.              *)
THEOREM CoordinatorIsSlot ==
    ASSUME SharedBoxes = {}
    PROVE  Spec => ImplementsSlot
<1>1. Init => Slot!SlotInit
  BY DEF Init, Slot!SlotInit
<1>2. OneInv /\ TypeInv' /\ [Next]_vars => [Slot!SlotNext]_(Slot!slotVars)
  <2> SUFFICES ASSUME OneInv, TypeInv', [Next]_vars
               PROVE  [Slot!SlotNext]_(Slot!slotVars)
    OBVIOUS
  <2>1. CASE UNCHANGED vars
    BY <2>1 DEF vars, coordinatorVars, deliveryVars, Slot!slotVars, BoxOf
  <2>2. CASE Submit
    <3>1. PICK e \in Execs, b \in Boxes, t \in Targets : Reserve(e, b, t) \/ Refuse(e, b, t)
      BY <2>2 DEF Submit
    <3> QED
      BY <3>1, SubmitIsSlotStep
  <2>3. CASE Next /\ ~Submit
    <3>1. PICK D : Ends(D)
      BY <2>3, SectionsEnd, HandlerEnd, OthersEnd DEF Next
    <3> QED
      BY <3>1, EndsIsSlotStep
  <2> QED
    BY <2>1, <2>2, <2>3
<1>3. Spec => []OneInv
  BY OneInit, OneStep, PTL DEF Spec
<1>4. OneInv => TypeInv
  BY DEF OneInv
<1> QED
  BY <1>1, <1>2, <1>3, <1>4, PTL DEF Spec, ImplementsSlot, Slot!SlotSpec

-----------------------------------------------------------------------------
(* What is reached, told and published. *)

(* A query that runs is awaited by its handler; in a section no other       *)
(* engine uses it is the active execution's and owns the registry entry.   *)
OpenInv ==
    \A e \in Execs : transport[e] = "open" =>
        /\ stage[e] = "running"
        /\ BoxOf(e) \notin SharedBoxes => IsCurrent(e) /\ OwnsRun(e)

(* What all steps but a reservation and a start do: whoever still runs ran  *)
(* before and keeps its section and its registry entry.                    *)
Reached ==
    \A e \in Execs : transport'[e] = "open" =>
        /\ transport[e] = "open" /\ stage'[e] = "running"
        /\ BoxOf(e) \notin SharedBoxes =>
              active'[BoxOf(e)] = active[BoxOf(e)] /\ runs'[BoxOf(e)] = runs[BoxOf(e)]

LEMMA ReachedKeeps ==
    ASSUME OpenInv, Reached, reservation' = reservation
    PROVE  OpenInv'
BY DEF OpenInv, Reached, IsCurrent, OwnsRun, BoxOf

(* Nobody's query starts, and sections and registry stay as they are. *)
LEMMA StillReached ==
    ASSUME OpenInv, UNCHANGED <<active, runs>>,
           \A e \in Execs : transport'[e] = "open" => transport[e] = "open",
           \A e \in Execs : transport'[e] = "open" => stage'[e] = stage[e]
    PROVE  Reached
BY DEF OpenInv, Reached

(* Retirement cancels what it drops: an active execution of an unshared     *)
(* section that runs owns its registry entry.                              *)
LEMMA RetireReaches ==
    ASSUME TypeInv, OpenInv, NEW S, Retire(S),
           \A e \in Execs : transport'[e] = "open" => stage'[e] = stage[e]
    PROVE  Reached
<1> SUFFICES ASSUME NEW e \in Execs, transport'[e] = "open"
             PROVE  /\ transport[e] = "open" /\ stage'[e] = "running"
                    /\ BoxOf(e) \notin SharedBoxes =>
                          active'[BoxOf(e)] = active[BoxOf(e)] /\ runs'[BoxOf(e)] = runs[BoxOf(e)]
  BY DEF Reached
<1>1. transport[e] = "open" /\ ~(e \in S /\ OwnsRun(e))
  BY DEF Retire, Cancelled, TypeInv, TypeOK
<1>2. stage'[e] = "running"
  BY <1>1 DEF OpenInv
<1>3. ASSUME BoxOf(e) \notin SharedBoxes
      PROVE  active'[BoxOf(e)] = active[BoxOf(e)] /\ runs'[BoxOf(e)] = runs[BoxOf(e)]
  <2>1. IsCurrent(e) /\ OwnsRun(e) /\ e \notin S
    BY <1>1, <1>3 DEF OpenInv
  <2>2. BoxOf(e) \in Boxes
    BY <2>1 DEF IsCurrent, BoxOf, TypeInv, TypeOK, Reservations
  <2>3. \A f \in S : BoxOf(f) = BoxOf(e) => ~OwnsRun(f)
    BY <2>1 DEF OwnsRun
  <2> QED
    BY <2>1, <2>2, <2>3 DEF Retire, Drop, IsCurrent
<1> QED
  BY <1>1, <1>2, <1>3

(* An execution that is not running a query fails, or releases its entry.   *)
LEMMA FailReaches ==
    ASSUME TypeInv, OpenInv, NEW e \in Execs, transport[e] # "open",
           (Fail(e) /\ IsCurrent(e)) \/ (runs' = Released(e) /\ UNCHANGED active),
           transport' = transport,
           \A f \in Execs \ {e} : stage'[f] = stage[f]
    PROVE  Reached
<1> SUFFICES ASSUME NEW f \in Execs, transport[f] = "open", BoxOf(f) \notin SharedBoxes
             PROVE  active'[BoxOf(f)] = active[BoxOf(f)] /\ runs'[BoxOf(f)] = runs[BoxOf(f)]
  BY DEF Reached, OpenInv
<1>1. IsCurrent(f) /\ OwnsRun(f) /\ f # e
  BY DEF OpenInv
<1>2. BoxOf(f) \in Boxes
  BY <1>1 DEF IsCurrent, BoxOf, TypeInv, TypeOK, Reservations
<1>3. CASE Fail(e) /\ IsCurrent(e)
  <2>1. BoxOf(f) # BoxOf(e)
    BY <1>1, <1>3 DEF IsCurrent
  <2> QED
    BY <1>2, <1>3, <2>1 DEF Fail, TypeInv, TypeOK
<1>4. CASE runs' = Released(e) /\ UNCHANGED active
  <2>1. ~(BoxOf(f) = BoxOf(e) /\ OwnsRun(e))
    BY <1>1 DEF OwnsRun
  <2> QED
    BY <1>2, <1>4, <2>1 DEF Released, TypeInv, TypeOK
<1> QED
  BY <1>3, <1>4

(* The handler of an execution acts on its own stage only.                  *)
LEMMA OwnStage ==
    ASSUME TypeInv, NEW e \in Execs
    PROVE  /\ \A s : Return(e, s) => \A f \in Execs \ {e} : stage'[f] = stage[f]
           /\ \A s : stage' = [stage EXCEPT ![e] = s] => \A f \in Execs \ {e} : stage'[f] = stage[f]
BY DEF Return, TypeInv, TypeOK

(* Where the handler of e stands where no query of e runs, its return, its  *)
(* retirement and its failure leave the queries of the others alone.       *)
LEMMA EndReaches ==
    ASSUME TypeInv, OpenInv, NEW e \in Execs, transport[e] # "open",
           \A f \in Execs \ {e} : stage'[f] = stage[f]
    PROVE  /\ CancelExpected(e) => Reached
           /\ FailIfCurrent(e) /\ transport' = transport => Reached
           /\ runs' = Released(e) /\ UNCHANGED <<active, transport>> => Reached
           /\ UNCHANGED <<active, runs, transport>> => Reached
<1>1. CASE CancelExpected(e)
  <2>1. transport'[e] # "open"
    BY <1>1 DEF CancelExpected, Retire, Cancelled, TypeInv, TypeOK
  <2> QED
    BY <1>1, <2>1, RetireReaches DEF CancelExpected
<1>2. CASE FailIfCurrent(e) /\ transport' = transport
  BY <1>2, FailReaches, StillReached DEF FailIfCurrent
<1>3. CASE runs' = Released(e) /\ UNCHANGED <<active, transport>>
  BY <1>3, FailReaches
<1>4. CASE UNCHANGED <<active, runs, transport>>
  BY <1>4, StillReached
<1> QED
  BY <1>1, <1>2, <1>3, <1>4

LEMMA HandlerReaches ==
    ASSUME TypeInv, OpenInv, NEW e \in Execs, Handler(e), ~StartTransport(e)
    PROVE  Reached
<1>s. \A f \in Execs \ {e} : stage'[f] = stage[f]
  BY OwnStage DEF Handler, ClaimAnswered, SelectionSaved, ConnectionMissing, StartRefused, StartThrows,
     StartDisplaced, QueryResolved, QueryCancelled, QueryFailed, AccountRefreshed, ConnectionsRefreshed,
     Admit, AdmitLockTimeout, FailOrSupersede, Supersede, Discard
<1>o. transport[e] # "open"
  BY DEF OpenInv, Handler, ClaimAnswered, SelectionSaved, ConnectionMissing, StartRefused, StartThrows,
     MayStart, StartDisplaced, QueryResolved, QueryCancelled, QueryFailed, AccountRefreshed,
     ConnectionsRefreshed, Admit, AdmitLockTimeout
<1>1. CASE \E accepted \in BOOLEAN : ClaimAnswered(e, accepted)
  BY <1>1, <1>s, <1>o, EndReaches DEF ClaimAnswered
<1>2. CASE \E ok \in BOOLEAN : SelectionSaved(e, ok)
  BY <1>2, <1>s, <1>o, EndReaches DEF SelectionSaved
<1>3. CASE ConnectionMissing(e) \/ StartRefused(e)
  BY <1>3, <1>s, <1>o, EndReaches DEF ConnectionMissing, StartRefused
<1>4. CASE StartThrows(e)
  BY <1>4, <1>s, <1>o, FailReaches DEF StartThrows, MayStart
<1>5. CASE StartDisplaced(e)
  <2> SUFFICES ASSUME NEW f \in Execs, transport'[f] = "open"
               PROVE  /\ transport[f] = "open" /\ stage'[f] = "running"
                      /\ BoxOf(f) \notin SharedBoxes =>
                            active'[BoxOf(f)] = active[BoxOf(f)] /\ runs'[BoxOf(f)] = runs[BoxOf(f)]
    BY DEF Reached
  <2>1. f # e /\ transport[f] = "open" /\ stage'[f] = "running"
    BY <1>5, <1>s DEF StartDisplaced, OpenInv, TypeInv, TypeOK
  <2>2. BoxOf(f) \notin SharedBoxes => active'[BoxOf(f)] = active[BoxOf(f)]
    BY <1>5, <2>1 DEF StartDisplaced, MayStart, OpenInv, IsCurrent, TypeInv, TypeOK
  <2> QED
    BY <1>5, <2>1, <2>2 DEF StartDisplaced
<1>6. CASE QueryResolved(e) \/ QueryCancelled(e) \/ AccountRefreshed(e)
  BY <1>6, <1>s, <1>o, EndReaches DEF QueryResolved, QueryCancelled, AccountRefreshed, Supersede
<1>7. CASE QueryFailed(e) \/ AdmitLockTimeout(e)
  <2>1. FailOrSupersede(e)
    BY <1>7 DEF QueryFailed, AdmitLockTimeout
  <2> QED
    BY <2>1, <1>s, <1>o, EndReaches, FailReaches DEF FailOrSupersede, Supersede
<1>8. CASE ConnectionsRefreshed(e) \/ (Admit(e) /\ ~MayPublish(e))
  BY <1>8, <1>s, <1>o, EndReaches DEF ConnectionsRefreshed, Admit, Discard
<1>9. CASE Admit(e) /\ MayPublish(e)
  <2> SUFFICES ASSUME NEW f \in Execs, transport[f] = "open", BoxOf(f) \notin SharedBoxes
               PROVE  active'[BoxOf(f)] = active[BoxOf(f)] /\ runs'[BoxOf(f)] = runs[BoxOf(f)]
    BY <1>s, <1>o, <1>9 DEF Reached, OpenInv, Admit
  <2>1. IsCurrent(f) /\ OwnsRun(f) /\ f # e /\ IsCurrent(e)
    BY <1>o, <1>9 DEF OpenInv, MayPublish, IsAdmissible
  <2>2. BoxOf(f) # BoxOf(e) /\ BoxOf(f) \in Boxes
    BY <2>1 DEF IsCurrent, BoxOf, TypeInv, TypeOK, Reservations
  <2> QED
    BY <1>9, <2>2 DEF Admit, Released, TypeInv, TypeOK
<1> QED
  BY <1>1, <1>2, <1>3, <1>4, <1>5, <1>6, <1>7, <1>8, <1>9 DEF Handler

LEMMA OthersReach ==
    ASSUME TypeInv, OpenInv,
           \/ Sections \/ Deliveries \/ Services \/ Dispose
           \/ \E e \in Execs : Transport(e) \/ CancelQuery(e)
    PROVE  Reached
<1> USE DEF handlerVars, coordinatorVars, deliveryVars
<1>1. ASSUME NEW b \in Boxes, NEW i \in Instances,
             \/ OpenSection(b, i)
             \/ \E g \in 1 .. MaxGen, c \in Conns \cup {None} : AdoptTarget(b, i, g, c)
      PROVE  Reached
  BY <1>1, RetireReaches DEF OpenSection, AdoptTarget, RetireBox
<1>2. ASSUME NEW b \in Boxes, CloseSection(b)
      PROVE  Reached
  BY <1>2, RetireReaches DEF CloseSection, RetireBox
<1>3. ASSUME NEW b \in Boxes, ForeignRegister(b) \/ ForeignUnregister(b)
      PROVE  Reached
  <2>1. UNCHANGED <<active, transport, stage>>
    BY <1>3 DEF ForeignRegister, ForeignUnregister
  <2>2. ASSUME NEW e \in Execs, transport[e] = "open", BoxOf(e) \notin SharedBoxes
        PROVE  runs'[BoxOf(e)] = runs[BoxOf(e)]
    <3>1. OwnsRun(e) /\ BoxOf(e) \in Boxes /\ runs[BoxOf(e)].exec # Foreign
      BY <2>2, KustoExecutionAssumption
      DEF OpenInv, OwnsRun, IsCurrent, BoxOf, TypeInv, TypeOK, Reservations
    <3>2. CASE ForeignRegister(b)
      BY <2>2, <3>1, <3>2 DEF ForeignRegister, TypeInv, TypeOK
    <3>3. CASE ForeignUnregister(b)
      <4>1. b # BoxOf(e)
        BY <3>1, <3>3 DEF ForeignUnregister, Run
      <4> QED
        BY <3>1, <3>3, <4>1 DEF ForeignUnregister, TypeInv, TypeOK
    <3> QED
      BY <1>3, <3>2, <3>3
  <2> QED
    BY <2>1, <2>2 DEF Reached, OpenInv
<1>4. ASSUME NEW m \in outbox, NEW ok \in BOOLEAN, Deliver(m, ok)
      PROVE  Reached
  <2>1. m.exec \in Execs
    BY DEF TypeInv, TypeOK, Terminals
  <2>2. \A e \in Execs : transport[e] = "open" => stage'[e] = stage[e]
    BY <1>4, <2>1, OwnStage DEF Deliver, OpenInv
  <2> QED
    BY <1>4, <2>2, StillReached DEF Deliver
<1>5. ASSUME NEW n \in notices, NoticeDelivered(n)
      PROVE  Reached
  BY <1>5, RetireReaches DEF NoticeDelivered
<1>6. ASSUME NEW c \in Conns,
             UpdateConnection(c) \/ RemoveConnection(c) \/ ChangeAccount(c) \/ ChangePolicy(c)
      PROVE  Reached
  BY <1>6, StillReached DEF UpdateConnection, RemoveConnection, ChangeAccount, ChangePolicy
<1>7. CASE Dispose
  <2>1. \A e \in Execs : transport'[e] = "open" =>
           transport[e] = "open" /\ ~(e \in ActiveExecs /\ OwnsRun(e))
    BY <1>7 DEF Dispose, Cancelled, TypeInv, TypeOK
  <2>2. \A e \in Execs : IsCurrent(e) => e \in ActiveExecs
    BY KustoExecutionAssumption DEF IsCurrent, ActiveExecs, BoxOf, TypeInv, TypeOK, Reservations
  <2> QED
    BY <1>7, <2>1, <2>2 DEF Dispose, Reached, OpenInv
<1>8. ASSUME NEW e \in Execs, NEW a, Dispatch(e, a)
      PROVE  Reached
  <2>1. CASE IsCurrent(e) /\ IsCurrentOwner(ConnOf(e), reservation[e].owner)
    BY <1>8, <2>1, StillReached DEF Dispatch
  <2>2. CASE ~(IsCurrent(e) /\ IsCurrentOwner(ConnOf(e), reservation[e].owner))
    <3> DEFINE S == IfCurrent(e)
    <3>1. Drop(S) /\ transport' = [Cancelled(S) EXCEPT ![e] = IF @ = "open" THEN "failed" ELSE @]
          /\ UNCHANGED stage
      BY <1>8, <2>2 DEF Dispatch
    <3> SUFFICES ASSUME NEW f \in Execs, transport'[f] = "open"
                 PROVE  /\ transport[f] = "open" /\ stage'[f] = "running"
                        /\ BoxOf(f) \notin SharedBoxes =>
                              active'[BoxOf(f)] = active[BoxOf(f)] /\ runs'[BoxOf(f)] = runs[BoxOf(f)]
      BY DEF Reached
    <3>2. f # e /\ f \notin S /\ transport[f] = "open"
      BY <3>1 DEF IfCurrent, Cancelled, TypeInv, TypeOK
    <3>3. ASSUME BoxOf(f) \notin SharedBoxes
          PROVE  active'[BoxOf(f)] = active[BoxOf(f)] /\ runs'[BoxOf(f)] = runs[BoxOf(f)]
      <4>1. IsCurrent(f) /\ OwnsRun(f) /\ BoxOf(f) \in Boxes
        BY <3>2, <3>3 DEF OpenInv, IsCurrent, BoxOf, TypeInv, TypeOK, Reservations
      <4>2. \A g \in S : BoxOf(g) = BoxOf(f) => ~OwnsRun(g)
        BY <3>2, <4>1 DEF OwnsRun, IfCurrent
      <4> HIDE DEF S
      <4> QED
        BY <3>1, <3>2, <4>1, <4>2 DEF Drop, IsCurrent
    <3> QED
      BY <3>1, <3>2, <3>3 DEF OpenInv
  <2> QED
    BY <2>1, <2>2
<1>9. ASSUME NEW e \in Execs, NEW outcome \in {"resolved", "failed", "cancelled"},
             TransportSettles(e, outcome)
      PROVE  Reached
  <2>1. \A f \in Execs : transport'[f] = "open" => transport[f] = "open"
    BY <1>9 DEF TransportSettles, TypeInv, TypeOK
  <2> QED
    BY <1>9, <2>1, StillReached DEF TransportSettles
<1>10. ASSUME NEW e \in Execs, CancelQuery(e)
      PROVE  Reached
  BY <1>10, RetireReaches DEF CancelQuery
<1> QED
  BY <1>1, <1>2, <1>3, <1>4, <1>5, <1>6, <1>7, <1>8, <1>9, <1>10
  DEF Sections, Deliveries, Services, Transport

LEMMA StartTransportReaches ==
    ASSUME TypeInv, OpenInv, NEW e \in Execs, StartTransport(e)
    PROVE  OpenInv'
<1>1. /\ IsCurrent(e) /\ BoxOf(e) \in Boxes
      /\ runs[BoxOf(e)] = Run(e, "preflight")
      /\ runs' = [runs EXCEPT ![BoxOf(e)] = Run(e, "transport")]
      /\ transport' = [transport EXCEPT ![e] = "open"]
      /\ stage' = [stage EXCEPT ![e] = "running"]
      /\ UNCHANGED <<reservation, active>>
  BY DEF StartTransport, MayStart, IsCurrent, BoxOf, coordinatorVars, TypeInv, TypeOK, Reservations
<1>2. ASSUME NEW f \in Execs, transport'[f] = "open"
      PROVE  /\ stage'[f] = "running"
             /\ BoxOf(f) \notin SharedBoxes => IsCurrent(f)' /\ OwnsRun(f)'
  <2>1. CASE f = e
    <3>1. stage'[f] = "running" /\ IsCurrent(f)'
      BY <1>1, <2>1 DEF IsCurrent, BoxOf, TypeInv, TypeOK
    <3>2. runs'[BoxOf(f)].exec = e /\ runs'[BoxOf(f)] # None
      <4>1. runs'[BoxOf(f)] = Run(e, "transport")
        BY <1>1, <2>1 DEF TypeInv, TypeOK
      <4>2. Run(e, "transport") \in Runs /\ Run(e, "transport").exec = e
        BY DEF Run, Runs
      <4> QED
        BY <4>1, <4>2, NoneIsNoRecord
    <3> QED
      BY <1>1, <2>1, <3>1, <3>2 DEF OwnsRun, BoxOf
  <2>2. CASE f # e
    <3>1. transport[f] = "open" /\ stage'[f] = "running"
      BY <1>1, <1>2, <2>2 DEF OpenInv, TypeInv, TypeOK
    <3>2. ASSUME BoxOf(f) \notin SharedBoxes
          PROVE  IsCurrent(f)' /\ OwnsRun(f)'
      <4>1. IsCurrent(f) /\ OwnsRun(f)
        BY <3>1, <3>2 DEF OpenInv
      <4>2. BoxOf(f) # BoxOf(e)
        BY <1>1, <2>2, <4>1 DEF OwnsRun, Run
      <4> QED
        BY <1>1, <4>1, <4>2 DEF IsCurrent, OwnsRun, BoxOf, TypeInv, TypeOK
    <3> QED
      BY <3>1, <3>2
  <2> QED
    BY <2>1, <2>2
<1> QED
  BY <1>1, <1>2 DEF OpenInv, BoxOf

(* A reservation takes the section of whoever had it and cancels its query. *)
LEMMA ReserveReaches ==
    ASSUME OneInv, OpenInv, NEW e \in Execs, NEW b \in Boxes, NEW t \in Targets, Reserve(e, b, t)
    PROVE  OpenInv'
<1> DEFINE S == {active[b]} \ {None}
<1> USE DEF OneInv
<1>1. /\ stage[e] = "idle" /\ reservation[e] = None
      /\ active' = [active EXCEPT ![b] = e] /\ runs' = [runs EXCEPT ![b] = Run(e, "preflight")]
      /\ transport' = Cancelled(S)
      /\ \A f \in Execs \ {e} : stage'[f] = stage[f] /\ reservation'[f] = reservation[f]
  BY DEF Reserve, IdleInv, TypeInv, TypeOK
<1>2. ASSUME NEW f \in Execs, transport'[f] = "open"
      PROVE  /\ stage'[f] = "running"
             /\ BoxOf(f)' \notin SharedBoxes => IsCurrent(f)' /\ OwnsRun(f)'
  <2>1. transport[f] = "open" /\ ~(f \in S /\ OwnsRun(f)) /\ f # e
    BY <1>1, <1>2 DEF Cancelled, OpenInv, TypeInv, TypeOK
  <2>2. stage'[f] = "running" /\ BoxOf(f)' = BoxOf(f)
    BY <1>1, <2>1 DEF OpenInv, BoxOf
  <2>3. ASSUME BoxOf(f) \notin SharedBoxes
        PROVE  IsCurrent(f)' /\ OwnsRun(f)'
    <3>1. IsCurrent(f) /\ OwnsRun(f)
      BY <2>1, <2>3 DEF OpenInv
    <3>2. BoxOf(f) # b
      BY <2>1, <3>1, KustoExecutionAssumption DEF IsCurrent
    <3> QED
      BY <1>1, <2>1, <2>2, <3>1, <3>2 DEF IsCurrent, OwnsRun, BoxOf, TypeInv, TypeOK
  <2> QED
    BY <2>2, <2>3
<1> QED
  BY <1>2 DEF OpenInv

LEMMA OpenStep == OneInv /\ OpenInv /\ [Next]_vars => OpenInv'
<1> SUFFICES ASSUME OneInv, OpenInv, [Next]_vars
             PROVE  OpenInv'
  OBVIOUS
<1> USE DEF OneInv
<1>1. CASE UNCHANGED vars
  BY <1>1 DEF vars, coordinatorVars, handlerVars, OpenInv, IsCurrent, OwnsRun, BoxOf
<1>2. CASE Submit
  <2> SUFFICES ASSUME NEW e \in Execs, NEW b \in Boxes, NEW t \in Targets,
                      Reserve(e, b, t) \/ Refuse(e, b, t)
               PROVE  OpenInv'
    BY <1>2 DEF Submit
  <2>1. CASE Refuse(e, b, t)
    <3>1. \A f \in Execs : transport[f] = "open" => stage'[f] = stage[f]
      BY <2>1 DEF Refuse, OpenInv, TypeInv, TypeOK
    <3> QED
      BY <2>1, <3>1, StillReached, ReachedKeeps DEF Refuse
  <2> QED
    BY <2>1, ReserveReaches
<1>3. ASSUME NEW e \in Execs, StartTransport(e)
      PROVE  OpenInv'
  BY <1>3, StartTransportReaches
<1>4. CASE Sections \/ Deliveries \/ Services \/ Dispose
           \/ \E e \in Execs : Transport(e) \/ CancelQuery(e)
  <2>1. reservation' = reservation
    BY <1>4, OthersEnd, SectionsEnd DEF Ends
  <2> QED
    BY <1>4, <2>1, OthersReach, ReachedKeeps
<1>5. ASSUME NEW e \in Execs, Handler(e), ~StartTransport(e)
      PROVE  OpenInv'
  <2>1. reservation' = reservation
    BY <1>5, HandlerEnd DEF Ends
  <2> QED
    BY <1>5, <2>1, HandlerReaches, ReachedKeeps
<1> QED
  BY <1>1, <1>2, <1>3, <1>4, <1>5 DEF Next

(* Superseding, cancelling, closing, retargeting, revoking and disposing    *)
(* all reach the query through the registry: in a section no other engine  *)
(* uses, a query that still runs on the cluster is the active execution's. *)
THEOREM QueriesAreReached == Spec => []NoOrphanTransport
<1>1. Init => OneInv /\ OpenInv
  BY OneInit DEF Init, OpenInv
<1>2. OneInv /\ OpenInv /\ [Next]_vars => (OneInv /\ OpenInv)'
  BY OneStep, OpenStep
<1>3. OneInv /\ OpenInv => NoOrphanTransport
  BY DEF OpenInv, NoOrphanTransport
<1> QED
  BY <1>1, <1>2, <1>3, PTL DEF Spec

-----------------------------------------------------------------------------
(* What is told of an execution.  Its terminals form one chain, begun when  *)
(* it loses its section or its reservation is refused: at most one of them *)
(* is on its way, a result only while its handler awaits it and the policy *)
(* lock is held for it.                                                    *)
ChainInv ==
    /\ \A m \in outbox : queued[m.exec] = 1
    /\ \A m, n \in outbox : m.exec = n.exec => m = n
    /\ \A m \in outbox : m.kind = "result" => m.attempt = 1 /\ stage[m.exec] = "publishing"

LockInv ==
    \A e \in Execs : stage[e] = "publishing" =>
        /\ lock = e /\ reservation[e] # None
        /\ policy[ConnOf(e)] = dispatch[e].policy

AppliedInv ==
    /\ SuccessMeansApplied
    /\ \A e \in Execs : "result" \in applied[e] => stage[e] = "done"

AnswerInv == AtMostOneTerminal /\ ChainInv /\ LockInv /\ AppliedInv

(* What all steps but a publication and a delivery do: the executions of D, *)
(* told nothing so far, are told and have no section any more, nobody else *)
(* is told; a handler may move on or return, without success; the policy   *)
(* changes only while nobody holds its lock.                               *)
Moves ==
    \A e \in Execs :
        \/ stage'[e] = stage[e] /\ status'[e] = status[e]
        \/ /\ stage[e] \notin {"publishing", "done"} /\ stage'[e] # "publishing"
           /\ stage'[e] = "done" => status'[e] # "success"

Calm(D, k) ==
    /\ k # "result" /\ Queue(D, k)
    /\ \A e \in D : e \in Execs /\ queued[e] = 0 /\ ~IsCurrent(e)'
    /\ \A e \in Execs : IsCurrent(e)' => queued[e] = 0
    /\ Moves
    /\ UNCHANGED <<applied, lock>>
    /\ \A e \in Execs : stage[e] = "publishing" =>
           /\ reservation'[e] = reservation[e] /\ dispatch'[e] = dispatch[e]
           /\ policy' = policy \/ lock = None

LEMMA CalmKeeps ==
    ASSUME TypeInv, TypeInv', AnswerInv, NEW D, NEW k, Calm(D, k)
    PROVE  AnswerInv'
<1> USE DEF AnswerInv
<1>1. \A e \in Execs : queued'[e] = IF e \in D THEN queued[e] + 1 ELSE queued[e]
  BY DEF Calm, Queue
<1>2. \A e \in D : e \in Execs /\ queued[e] = 0 /\ ~IsCurrent(e)'
  BY DEF Calm, AtMostOneTerminal
<1>3. AtMostOneTerminal'
  BY <1>1, <1>2 DEF Calm, AtMostOneTerminal
<1>4. \A m \in outbox : m.exec \in Execs /\ m.exec \notin D
  BY <1>2 DEF ChainInv, TypeInv, TypeOK, Terminals
<1>5. \A m \in outbox' : m \in outbox \/ \E e \in D : m = Terminal(e, k, 1)
  BY DEF Calm, Queue
<1>6. ChainInv'
  <2>1. \A m \in outbox' : queued'[m.exec] = 1
    BY <1>1, <1>2, <1>4, <1>5 DEF ChainInv, Terminal
  <2>2. \A m, n \in outbox' : m.exec = n.exec => m = n
    BY <1>4, <1>5 DEF ChainInv, Terminal
  <2>3. \A m \in outbox' : m.kind = "result" => m.attempt = 1 /\ stage'[m.exec] = "publishing"
    BY <1>4, <1>5 DEF ChainInv, Terminal, Calm, Moves
  <2> QED
    BY <2>1, <2>2, <2>3 DEF ChainInv
<1>7. LockInv'
  <2> SUFFICES ASSUME NEW e \in Execs, stage'[e] = "publishing"
               PROVE  /\ lock' = e /\ reservation'[e] # None
                      /\ policy'[ConnOf(e)'] = dispatch'[e].policy
    BY DEF LockInv
  <2>1. stage[e] = "publishing" /\ lock = e /\ lock # None
    BY KustoExecutionAssumption DEF Calm, Moves, LockInv
  <2> QED
    BY <2>1 DEF Calm, LockInv, ConnOf
<1>8. AppliedInv'
  BY DEF Calm, Moves, AppliedInv, SuccessMeansApplied
<1> QED
  BY <1>3, <1>6, <1>7, <1>8

(* Nobody is told anything.                                                 *)
LEMMA NobodyTold ==
    ASSUME TypeInv, UNCHANGED <<outbox, queued>>
    PROVE  Queue({}, "cancelled")
BY DEF Queue, TypeInv, TypeOK

(* Who may lose a section: the active executions.                           *)
LEMMA LosesSection ==
    ASSUME OneInv, reservation' = reservation, NEW S, S \subseteq ActiveExecs,
           active' = [b \in Boxes |-> IF active[b] \in S THEN None ELSE active[b]]
    PROVE  /\ \A e \in S : e \in Execs /\ IsCurrent(e) /\ ~IsCurrent(e)'
           /\ \A e \in Execs : IsCurrent(e)' => IsCurrent(e)
<1> USE DEF OneInv
<1>1. \A e \in S : e \in Execs /\ reservation[e] # None /\ BoxOf(e) \in Boxes /\ e # None
                   /\ active[BoxOf(e)] = e
  BY DEF ActiveExecs, HomeInv, TypeInv, TypeOK
<1>2. \A e \in Execs : IsCurrent(e) => BoxOf(e) \in Boxes
  BY DEF IsCurrent, BoxOf, TypeInv, TypeOK, Reservations
<1>3. \A e \in Execs : reservation[e] # None => BoxOf(e) \in Boxes
  BY DEF BoxOf, TypeInv, TypeOK, Reservations
<1> QED
  BY <1>1, <1>2, <1>3, KustoExecutionAssumption DEF IsCurrent, BoxOf

Aside ==
    /\ UNCHANGED <<reservation, applied, lock>> /\ Moves
    /\ \A e \in Execs : stage[e] = "publishing" => dispatch'[e] = dispatch[e]
    /\ policy' = policy \/ lock = None

LEMMA CalmSteps ==
    ASSUME OneInv, AtMostOneTerminal, Aside
    PROVE  /\ \A S \in SUBSET ActiveExecs : Drop(S) => Calm(S, "cancelled")
           /\ \A e \in Execs : Fail(e) /\ IsCurrent(e) => Calm({e}, "error")
           /\ UNCHANGED <<active, outbox, queued>> => Calm({}, "cancelled")
<1>t. TypeInv
  BY DEF OneInv
<1>1. ASSUME NEW S \in SUBSET ActiveExecs, Drop(S)
      PROVE  Calm(S, "cancelled")
  BY <1>1, LosesSection DEF Aside, Calm, Drop, AtMostOneTerminal
<1>2. ASSUME NEW e \in Execs, Fail(e), IsCurrent(e)
      PROVE  Calm({e}, "error")
  <2>1. BoxOf(e) \in Boxes /\ active[BoxOf(e)] = e /\ e # None
    BY <1>2, KustoExecutionAssumption DEF IsCurrent, BoxOf, OneInv, TypeInv, TypeOK, Reservations
  <2>2. \A b \in Boxes : active[b] = e <=> b = BoxOf(e)
    BY <2>1 DEF OneInv, HomeInv
  <2>3. active' = [b \in Boxes |-> IF active[b] \in {e} THEN None ELSE active[b]]
    BY <1>2, <2>1, <2>2 DEF Fail, OneInv, TypeInv, TypeOK
  <2>4. {e} \subseteq ActiveExecs
    BY <2>1 DEF ActiveExecs
  <2> QED
    BY <1>2, <2>3, <2>4, LosesSection DEF Aside, Calm, Fail, AtMostOneTerminal
<1>3. ASSUME UNCHANGED <<active, outbox, queued>>
      PROVE  Calm({}, "cancelled")
  BY <1>t, <1>3, NobodyTold DEF Aside, Calm, IsCurrent, BoxOf, AtMostOneTerminal
<1> QED
  BY <1>1, <1>2, <1>3

(* A handler's step: it moves on or returns, without success. *)
LEMMA HandlerAside ==
    ASSUME TypeInv, NEW e \in Execs, stage[e] \notin {"publishing", "done"},
           UNCHANGED <<reservation, dispatch, applied, lock, policy>>
    PROVE  /\ \A s \in Stages \ {"publishing", "done"} :
                 stage' = [stage EXCEPT ![e] = s] /\ status' = status => Aside
           /\ \A s \in Statuses \ {"success"} : Return(e, s) => Aside
BY DEF Aside, Moves, Return, TypeInv, TypeOK, Statuses

LEMMA StillAside ==
    ASSUME UNCHANGED <<reservation, dispatch, applied, lock, stage, status>>,
           policy' = policy \/ lock = None
    PROVE  Aside
BY DEF Aside, Moves

LEMMA HandlerCalm ==
    ASSUME OneInv, AtMostOneTerminal, NEW e \in Execs, Handler(e), ~(Admit(e) /\ MayPublish(e))
    PROVE  \E D, k : Calm(D, k)
<1> USE DEF handlerVars, coordinatorVars, deliveryVars, serviceVars
<1>t. TypeInv
  BY DEF OneInv
<1>c. IfCurrent(e) \in SUBSET ActiveExecs
  BY IfCurrentActive
<1>m. Aside /\ (CancelExpected(e) \/ FailIfCurrent(e) \/ UNCHANGED <<active, outbox, queued>>)
         => \E D, k : Calm(D, k)
  BY <1>c, CalmSteps DEF CancelExpected, Retire, FailIfCurrent
<1>1. ASSUME NEW accepted \in BOOLEAN, ClaimAnswered(e, accepted)
      PROVE  \E D, k : Calm(D, k)
  <2>1. Aside
    BY <1>1, <1>t, HandlerAside DEF ClaimAnswered, Statuses, Stages
  <2> QED
    BY <1>1, <1>m, <2>1 DEF ClaimAnswered
<1>2. ASSUME NEW ok \in BOOLEAN, SelectionSaved(e, ok)
      PROVE  \E D, k : Calm(D, k)
  <2>1. Aside
    BY <1>2, <1>t, HandlerAside DEF SelectionSaved, Statuses, Stages
  <2> QED
    BY <1>2, <1>m, <2>1 DEF SelectionSaved
<1>3. CASE ConnectionMissing(e) \/ StartRefused(e)
  <2>1. Aside
    BY <1>3, <1>t, HandlerAside DEF ConnectionMissing, StartRefused, Statuses
  <2> QED
    BY <1>3, <1>m, <2>1 DEF ConnectionMissing, StartRefused
<1>4. CASE StartThrows(e)
  <2>1. Aside
    BY <1>4, <1>t, HandlerAside DEF StartThrows, MayStart, Statuses
  <2> QED
    BY <1>4, <2>1, CalmSteps DEF StartThrows, MayStart
<1>5. CASE StartTransport(e)
  <2>1. Aside
    BY <1>5, <1>t, HandlerAside DEF StartTransport, MayStart, Stages
  <2> QED
    BY <1>5, <1>m, <2>1 DEF StartTransport
<1>6. CASE StartDisplaced(e)
  <2>1. Aside
    BY <1>6, <1>t, HandlerAside DEF StartDisplaced, MayStart, Statuses
  <2>2. Queue({}, "cancelled")
    BY <1>6, <1>t, NobodyTold DEF StartDisplaced
  <2>3. \A f \in Execs : IsCurrent(f)' => IsCurrent(f)
    BY <1>6, KustoExecutionAssumption
    DEF StartDisplaced, IsCurrent, BoxOf, OneInv, TypeInv, TypeOK, Reservations
  <2>4. Calm({}, "cancelled")
    BY <2>1, <2>2, <2>3 DEF Aside, Calm, AtMostOneTerminal
  <2> QED
    BY <2>4
<1>7. CASE QueryResolved(e) \/ AccountRefreshed(e)
  <2>1. Aside
    BY <1>7, <1>t, HandlerAside DEF QueryResolved, AccountRefreshed, Supersede, Statuses, Stages
  <2> QED
    BY <1>7, <1>m, <2>1 DEF QueryResolved, AccountRefreshed, Supersede
<1>8. CASE QueryCancelled(e)
  <2>1. Aside
    BY <1>8, <1>t, HandlerAside DEF QueryCancelled, Statuses
  <2> QED
    BY <1>8, <1>m, <2>1 DEF QueryCancelled
<1>9. CASE QueryFailed(e) \/ AdmitLockTimeout(e)
  <2>1. FailOrSupersede(e) /\ stage[e] \notin {"publishing", "done"}
    BY <1>9 DEF QueryFailed, AdmitLockTimeout
  <2>2. Aside
    BY <2>1, <1>t, HandlerAside DEF FailOrSupersede, Supersede, Statuses
  <2> QED
    BY <1>m, <2>1, <2>2, CalmSteps DEF FailOrSupersede, Supersede
<1>10. CASE ConnectionsRefreshed(e) \/ (Admit(e) /\ ~MayPublish(e))
  <2>1. Aside
    BY <1>10, <1>t, HandlerAside DEF ConnectionsRefreshed, Admit, Discard, Statuses, Stages
  <2> QED
    BY <1>10, <1>m, <2>1 DEF ConnectionsRefreshed, Admit, Discard
<1> QED
  BY <1>1, <1>2, <1>3, <1>4, <1>5, <1>6, <1>7, <1>8, <1>9, <1>10 DEF Handler

LEMMA OthersCalm ==
    ASSUME OneInv, AtMostOneTerminal,
           \/ Sections \/ Services \/ Dispose
           \/ \E e \in Execs : Transport(e) \/ CancelQuery(e)
    PROVE  \E D, k : Calm(D, k)
<1> USE DEF handlerVars, coordinatorVars, deliveryVars, serviceVars
<1>b. \A b \in Boxes : {active[b]} \ {None} \in SUBSET ActiveExecs
  BY DEF ActiveExecs
<1>1. ASSUME NEW b \in Boxes, NEW i \in Instances,
             \/ OpenSection(b, i)
             \/ \E g \in 1 .. MaxGen, c \in Conns \cup {None} : AdoptTarget(b, i, g, c)
      PROVE  \E D, k : Calm(D, k)
  <2>1. Aside /\ RetireBox(b)
    BY <1>1, StillAside DEF OpenSection, AdoptTarget
  <2> QED
    BY <1>b, <2>1, CalmSteps DEF RetireBox, Retire
<1>2. ASSUME NEW b \in Boxes, CloseSection(b)
      PROVE  \E D, k : Calm(D, k)
  <2>1. Aside /\ RetireBox(b)
    BY <1>2, StillAside DEF CloseSection
  <2> QED
    BY <1>b, <2>1, CalmSteps DEF RetireBox, Retire
<1>3. ASSUME NEW b \in Boxes, ForeignRegister(b) \/ ForeignUnregister(b)
      PROVE  \E D, k : Calm(D, k)
  BY <1>3, StillAside, CalmSteps DEF ForeignRegister, ForeignUnregister
<1>4. ASSUME NEW n \in notices, NoticeDelivered(n)
      PROVE  \E D, k : Calm(D, k)
  <2>1. OnConnection(n.conn) \ Spared(n) \in SUBSET ActiveExecs
    BY DEF OnConnection
  <2> QED
    BY <1>4, <2>1, StillAside, CalmSteps DEF NoticeDelivered, Retire
<1>5. ASSUME NEW c \in Conns,
             UpdateConnection(c) \/ RemoveConnection(c) \/ ChangeAccount(c) \/ ChangePolicy(c)
      PROVE  \E D, k : Calm(D, k)
  BY <1>5, StillAside, CalmSteps DEF UpdateConnection, RemoveConnection, ChangeAccount, ChangePolicy
<1>6. CASE Dispose
  <2>1. active' = [b \in Boxes |-> IF active[b] \in ActiveExecs THEN None ELSE active[b]]
    BY <1>6 DEF Dispose, ActiveExecs
  <2>2. Aside /\ Queue(ActiveExecs, "cancelled")
    BY <1>6, StillAside DEF Dispose
  <2> QED
    BY <2>1, <2>2, LosesSection DEF Aside, Calm, AtMostOneTerminal
<1>7. ASSUME NEW e \in Execs, NEW a, Dispatch(e, a)
      PROVE  \E D, k : Calm(D, k)
  <2>1. Aside
    BY <1>7 DEF Dispatch, Aside, Moves, OneInv, TypeInv, TypeOK
  <2>2. IfCurrent(e) \in SUBSET ActiveExecs
    BY IfCurrentActive
  <2> QED
    BY <1>7, <2>1, <2>2, CalmSteps DEF Dispatch
<1>8. ASSUME NEW e \in Execs, NEW outcome \in {"resolved", "failed", "cancelled"},
             TransportSettles(e, outcome)
      PROVE  \E D, k : Calm(D, k)
  BY <1>8, StillAside, CalmSteps DEF TransportSettles
<1>9. ASSUME NEW e \in Execs, CancelQuery(e)
      PROVE  \E D, k : Calm(D, k)
  <2>1. {e} \in SUBSET ActiveExecs
    BY <1>9, IfCurrentActive DEF CancelQuery, IfCurrent
  <2> QED
    BY <1>9, <2>1, StillAside, CalmSteps DEF CancelQuery, Retire
<1> QED
  BY <1>1, <1>2, <1>3, <1>4, <1>5, <1>6, <1>7, <1>8, <1>9 DEF Sections, Services, Transport

(* A reservation tells the one it supersedes; a refusal tells the claimed   *)
(* request itself.                                                         *)
LEMMA SubmitCalm ==
    ASSUME OneInv, AnswerInv, NEW e \in Execs, NEW b \in Boxes, NEW t \in Targets,
           Reserve(e, b, t) \/ Refuse(e, b, t)
    PROVE  \E D, k : Calm(D, k)
<1> USE DEF handlerVars, coordinatorVars, deliveryVars, serviceVars
<1>t. TypeInv
  BY DEF OneInv
<1>i. stage[e] = "idle" /\ reservation[e] = None /\ queued[e] = 0
  BY DEF Reserve, Refuse, OneInv, IdleInv
<1>1. CASE Reserve(e, b, t)
  <2> DEFINE S == {active[b]} \ {None}
  <2>1. /\ Queue(S, "cancelled") /\ active' = [active EXCEPT ![b] = e]
        /\ \A f \in Execs \ {e} : reservation'[f] = reservation[f]
        /\ reservation'[e].box = b
    BY <1>1, <1>t DEF Reserve, TypeInv, TypeOK
  <2>2. Moves
    BY <1>1, <1>t, <1>i DEF Reserve, Moves, TypeInv, TypeOK
  <2>3. \A f \in S : f \in Execs /\ f # e /\ f # None /\ IsCurrent(f) /\ BoxOf(f) = b
    BY <1>i, <1>t DEF OneInv, HomeInv, IsCurrent, TypeInv, TypeOK
  <2>4. \A f \in S : f \in Execs /\ queued[f] = 0 /\ ~IsCurrent(f)'
    BY <2>1, <2>3, <1>t DEF AnswerInv, AtMostOneTerminal, IsCurrent, BoxOf, TypeInv, TypeOK
  <2>5. \A f \in Execs : IsCurrent(f)' => queued[f] = 0
    <3> SUFFICES ASSUME NEW f \in Execs, f # e, IsCurrent(f)' PROVE queued[f] = 0
      BY <1>i
    <3>1. reservation'[f] = reservation[f] /\ reservation[f] # None /\ BoxOf(f) \in Boxes
      BY <2>1, <1>t DEF IsCurrent, BoxOf, TypeInv, TypeOK, Reservations
    <3>2. IsCurrent(f)
      BY <2>1, <3>1, <1>t DEF IsCurrent, BoxOf, TypeInv, TypeOK
    <3> QED
      BY <3>2 DEF AnswerInv, AtMostOneTerminal
  <2>6. \A f \in Execs : stage[f] = "publishing" =>
           reservation'[f] = reservation[f] /\ dispatch'[f] = dispatch[f]
    BY <1>1, <1>i, <2>1 DEF Reserve
  <2> HIDE DEF S
  <2>7. Calm(S, "cancelled")
    BY <1>1, <2>1, <2>2, <2>4, <2>5, <2>6 DEF Reserve, Calm
  <2> QED
    BY <2>7
<1>2. CASE Refuse(e, b, t)
  <2>1. Moves
    BY <1>2, <1>t, <1>i DEF Refuse, Return, Moves, TypeInv, TypeOK
  <2>2. \A f \in Execs : IsCurrent(f)' => queued[f] = 0
    BY <1>2 DEF Refuse, IsCurrent, BoxOf, AnswerInv, AtMostOneTerminal
  <2>3. CASE e \in HostStarted
    <3>1. Calm({}, "cancelled")
      BY <1>2, <1>t, <2>1, <2>2, <2>3, NobodyTold DEF Refuse, Calm
    <3> QED
      BY <3>1
  <2>4. CASE e \notin HostStarted
    <3>1. Calm({e}, "cancelled")
      BY <1>2, <1>i, <2>1, <2>2, <2>4 DEF Refuse, Calm, IsCurrent
    <3> QED
      BY <3>1
  <2> QED
    BY <2>3, <2>4
<1> QED
  BY <1>1, <1>2

(* A publication begins: the active execution is told its result, under the *)
(* lock and the policy its query was dispatched with.                      *)
LEMMA PublishKeeps ==
    ASSUME TypeInv, AnswerInv, NEW e \in Execs, Admit(e), MayPublish(e)
    PROVE  AnswerInv'
<1> USE DEF AnswerInv
<1>1. /\ stage[e] = "admitting" /\ IsCurrent(e) /\ queued[e] = 0 /\ lock = None
      /\ policy[ConnOf(e)] = dispatch[e].policy /\ BoxOf(e) \in Boxes
  BY DEF Admit, MayPublish, IsAdmissible, AtMostOneTerminal, IsCurrent, BoxOf, TypeInv, TypeOK, Reservations
<1>2. /\ outbox' = outbox \cup {Terminal(e, "result", 1)}
      /\ queued' = [f \in Execs |-> IF f \in {e} THEN queued[f] + 1 ELSE queued[f]]
      /\ lock' = e /\ stage' = [stage EXCEPT ![e] = "publishing"]
      /\ active' = [active EXCEPT ![BoxOf(e)] = None]
      /\ UNCHANGED <<reservation, dispatch, status, applied, policy>>
  BY DEF Admit, Queue
<1>3. \A f \in Execs : stage[f] # "publishing"
  BY <1>1, KustoExecutionAssumption DEF LockInv
<1>4. \A m \in outbox : m.exec \in Execs \ {e} /\ m.kind # "result"
  BY <1>1, <1>3 DEF ChainInv, TypeInv, TypeOK, Terminals
<1>5. AtMostOneTerminal'
  <2>1. ~IsCurrent(e)'
    BY <1>1, <1>2, KustoExecutionAssumption DEF IsCurrent, BoxOf, TypeInv, TypeOK
  <2>2. \A f \in Execs : IsCurrent(f)' => IsCurrent(f)
    BY <1>1, <1>2, KustoExecutionAssumption DEF IsCurrent, BoxOf, TypeInv, TypeOK, Reservations
  <2> QED
    BY <1>1, <1>2, <2>1, <2>2 DEF AtMostOneTerminal
<1>6. ChainInv'
  <2> DEFINE t == Terminal(e, "result", 1)
  <2>0. t.exec = e /\ t.kind = "result" /\ t.attempt = 1
    BY DEF Terminal
  <2> HIDE DEF t
  <2>1. \A m \in outbox' : queued'[m.exec] = 1
    BY <1>1, <1>2, <1>4, <2>0 DEF ChainInv, t
  <2>2. \A m, n \in outbox' : m.exec = n.exec => m = n
    BY <1>2, <1>4, <2>0 DEF ChainInv, t
  <2>3. \A m \in outbox' : m.kind = "result" => m.attempt = 1 /\ stage'[m.exec] = "publishing"
    BY <1>2, <1>4, <2>0 DEF ChainInv, TypeInv, TypeOK, t
  <2> QED
    BY <2>1, <2>2, <2>3 DEF ChainInv
<1>7. LockInv'
  BY <1>1, <1>2, <1>3 DEF LockInv, IsCurrent, ConnOf, TypeInv, TypeOK
<1>8. AppliedInv'
  BY <1>1, <1>2 DEF AppliedInv, SuccessMeansApplied, TypeInv, TypeOK
<1> QED
  BY <1>5, <1>6, <1>7, <1>8

(* A terminal is delivered or lost.  The chain of its execution goes on in  *)
(* its fallback or ends, and the handler that awaits it is told which.     *)
LEMMA DeliverKeeps ==
    ASSUME TypeInv, AnswerInv, NEW m \in outbox, NEW ok \in BOOLEAN, Deliver(m, ok)
    PROVE  AnswerInv'
<1> USE DEF AnswerInv
<1> DEFINE e == m.exec
           fallback == Terminal(e, "cancelled", 2)
<1>0. fallback.exec = e /\ fallback.kind = "cancelled"
  BY DEF Terminal
<1>1. e \in Execs /\ queued[e] = 1 /\ \A n \in outbox : n.exec = e => n = m
  BY DEF ChainInv, TypeInv, TypeOK, Terminals
<1> HIDE DEF fallback, e
<1>2. /\ outbox' = (outbox \ {m}) \cup (IF Settles(m, ok) THEN {} ELSE {fallback})
      /\ applied' = [applied EXCEPT ![e] = IF ok THEN @ \cup {m.kind} ELSE @]
      /\ UNCHANGED <<active, reservation, dispatch, queued, policy>>
  BY DEF Deliver, coordinatorVars, fallback, e
<1>3. \/ /\ Settles(m, ok) /\ stage[e] \in {"publishing", "rejecting"}
         /\ stage' = [stage EXCEPT ![e] = "done"] /\ status' = [status EXCEPT ![e] = Outcome(m)]
         /\ lock' = IF lock = e THEN None ELSE lock
      \/ /\ ~Settles(m, ok) \/ stage[e] \notin {"publishing", "rejecting"}
         /\ UNCHANGED <<stage, status, lock>>
  BY DEF Deliver, Return, handlerVars, e
<1>4. m.kind = "result" => m.attempt = 1 /\ stage[e] = "publishing"
  BY DEF ChainInv, e
<1>5. AtMostOneTerminal'
  BY <1>2 DEF AtMostOneTerminal, IsCurrent, BoxOf
<1>6. \A n \in outbox' : (n \in outbox /\ n # m /\ n.exec # e) \/ (n = fallback /\ n.exec = e)
  BY <1>0, <1>1, <1>2
<1>7. ChainInv'
  <2>1. \A n \in outbox' : queued'[n.exec] = 1
    BY <1>1, <1>2, <1>6 DEF ChainInv
  <2>2. \A n, p \in outbox' : n.exec = p.exec => n = p
    BY <1>6 DEF ChainInv
  <2>3. \A n \in outbox' : n.kind = "result" => n.attempt = 1 /\ stage'[n.exec] = "publishing"
    <3> SUFFICES ASSUME NEW n \in outbox', n.kind = "result"
                 PROVE  n.attempt = 1 /\ stage'[n.exec] = "publishing"
      OBVIOUS
    <3>1. n \in outbox /\ n.exec # e /\ n.exec \in Execs
      BY <1>0, <1>6 DEF TypeInv, TypeOK, Terminals
    <3> QED
      BY <1>1, <1>3, <3>1 DEF ChainInv, TypeInv, TypeOK
  <2> QED
    BY <2>1, <2>2, <2>3 DEF ChainInv
<1>8. LockInv'
  BY <1>1, <1>2, <1>3 DEF LockInv, ConnOf, TypeInv, TypeOK
<1>9. AppliedInv'
  <2> SUFFICES ASSUME NEW f \in Execs
               PROVE  /\ stage'[f] = "done" => (status'[f] = "success" <=> "result" \in applied'[f])
                      /\ "result" \in applied'[f] => stage'[f] = "done"
    BY DEF AppliedInv, SuccessMeansApplied
  <2>1. CASE f # e
    BY <1>1, <1>2, <1>3, <2>1 DEF AppliedInv, SuccessMeansApplied, TypeInv, TypeOK
  <2>2. CASE f = e /\ m.kind = "result" /\ ok
    BY <1>1, <1>2, <1>3, <1>4, <2>2 DEF Settles, Outcome, TypeInv, TypeOK
  <2>3. CASE f = e /\ ~(m.kind = "result" /\ ok)
    <3>1. "result" \in applied'[f] <=> "result" \in applied[f]
      BY <1>1, <1>2, <2>3 DEF TypeInv, TypeOK
    <3>2. CASE UNCHANGED <<stage, status>>
      BY <3>1, <3>2 DEF AppliedInv, SuccessMeansApplied
    <3>3. CASE Settles(m, ok) /\ stage[e] \in {"publishing", "rejecting"}
               /\ stage' = [stage EXCEPT ![e] = "done"] /\ status' = [status EXCEPT ![e] = Outcome(m)]
      <4>1. m.kind # "result"
        BY <1>4, <2>3, <3>3 DEF Settles
      <4>2. "result" \notin applied[f]
        BY <1>1, <2>3, <3>3 DEF AppliedInv
      <4> QED
        BY <1>1, <2>3, <3>1, <3>3, <4>1, <4>2 DEF Outcome, TypeInv, TypeOK
    <3> QED
      BY <1>3, <3>2, <3>3
  <2> QED
    BY <2>1, <2>2, <2>3
<1> QED
  BY <1>5, <1>7, <1>8, <1>9

LEMMA AnswerInit == Init => AnswerInv
BY KustoExecutionAssumption
DEF Init, AnswerInv, AtMostOneTerminal, ChainInv, LockInv, AppliedInv, SuccessMeansApplied, IsCurrent

LEMMA AnswerStep == OneInv /\ AnswerInv /\ [Next]_vars => AnswerInv'
<1> SUFFICES ASSUME OneInv, AnswerInv, [Next]_vars
             PROVE  AnswerInv'
  OBVIOUS
<1>t. TypeInv /\ TypeInv' /\ AtMostOneTerminal
  BY TypeStep DEF OneInv, AnswerInv
<1>1. CASE UNCHANGED vars
  BY <1>1 DEF vars, coordinatorVars, handlerVars, deliveryVars, serviceVars, AnswerInv,
     AtMostOneTerminal, ChainInv, LockInv, AppliedInv, SuccessMeansApplied, IsCurrent, BoxOf, ConnOf
<1>2. CASE Submit
  <2>1. \E D, k : Calm(D, k)
    BY <1>2, SubmitCalm DEF Submit
  <2> QED
    BY <1>t, <2>1, CalmKeeps
<1>3. CASE Deliveries
  BY <1>t, <1>3, DeliverKeeps DEF Deliveries
<1>4. ASSUME NEW e \in Execs, Admit(e), MayPublish(e)
      PROVE  AnswerInv'
  BY <1>t, <1>4, PublishKeeps
<1>5. ASSUME NEW e \in Execs, Handler(e), ~(Admit(e) /\ MayPublish(e))
      PROVE  AnswerInv'
  <2>1. \E D, k : Calm(D, k)
    BY <1>t, <1>5, HandlerCalm
  <2> QED
    BY <1>t, <2>1, CalmKeeps
<1>6. CASE Sections \/ Services \/ Dispose \/ \E e \in Execs : Transport(e) \/ CancelQuery(e)
  <2>1. \E D, k : Calm(D, k)
    BY <1>t, <1>6, OthersCalm
  <2> QED
    BY <1>t, <2>1, CalmKeeps
<1> QED
  BY <1>1, <1>2, <1>3, <1>4, <1>5, <1>6 DEF Next

(* Also where another engine shares the registry, no execution is answered  *)
(* twice and none is answered while it is active.                          *)
THEOREM AnsweredOnce == Spec => []AtMostOneTerminal
<1>1. Init => OneInv /\ AnswerInv
  BY OneInit, AnswerInit
<1>2. OneInv /\ AnswerInv /\ [Next]_vars => (OneInv /\ AnswerInv)'
  BY OneStep, AnswerStep
<1>3. AnswerInv => AtMostOneTerminal
  BY DEF AnswerInv
<1> QED
  BY <1>1, <1>2, <1>3, PTL DEF Spec

(* Whoever started a query is told that it succeeded exactly when the       *)
(* section has applied its result: an undelivered, revoked or superseded   *)
(* result is never reported as a success, nor an applied one as a failure. *)
THEOREM SuccessIsTrue == Spec => []SuccessMeansApplied
<1>1. Init => OneInv /\ AnswerInv
  BY OneInit, AnswerInit
<1>2. OneInv /\ AnswerInv /\ [Next]_vars => (OneInv /\ AnswerInv)'
  BY OneStep, AnswerStep
<1>3. AnswerInv => SuccessMeansApplied
  BY DEF AnswerInv, AppliedInv
<1> QED
  BY <1>1, <1>2, <1>3, PTL DEF Spec

-----------------------------------------------------------------------------
(* The two action properties follow from what the three forms of a step do  *)
(* to the terminals: a calm step tells no result and applies nothing, a    *)
(* publication tells one, a delivery applies one.                          *)
LEMMA StepForms ==
    ASSUME OneInv, AnswerInv, Next
    PROVE  \/ \E D, k : Calm(D, k)
           \/ \E e \in Execs : Admit(e) /\ MayPublish(e)
           \/ \E m \in outbox, ok \in BOOLEAN : Deliver(m, ok)
<1>t. AtMostOneTerminal
  BY DEF AnswerInv
<1>1. CASE Submit
  BY <1>1, SubmitCalm DEF Submit
<1>2. CASE Deliveries
  BY <1>2 DEF Deliveries
<1>3. ASSUME NEW e \in Execs, Handler(e), ~(Admit(e) /\ MayPublish(e))
      PROVE  \E D, k : Calm(D, k)
  BY <1>t, <1>3, HandlerCalm
<1>4. CASE Sections \/ Services \/ Dispose \/ \E e \in Execs : Transport(e) \/ CancelQuery(e)
  BY <1>t, <1>4, OthersCalm
<1> QED
  BY <1>1, <1>2, <1>3, <1>4 DEF Next

(* The section applies a result only under the protection generation its    *)
(* query was dispatched with: from the check of the generation until the   *)
(* publication settles nobody can protect or unprotect the cluster.        *)
THEOREM ResultIsNotRevoked == Spec => NoResultAfterRevocation
<1> DEFINE Kept == \A e \in Execs : "result" \in applied'[e] /\ "result" \notin applied[e] =>
                      /\ policy[ConnOf(e)] = dispatch[e].policy
                      /\ policy' = policy
<1>1. Init => OneInv /\ AnswerInv
  BY OneInit, AnswerInit
<1>2. OneInv /\ AnswerInv /\ [Next]_vars => (OneInv /\ AnswerInv)'
  BY OneStep, AnswerStep
<1>3. OneInv /\ AnswerInv /\ [Next]_vars => [Kept]_vars
  <2> SUFFICES ASSUME OneInv, AnswerInv, Next, NEW e \in Execs,
                      "result" \in applied'[e], "result" \notin applied[e]
               PROVE  policy[ConnOf(e)] = dispatch[e].policy /\ policy' = policy
    OBVIOUS
  <2>1. ~(\E D, k : Calm(D, k))
    BY DEF Calm
  <2>2. ~(\E f \in Execs : Admit(f) /\ MayPublish(f))
    BY DEF Admit
  <2>3. PICK m \in outbox, ok \in BOOLEAN : Deliver(m, ok)
    BY <2>1, <2>2, StepForms
  <2>4. applied' = [applied EXCEPT ![m.exec] = IF ok THEN @ \cup {m.kind} ELSE @] /\ policy' = policy
    BY <2>3 DEF Deliver
  <2>5. m.exec = e /\ m.kind = "result"
    BY <2>4 DEF OneInv, TypeInv, TypeOK
  <2> QED
    BY <2>4, <2>5 DEF AnswerInv, ChainInv, LockInv
<1> QED
  BY <1>1, <1>2, <1>3, PTL DEF Spec, NoResultAfterRevocation

(* A result is queued only while target, physical connection and account    *)
(* are all still those its query was reserved and dispatched for.          *)
THEOREM ResultFitsTarget == Spec => ResultIsForCurrentTarget
<1> DEFINE Fits == \A e \in Execs : Terminal(e, "result", 1) \in outbox' \ outbox =>
                      /\ SameTarget(lifecycle'[BoxOf(e)], reservation[e])
                      /\ ConnOf(e) \in present'
                      /\ reservation[e].owner = revision'[ConnOf(e)]
                      /\ dispatch[e].account = account'[ConnOf(e)]
<1>1. Init => OneInv /\ AnswerInv
  BY OneInit, AnswerInit
<1>2. OneInv /\ AnswerInv /\ [Next]_vars => (OneInv /\ AnswerInv)'
  BY OneStep, AnswerStep
<1>3. OneInv /\ AnswerInv /\ [Next]_vars => [Fits]_vars
  <2> SUFFICES ASSUME OneInv, AnswerInv, Next, NEW e \in Execs,
                      Terminal(e, "result", 1) \in outbox' \ outbox
               PROVE  /\ SameTarget(lifecycle'[BoxOf(e)], reservation[e])
                      /\ ConnOf(e) \in present'
                      /\ reservation[e].owner = revision'[ConnOf(e)]
                      /\ dispatch[e].account = account'[ConnOf(e)]
    OBVIOUS
  <2>1. ~(\E D, k : Calm(D, k))
    BY DEF Calm, Queue, Terminal
  <2>2. ~(\E m \in outbox, ok \in BOOLEAN : Deliver(m, ok))
    <3> SUFFICES ASSUME NEW m \in outbox, NEW ok \in BOOLEAN, Deliver(m, ok) PROVE FALSE
      OBVIOUS
    <3>1. \A t \in outbox' \ outbox : t = Terminal(m.exec, "cancelled", 2)
      BY DEF Deliver
    <3>2. Terminal(e, "result", 1) = Terminal(m.exec, "cancelled", 2)
      BY <3>1
    <3>3. Terminal(e, "result", 1).kind # Terminal(m.exec, "cancelled", 2).kind
      BY DEF Terminal
    <3> QED
      BY <3>2, <3>3
  <2>3. PICK f \in Execs : Admit(f) /\ MayPublish(f)
    BY <2>1, <2>2, StepForms
  <2>4. f = e
    BY <2>3 DEF Admit, Queue, Terminal
  <2> QED
    BY <2>3, <2>4 DEF Admit, MayPublish, IsAdmissible, IsCurrentOwner
<1> QED
  BY <1>1, <1>2, <1>3, PTL DEF Spec, ResultIsForCurrentTarget

=============================================================================
