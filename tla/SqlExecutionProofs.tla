------------------------- MODULE SqlExecutionProofs -------------------------
(***************************************************************************)
(* Theorems about SqlExecution, for every set of executions and every      *)
(* bound: nothing is pending beside what runs, no query runs that          *)
(* cancellation would not reach, rows are published only for the           *)
(* execution promoted last, on the section's current target, a manual run  *)
(* does not end unheard, and a section that nothing is under way for shows *)
(* no execution.                                                           *)
(***************************************************************************)
EXTENDS SqlExecution, SequenceTheorems, TLAPS

(* The part of TypeOK that the argument rests on. *)
BrokerType ==
    /\ generation \in Nat /\ target \in Nat
    /\ pending \in Executions \cup {None} /\ preflight \in Executions \cup {None}
    /\ running \in Executions \cup {None} /\ active \in Executions \cup {None}
    /\ newest \in Executions \cup {None}
    /\ stage \in [Executions -> Stages]
    /\ grant \in [Executions -> Nat] /\ owner \in [Executions -> Nat]
    /\ transport \in [Executions -> {"none", "running", "cancelled", "settled"}]
    /\ outcome \in [Executions -> Kinds \cup {"none", "suppressed"}]
    /\ told \in [Executions -> SUBSET Kinds]
    /\ token \in Nat \cup {None} /\ used \subseteq Executions
    /\ toHost \in Seq(ToHostMsgs) /\ toView \in Seq(ToViewMsgs)

(* An execution is asked for once: until its request has arrived it is new. *)
Requests ==
    /\ \A e \in Executions \ used : stage[e] = "new"
    /\ \A i \in DOMAIN toHost : toHost[i].type = "execute" =>
          /\ toHost[i].value \in used /\ stage[toHost[i].value] = "new"
          /\ \A j \in DOMAIN toHost :
                toHost[j].type = "execute" /\ toHost[j].value = toHost[i].value => i = j

(* No owner is ahead of the section's. *)
Owners ==
    /\ token # None => token <= target
    /\ \A e \in Executions : owner[e] <= target
    /\ \A i \in DOMAIN toHost : toHost[i].type = "execute" => toHost[i].token <= target
    /\ \A i \in DOMAIN toView : toView[i].type = "owner" => toView[i].value <= target

Admitted == {"admitted", "announced", "running", "checking", "posting", "posted"}

(* Of the executions admitted for the current owner, the one whose grant is *)
(* current is the newest.  Those of an older session have another owner.   *)
Grants ==
    \A e \in Executions :
        stage[e] \in Admitted /\ owner[e] = target =>
            /\ grant[e] <= generation
            /\ grant[e] = generation /\ (transport[e] = "none" \/ running = e) => newest = e

Newest ==
    /\ pending # None => newest = pending
    /\ running # None => newest = running /\ transport[running] # "none"

(* Who is about to post has something to post. *)
Outcomes == \A e \in Executions : stage[e] = "posting" => outcome[e] \in Kinds

BrokerInv ==
    /\ Outcomes /\ BrokerType /\ Requests /\ Owners /\ Grants /\ Newest
    /\ PendingExcludesRunning /\ NoOrphanTransport

-----------------------------------------------------------------------------
(* The operators the actions are built from. *)

LEMMA NoticeType ==
    ASSUME NEW e \in Executions \cup {None}
    PROVE  /\ Notice(e) \in Seq(ToViewMsgs)
           /\ \A i \in DOMAIN Notice(e) : Notice(e)[i].type # "owner"
<1>1. CASE e = None
  BY <1>1 DEF Notice
<1>2. CASE e # None
  <2>1. Msg("cancelled", e) \in ToViewMsgs /\ Msg("cancelled", e).type = "cancelled"
    BY <1>2 DEF Msg, ToViewMsgs, Kinds
  <2> QED
    BY <1>2, <2>1 DEF Notice
<1> QED
  BY <1>1, <1>2

(* What a step appends to the webview's messages is no owner. *)
LEMMA AppendKeeps ==
    ASSUME NEW s \in Seq(ToViewMsgs), NEW t \in Seq(ToViewMsgs),
           \A i \in DOMAIN t : t[i].type # "owner"
    PROVE  /\ s \o t \in Seq(ToViewMsgs)
           /\ \A i \in DOMAIN (s \o t) : (s \o t)[i].type = "owner" =>
                 \E j \in DOMAIN s : (s \o t)[i] = s[j]
<1>1. s \o t \in Seq(ToViewMsgs)
  OBVIOUS
<1>2. ASSUME NEW i \in DOMAIN (s \o t), (s \o t)[i].type = "owner"
      PROVE  \E j \in DOMAIN s : (s \o t)[i] = s[j]
  <2>1. CASE i \in DOMAIN s
    BY <2>1
  <2>2. CASE i \notin DOMAIN s
    <3>1. i - Len(s) \in DOMAIN t /\ (s \o t)[i] = t[i - Len(s)]
      BY <2>2
    <3> QED
      BY <1>2, <3>1
  <2> QED
    BY <2>1, <2>2
<1> QED
  BY <1>1, <1>2

NoNewOwner ==
    /\ toView' \in Seq(ToViewMsgs)
    /\ \A i \in DOMAIN toView' : toView'[i].type = "owner" =>
          \E j \in DOMAIN toView : toView'[i] = toView[j]

LEMMA NotifyEffect ==
    ASSUME BrokerType, NEW a \in Executions \cup {None}, NEW b \in Executions \cup {None},
           NEW c \in Executions \cup {None}, Notify(a, b, c)
    PROVE  /\ NoNewOwner
           /\ told' \in [Executions -> SUBSET Kinds]
           /\ \A e \in Executions : "result" \in told'[e] => "result" \in told[e]
<1>1. toView' = ((toView \o Notice(a)) \o Notice(b)) \o Notice(c)
  BY DEF Notify
<1> DEFINE x == toView \o Notice(a)
           y == x \o Notice(b)
<1>2. x \in Seq(ToViewMsgs) /\ \A i \in DOMAIN x : x[i].type = "owner" =>
                               \E j \in DOMAIN toView : x[i] = toView[j]
  BY NoticeType, AppendKeeps DEF BrokerType
<1>3. y \in Seq(ToViewMsgs) /\ \A i \in DOMAIN y : y[i].type = "owner" =>
                               \E j \in DOMAIN x : y[i] = x[j]
  <2> HIDE DEF x
  <2> QED
    BY <1>2, NoticeType, AppendKeeps
<1>4. toView' \in Seq(ToViewMsgs) /\ \A i \in DOMAIN toView' : toView'[i].type = "owner" =>
                                    \E j \in DOMAIN y : toView'[i] = y[j]
  <2>1. toView' = y \o Notice(c)
    BY <1>1
  <2> HIDE DEF x, y
  <2> QED
    BY <1>3, <2>1, NoticeType, AppendKeeps
<1>5. NoNewOwner
  <2> HIDE DEF x, y
  <2> QED
    BY <1>2, <1>3, <1>4 DEF NoNewOwner
<1>6. told' \in [Executions -> SUBSET Kinds]
      /\ \A e \in Executions : "result" \in told'[e] => "result" \in told[e]
  BY DEF Notify, BrokerType, Kinds
<1> QED
  BY <1>5, <1>6

-----------------------------------------------------------------------------
(* What the steps have in common. *)

(* The host takes nothing off the channel and makes nothing new. *)
LEMMA RequestsStay ==
    ASSUME BrokerType, Requests, UNCHANGED <<used, toHost>>,
           \A e \in Executions : stage[e] = "new" => stage'[e] = "new"
    PROVE  Requests'
BY DEF Requests, BrokerType

(* The host takes one message: what is left are requests of others. *)
LEMMA TailRequests ==
    ASSUME BrokerType, Requests, toHost # <<>>
    PROVE  /\ Tail(toHost) \in Seq(ToHostMsgs) /\ Head(toHost) = toHost[1] /\ 1 \in DOMAIN toHost
           /\ \A i \in DOMAIN Tail(toHost) :
                 /\ i + 1 \in DOMAIN toHost /\ Tail(toHost)[i] = toHost[i + 1]
                 /\ Tail(toHost)[i].type = "execute" /\ Head(toHost).type = "execute" =>
                       Tail(toHost)[i].value # Head(toHost).value
<1>1. toHost \in Seq(ToHostMsgs)
  BY DEF BrokerType
<1> HIDE DEF ToHostMsgs
<1>2. /\ Tail(toHost) \in Seq(ToHostMsgs) /\ Head(toHost) = toHost[1] /\ 1 \in DOMAIN toHost
      /\ \A i \in DOMAIN Tail(toHost) :
            i \in Nat /\ i >= 1 /\ i + 1 \in DOMAIN toHost /\ Tail(toHost)[i] = toHost[i + 1]
  BY <1>1
<1>3. \A i \in DOMAIN Tail(toHost) :
         Tail(toHost)[i].type = "execute" /\ Head(toHost).type = "execute" =>
             Tail(toHost)[i].value # Head(toHost).value
  <2> SUFFICES ASSUME NEW i \in DOMAIN Tail(toHost), Tail(toHost)[i].type = "execute",
                      Head(toHost).type = "execute", Tail(toHost)[i].value = Head(toHost).value
               PROVE  FALSE
    OBVIOUS
  <2>1. i + 1 = 1
    BY <1>2 DEF Requests
  <2> QED
    BY <1>2, <2>1
<1> QED
  BY <1>2, <1>3

LEMMA RequestsShrink ==
    ASSUME BrokerType, Requests, toHost # <<>>, toHost' = Tail(toHost), UNCHANGED used,
           \A e \in Executions : stage[e] = "new" => 
               stage'[e] = "new" \/ (Head(toHost).type = "execute" /\ Head(toHost).value = e)
    PROVE  Requests'
<1>1. \A e \in Executions \ used' : stage'[e] = "new"
  <2>1. Head(toHost).type = "execute" => Head(toHost).value \in used
    BY TailRequests DEF Requests
  <2> QED
    BY <2>1 DEF Requests
<1>2. ASSUME NEW i \in DOMAIN toHost', toHost'[i].type = "execute"
      PROVE  /\ toHost'[i].value \in used' /\ stage'[toHost'[i].value] = "new"
             /\ \A j \in DOMAIN toHost' :
                   toHost'[j].type = "execute" /\ toHost'[j].value = toHost'[i].value => i = j
  <2>1. i + 1 \in DOMAIN toHost /\ toHost'[i] = toHost[i + 1] /\ i \in Nat
    BY TailRequests
  <2>2. toHost'[i].value \in used /\ stage[toHost'[i].value] = "new"
    BY <1>2, <2>1 DEF Requests
  <2>3. stage'[toHost'[i].value] = "new"
    BY <1>2, <2>2, TailRequests DEF BrokerType
  <2>4. ASSUME NEW j \in DOMAIN toHost', toHost'[j].type = "execute", toHost'[j].value = toHost'[i].value
        PROVE  i = j
    <3>1. j + 1 \in DOMAIN toHost /\ toHost'[j] = toHost[j + 1] /\ j \in Nat
      BY TailRequests
    <3>2. i + 1 = j + 1
      BY <1>2, <2>1, <2>4, <3>1 DEF Requests
    <3> QED
      BY <2>1, <3>1, <3>2
  <2> QED
    BY <2>2, <2>3, <2>4
<1> QED
  BY <1>1, <1>2 DEF Requests

(* No step but Run and PublishOwner hands an owner out. *)
LEMMA OwnersStay ==
    ASSUME BrokerType, Owners, Requests, NoNewOwner, UNCHANGED token,
           toHost' = toHost \/ (toHost # <<>> /\ toHost' = Tail(toHost)),
           target' \in Nat, target <= target',
           owner' = owner
    PROVE  Owners'
<1>1. token' # None => token' <= target'
  BY DEF BrokerType, Owners
<1>2. \A e \in Executions : owner'[e] <= target'
  BY DEF BrokerType, Owners
<1>3. ASSUME NEW i \in DOMAIN toHost', toHost'[i].type = "execute"
      PROVE  toHost'[i].token <= target'
  <2>1. PICK j \in DOMAIN toHost : toHost'[i] = toHost[j]
    BY TailRequests
  <2>2. toHost[j] \in ToHostMsgs
    BY <2>1 DEF BrokerType
  <2>3. toHost[j].token \in Nat
    BY <1>3, <2>1, <2>2 DEF ToHostMsgs
  <2> QED
    BY <1>3, <2>1, <2>3 DEF Owners, BrokerType
<1>4. ASSUME NEW i \in DOMAIN toView', toView'[i].type = "owner"
      PROVE  toView'[i].value <= target'
  <2>1. PICK j \in DOMAIN toView : toView'[i] = toView[j]
    BY <1>4 DEF NoNewOwner
  <2>2. toView[j] \in ToViewMsgs
    BY <2>1 DEF BrokerType
  <2>3. toView[j].value \in Nat
    BY <1>4, <2>1, <2>2 DEF ToViewMsgs, Kinds
  <2> QED
    BY <1>4, <2>1, <2>3 DEF Owners, BrokerType
<1> QED
  BY <1>1, <1>2, <1>3, <1>4 DEF Owners

LEMMA NothingPosted ==
    ASSUME BrokerType, UNCHANGED toView
    PROVE  NoNewOwner
BY DEF BrokerType, NoNewOwner

(* One message that names an execution. *)
LEMMA OnePosted ==
    ASSUME BrokerType, NEW e \in Executions, NEW type \in Kinds \cup {"executing", "idle"},
           toView' = Append(toView, Msg(type, e))
    PROVE  NoNewOwner
<1>1. Msg(type, e) \in ToViewMsgs /\ Msg(type, e).type # "owner"
  BY DEF Msg, ToViewMsgs, Kinds
<1>2. toView \in Seq(ToViewMsgs)
  BY DEF BrokerType
<1> HIDE DEF ToViewMsgs
<1>3. toView' \in Seq(ToViewMsgs)
  BY <1>1, <1>2
<1>4. ASSUME NEW i \in DOMAIN toView', toView'[i].type = "owner"
      PROVE  \E j \in DOMAIN toView : toView'[i] = toView[j]
  BY <1>1, <1>2, <1>4
<1> QED
  BY <1>3, <1>4 DEF NoNewOwner

(* Generation, grants and the current owner stay, and nobody comes to run. *)
LEMMA GrantsStay ==
    ASSUME BrokerType, Grants, UNCHANGED <<generation, grant, target, newest>>,
           \A e \in Executions : stage'[e] \in Admitted =>
               /\ stage[e] \in Admitted /\ owner'[e] = owner[e]
               /\ transport'[e] = "none" \/ running' = e => transport[e] = "none" \/ running = e
    PROVE  Grants'
BY DEF Grants

(* A step of the generation, which only cancels, leaves every grant behind. *)
LEMMA GrantsStale ==
    ASSUME BrokerType, Owners, Grants, UNCHANGED <<grant, owner>>, generation' = generation + 1,
           target' \in Nat, target <= target',
           \A e \in Executions : stage'[e] \in Admitted => stage[e] \in Admitted
    PROVE  Grants'
<1> SUFFICES ASSUME NEW e \in Executions, stage[e] \in Admitted, owner[e] = target'
             PROVE  grant[e] <= generation' /\ grant[e] # generation'
  BY DEF Grants
<1>1. owner[e] = target /\ grant[e] \in Nat
  BY DEF BrokerType, Owners
<1> QED
  BY <1>1 DEF Grants, BrokerType

(* So does a change of the section's target, also when the generation       *)
(* starts again at zero.                                                   *)
LEMMA GrantsAway ==
    ASSUME BrokerType, Owners, UNCHANGED owner, target' = target + 1
    PROVE  Grants'
BY DEF Grants, Owners, BrokerType

LEMMA CancelRunningEffect ==
    ASSUME BrokerType, NoOrphanTransport, CancelRunning
    PROVE  /\ running' = None
           /\ transport' \in [Executions -> {"none", "running", "cancelled", "settled"}]
           /\ \A e \in Executions : transport'[e] # "running"
BY DEF CancelRunning, BrokerType, NoOrphanTransport

(* supersede: nobody is left in the broker. *)
LEMMA SupersedeEffect ==
    ASSUME BrokerType, NoOrphanTransport, Supersede(TRUE)
    PROVE  /\ generation' = generation + 1
           /\ pending' = None /\ preflight' = None /\ newest' = None
           /\ running' = None
           /\ transport' \in [Executions -> {"none", "running", "cancelled", "settled"}]
           /\ \A e \in Executions : transport'[e] # "running"
           /\ NoNewOwner
           /\ told' \in [Executions -> SUBSET Kinds]
           /\ \A e \in Executions : "result" \in told'[e] => "result" \in told[e]
<1>1. preflight \in Executions \cup {None} /\ pending \in Executions \cup {None}
      /\ SupersededRunning \in Executions \cup {None}
  BY DEF SupersededRunning, BrokerType
<1>2. Notify(preflight, pending, SupersededRunning)
  BY DEF Supersede
<1> QED
  BY <1>1, <1>2, NotifyEffect, CancelRunningEffect DEF Supersede

-----------------------------------------------------------------------------
(* The steps of the section in the webview. *)

LEMMA RunKeeps ==
    ASSUME BrokerInv, NEW e \in Executions, Run(e)
    PROVE  BrokerInv'
<1> USE DEF BrokerInv
<1> DEFINE m == RunMsg(e, token)
<1>1. /\ UNCHANGED <<broker, hostVars, transport, targetVars, token, toView, told, newest>>
      /\ e \in Manual \ used /\ token \in Nat /\ token # None /\ used' = used \cup {e} /\ active' = e
      /\ toHost' = Append(toHost, m)
      /\ m \in ToHostMsgs /\ m.type = "execute" /\ m.value = e /\ m.token = token
  BY DEF Run, BrokerType, RunMsg, ToHostMsgs
<1> HIDE DEF m
<1>2. toHost \in Seq(ToHostMsgs)
  BY DEF BrokerType
<1>3. toHost' \in Seq(ToHostMsgs)
      /\ \A i \in DOMAIN toHost' : (i \in DOMAIN toHost /\ toHost'[i] = toHost[i])
                                 \/ (i = Len(toHost) + 1 /\ toHost'[i] = m)
  <2> HIDE DEF ToHostMsgs
  <2> QED
    BY <1>1, <1>2
<1>4. BrokerType'
  BY <1>1, <1>3 DEF BrokerType, broker, hostVars, targetVars, Executions
<1>5. Requests'
  <2>1. \A d \in Executions \ used' : stage'[d] = "new"
    BY <1>1 DEF Requests, hostVars
  <2>2. ASSUME NEW i \in DOMAIN toHost', toHost'[i].type = "execute"
        PROVE  /\ toHost'[i].value \in used' /\ stage'[toHost'[i].value] = "new"
               /\ \A j \in DOMAIN toHost' :
                     toHost'[j].type = "execute" /\ toHost'[j].value = toHost'[i].value => i = j
    BY <1>1, <1>3, <2>2 DEF Requests, hostVars
  <2> QED
    BY <2>1, <2>2 DEF Requests
<1>6. Owners'
  BY <1>1, <1>3 DEF Owners, hostVars, targetVars
<1>7. Grants' /\ Newest' /\ PendingExcludesRunning' /\ NoOrphanTransport' /\ Outcomes'
  BY <1>1 DEF Outcomes, Grants, Newest, PendingExcludesRunning, NoOrphanTransport,
                broker, hostVars, targetVars
<1> QED
  BY <1>4, <1>5, <1>6, <1>7

(* A message that is no request is put on the channel to the host. *)
LEMMA SentKeeps ==
    ASSUME BrokerType, Requests, Owners, NEW s \in Seq(ToHostMsgs),
           \A i \in DOMAIN s : s[i].type # "execute",
           toHost' = toHost \o s, UNCHANGED <<used, stage, owner, target, toView>>,
           token' \in {token, None}
    PROVE  toHost' \in Seq(ToHostMsgs) /\ Requests' /\ Owners'
<1>1. toHost \in Seq(ToHostMsgs)
  BY DEF BrokerType
<1>2. toHost' \in Seq(ToHostMsgs)
      /\ \A i \in DOMAIN toHost' : toHost'[i].type = "execute" =>
             i \in DOMAIN toHost /\ toHost'[i] = toHost[i]
  <2> HIDE DEF ToHostMsgs
  <2>1. toHost' \in Seq(ToHostMsgs)
    BY <1>1
  <2>2. ASSUME NEW i \in DOMAIN toHost', toHost'[i].type = "execute"
        PROVE  i \in DOMAIN toHost /\ toHost'[i] = toHost[i]
    <3>1. CASE i \in DOMAIN toHost
      BY <3>1, <1>1
    <3>2. CASE i \notin DOMAIN toHost
      <4>1. i - Len(toHost) \in DOMAIN s /\ toHost'[i] = s[i - Len(toHost)]
        BY <3>2, <1>1
      <4> QED
        BY <2>2, <4>1
    <3> QED
      BY <3>1, <3>2
  <2> QED
    BY <2>1, <2>2
<1> QED
  BY <1>2 DEF Requests, Owners

LEMMA CancelKeeps ==
    ASSUME BrokerInv, Cancel
    PROVE  BrokerInv'
<1> USE DEF BrokerInv
<1>1. UNCHANGED <<broker, hostVars, transport, targetVars, token, used, toView, told, newest>>
      /\ active' = None /\ active \in Executions
  BY DEF Cancel, BrokerType
<1> DEFINE s == <<Msg("cancel", active)>>
<1>2. s \in Seq(ToHostMsgs) /\ (\A i \in DOMAIN s : s[i].type # "execute") /\ toHost' = toHost \o s
  <2>1. Msg("cancel", active) \in ToHostMsgs /\ Msg("cancel", active).type # "execute"
    BY <1>1 DEF Msg, ToHostMsgs
  <2>2. toHost \in Seq(ToHostMsgs) /\ toHost' = Append(toHost, Msg("cancel", active))
    BY DEF BrokerType, Cancel
  <2> HIDE DEF ToHostMsgs
  <2> QED
    BY <2>1, <2>2
<1> HIDE DEF s
<1>3. toHost' \in Seq(ToHostMsgs) /\ Requests' /\ Owners'
  <2>1. UNCHANGED <<used, stage, owner, target, toView>> /\ token' \in {token, None}
    BY <1>1 DEF hostVars, targetVars
  <2> QED
    BY <1>2, <2>1, SentKeeps
<1>4. BrokerType'
  BY <1>1, <1>3 DEF BrokerType, broker, hostVars, targetVars
<1>5. Grants' /\ Newest' /\ PendingExcludesRunning' /\ NoOrphanTransport' /\ Outcomes'
  BY <1>1 DEF Outcomes, Grants, Newest, PendingExcludesRunning, NoOrphanTransport,
                broker, hostVars, targetVars
<1> QED
  BY <1>3, <1>4, <1>5

LEMMA RetargetKeeps ==
    ASSUME BrokerInv, Retarget
    PROVE  BrokerInv'
<1> USE DEF BrokerInv
<1>1. UNCHANGED <<broker, hostVars, transport, targetVars, used, toView, told, newest>>
      /\ active' = None /\ token' = None
  BY DEF Retarget
<1> DEFINE s == (IF active # None THEN <<Msg("cancel", None)>> ELSE <<>>) \o <<Msg("target", None)>>
<1>2. s \in Seq(ToHostMsgs) /\ (\A i \in DOMAIN s : s[i].type # "execute") /\ toHost' = toHost \o s
  <2>1. Msg("cancel", None) \in ToHostMsgs /\ Msg("cancel", None).type # "execute"
        /\ Msg("target", None) \in ToHostMsgs /\ Msg("target", None).type # "execute"
    BY DEF Msg, ToHostMsgs
  <2>2. toHost \in Seq(ToHostMsgs)
        /\ toHost' = toHost \o (IF active # None THEN <<Msg("cancel", None)>> ELSE <<>>)
                           \o <<Msg("target", None)>>
    BY DEF BrokerType, Retarget
  <2> HIDE DEF ToHostMsgs
  <2>3. CASE active # None
    BY <2>1, <2>2, <2>3
  <2>4. CASE active = None
    BY <2>1, <2>2, <2>4
  <2> QED
    BY <2>3, <2>4
<1> HIDE DEF s
<1>3. toHost' \in Seq(ToHostMsgs) /\ Requests' /\ Owners'
  <2>1. UNCHANGED <<used, stage, owner, target, toView>> /\ token' \in {token, None}
    BY <1>1 DEF hostVars, targetVars
  <2> QED
    BY <1>2, <2>1, SentKeeps
<1>4. BrokerType'
  BY <1>1, <1>3 DEF BrokerType, broker, hostVars, targetVars
<1>5. Grants' /\ Newest' /\ PendingExcludesRunning' /\ NoOrphanTransport' /\ Outcomes'
  BY <1>1 DEF Outcomes, Grants, Newest, PendingExcludesRunning, NoOrphanTransport,
                broker, hostVars, targetVars
<1> QED
  BY <1>3, <1>4, <1>5

LEMMA ReceiveKeeps ==
    ASSUME BrokerInv, Receive
    PROVE  BrokerInv'
<1> USE DEF BrokerInv
<1>1. UNCHANGED <<broker, hostVars, transport, targetVars, used, toHost, told, newest>>
      /\ toView # <<>> /\ toView' = Tail(toView)
  BY DEF Receive
<1>2. toView \in Seq(ToViewMsgs)
  BY DEF BrokerType
<1>3. /\ Tail(toView) \in Seq(ToViewMsgs) /\ Head(toView) \in ToViewMsgs
      /\ 1 \in DOMAIN toView /\ Head(toView) = toView[1]
      /\ \A i \in DOMAIN Tail(toView) : i + 1 \in DOMAIN toView /\ Tail(toView)[i] = toView[i + 1]
  <2> HIDE DEF ToViewMsgs
  <2> QED
    BY <1>1, <1>2
<1>4. /\ Head(toView).type = "owner" => Head(toView).value \in Nat /\ Head(toView).value <= target
      /\ Head(toView).type # "owner" => Head(toView).value \in Executions
  BY <1>3 DEF ToViewMsgs, Kinds, Owners
<1>5. active' \in Executions \cup {None} /\ token' \in Nat \cup {None}
      /\ (token' # None => token' <= target)
  <2>1. CASE Head(toView).type = "owner"
    BY <1>4, <2>1 DEF Receive, ActiveAfter
  <2>2. CASE Head(toView).type # "owner"
    BY <1>4, <2>2 DEF Receive, ActiveAfter, BrokerType, Owners
  <2> QED
    BY <2>1, <2>2
<1>6. BrokerType'
  BY <1>1, <1>3, <1>5 DEF BrokerType, broker, hostVars, targetVars
<1>7. Requests'
  BY <1>1 DEF Requests, hostVars
<1>8. Owners'
  BY <1>1, <1>3, <1>5 DEF Owners, hostVars, targetVars
<1>9. Grants' /\ Newest' /\ PendingExcludesRunning' /\ NoOrphanTransport' /\ Outcomes'
  BY <1>1 DEF Outcomes, Grants, Newest, PendingExcludesRunning, NoOrphanTransport,
                broker, hostVars, targetVars
<1> QED
  BY <1>6, <1>7, <1>8, <1>9

-----------------------------------------------------------------------------
(* The steps of the owners. *)

LEMMA SupersededKeeps ==
    ASSUME BrokerInv, Supersede(TRUE), UNCHANGED <<hostVars, view, used>>,
           toHost' = toHost \/ (toHost # <<>> /\ toHost' = Tail(toHost)),
           toHost' # toHost => Head(toHost).type # "execute",
           target' \in Nat, target <= target'
    PROVE  BrokerInv'
<1> USE DEF BrokerInv
<1>1. /\ generation' = generation + 1
      /\ pending' = None /\ preflight' = None /\ newest' = None /\ running' = None
      /\ transport' \in [Executions -> {"none", "running", "cancelled", "settled"}]
      /\ \A e \in Executions : transport'[e] # "running"
      /\ NoNewOwner
      /\ told' \in [Executions -> SUBSET Kinds]
  BY SupersedeEffect
<1>2. UNCHANGED <<stage, grant, owner, outcome, active, token, used>>
  BY DEF hostVars, view
<1>3. toHost' \in Seq(ToHostMsgs)
  BY TailRequests DEF BrokerType
<1>4. BrokerType'
  BY <1>1, <1>2, <1>3 DEF BrokerType, NoNewOwner
<1>5. Requests'
  BY <1>2, RequestsStay, RequestsShrink
<1>6. Owners'
  BY <1>1, <1>2, OwnersStay
<1>7. Grants'
  BY <1>1, <1>2, GrantsStale
<1>8. Newest' /\ PendingExcludesRunning' /\ NoOrphanTransport' /\ Outcomes'
  BY <1>1, <1>2 DEF Outcomes, Newest, PendingExcludesRunning, NoOrphanTransport
<1> QED
  BY <1>4, <1>5, <1>6, <1>7, <1>8

LEMMA AdoptTargetKeeps ==
    ASSUME BrokerInv, AdoptTarget
    PROVE  BrokerInv'
<1>1. target' \in Nat /\ target <= target'
  BY DEF AdoptTarget, BrokerInv, BrokerType
<1> QED
  BY <1>1, SupersededKeeps DEF AdoptTarget, Received

LEMMA NoticedKeeps ==
    ASSUME BrokerInv, Noticed
    PROVE  BrokerInv'
<1>1. target' \in Nat /\ target <= target'
  BY DEF Noticed, BrokerInv, BrokerType
<1> QED
  BY <1>1, SupersededKeeps DEF Noticed

LEMMA RevokeKeeps ==
    ASSUME BrokerInv, Revoke
    PROVE  BrokerInv'
<1> USE DEF BrokerInv
<1>1. UNCHANGED <<broker, hostVars, transport, view, used, toHost, toView, told, newest>>
      /\ target' = target + 1
  BY DEF Revoke
<1>2. BrokerType'
  BY <1>1 DEF BrokerType, broker, hostVars, view
<1>3. Requests'
  BY <1>1 DEF Requests, hostVars
<1>4. Owners'
  BY <1>1, OwnersStay, NothingPosted DEF hostVars, view, BrokerType
<1>5. Grants'
  BY <1>1, GrantsAway DEF hostVars
<1>6. Newest' /\ PendingExcludesRunning' /\ NoOrphanTransport' /\ Outcomes'
  BY <1>1 DEF Outcomes, Newest, PendingExcludesRunning, NoOrphanTransport, broker, hostVars
<1> QED
  BY <1>2, <1>3, <1>4, <1>5, <1>6

LEMMA PublishOwnerKeeps ==
    ASSUME BrokerInv, PublishOwner
    PROVE  BrokerInv'
<1> USE DEF BrokerInv
<1> DEFINE m == Msg("owner", target)
<1>1. /\ UNCHANGED <<broker, hostVars, transport, target, view, used, toHost, told, newest>>
      /\ toView' = Append(toView, m) /\ m \in ToViewMsgs /\ m.value = target
  BY DEF PublishOwner, Msg, ToViewMsgs, BrokerType
<1>2. toView \in Seq(ToViewMsgs)
  BY DEF BrokerType
<1> HIDE DEF m
<1>3. toView' \in Seq(ToViewMsgs)
      /\ \A i \in DOMAIN toView' : (i \in DOMAIN toView /\ toView'[i] = toView[i])
                                 \/ toView'[i] = m
  <2> HIDE DEF ToViewMsgs
  <2> QED
    BY <1>1, <1>2
<1>4. BrokerType'
  BY <1>1, <1>3 DEF BrokerType, broker, hostVars, view
<1>5. Requests'
  BY <1>1 DEF Requests, hostVars
<1>6. Owners'
  <2>1. target <= target
    BY DEF BrokerType
  <2> QED
    BY <1>1, <1>3, <2>1 DEF Owners, hostVars, view
<1>7. Grants' /\ Newest' /\ PendingExcludesRunning' /\ NoOrphanTransport' /\ Outcomes'
  BY <1>1 DEF Outcomes, Grants, Newest, PendingExcludesRunning, NoOrphanTransport, broker, hostVars
<1> QED
  BY <1>4, <1>5, <1>6, <1>7

LEMMA RestartKeeps ==
    ASSUME BrokerInv, Restart
    PROVE  BrokerInv'
<1> USE DEF BrokerInv
<1>1. /\ UNCHANGED <<stage, grant, owner, outcome, used, told>>
      /\ generation' = 0 /\ pending' = None /\ preflight' = None /\ newest' = None
      /\ target' = target + 1 /\ active' = None /\ token' = None /\ toHost' = <<>> /\ toView' = <<>>
  BY DEF Restart, hostVars
<1>2. /\ running' = None
      /\ transport' \in [Executions -> {"none", "running", "cancelled", "settled"}]
      /\ \A e \in Executions : transport'[e] # "running"
  BY CancelRunningEffect DEF Restart
<1>3. BrokerType'
  BY <1>1, <1>2 DEF BrokerType
<1>4. Requests'
  BY <1>1 DEF Requests
<1>5. Owners'
  BY <1>1 DEF Owners, BrokerType
<1>6. Grants'
  BY <1>1, GrantsAway
<1>7. Newest' /\ PendingExcludesRunning' /\ NoOrphanTransport' /\ Outcomes'
  BY <1>1, <1>2 DEF Outcomes, Newest, PendingExcludesRunning, NoOrphanTransport
<1> QED
  BY <1>3, <1>4, <1>5, <1>6, <1>7

(* cancelExpected, of an execution that is not on the way to the host. *)
LEMMA CancelExpectedKeeps ==
    ASSUME BrokerInv, NEW e \in Executions, NEW notify \in BOOLEAN, CancelExpected(e, notify),
           UNCHANGED <<grant, owner, outcome, targetVars, view, used>>,
           toHost' = toHost \/ (toHost # <<>> /\ toHost' = Tail(toHost)),
           toHost' # toHost => Head(toHost).type # "execute",
           stage' \in [Executions -> Stages],
           \A d \in Executions : stage[d] = "new" => stage'[d] = "new",
           \A d \in Executions : stage'[d] \in Admitted => stage[d] \in Admitted,
           \A d \in Executions : stage[d] = "running" => stage'[d] = "running",
           \A d \in Executions : stage'[d] = "posting" => stage[d] = "posting"
    PROVE  BrokerInv'
<1> USE DEF BrokerInv
<1> DEFINE hit == e # preflight /\ e \in {pending, running}
<1>1. preflight' \in Executions \cup {None}
      /\ IF hit
         THEN /\ generation' = generation + 1 /\ newest' = None
              /\ pending' = (IF e = pending THEN None ELSE pending)
              /\ IF e # pending THEN CancelRunning ELSE UNCHANGED <<running, transport>>
         ELSE UNCHANGED <<generation, pending, running, transport, newest>>
  BY DEF CancelExpected, BrokerType
<1>2. NoNewOwner /\ told' \in [Executions -> SUBSET Kinds]
  <2>1. CASE notify /\ e \in {preflight, pending, running}
    BY <2>1, NotifyEffect DEF CancelExpected
  <2>2. CASE ~(notify /\ e \in {preflight, pending, running})
    BY <2>2, NothingPosted DEF CancelExpected, BrokerType
  <2> QED
    BY <2>1, <2>2
<1>3. toHost' \in Seq(ToHostMsgs)
  BY TailRequests DEF BrokerType
<1>4. target' = target /\ UNCHANGED <<active, token>> /\ target \in Nat /\ target <= target
  BY DEF targetVars, view, BrokerType
<1>5. Requests'
  BY RequestsStay, RequestsShrink
<1>6. Owners'
  BY <1>2, <1>4, OwnersStay
<1>7. CASE hit
  <2>1. /\ pending' = None /\ running' = None /\ newest' = None /\ generation' = generation + 1
        /\ transport' \in [Executions -> {"none", "running", "cancelled", "settled"}]
        /\ \A d \in Executions : transport'[d] # "running"
    <3>1. CASE e = pending
      BY <1>1, <1>7, <3>1, SqlExecutionAssumption
         DEF PendingExcludesRunning, NoOrphanTransport, BrokerType, Executions
    <3>2. CASE e # pending
      BY <1>1, <1>7, <3>2, CancelRunningEffect, SqlExecutionAssumption
         DEF PendingExcludesRunning, Executions
    <3> QED
      BY <3>1, <3>2
  <2>2. BrokerType'
    BY <1>1, <1>2, <1>3, <1>4, <2>1 DEF BrokerType, NoNewOwner
  <2>3. Grants'
    BY <1>4, <2>1, GrantsStale
  <2> QED
    BY <1>5, <1>6, <2>1, <2>2, <2>3 DEF Newest, PendingExcludesRunning, NoOrphanTransport, Outcomes
<1>8. CASE ~hit
  <2>1. UNCHANGED <<generation, pending, running, transport, newest>>
    BY <1>1, <1>8
  <2>2. BrokerType'
    BY <1>1, <1>2, <1>3, <1>4, <2>1 DEF BrokerType, NoNewOwner
  <2>3. Grants'
    BY <1>4, <2>1, GrantsStay
  <2> QED
    BY <1>5, <1>6, <2>1, <2>2, <2>3 DEF Newest, PendingExcludesRunning, NoOrphanTransport, Outcomes
<1> QED
  BY <1>7, <1>8

LEMMA CancelMessageKeeps ==
    ASSUME BrokerInv, CancelMessage
    PROVE  BrokerInv'
<1>1. /\ toHost # <<>> /\ Head(toHost).type = "cancel" /\ toHost' = Tail(toHost)
      /\ UNCHANGED <<hostVars, targetVars, view, used>>
      /\ target' = target /\ target \in Nat /\ target <= target
      /\ UNCHANGED <<stage, grant, owner, outcome>> /\ stage' \in [Executions -> Stages]
  BY DEF CancelMessage, Received, BrokerInv, BrokerType, hostVars, targetVars
<1>2. CASE Head(toHost).value = None
  BY <1>1, <1>2, SupersededKeeps DEF CancelMessage
<1>3. CASE Head(toHost).value # None
  <2>1. Head(toHost) \in ToHostMsgs
    BY <1>1, TailRequests DEF BrokerInv, BrokerType
  <2>2. Head(toHost).value \in Executions
    BY <1>1, <1>3, <2>1 DEF ToHostMsgs
  <2> QED
    BY <1>1, <1>3, <2>2, CancelExpectedKeeps DEF CancelMessage
<1> QED
  BY <1>2, <1>3

-----------------------------------------------------------------------------
(* The steps of the executions. *)

LEMMA ExecuteKeeps ==
    ASSUME BrokerInv, Execute
    PROVE  BrokerInv'
<1> USE DEF BrokerInv
<1> DEFINE e == Head(toHost).value
           t == Head(toHost).token
<1>1. /\ toHost # <<>> /\ Head(toHost).type = "execute" /\ toHost' = Tail(toHost)
      /\ Notify(preflight, None, None) /\ preflight' = e
      /\ stage' = [stage EXCEPT ![e] = "preflight"] /\ owner' = [owner EXCEPT ![e] = t]
      /\ UNCHANGED <<generation, pending, running, grant, transport, outcome, target, active, token,
                     used, newest>>
  BY DEF Execute, Received, ReservePreflight, Goto, targetVars, view
<1>2. Head(toHost) \in ToHostMsgs /\ Head(toHost) = toHost[1] /\ 1 \in DOMAIN toHost
      /\ Tail(toHost) \in Seq(ToHostMsgs)
  BY <1>1, TailRequests DEF BrokerType
<1>3. e \in Executions /\ t \in Nat /\ t <= target /\ stage[e] = "new" /\ e \in used
  BY <1>1, <1>2 DEF ToHostMsgs, Executions, Owners, Requests
<1> HIDE DEF e, t
<1>4. NoNewOwner /\ told' \in [Executions -> SUBSET Kinds]
  BY <1>1, NotifyEffect DEF BrokerType
<1>5. BrokerType'
  <2>1. toHost' \in Seq(ToHostMsgs) /\ toView' \in Seq(ToViewMsgs)
    BY <1>1, <1>2, <1>4 DEF NoNewOwner
  <2>2. stage' \in [Executions -> Stages] /\ owner' \in [Executions -> Nat]
    BY <1>1, <1>3 DEF BrokerType, Stages
  <2> QED
    BY <1>1, <1>3, <1>4, <2>1, <2>2 DEF BrokerType
<1>6. Requests'
  BY <1>1, <1>3, RequestsShrink DEF BrokerType, e
<1>7. Owners'
  <2>1. /\ token' # None => token' <= target'
        /\ \A d \in Executions : owner'[d] <= target'
    BY <1>1, <1>3 DEF Owners, BrokerType
  <2>2. ASSUME NEW i \in DOMAIN toHost', toHost'[i].type = "execute"
        PROVE  toHost'[i].token <= target'
    BY <1>1, <2>2, TailRequests DEF Owners
  <2>3. ASSUME NEW i \in DOMAIN toView', toView'[i].type = "owner"
        PROVE  toView'[i].value <= target'
    BY <1>1, <1>4, <2>3 DEF Owners, NoNewOwner
  <2> QED
    BY <2>1, <2>2, <2>3 DEF Owners
<1>8. Grants'
  BY <1>1, <1>3, GrantsStay DEF Admitted, BrokerType
<1>9. Newest' /\ PendingExcludesRunning' /\ NoOrphanTransport' /\ Outcomes'
  BY <1>1, <1>3 DEF Outcomes, Newest, PendingExcludesRunning, NoOrphanTransport, BrokerType
<1> QED
  BY <1>5, <1>6, <1>7, <1>8, <1>9

LEMMA ReserveCopilotKeeps ==
    ASSUME BrokerInv, NEW e \in Executions, ReserveCopilot(e)
    PROVE  BrokerInv'
<1> USE DEF BrokerInv
<1>1. /\ e \notin used /\ used' = used \cup {e} /\ toHost' = toHost
      /\ Notify(preflight, None, None) /\ preflight' = e
      /\ stage' = [stage EXCEPT ![e] = "preflight"] /\ owner' = [owner EXCEPT ![e] = target]
      /\ UNCHANGED <<generation, pending, running, grant, transport, outcome, target, active, token,
                     newest>>
  BY DEF ReserveCopilot, ReservePreflight, Goto, targetVars, view
<1>2. stage[e] = "new" /\ (\A i \in DOMAIN toHost : toHost[i].type = "execute" => toHost[i].value # e)
  BY <1>1 DEF Requests
<1>3. NoNewOwner /\ told' \in [Executions -> SUBSET Kinds]
  BY <1>1, NotifyEffect DEF BrokerType
<1>4. BrokerType'
  BY <1>1, <1>3 DEF BrokerType, NoNewOwner, Stages
<1>5. Requests'
  BY <1>1, <1>2 DEF Requests, BrokerType
<1>6. Owners'
  <2>1. /\ token' # None => token' <= target'
        /\ \A d \in Executions : owner'[d] <= target'
        /\ \A i \in DOMAIN toHost' : toHost'[i].type = "execute" => toHost'[i].token <= target'
    BY <1>1 DEF Owners, BrokerType
  <2>2. ASSUME NEW i \in DOMAIN toView', toView'[i].type = "owner"
        PROVE  toView'[i].value <= target'
    BY <1>1, <1>3, <2>2 DEF Owners, NoNewOwner
  <2> QED
    BY <2>1, <2>2 DEF Owners
<1>7. Grants'
  BY <1>1, <1>2, GrantsStay DEF Admitted, BrokerType
<1>8. Newest' /\ PendingExcludesRunning' /\ NoOrphanTransport' /\ Outcomes'
  BY <1>1, <1>2 DEF Outcomes, Newest, PendingExcludesRunning, NoOrphanTransport, BrokerType
<1> QED
  BY <1>4, <1>5, <1>6, <1>7, <1>8

(* A step of one execution that leaves generation, grants and owners alone, *)
(* and at which nobody comes to run.                                       *)
LEMMA StepKeeps ==
    ASSUME BrokerInv, NEW e \in Executions, NEW s \in Stages \ {"new"}, stage[e] # "new",
           stage' = [stage EXCEPT ![e] = s], s \in Admitted => stage[e] \in Admitted,
           UNCHANGED <<generation, pending, grant, owner, targetVars, view, used, toHost, newest>>,
           preflight' \in Executions \cup {None},
           outcome' \in [Executions -> Kinds \cup {"none", "suppressed"}],
           \A d \in Executions \ {e} : outcome'[d] = outcome[d],
           s = "posting" => outcome'[e] \in Kinds, NoNewOwner, told' \in [Executions -> SUBSET Kinds],
           running' = running \/ (running' = None /\ running = e),
           transport' = transport \/ transport' = [transport EXCEPT ![e] = "settled"],
           transport'[e] = "running" => s = "running" /\ running' = running
    PROVE  BrokerInv'
<1> USE DEF BrokerInv
<1>1. UNCHANGED <<target, active, token>>
  BY DEF targetVars, view
<1>2. BrokerType'
  <2>1. toView' \in Seq(ToViewMsgs)
    BY DEF NoNewOwner
  <2>2. stage' \in [Executions -> Stages]
    BY DEF BrokerType
  <2>3. transport' \in [Executions -> {"none", "running", "cancelled", "settled"}]
    BY DEF BrokerType
  <2>4. /\ pending' \in Executions \cup {None} /\ preflight' \in Executions \cup {None}
        /\ running' \in Executions \cup {None} /\ active' \in Executions \cup {None}
        /\ newest' \in Executions \cup {None}
    BY <1>1 DEF BrokerType
  <2> QED
    BY <1>1, <2>1, <2>2, <2>3, <2>4 DEF BrokerType
<1>3. Requests'
  BY RequestsStay DEF BrokerType
<1>4. Owners'
  BY <1>1, OwnersStay DEF BrokerType
<1>5. Grants'
  <2>1. ASSUME NEW d \in Executions, stage'[d] \in Admitted
        PROVE  /\ stage[d] \in Admitted /\ owner'[d] = owner[d]
               /\ transport'[d] = "none" \/ running' = d => transport[d] = "none" \/ running = d
    <3>1. stage[d] \in Admitted
      BY <2>1 DEF BrokerType
    <3>2. transport'[d] = "none" => transport[d] = "none"
      BY DEF BrokerType
    <3>3. running' = d => running = d
      BY SqlExecutionAssumption DEF Executions
    <3> QED
      BY <3>1, <3>2, <3>3
  <2> QED
    BY <1>1, <2>1, GrantsStay
<1>6. Newest' /\ PendingExcludesRunning'
  BY DEF Newest, PendingExcludesRunning, BrokerType
<1>7. NoOrphanTransport' /\ Outcomes'
  BY DEF NoOrphanTransport, Outcomes, BrokerType
<1> QED
  BY <1>2, <1>3, <1>4, <1>5, <1>6, <1>7

LEMMA RefuseKeeps ==
    ASSUME BrokerInv, NEW e \in Executions, Refuse(e)
    PROVE  BrokerInv'
<1>1. /\ stage[e] = "preflight" /\ stage' = [stage EXCEPT ![e] = "done"]
      /\ UNCHANGED <<generation, pending, running, grant, owner, transport, outcome, targetVars, view,
                     used, toHost, newest>>
      /\ preflight' \in Executions \cup {None}
      /\ transport[e] # "running"
  BY DEF Refuse, Goto, BrokerInv, BrokerType, NoOrphanTransport
<1>2. NoNewOwner /\ told' \in [Executions -> SUBSET Kinds]
  <2>1. CASE IsStillActiveRun(e)
    <3>1. toView' = Append(toView, Msg("error", e)) /\ told' = [told EXCEPT ![e] = @ \cup {"error"}]
      BY <2>1 DEF Refuse, Publish
    <3>2. NoNewOwner
      BY <3>1, OnePosted DEF BrokerInv, Kinds
    <3> QED
      BY <3>1, <3>2 DEF BrokerInv, BrokerType, Kinds
  <2>2. CASE ~IsStillActiveRun(e)
    BY <2>2, NothingPosted DEF Refuse, BrokerInv, BrokerType
  <2> QED
    BY <2>1, <2>2
<1> QED
  BY <1>1, <1>2, StepKeeps DEF Admitted, Stages, BrokerInv, BrokerType

LEMMA PublishStartKeeps ==
    ASSUME BrokerInv, NEW e \in Executions, PublishStart(e)
    PROVE  BrokerInv'
<1>1. /\ stage[e] = "admitted" /\ stage' = [stage EXCEPT ![e] = "announced"]
      /\ UNCHANGED <<generation, pending, preflight, running, grant, owner, transport, outcome,
                     targetVars, view, used, toHost, told, newest>>
      /\ transport[e] # "running"
  BY DEF PublishStart, Goto, broker, BrokerInv, BrokerType, NoOrphanTransport
<1>2. NoNewOwner
  BY OnePosted DEF PublishStart, BrokerInv
<1> QED
  BY <1>1, <1>2, StepKeeps DEF Admitted, Stages, BrokerInv, BrokerType

LEMMA RetractKeeps ==
    ASSUME BrokerInv, NEW e \in Executions, Retract(e)
    PROVE  BrokerInv'
<1>1. /\ stage[e] = "retracting" /\ stage' = [stage EXCEPT ![e] = "done"]
      /\ UNCHANGED <<generation, pending, preflight, running, grant, owner, transport, outcome,
                     targetVars, view, used, toHost, told, newest>>
      /\ transport[e] # "running"
  BY DEF Retract, Goto, broker, BrokerInv, BrokerType, NoOrphanTransport
<1>2. NoNewOwner
  BY OnePosted DEF Retract, BrokerInv
<1> QED
  BY <1>1, <1>2, StepKeeps DEF Admitted, Stages, BrokerInv, BrokerType

LEMMA FailCopilotKeeps ==
    ASSUME BrokerInv, NEW e \in Executions, FailCopilot(e)
    PROVE  BrokerInv'
<1> DEFINE s == IF stage[e] = "announced" THEN "retracting" ELSE "done"
<1>1. /\ CancelExpected(e, FALSE) /\ stage' = [stage EXCEPT ![e] = s]
      /\ UNCHANGED <<grant, owner, outcome, targetVars, view, used, toHost>>
      /\ stage[e] \notin {"new", "running"}
  BY DEF FailCopilot, Goto
<1>2. s \in Stages /\ s \notin Admitted
  BY DEF Stages, Admitted
<1> HIDE DEF s
<1>3. /\ stage' \in [Executions -> Stages]
      /\ \A d \in Executions : stage[d] = "new" => stage'[d] = "new"
      /\ \A d \in Executions : stage'[d] \in Admitted => stage[d] \in Admitted
      /\ \A d \in Executions : stage[d] = "running" => stage'[d] = "running"
      /\ \A d \in Executions : stage'[d] = "posting" => stage[d] = "posting"
  BY <1>1, <1>2 DEF BrokerInv, BrokerType, Admitted
<1> QED
  BY <1>1, <1>3, CancelExpectedKeeps

LEMMA SettleKeeps ==
    ASSUME BrokerInv, NEW e \in Executions, NEW kind \in Kinds, Settle(e, kind)
    PROVE  BrokerInv'
<1> DEFINE s == IF ~IsStillActiveRun(e) THEN "done"
                ELSE IF kind = "result" THEN "checking" ELSE "posting"
<1>1. /\ stage[e] = "running" /\ stage' = [stage EXCEPT ![e] = s]
      /\ transport' = [transport EXCEPT ![e] = "settled"]
      /\ outcome' = [outcome EXCEPT ![e] = kind]
      /\ running' = running \/ (running' = None /\ running = e)
      /\ UNCHANGED <<generation, pending, preflight, grant, owner, targetVars, view, used, toHost,
                     toView, told, newest>>
  BY DEF Settle, Goto, Release
<1>2. s \in Stages \ {"new"}
  BY DEF Stages
<1>3. NoNewOwner /\ stage[e] \in Admitted
  BY <1>1, NothingPosted DEF BrokerInv, Admitted
<1>4. /\ outcome' \in [Executions -> Kinds \cup {"none", "suppressed"}]
      /\ transport'[e] # "running"
      /\ preflight' \in Executions \cup {None} /\ told' \in [Executions -> SUBSET Kinds]
  BY <1>1 DEF BrokerInv, BrokerType
<1>5. (\A d \in Executions \ {e} : outcome'[d] = outcome[d]) /\ outcome'[e] \in Kinds
  BY <1>1 DEF BrokerInv, BrokerType
<1> HIDE DEF s
<1> QED
  BY <1>1, <1>2, <1>3, <1>4, <1>5, StepKeeps

(* Behind its transport an execution runs no query. *)
LEMMA CheckOwnerKeeps ==
    ASSUME BrokerInv, NEW e \in Executions, CheckOwner(e)
    PROVE  BrokerInv'
<1> DEFINE s == IF IsStillActiveRun(e) THEN "posting" ELSE "done"
<1>1. /\ stage[e] = "checking" /\ stage' = [stage EXCEPT ![e] = s]
      /\ running' = running \/ (running' = None /\ running = e)
      /\ outcome' = outcome \/ outcome' = [outcome EXCEPT ![e] = "result"]
                           \/ outcome' = [outcome EXCEPT ![e] = "error"]
      /\ UNCHANGED <<generation, pending, preflight, grant, owner, transport, targetVars, view, used,
                     toHost, toView, told, newest>>
  BY DEF CheckOwner, Goto, Release
<1>2. s \in Stages \ {"new"}
  BY DEF Stages
<1>3. NoNewOwner /\ stage[e] \in Admitted
  BY <1>1, NothingPosted DEF BrokerInv, Admitted
<1>4. /\ outcome' \in [Executions -> Kinds \cup {"none", "suppressed"}]
      /\ transport'[e] # "running"
      /\ preflight' \in Executions \cup {None} /\ told' \in [Executions -> SUBSET Kinds]
  BY <1>1 DEF BrokerInv, BrokerType, NoOrphanTransport, Kinds
<1>5. \A d \in Executions \ {e} : outcome'[d] = outcome[d]
  BY <1>1 DEF BrokerInv, BrokerType
<1>6. s = "posting" => outcome'[e] \in Kinds
  BY DEF CheckOwner, BrokerInv, BrokerType, Kinds
<1> HIDE DEF s
<1> QED
  BY <1>1, <1>2, <1>3, <1>4, <1>5, <1>6, StepKeeps

LEMMA PostKeeps ==
    ASSUME BrokerInv, NEW e \in Executions, Post(e)
    PROVE  BrokerInv'
<1> DEFINE ok == owner[e] = target /\ IsStillActiveRun(e)
           s == IF ok THEN "posted" ELSE "done"
<1>1. /\ stage[e] = "posting" /\ stage' = [stage EXCEPT ![e] = s]
      /\ running' = running \/ (running' = None /\ running = e)
      /\ UNCHANGED <<generation, pending, preflight, grant, owner, transport, outcome, targetVars, view,
                     used, toHost, newest>>
      /\ IF ok THEN Publish(outcome[e], e) ELSE UNCHANGED <<toView, told>>
  BY DEF Post, Goto, Release
<1>2. s \in Stages \ {"new"}
  BY DEF Stages
<1> HIDE DEF s, ok
<1>3. NoNewOwner /\ told' \in [Executions -> SUBSET Kinds]
  <2>1. CASE ok
    <3>1. outcome[e] \in Kinds
      BY <1>1 DEF BrokerInv, Outcomes
    <3>2. /\ toView' = Append(toView, Msg(outcome[e], e))
          /\ told' = [told EXCEPT ![e] = @ \cup {outcome[e]}]
      BY <1>1, <2>1 DEF Publish
    <3>3. NoNewOwner
      BY <3>1, <3>2, OnePosted DEF BrokerInv
    <3>4. told' \in [Executions -> SUBSET Kinds]
      BY <3>1, <3>2 DEF BrokerInv, BrokerType
    <3> QED
      BY <3>3, <3>4
  <2>2. CASE ~ok
    BY <1>1, <2>2, NothingPosted DEF BrokerInv, BrokerType
  <2> QED
    BY <2>1, <2>2
<1>4. s # "posting" /\ transport[e] # "running"
  BY <1>1 DEF s, BrokerInv, NoOrphanTransport
<1> QED
  BY <1>1, <1>2, <1>3, <1>4, StepKeeps DEF BrokerInv, BrokerType, Admitted

LEMMA PostTimesOutKeeps ==
    ASSUME BrokerInv, NEW e \in Executions, PostTimesOut(e)
    PROVE  BrokerInv'
<1> DEFINE s == IF outcome[e] = "result" THEN "posting" ELSE "done"
<1>1. /\ stage[e] = "posting" /\ stage' = [stage EXCEPT ![e] = s]
      /\ running' = running \/ (running' = None /\ running = e)
      /\ outcome' = [outcome EXCEPT ![e] = IF outcome[e] = "result" THEN "error" ELSE "suppressed"]
      /\ UNCHANGED <<generation, pending, preflight, grant, owner, transport, targetVars, view, used,
                     toHost, toView, told, newest>>
  BY DEF PostTimesOut, Goto, Release, BrokerInv, BrokerType
<1>2. s \in Stages \ {"new"}
  BY DEF Stages
<1>3. NoNewOwner /\ stage[e] \in Admitted
  BY <1>1, NothingPosted DEF BrokerInv, Admitted
<1>4. /\ outcome' \in [Executions -> Kinds \cup {"none", "suppressed"}]
      /\ transport'[e] # "running"
      /\ preflight' \in Executions \cup {None} /\ told' \in [Executions -> SUBSET Kinds]
  BY <1>1 DEF BrokerInv, BrokerType, NoOrphanTransport, Kinds
<1>5. \A d \in Executions \ {e} : outcome'[d] = outcome[d]
  BY <1>1 DEF BrokerInv, BrokerType
<1>6. s = "posting" => outcome'[e] \in Kinds
  BY <1>1 DEF BrokerInv, BrokerType, Kinds
<1> HIDE DEF s
<1> QED
  BY <1>1, <1>2, <1>3, <1>4, <1>5, <1>6, StepKeeps

LEMMA FinishKeeps ==
    ASSUME BrokerInv, NEW e \in Executions, Finish(e)
    PROVE  BrokerInv'
<1>1. /\ stage[e] = "posted" /\ stage' = [stage EXCEPT ![e] = "done"]
      /\ running' = running \/ (running' = None /\ running = e)
      /\ UNCHANGED <<generation, pending, preflight, grant, owner, transport, outcome, targetVars, view,
                     used, toHost, toView, told, newest>>
      /\ transport[e] # "running"
  BY DEF Finish, Goto, Release, BrokerInv, BrokerType, NoOrphanTransport
<1>2. NoNewOwner
  BY <1>1, NothingPosted DEF BrokerInv
<1> QED
  BY <1>1, <1>2, StepKeeps DEF Stages, Admitted, BrokerInv, BrokerType

(* promotePreflight: the one promoted is the newest, every earlier grant is *)
(* left behind.                                                            *)
LEMMA PromotedKeeps ==
    ASSUME BrokerInv, NEW e \in Executions, NEW s \in {"admitted", "running", "posting"},
           stage[e] = "preflight", stage' = [stage EXCEPT ![e] = s],
           Promote(e, pending'), Notify(pending, running, None),
           UNCHANGED <<owner, targetVars, view, used, toHost>>,
           outcome' \in [Executions -> Kinds \cup {"none", "suppressed"}],
           \A d \in Executions \ {e} : outcome'[d] = outcome[d],
           s = "posting" => outcome'[e] \in Kinds,
           transport' \in [Executions -> {"none", "running", "cancelled", "settled"}],
           \A d \in Executions \ {e} : transport'[d] # "running",
           transport'[e] = "running" => s = "running" /\ running' = e,
           running' = e => transport'[e] # "none",
           running' \in {e, None}, pending' \in {e, None}, pending' = None \/ running' = None
    PROVE  BrokerInv'
<1> USE DEF BrokerInv
<1>1. /\ preflight' = None /\ generation' = generation + 1 /\ newest' = e
      /\ grant' = [grant EXCEPT ![e] = generation + 1]
      /\ UNCHANGED <<target, active, token>>
  BY DEF Promote, targetVars, view
<1>2. NoNewOwner /\ told' \in [Executions -> SUBSET Kinds]
  BY NotifyEffect DEF BrokerType
<1>3. BrokerType'
  <2>1. toView' \in Seq(ToViewMsgs)
    BY <1>2 DEF NoNewOwner
  <2>2. stage' \in [Executions -> Stages] /\ grant' \in [Executions -> Nat]
    BY <1>1 DEF BrokerType, Stages
  <2> QED
    BY <1>1, <1>2, <2>1, <2>2 DEF BrokerType
<1>4. Requests'
  BY RequestsStay DEF BrokerType
<1>5. Owners'
  BY <1>1, <1>2, OwnersStay DEF BrokerType
<1>6. Grants'
  <2> SUFFICES ASSUME NEW d \in Executions, stage'[d] \in Admitted, owner[d] = target
               PROVE  grant'[d] <= generation' /\ (grant'[d] = generation' => newest' = d)
    BY <1>1 DEF Grants
  <2>1. CASE d = e
    BY <1>1, <2>1 DEF BrokerType
  <2>2. CASE d # e
    <3>1. stage[d] \in Admitted /\ grant'[d] = grant[d] /\ grant[d] \in Nat
      BY <1>1, <2>2 DEF BrokerType
    <3>2. grant[d] <= generation
      BY <3>1 DEF Grants
    <3>3. generation \in Nat /\ generation' = generation + 1 /\ grant'[d] < generation'
      BY <1>1, <3>1, <3>2 DEF BrokerType
    <3> QED
      BY <3>3, <1>1, <3>1, <3>2
  <2> QED
    BY <2>1, <2>2
<1>7. Newest' /\ PendingExcludesRunning'
  BY <1>1, SqlExecutionAssumption DEF Newest, PendingExcludesRunning, Executions
<1>8. NoOrphanTransport' /\ Outcomes'
  BY DEF NoOrphanTransport, Outcomes, BrokerType
<1> QED
  BY <1>3, <1>4, <1>5, <1>6, <1>7, <1>8

LEMMA StartManualKeeps ==
    ASSUME BrokerInv, NEW e \in Executions, StartManual(e)
    PROVE  BrokerInv'
<1>1. /\ stage[e] = "preflight" /\ stage' = [stage EXCEPT ![e] = "running"]
      /\ Promote(e, pending') /\ Notify(pending, running, None)
      /\ UNCHANGED <<owner, outcome, targetVars, view, used, toHost>>
      /\ running' = e /\ pending' = None
  BY DEF StartManual, Goto, Promote
<1>2. /\ transport' \in [Executions -> {"none", "running", "cancelled", "settled"}]
      /\ \A d \in Executions \ {e} : transport'[d] # "running"
      /\ transport'[e] = "running"
  BY DEF StartManual, BrokerInv, BrokerType, NoOrphanTransport
<1> QED
  BY <1>1, <1>2, PromotedKeeps DEF BrokerInv, BrokerType

LEMMA StartManualThrowsKeeps ==
    ASSUME BrokerInv, NEW e \in Executions, StartManualThrows(e)
    PROVE  BrokerInv'
<1>1. /\ stage[e] = "preflight" /\ stage' = [stage EXCEPT ![e] = "posting"]
      /\ Promote(e, pending') /\ Notify(pending, running, None) /\ CancelRunning
      /\ UNCHANGED <<owner, targetVars, view, used, toHost>>
      /\ outcome' = [outcome EXCEPT ![e] = "error"] /\ pending' = None
  BY DEF StartManualThrows, Goto, Promote
<1>2. /\ outcome' \in [Executions -> Kinds \cup {"none", "suppressed"}] /\ outcome'[e] \in Kinds
      /\ \A d \in Executions \ {e} : outcome'[d] = outcome[d]
  BY <1>1 DEF BrokerInv, BrokerType, Kinds
<1> QED
  BY <1>1, <1>2, CancelRunningEffect, PromotedKeeps, SqlExecutionAssumption DEF BrokerInv, Executions

LEMMA PromoteCopilotKeeps ==
    ASSUME BrokerInv, NEW e \in Executions, PromoteCopilot(e)
    PROVE  BrokerInv'
<1>1. /\ stage[e] = "preflight" /\ stage' = [stage EXCEPT ![e] = "admitted"]
      /\ Promote(e, pending') /\ Notify(pending, running, None) /\ CancelRunning
      /\ UNCHANGED <<owner, outcome, targetVars, view, used, toHost>>
      /\ pending' = e
  BY DEF PromoteCopilot, Goto, Promote
<1> QED
  BY <1>1, CancelRunningEffect, PromotedKeeps, SqlExecutionAssumption
     DEF BrokerInv, BrokerType, Executions

(* What is pending becomes what runs. *)
LEMMA StartCopilotKeeps ==
    ASSUME BrokerInv, NEW e \in Executions, StartCopilot(e)
    PROVE  BrokerInv'
<1> USE DEF BrokerInv
<1>1. /\ stage[e] = "announced" /\ stage' = [stage EXCEPT ![e] = "running"]
      /\ pending = e /\ pending' = None /\ running' = e
      /\ transport' = [transport EXCEPT ![e] = "running"]
      /\ UNCHANGED <<generation, preflight, grant, owner, outcome, targetVars, view, used, toHost,
                     toView, told, newest>>
      /\ UNCHANGED <<target, active, token>>
  BY DEF StartCopilot, Goto, IsPendingCurrent, targetVars, view
<1>2. e # None /\ newest = e /\ running = None
  BY <1>1, SqlExecutionAssumption DEF Newest, PendingExcludesRunning, Executions
<1>3. BrokerType'
  BY <1>1 DEF BrokerType, Stages
<1>4. Requests'
  BY <1>1, RequestsStay DEF BrokerType
<1>5. Owners'
  BY <1>1, NothingPosted, OwnersStay DEF BrokerType
<1>6. Grants'
  <2> SUFFICES ASSUME NEW d \in Executions, stage'[d] \in Admitted, owner[d] = target
               PROVE  /\ grant[d] <= generation
                      /\ grant[d] = generation /\ (transport'[d] = "none" \/ d = e) => newest = d
    BY <1>1 DEF Grants
  <2>1. stage[d] \in Admitted
    BY <1>1 DEF Admitted, BrokerType
  <2> QED
    BY <1>1, <1>2, <2>1 DEF Grants, BrokerType
<1>7. Newest' /\ PendingExcludesRunning' /\ Outcomes'
  BY <1>1, <1>2 DEF Newest, PendingExcludesRunning, Outcomes, BrokerType
<1>8. NoOrphanTransport'
  <2>1. \A d \in Executions : transport[d] # "running"
    BY <1>2, SqlExecutionAssumption DEF NoOrphanTransport, Executions
  <2> QED
    BY <1>1, <2>1 DEF NoOrphanTransport, BrokerType
<1> QED
  BY <1>3, <1>4, <1>5, <1>6, <1>7, <1>8

(* What ran was the newest, so no grant of another one is current.          *)
LEMMA CancelCopilotKeeps ==
    ASSUME BrokerInv, NEW e \in Executions, CancelCopilot(e)
    PROVE  BrokerInv'
<1> USE DEF BrokerInv
<1>1. /\ running = e /\ newest' = None /\ CancelRunning
      /\ UNCHANGED <<generation, pending, preflight, hostVars, targetVars, view, used,
                     toHost, told>>
      /\ UNCHANGED <<target, active, token, stage, grant, owner, outcome>>
  BY DEF CancelCopilot, hostVars, targetVars, view
<1>2. /\ running' = None
      /\ transport' \in [Executions -> {"none", "running", "cancelled", "settled"}]
      /\ \A d \in Executions : transport'[d] # "running"
      /\ \A d \in Executions : transport'[d] = "none" => transport[d] = "none"
  BY <1>1, CancelRunningEffect DEF CancelRunning, BrokerType
<1>3. e # None /\ newest = e /\ pending = None
  BY <1>1, SqlExecutionAssumption DEF Newest, PendingExcludesRunning, Executions
<1>4. NoNewOwner
  BY OnePosted DEF CancelCopilot
<1>5. BrokerType'
  BY <1>1, <1>2, <1>4 DEF BrokerType, NoNewOwner
<1>6. Requests'
  BY <1>1, RequestsStay DEF BrokerType
<1>7. Owners'
  BY <1>1, <1>4, OwnersStay DEF BrokerType
<1>8. Newest' /\ PendingExcludesRunning' /\ NoOrphanTransport' /\ Outcomes'
  BY <1>1, <1>2, <1>3 DEF Newest, PendingExcludesRunning, NoOrphanTransport, Outcomes
<1>9. Grants'
  <2> SUFFICES ASSUME NEW d \in Executions, stage[d] \in Admitted, owner[d] = target
               PROVE  /\ grant[d] <= generation
                      /\ grant[d] = generation => transport'[d] # "none"
    BY <1>1, <1>2, SqlExecutionAssumption DEF Grants, Executions
  <2>1. ASSUME grant[d] = generation, transport'[d] = "none"
        PROVE  FALSE
    <3>1. newest = d /\ transport[d] = "none"
      BY <1>2, <2>1 DEF Grants
    <3>2. transport[e] # "none"
      BY <1>1, <1>3 DEF Newest
    <3> QED
      BY <1>3, <3>1, <3>2
  <2> QED
    BY <2>1 DEF Grants
<1> QED
  BY <1>5, <1>6, <1>7, <1>8, <1>9

-----------------------------------------------------------------------------
(* The broker's invariant is inductive. *)

(* The broker starts empty, with nothing on the channels. *)
THEOREM InitBroker == Init => BrokerInv
<1> SUFFICES ASSUME Init
             PROVE  BrokerInv
  OBVIOUS
<1>1. BrokerType
  BY DEF Init, BrokerType, Stages
<1>2. Requests /\ Owners
  BY DEF Init, Requests, Owners
<1>3. Grants /\ Newest /\ PendingExcludesRunning /\ NoOrphanTransport /\ Outcomes
  BY DEF Init, Grants, Newest, PendingExcludesRunning, NoOrphanTransport, Outcomes, Admitted
<1> QED
  BY <1>1, <1>2, <1>3 DEF BrokerInv

(* No step of the webview, of the owners or of an execution breaks it. *)
THEOREM BrokerStep == BrokerInv /\ [Next]_vars => BrokerInv'
<1> SUFFICES ASSUME BrokerInv, [Next]_vars
             PROVE  BrokerInv'
  OBVIOUS
<1>1. CASE Cancel \/ Retarget \/ Receive
  BY <1>1, CancelKeeps, RetargetKeeps, ReceiveKeeps
<1>2. CASE HostReceives \/ Revoke \/ Noticed \/ PublishOwner \/ Restart
  BY <1>2, ExecuteKeeps, CancelMessageKeeps, AdoptTargetKeeps, RevokeKeeps, NoticedKeeps,
     PublishOwnerKeeps, RestartKeeps DEF HostReceives
<1>3. CASE \E e \in Executions : Run(e) \/ ReserveCopilot(e) \/ Validate(e) \/ Prepare(e)
                                  \/ CancelCopilot(e) \/ Conclude(e)
  <2> SUFFICES ASSUME NEW e \in Executions,
                      Run(e) \/ ReserveCopilot(e) \/ Validate(e) \/ Prepare(e)
                      \/ CancelCopilot(e) \/ Conclude(e)
               PROVE  BrokerInv'
    BY <1>3
  <2>1. CASE Run(e) \/ ReserveCopilot(e) \/ CancelCopilot(e)
    BY <2>1, RunKeeps, ReserveCopilotKeeps, CancelCopilotKeeps
  <2>2. CASE Validate(e)
    BY <2>2, RefuseKeeps, StartManualKeeps, StartManualThrowsKeeps DEF Validate
  <2>3. CASE Prepare(e)
    BY <2>3, PromoteCopilotKeeps, PublishStartKeeps, StartCopilotKeeps, FailCopilotKeeps,
       RetractKeeps DEF Prepare
  <2>4. CASE Conclude(e)
    BY <2>4, SettleKeeps, CheckOwnerKeeps, PostKeeps, PostTimesOutKeeps, FinishKeeps DEF Conclude
  <2> QED
    BY <2>1, <2>2, <2>3, <2>4
<1>4. CASE UNCHANGED vars
  BY <1>4 DEF vars, broker, hostVars, targetVars, view, BrokerInv, BrokerType, Requests, Owners, Grants,
     Newest, PendingExcludesRunning, NoOrphanTransport, Outcomes
<1> QED
  BY <1>1, <1>2, <1>3, <1>4 DEF Next

(* In every behaviour the broker's entries, the grants and the newest       *)
(* admission agree.                                                        *)
THEOREM BrokerHolds == Spec => []BrokerInv
BY InitBroker, BrokerStep, PTL DEF Spec

(* Nothing runs while an admission is pending, so supersede, which tells    *)
(* the webview of one of the two, leaves no one untold.                    *)
THEOREM OneOfTwo == Spec => []PendingExcludesRunning
<1>1. BrokerInv => PendingExcludesRunning
  BY DEF BrokerInv
<1> QED
  BY <1>1, BrokerHolds, PTL

(* A query that runs on the server is the one that cancellation reaches.    *)
THEOREM RunningIsReachable == Spec => []NoOrphanTransport
<1>1. BrokerInv => NoOrphanTransport
  BY DEF BrokerInv
<1> QED
  BY <1>1, BrokerHolds, PTL

(* Of all steps only the guarded post of an execution publishes rows.       *)
LEMMA OnlyPostPublishes ==
    ASSUME BrokerInv, Next, NEW e \in Executions, "result" \in told'[e] \ told[e]
    PROVE  Post(e) /\ stage[e] = "posting" /\ owner[e] = target /\ IsStillActiveRun(e)
<1> USE DEF BrokerInv
<1>1. ~UNCHANGED told
  OBVIOUS
<1>2. ~(Cancel \/ Retarget \/ Receive \/ Revoke \/ PublishOwner \/ Restart)
  BY <1>1 DEF Cancel, Retarget, Receive, Revoke, PublishOwner, Restart
<1>3. ~Supersede(TRUE)
  BY SupersedeEffect
<1>4. \A d \in Executions, b \in BOOLEAN : ~CancelExpected(d, b)
  BY <1>1, NotifyEffect DEF CancelExpected, BrokerType
<1>5. ~(Noticed \/ AdoptTarget)
  BY <1>3 DEF Noticed, AdoptTarget
<1>6. ~CancelMessage
  <2>1. ASSUME CancelMessage
        PROVE  FALSE
    <3>1. Head(toHost).type = "cancel" /\ Head(toHost) \in ToHostMsgs
      BY <2>1, TailRequests DEF CancelMessage, Received, BrokerType
    <3>2. Head(toHost).value \in Executions \cup {None}
      BY <3>1 DEF ToHostMsgs
    <3> QED
      BY <1>3, <1>4, <2>1, <3>2 DEF CancelMessage
  <2> QED
    BY <2>1
<1>7. ~Notify(preflight, None, None) /\ ~Notify(pending, running, None)
  BY NotifyEffect DEF BrokerType
<1>8. ~Execute
  BY <1>7 DEF Execute, ReservePreflight
<1>9. PICK d \in Executions : Run(d) \/ ReserveCopilot(d) \/ Validate(d) \/ Prepare(d)
                               \/ CancelCopilot(d) \/ Conclude(d)
  BY <1>2, <1>5, <1>6, <1>8 DEF Next, HostReceives
<1>10. ~Run(d) /\ ~CancelCopilot(d) /\ ~ReserveCopilot(d)
  BY <1>1, <1>7 DEF Run, CancelCopilot, ReserveCopilot, ReservePreflight
<1>11. ~StartManual(d) /\ ~StartManualThrows(d) /\ ~PromoteCopilot(d)
  BY <1>7 DEF StartManual, StartManualThrows, PromoteCopilot
<1>12. ~Refuse(d)
  <2>1. Refuse(d) => told' = [told EXCEPT ![d] = @ \cup {"error"}]
    BY <1>1 DEF Refuse, Publish
  <2>2. told' = [told EXCEPT ![d] = @ \cup {"error"}] => "result" \notin told'[e] \ told[e]
    BY DEF BrokerType
  <2> QED
    BY <2>1, <2>2
<1>13. ~Prepare(d)
  BY <1>1, <1>4, <1>11 DEF Prepare, PublishStart, StartCopilot, FailCopilot, Retract
<1>14. Post(d)
  BY <1>1, <1>9, <1>10, <1>11, <1>12, <1>13
     DEF Validate, Conclude, Settle, CheckOwner, PostTimesOut, Finish
<1>15. d = e
  BY <1>14 DEF Post, Publish, BrokerType
<1> QED
  BY <1>1, <1>14, <1>15 DEF Post

(* Rows are posted only for the newest admission and for the section's      *)
(* target, whatever was superseded, cancelled, retargeted or restarted     *)
(* while the query ran and while its owner was checked.                    *)
THEOREM RowsAreOfTheNewest == Spec => OnlyNewestPublishes
<1> DEFINE A == \A e \in Executions :
                   "result" \in told'[e] \ told[e] => newest = e /\ owner[e] = target
<1>1. BrokerInv /\ [Next]_vars => [A]_vars
  <2> SUFFICES ASSUME BrokerInv, Next, NEW e \in Executions, "result" \in told'[e] \ told[e]
               PROVE  newest = e /\ owner[e] = target
    OBVIOUS
  <2>1. stage[e] = "posting" /\ owner[e] = target /\ IsStillActiveRun(e)
    BY OnlyPostPublishes
  <2>2. stage[e] \in Admitted /\ grant[e] = generation /\ (transport[e] = "none" \/ running = e)
    BY <2>1 DEF IsStillActiveRun, Admitted
  <2> QED
    BY <2>1, <2>2 DEF BrokerInv, Grants
<1> QED
  BY <1>1, BrokerHolds, PTL DEF Spec, OnlyNewestPublishes

(* Every variable keeps its type, in particular the messages on both        *)
(* channels, and no bound is exceeded.                                     *)
THEOREM TypeCorrect == Spec => []TypeOK
<1> DEFINE Aside == /\ ownership \in {"current", "revoked", "unpublished"}
                    /\ sessions \in 0 .. MaxSessions /\ faults \in 0 .. MaxFaults
<1>1. Init => Aside
  BY SqlExecutionAssumption DEF Init
<1>2. Aside /\ [Next]_vars => Aside'
  <2> SUFFICES ASSUME Aside, [Next]_vars
               PROVE  Aside'
    OBVIOUS
  <2>1. ownership' \in {"current", "revoked", "unpublished"}
    <3>1. CASE UNCHANGED vars \/ Cancel \/ Retarget \/ Receive
      BY <3>1 DEF vars, Cancel, Retarget, Receive, targetVars
    <3>2. CASE HostReceives \/ Revoke \/ Noticed \/ PublishOwner \/ Restart
      BY <3>2 DEF HostReceives, Execute, ReservePreflight, CancelMessage, AdoptTarget, Revoke, Noticed,
                  PublishOwner, Restart, targetVars
    <3>3. ASSUME NEW e \in Executions, Run(e) \/ ReserveCopilot(e) \/ CancelCopilot(e)
          PROVE  UNCHANGED ownership
      BY <3>3 DEF Run, ReserveCopilot, ReservePreflight, CancelCopilot, targetVars
    <3>4. ASSUME NEW e \in Executions, Validate(e) \/ Prepare(e)
          PROVE  UNCHANGED ownership
      BY <3>4 DEF Validate, Refuse, StartManual, StartManualThrows, Prepare, PromoteCopilot,
                  PublishStart, StartCopilot, FailCopilot, Retract, targetVars
    <3>5. ASSUME NEW e \in Executions, Conclude(e)
          PROVE  UNCHANGED ownership
      BY <3>5 DEF Conclude, Settle, CheckOwner, Post, PostTimesOut, Finish, targetVars
    <3> QED
      BY <3>1, <3>2, <3>3, <3>4, <3>5 DEF Next
  <2>2. UNCHANGED sessions \/ (sessions < MaxSessions /\ sessions' = sessions + 1)
    BY DEF Next, HostReceives, Validate, Prepare, Conclude, Cancel, Retarget, Receive, Execute,
       CancelMessage, AdoptTarget, Revoke, Noticed, PublishOwner, Restart, Run, ReserveCopilot,
       ReservePreflight, Refuse, StartManual, StartManualThrows, PromoteCopilot, PublishStart,
       StartCopilot, FailCopilot, Retract, CancelCopilot, Settle, CheckOwner, Post, PostTimesOut,
       Finish, bounds, vars
  <2>3. UNCHANGED faults \/ (faults < MaxFaults /\ faults' = faults + 1)
    BY DEF Next, HostReceives, Validate, Prepare, Conclude, Cancel, Retarget, Receive, Execute,
       CancelMessage, AdoptTarget, Revoke, Noticed, PublishOwner, Restart, Run, ReserveCopilot,
       ReservePreflight, Refuse, StartManual, StartManualThrows, PromoteCopilot, PublishStart,
       StartCopilot, FailCopilot, Retract, CancelCopilot, Settle, CheckOwner, Post, PostTimesOut,
       Finish, bounds, vars
  <2> QED
    BY <2>1, <2>2, <2>3, SqlExecutionAssumption
<1>3. Aside /\ BrokerInv => TypeOK
  BY DEF BrokerInv, BrokerType, TypeOK
<1> QED
  BY <1>1, <1>2, <1>3, BrokerHolds, PTL DEF Spec

-----------------------------------------------------------------------------
(* Who the broker holds, and what the section is told of who it no longer  *)
(* holds.                                                                  *)

Going == {"running", "checking", "posting"}

(* An execution is in the broker's maps while it is at the stage they stand *)
(* for; what runs has the current grant.                                   *)
BrokerStages ==
    /\ preflight # None => stage[preflight] = "preflight"
    /\ pending # None => stage[pending] \in {"admitted", "announced"}
    /\ running # None => stage[running] \in Going \cup {"posted"} /\ grant[running] = generation

(* Copilot runs alone are announced, and who has not been admitted has no   *)
(* transport.                                                              *)
Staged ==
    \A e \in Executions :
        /\ e \in Manual => stage[e] \notin {"admitted", "announced", "retracting"}
        /\ stage[e] \in {"new", "preflight"} => transport[e] = "none"
        /\ stage[e] = "new" => told[e] = {}

(* A manual run that was told nothing is still in the broker, or its start  *)
(* threw, or its owner is no longer the section's.                         *)
Answered ==
    \A e \in Manual : told[e] = {} /\ owner[e] = target =>
        /\ stage[e] = "preflight" => preflight = e
        /\ stage[e] \in Going =>
              running = e \/ (stage[e] = "posting" /\ outcome[e] = "error" /\ transport[e] = "none")
        /\ stage[e] # "posted"
        /\ stage[e] = "done" => Unposted(e)

HeldInv == BrokerStages /\ Staged /\ Answered

LEMMA AnsweredNoSilentEnd == HeldInv => NoSilentEnd
BY DEF HeldInv, Answered, NoSilentEnd

(* A cancellation is told to whom it is posted for, and to nobody else.     *)
LEMMA NotifyTells ==
    ASSUME NEW a, NEW b, NEW c, Notify(a, b, c)
    PROVE  \A e \in Executions :
              told'[e] = IF e \in {a, b, c} THEN told[e] \cup {"cancelled"} ELSE told[e]
BY DEF Notify

LEMMA SupersedeTells ==
    ASSUME PendingExcludesRunning, Supersede(TRUE)
    PROVE  \A e \in Executions :
              told'[e] = IF e \in {preflight, pending, running}
                         THEN told[e] \cup {"cancelled"} ELSE told[e]
<1>1. Notify(preflight, pending, SupersededRunning)
  BY DEF Supersede
<1>2. None \notin Executions
  BY SqlExecutionAssumption DEF Executions
<1> QED
  BY <1>1, <1>2, NotifyTells DEF SupersededRunning, PendingExcludesRunning

(* The section is superseded, revoked or opened anew: the host's executions *)
(* stay where they are.                                                    *)
LEMMA SupersededHolds ==
    ASSUME BrokerInv, HeldInv, Supersede(TRUE), UNCHANGED hostVars, target' \in Nat, target <= target'
    PROVE  HeldInv'
<1> USE DEF BrokerInv, HeldInv
<1>1. /\ pending' = None /\ preflight' = None /\ running' = None
      /\ UNCHANGED <<stage, grant, owner, outcome>>
      /\ \A e \in Executions : transport[e] = "none" <=> transport'[e] = "none"
  BY DEF Supersede, CancelRunning, hostVars, BrokerType
<1>2. \A e \in Executions :
         told'[e] = IF e \in {preflight, pending, running}
                    THEN told[e] \cup {"cancelled"} ELSE told[e]
  BY SupersedeTells
<1>3. BrokerStages'
  BY <1>1 DEF BrokerStages
<1>4. Staged'
  BY <1>1, <1>2, SqlExecutionAssumption DEF Staged, BrokerStages, Executions, Going
<1>5. Answered'
  <2> SUFFICES ASSUME NEW e \in Manual, told'[e] = {}, owner'[e] = target'
               PROVE  /\ stage[e] \notin Going \cup {"preflight", "posted"} \/ stage[e] = "posting"
                      /\ stage[e] = "posting" => outcome[e] = "error" /\ transport[e] = "none"
                      /\ stage[e] = "done" => Unposted(e)
    BY <1>1 DEF Answered, Unposted, Going, Executions
  <2>1. e \in Executions /\ told[e] = {} /\ e \notin {preflight, pending, running}
    BY <1>2 DEF Executions
  <2>2. owner[e] = target
    BY <1>1, <2>1 DEF Owners, BrokerType
  <2> QED
    BY <2>1, <2>2 DEF Answered, Going
<1> QED
  BY <1>3, <1>4, <1>5

LEMMA RevokeHolds ==
    ASSUME BrokerInv, HeldInv, Revoke
    PROVE  HeldInv'
<1>1. UNCHANGED <<pending, preflight, running, generation, stage, grant, owner,
                  outcome, transport, told>>
      /\ target' = target + 1
  BY DEF Revoke, broker, hostVars
<1> QED
  BY <1>1 DEF HeldInv, BrokerStages, Staged, Answered, BrokerInv, BrokerType, Owners, Executions

LEMMA RestartHolds ==
    ASSUME BrokerInv, HeldInv, Restart
    PROVE  HeldInv'
<1>1. /\ UNCHANGED <<stage, grant, owner, outcome, told>> /\ target' = target + 1
      /\ pending' = None /\ preflight' = None /\ running' = None
      /\ \A e \in Executions : transport[e] = "none" <=> transport'[e] = "none"
  BY DEF Restart, CancelRunning, hostVars, BrokerInv, BrokerType
<1> QED
  BY <1>1 DEF HeldInv, BrokerStages, Staged, Answered, BrokerInv, BrokerType, Owners, Executions

(* Neither the host nor its executions move. *)
LEMMA HostRests ==
    ASSUME HeldInv,
           UNCHANGED <<pending, preflight, running, generation, stage, grant, owner, outcome, transport,
                       told, target>>
    PROVE  HeldInv'
BY DEF HeldInv, BrokerStages, Staged, Answered, Unposted

(* cancelExpected: of a message of the section, which is told, or of a      *)
(* Copilot run that failed.                                                *)
LEMMA CancelExpectedHolds ==
    ASSUME BrokerInv, HeldInv, NEW e \in Executions, NEW notify \in BOOLEAN, CancelExpected(e, notify),
           UNCHANGED <<grant, owner, outcome, target>>,
           (notify /\ stage' = stage)
           \/ /\ e \in Copilot /\ stage[e] \in {"preflight", "admitted", "announced"}
              /\ \E s \in {"retracting", "done"} : stage' = [stage EXCEPT ![e] = s]
    PROVE  HeldInv'
<1> USE DEF BrokerInv, HeldInv
<1>0. None \notin Executions /\ Manual \subseteq Executions
      /\ (e \in Copilot => e \notin Manual)
  BY SqlExecutionAssumption DEF Executions
<1>1. /\ preflight' = (IF e = preflight THEN None ELSE preflight)
      /\ pending' = (IF e # preflight /\ e = pending THEN None ELSE pending)
      /\ running' = (IF e # preflight /\ e = running THEN None ELSE running)
      /\ (generation' = generation \/ running' = None)
      /\ \A d \in Executions : transport[d] = "none" <=> transport'[d] = "none"
  BY <1>0 DEF CancelExpected, CancelRunning, PendingExcludesRunning, BrokerType
<1>2. \A d \in Executions :
         told'[d] = IF notify /\ d = e /\ e \in {preflight, pending, running}
                    THEN told[d] \cup {"cancelled"} ELSE told[d]
  <2>1. CASE notify /\ e \in {preflight, pending, running}
    <3>1. \A d \in Executions :
             told'[d] = IF d \in {e, None} THEN told[d] \cup {"cancelled"} ELSE told[d]
      BY <2>1, NotifyTells DEF CancelExpected
    <3> QED
      BY <1>0, <2>1, <3>1
  <2>2. CASE ~(notify /\ e \in {preflight, pending, running})
    BY <2>2 DEF CancelExpected
  <2> QED
    BY <2>1, <2>2
<1>3. BrokerStages'
  BY <1>0, <1>1 DEF BrokerStages, BrokerType, Going
<1>4. Staged'
  <2> SUFFICES ASSUME NEW d \in Executions
               PROVE  /\ d \in Manual => stage'[d] \notin {"admitted", "announced", "retracting"}
                      /\ stage'[d] \in {"new", "preflight"} => transport'[d] = "none"
                      /\ stage'[d] = "new" => told'[d] = {}
    BY DEF Staged
  <2>1. stage'[d] = stage[d] \/ (d = e /\ e \in Copilot /\ stage'[d] \in {"retracting", "done"})
    BY DEF BrokerType
  <2>2. stage[d] = "new" => d \notin {preflight, pending, running}
    BY <1>0 DEF BrokerStages, Going
  <2> QED
    BY <1>0, <1>1, <1>2, <2>1, <2>2 DEF Staged
<1>5. Answered'
  <2> SUFFICES ASSUME NEW d \in Manual, told'[d] = {}, owner[d] = target
               PROVE  /\ stage'[d] = "preflight" => preflight' = d
                      /\ stage'[d] \in Going =>
                            \/ running' = d
                            \/ (stage'[d] = "posting" /\ outcome[d] = "error" /\ transport'[d] = "none")
                      /\ stage'[d] # "posted"
                      /\ stage'[d] = "done" => Unposted(d)'
    BY DEF Answered
  <2>1. told[d] = {} /\ stage'[d] = stage[d]
    BY <1>0, <1>2 DEF BrokerType
  <2>2. Unposted(d)' = Unposted(d)
    BY <1>0, <1>1 DEF Unposted
  <2> QED
    BY <1>0, <1>1, <1>2, <2>1, <2>2 DEF Answered
<1> QED
  BY <1>3, <1>4, <1>5

(* reservePreflight: the preflight it replaces is told. *)
LEMMA ReserveHolds ==
    ASSUME BrokerInv, HeldInv, NEW e \in Executions, stage[e] = "new", ReservePreflight(e),
           NEW t \in Nat, owner' = [owner EXCEPT ![e] = t]
    PROVE  HeldInv'
<1> USE DEF BrokerInv, HeldInv
<1>0. None \notin Executions /\ Manual \subseteq Executions
  BY SqlExecutionAssumption DEF Executions
<1>1. /\ preflight' = e /\ stage' = [stage EXCEPT ![e] = "preflight"]
      /\ UNCHANGED <<generation, pending, running, grant, transport, outcome, target>>
  BY DEF ReservePreflight, Goto, targetVars
<1>2. \A d \in Executions :
         told'[d] = IF d = preflight THEN told[d] \cup {"cancelled"} ELSE told[d]
  BY <1>0, NotifyTells DEF ReservePreflight
<1>3. /\ \A d \in Executions : stage'[d] = IF d = e THEN "preflight" ELSE stage[d]
      /\ \A d \in Executions \ {e} : owner'[d] = owner[d]
  BY <1>1 DEF BrokerType
<1>4. BrokerStages'
  BY <1>0, <1>1, <1>3 DEF BrokerStages, BrokerType, Going
<1>5. Staged'
  <2>1. \A d \in Executions : stage'[d] = "new" => stage[d] = "new" /\ told'[d] = told[d]
    BY <1>0, <1>2, <1>3 DEF BrokerStages
  <2> QED
    BY <1>1, <1>3, <2>1 DEF Staged
<1>6. Answered'
  <2> SUFFICES ASSUME NEW d \in Manual, told'[d] = {}, owner'[d] = target, d # e
               PROVE  /\ stage[d] # "preflight"
                      /\ stage[d] \in Going =>
                            \/ running = d
                            \/ (stage[d] = "posting" /\ outcome[d] = "error" /\ transport[d] = "none")
                      /\ stage[d] # "posted"
                      /\ stage[d] = "done" => Unposted(d)
    BY <1>0, <1>1, <1>3 DEF Answered, Unposted, Going
  <2>1. d \in Executions /\ d # preflight /\ told[d] = {} /\ owner[d] = target
    BY <1>0, <1>2, <1>3
  <2> QED
    BY <2>1 DEF Answered
<1> QED
  BY <1>4, <1>5, <1>6

LEMMA ExecuteHolds ==
    ASSUME BrokerInv, HeldInv, Execute
    PROVE  HeldInv'
<1>1. /\ toHost # <<>> /\ Head(toHost).type = "execute"
      /\ ReservePreflight(Head(toHost).value)
      /\ owner' = [owner EXCEPT ![Head(toHost).value] = Head(toHost).token]
  BY DEF Execute, Received
<1>2. Head(toHost) \in ToHostMsgs /\ Head(toHost) = toHost[1] /\ 1 \in DOMAIN toHost
  BY <1>1, TailRequests DEF BrokerInv, BrokerType
<1>3. Head(toHost).value \in Executions /\ Head(toHost).token \in Nat /\ stage[Head(toHost).value] = "new"
  BY <1>1, <1>2 DEF ToHostMsgs, Executions, BrokerInv, Requests
<1> QED
  BY <1>1, <1>3, ReserveHolds

LEMMA ReserveCopilotHolds ==
    ASSUME BrokerInv, HeldInv, NEW e \in Executions, ReserveCopilot(e)
    PROVE  HeldInv'
<1>1. stage[e] = "new" /\ target \in Nat
  BY DEF ReserveCopilot, BrokerInv, BrokerType, Requests
<1> QED
  BY <1>1, ReserveHolds DEF ReserveCopilot

(* One execution moves on, the broker at most lets go of it. *)
LEMMA OneMoves ==
    ASSUME BrokerInv, HeldInv, NEW e \in Executions, NEW s \in Stages,
           stage' = [stage EXCEPT ![e] = s], UNCHANGED <<generation, pending, grant, owner, target>>,
           \A d \in Executions \ {e} : outcome'[d] = outcome[d] /\ told'[d] = told[d]
                                       /\ transport'[d] = transport[d],
           preflight' = preflight \/ (preflight' = None /\ preflight = e),
           running' = running \/ (running' = None /\ running = e),
           preflight' # e, pending = e => s \in {"admitted", "announced"},
           running' = e => s \in Going \cup {"posted"},
           s \notin {"new", "preflight"}, e \in Manual => s \in Going \cup {"posted", "done"},
           e \in Manual /\ told'[e] = {} /\ owner[e] = target =>
              /\ s \in Going =>
                    \/ running' = e
                    \/ (s = "posting" /\ outcome'[e] = "error" /\ transport'[e] = "none")
              /\ s # "posted"
              /\ s = "done" => Unposted(e)'
    PROVE  HeldInv'
<1> USE DEF BrokerInv, HeldInv
<1>0. None \notin Executions /\ Manual \subseteq Executions
  BY SqlExecutionAssumption DEF Executions
<1>1. \A d \in Executions : stage'[d] = IF d = e THEN s ELSE stage[d]
  BY DEF BrokerType
<1>2. BrokerStages'
  BY <1>0, <1>1 DEF BrokerStages, BrokerType
<1>3. Staged'
  BY <1>0, <1>1 DEF Staged, Going
<1>4. Answered'
  <2> SUFFICES ASSUME NEW d \in Manual, told'[d] = {}, owner[d] = target
               PROVE  /\ stage'[d] = "preflight" => preflight' = d
                      /\ stage'[d] \in Going =>
                            \/ running' = d
                            \/ (stage'[d] = "posting" /\ outcome'[d] = "error" /\ transport'[d] = "none")
                      /\ stage'[d] # "posted"
                      /\ stage'[d] = "done" => Unposted(d)'
    BY DEF Answered
  <2>1. CASE d = e
    BY <1>0, <1>1, <2>1
  <2>2. CASE d # e
    <3>1. d \in Executions \ {e} /\ stage'[d] = stage[d] /\ Unposted(d)' = Unposted(d)
      BY <1>0, <1>1, <2>2 DEF Unposted
    <3> QED
      BY <1>0, <2>2, <3>1 DEF Answered
  <2> QED
    BY <2>1, <2>2
<1> QED
  BY <1>2, <1>3, <1>4

LEMMA RefuseHolds ==
    ASSUME BrokerInv, HeldInv, NEW e \in Executions, Refuse(e)
    PROVE  HeldInv'
<1>1. /\ e \in Manual /\ stage[e] = "preflight" /\ stage' = [stage EXCEPT ![e] = "done"]
      /\ UNCHANGED <<generation, pending, running, grant, owner, target, outcome, transport>>
      /\ preflight' = (IF preflight = e THEN None ELSE preflight)
      /\ IF preflight = e THEN told' = [told EXCEPT ![e] = @ \cup {"error"}] ELSE told' = told
  BY DEF Refuse, Goto, Publish, IsStillActiveRun, targetVars
<1>2. None \notin Executions /\ pending # e /\ running # e
  BY <1>1, SqlExecutionAssumption DEF HeldInv, BrokerStages, Executions, Going
<1>3. \A d \in Executions \ {e} : told'[d] = told[d]
  BY <1>1 DEF BrokerInv, BrokerType
<1>4. told'[e] = {} => owner[e] # target
  BY <1>1 DEF BrokerInv, BrokerType, HeldInv, Answered
<1> QED
  BY <1>1, <1>2, <1>3, <1>4, OneMoves DEF Stages, Going

LEMMA PublishStartHolds ==
    ASSUME BrokerInv, HeldInv, NEW e \in Executions, PublishStart(e)
    PROVE  HeldInv'
<1>1. /\ e \notin Manual /\ stage[e] = "admitted" /\ stage' = [stage EXCEPT ![e] = "announced"]
      /\ UNCHANGED <<generation, pending, preflight, running, grant, owner, target,
                     outcome, transport, told>>
  BY SqlExecutionAssumption DEF PublishStart, Goto, targetVars, broker
<1>2. None \notin Executions /\ preflight # e /\ running # e
  BY <1>1, SqlExecutionAssumption DEF HeldInv, BrokerStages, Executions, Going
<1> QED
  BY <1>1, <1>2, OneMoves DEF Stages

LEMMA RetractHolds ==
    ASSUME BrokerInv, HeldInv, NEW e \in Executions, Retract(e)
    PROVE  HeldInv'
<1>1. /\ stage[e] = "retracting" /\ stage' = [stage EXCEPT ![e] = "done"]
      /\ UNCHANGED <<generation, pending, preflight, running, grant, owner, target,
                     outcome, transport, told>>
  BY DEF Retract, Goto, targetVars, broker
<1>2. None \notin Executions /\ preflight # e /\ running # e /\ pending # e /\ e \notin Manual
  BY <1>1, SqlExecutionAssumption DEF HeldInv, BrokerStages, Staged, Executions, Going
<1> QED
  BY <1>1, <1>2, OneMoves DEF Stages

(* Behind its start a run that was told nothing, on the section's owner, is *)
(* the one that runs: it is current.                                       *)
LEMMA SilentIsCurrent ==
    ASSUME BrokerInv, HeldInv, NEW e \in Manual, stage[e] \in Going, told[e] = {}, owner[e] = target,
           ~(stage[e] = "posting" /\ outcome[e] = "error" /\ transport[e] = "none")
    PROVE  running = e /\ IsStillActiveRun(e)
<1>1. e \in Executions /\ None \notin Executions
  BY SqlExecutionAssumption DEF Executions
<1>2. running = e
  BY DEF HeldInv, Answered
<1>3. grant[e] = generation
  BY <1>1, <1>2 DEF HeldInv, BrokerStages
<1> QED
  BY <1>2, <1>3 DEF IsStillActiveRun, Going

LEMMA SettleHolds ==
    ASSUME BrokerInv, HeldInv, NEW e \in Executions, NEW kind \in Kinds, Settle(e, kind)
    PROVE  HeldInv'
<1> DEFINE s == IF ~IsStillActiveRun(e) THEN "done"
                ELSE IF kind = "result" THEN "checking" ELSE "posting"
<1>1. /\ stage[e] = "running" /\ stage' = [stage EXCEPT ![e] = s]
      /\ UNCHANGED <<generation, pending, preflight, grant, owner, target, told>>
      /\ transport' = [transport EXCEPT ![e] = "settled"]
      /\ outcome' = [outcome EXCEPT ![e] = kind]
      /\ running' = IF IsStillActiveRun(e) \/ running # e THEN running ELSE None
  BY DEF Settle, Goto, Release, targetVars
<1>2. /\ None \notin Executions /\ preflight # e /\ pending # e
      /\ transport' [e] # "none"
      /\ \A d \in Executions \ {e} : outcome'[d] = outcome[d] /\ transport'[d] = transport[d]
  BY <1>1, SqlExecutionAssumption DEF HeldInv, BrokerStages, Executions, BrokerInv, BrokerType
<1>3. e \in Manual /\ told[e] = {} /\ owner[e] = target => running = e /\ IsStillActiveRun(e)
  BY <1>1, SilentIsCurrent DEF Going
<1>4. s \in Stages \ {"new", "preflight"} /\ s # "posted" /\ (s = "done" <=> ~IsStillActiveRun(e))
      /\ (s # "done" => s \in Going) /\ (running' = e => s # "done")
  BY <1>1, <1>2 DEF Stages, Going
<1> HIDE DEF s
<1> QED
  BY <1>1, <1>2, <1>3, <1>4, OneMoves

LEMMA CheckOwnerHolds ==
    ASSUME BrokerInv, HeldInv, NEW e \in Executions, CheckOwner(e)
    PROVE  HeldInv'
<1> DEFINE s == IF IsStillActiveRun(e) THEN "posting" ELSE "done"
<1>1. /\ stage[e] = "checking" /\ stage' = [stage EXCEPT ![e] = s]
      /\ UNCHANGED <<generation, pending, preflight, grant, owner, target, told, transport>>
      /\ \A d \in Executions \ {e} : outcome'[d] = outcome[d]
      /\ running' = IF IsStillActiveRun(e) \/ running # e THEN running ELSE None
  BY DEF CheckOwner, Goto, Release, targetVars, BrokerInv, BrokerType
<1>2. None \notin Executions /\ preflight # e /\ pending # e
  BY <1>1, SqlExecutionAssumption DEF HeldInv, BrokerStages, Executions
<1>3. e \in Manual /\ told[e] = {} /\ owner[e] = target => running = e /\ IsStillActiveRun(e)
  BY <1>1, SilentIsCurrent DEF Going
<1>4. s \in Stages \ {"new", "preflight", "posted"} /\ (s = "done" <=> ~IsStillActiveRun(e))
      /\ (s # "done" => s \in Going) /\ (running' = e => s # "done")
  BY <1>1, <1>2 DEF Stages, Going
<1> HIDE DEF s
<1> QED
  BY <1>1, <1>2, <1>3, <1>4, OneMoves

LEMMA PostHolds ==
    ASSUME BrokerInv, HeldInv, NEW e \in Executions, Post(e)
    PROVE  HeldInv'
<1> DEFINE ok == owner[e] = target /\ IsStillActiveRun(e)
           s == IF ok THEN "posted" ELSE "done"
<1>1. /\ stage[e] = "posting" /\ stage' = [stage EXCEPT ![e] = s]
      /\ UNCHANGED <<generation, pending, preflight, grant, owner, target, transport, outcome>>
      /\ IF ok THEN told' = [told EXCEPT ![e] = @ \cup {outcome[e]}] ELSE told' = told
      /\ running' = IF ok \/ running # e THEN running ELSE None
  BY DEF Post, Publish, Goto, Release, targetVars
<1>2. /\ None \notin Executions /\ preflight # e /\ pending # e
      /\ \A d \in Executions \ {e} : told'[d] = told[d]
      /\ ok => told'[e] # {}
  <2>1. None \notin Executions /\ preflight # e /\ pending # e
    BY <1>1, SqlExecutionAssumption DEF HeldInv, BrokerStages, Executions
  <2> HIDE DEF ok
  <2>2. (\A d \in Executions \ {e} : told'[d] = told[d]) /\ (ok => told'[e] # {})
    BY <1>1 DEF BrokerInv, BrokerType
  <2> QED
    BY <2>1, <2>2
<1>3. e \in Manual /\ told[e] = {} /\ owner[e] = target /\ ~IsStillActiveRun(e) => Unposted(e)
  BY <1>1, SilentIsCurrent DEF Going, Unposted
<1>4. /\ s \in Stages \ {"new", "preflight"} /\ s \notin Going /\ (s = "done" <=> ~ok)
      /\ s \in {"posted", "done"} /\ (running' = e => s # "done")
      /\ Unposted(e)' = Unposted(e)
  BY <1>1, <1>2 DEF Stages, Going, Unposted
<1>5. e \in Manual /\ told'[e] = {} /\ owner[e] = target => s # "posted" /\ Unposted(e)
  BY <1>1, <1>2, <1>3, <1>4
<1> HIDE DEF s, ok
<1> QED
  BY <1>1, <1>2, <1>4, <1>5, OneMoves

LEMMA PostTimesOutHolds ==
    ASSUME BrokerInv, HeldInv, NEW e \in Executions, PostTimesOut(e)
    PROVE  HeldInv'
<1> USE DEF BrokerInv
<1>1. /\ stage[e] = "posting"
      /\ UNCHANGED <<generation, pending, preflight, grant, owner, target, told, transport>>
  BY DEF PostTimesOut, targetVars
<1>2. None \notin Executions /\ preflight # e /\ pending # e
  BY <1>1, SqlExecutionAssumption DEF HeldInv, BrokerStages, Executions
<1>3. CASE outcome[e] = "result"
  <2>1. /\ stage' = [stage EXCEPT ![e] = "posting"] /\ running' = running
        /\ \A d \in Executions \ {e} : outcome'[d] = outcome[d]
    BY <1>1, <1>3 DEF PostTimesOut, BrokerType
  <2>2. e \in Manual /\ told[e] = {} /\ owner[e] = target => running = e
    BY <1>1, <1>3, SilentIsCurrent DEF Going
  <2> QED
    BY <1>1, <1>2, <2>1, <2>2, OneMoves DEF Stages, Going
<1>4. CASE outcome[e] # "result"
  <2>1. /\ stage' = [stage EXCEPT ![e] = "done"] /\ outcome' = [outcome EXCEPT ![e] = "suppressed"]
        /\ running' = IF running = e THEN None ELSE running
    BY <1>4 DEF PostTimesOut, Goto, Release
  <2>2. /\ \A d \in Executions \ {e} : outcome'[d] = outcome[d]
        /\ Unposted(e)'
    BY <2>1 DEF BrokerType, Unposted
  <2> QED
    BY <1>1, <1>2, <2>1, <2>2, OneMoves DEF Stages, Going
<1> QED
  BY <1>3, <1>4

LEMMA FinishHolds ==
    ASSUME BrokerInv, HeldInv, NEW e \in Executions, Finish(e)
    PROVE  HeldInv'
<1>1. /\ stage[e] = "posted" /\ stage' = [stage EXCEPT ![e] = "done"]
      /\ UNCHANGED <<generation, pending, preflight, grant, owner, target, told,
                     transport, outcome>>
      /\ running' = IF running = e THEN None ELSE running
  BY DEF Finish, Goto, Release, targetVars
<1>2. None \notin Executions /\ preflight # e /\ pending # e
  BY <1>1, SqlExecutionAssumption DEF HeldInv, BrokerStages, Executions
<1>3. e \in Manual => told[e] # {} \/ owner[e] # target
  BY <1>1 DEF HeldInv, Answered
<1> QED
  BY <1>1, <1>2, <1>3, OneMoves DEF Stages, Going

LEMMA FailCopilotHolds ==
    ASSUME BrokerInv, HeldInv, NEW e \in Executions, FailCopilot(e)
    PROVE  HeldInv'
<1>1. /\ CancelExpected(e, FALSE) /\ UNCHANGED <<grant, owner, outcome, target>>
      /\ e \in Copilot /\ stage[e] \in {"preflight", "admitted", "announced"}
      /\ \E s \in {"retracting", "done"} : stage' = [stage EXCEPT ![e] = s]
  BY DEF FailCopilot, Goto, targetVars
<1> QED
  BY <1>1, CancelExpectedHolds

LEMMA CancelMessageHolds ==
    ASSUME BrokerInv, HeldInv, CancelMessage
    PROVE  HeldInv'
<1>1. /\ toHost # <<>> /\ Head(toHost).type = "cancel"
      /\ UNCHANGED <<hostVars, target>> /\ target' \in Nat /\ target <= target'
      /\ UNCHANGED <<stage, grant, owner, outcome>>
  BY DEF CancelMessage, Received, BrokerInv, BrokerType, hostVars, targetVars
<1>2. CASE Head(toHost).value = None
  BY <1>1, <1>2, SupersededHolds DEF CancelMessage
<1>3. CASE Head(toHost).value # None
  <2>1. Head(toHost) \in ToHostMsgs
    BY <1>1, TailRequests DEF BrokerInv, BrokerType
  <2>2. Head(toHost).value \in Executions
    BY <1>1, <1>3, <2>1 DEF ToHostMsgs
  <2> QED
    BY <1>1, <1>3, <2>2, CancelExpectedHolds DEF CancelMessage
<1> QED
  BY <1>2, <1>3

(* An admission: what was pending or ran is told, and nobody else is held.  *)
LEMMA PromotedHolds ==
    ASSUME BrokerInv, HeldInv, NEW e \in Executions, NEW s \in Stages, NEW pendingAfter,
           Promote(e, pendingAfter), Notify(pending, running, None),
           preflight = e, stage[e] = "preflight", stage' = [stage EXCEPT ![e] = s],
           UNCHANGED <<owner, target>>, \A d \in Executions \ {e} : outcome'[d] = outcome[d],
           \A d \in Executions \ {e} : transport[d] = "none" <=> transport'[d] = "none",
           \/ s = "running" /\ pendingAfter = None /\ running' = e /\ e \in Manual
           \/ /\ s = "posting" /\ pendingAfter = None /\ running' = None /\ e \in Manual
              /\ outcome'[e] = "error" /\ transport'[e] = "none"
           \/ s = "admitted" /\ pendingAfter = e /\ running' = None /\ e \in Copilot
    PROVE  HeldInv'
<1> USE DEF BrokerInv, HeldInv
<1>0. None \notin Executions /\ Manual \subseteq Executions /\ (e \in Copilot => e \notin Manual)
  BY SqlExecutionAssumption DEF Executions
<1>1. /\ preflight' = None /\ pending' = pendingAfter /\ generation' = generation + 1
      /\ grant'[e] = generation + 1
      /\ \A d \in Executions : stage'[d] = IF d = e THEN s ELSE stage[d]
  BY DEF Promote, BrokerType
<1>2. \A d \in Executions :
         told'[d] = IF d \in {pending, running} THEN told[d] \cup {"cancelled"} ELSE told[d]
  BY <1>0, NotifyTells
<1>3. BrokerStages'
  BY <1>0, <1>1 DEF BrokerStages, Going
<1>4. Staged'
  <2>1. \A d \in Executions : stage'[d] \in {"new", "preflight"} => stage[d] = stage'[d] /\ d # e
    BY <1>1
  <2>2. \A d \in Executions : stage[d] = "new" => d # pending /\ d # running
    BY <1>0 DEF BrokerStages, Going
  <2>3. \A d \in Executions : stage'[d] = "new" => told'[d] = told[d]
    BY <1>2, <2>1, <2>2
  <2> QED
    BY <1>0, <1>1, <2>1, <2>3 DEF Staged
<1>5. Answered'
  <2> SUFFICES ASSUME NEW d \in Manual, told'[d] = {}, owner[d] = target, d # e
               PROVE  /\ stage[d] # "preflight"
                      /\ stage[d] \in Going =>
                            stage[d] = "posting" /\ outcome[d] = "error" /\ transport[d] = "none"
                      /\ stage[d] # "posted"
                      /\ stage[d] = "done" => Unposted(d)
    BY <1>0, <1>1 DEF Answered, Unposted, Going
  <2>1. d \in Executions /\ d # pending /\ d # running /\ d # preflight /\ told[d] = {}
    BY <1>0, <1>2
  <2> QED
    BY <2>1 DEF Answered
<1> QED
  BY <1>3, <1>4, <1>5

LEMMA StartManualHolds ==
    ASSUME BrokerInv, HeldInv, NEW e \in Executions, StartManual(e)
    PROVE  HeldInv'
<1>1. /\ e \in Manual /\ stage[e] = "preflight" /\ preflight = e /\ running' = e
      /\ stage' = [stage EXCEPT ![e] = "running"]
      /\ Promote(e, None) /\ Notify(pending, running, None) /\ UNCHANGED <<owner, target, outcome>>
  BY DEF StartManual, Goto, IsStillActiveRun, targetVars
<1>2. \A d \in Executions \ {e} : transport[d] = "none" <=> transport'[d] = "none"
  BY DEF StartManual, BrokerInv, BrokerType
<1>3. "running" \in Stages
  BY DEF Stages
<1> QED
  BY <1>1, <1>2, <1>3, PromotedHolds

LEMMA StartManualThrowsHolds ==
    ASSUME BrokerInv, HeldInv, NEW e \in Executions, StartManualThrows(e)
    PROVE  HeldInv'
<1>1. /\ e \in Manual /\ stage[e] = "preflight" /\ preflight = e /\ running' = None
      /\ stage' = [stage EXCEPT ![e] = "posting"] /\ outcome' = [outcome EXCEPT ![e] = "error"]
      /\ Promote(e, None) /\ Notify(pending, running, None) /\ UNCHANGED <<owner, target>>
  BY DEF StartManualThrows, Goto, IsStillActiveRun, targetVars, CancelRunning
<1>2. \A d \in Executions : transport[d] = "none" <=> transport'[d] = "none"
  BY DEF StartManualThrows, CancelRunning, BrokerInv, BrokerType
<1>3. transport'[e] = "none"
  BY <1>1, <1>2 DEF HeldInv, Staged
<1>4. outcome'[e] = "error" /\ \A d \in Executions \ {e} : outcome'[d] = outcome[d]
  BY <1>1 DEF BrokerInv, BrokerType
<1>5. "posting" \in Stages
  BY DEF Stages
<1> QED
  BY <1>1, <1>2, <1>3, <1>4, <1>5, PromotedHolds

LEMMA PromoteCopilotHolds ==
    ASSUME BrokerInv, HeldInv, NEW e \in Executions, PromoteCopilot(e)
    PROVE  HeldInv'
<1>1. /\ e \in Copilot /\ stage[e] = "preflight" /\ preflight = e /\ running' = None
      /\ stage' = [stage EXCEPT ![e] = "admitted"]
      /\ Promote(e, e) /\ Notify(pending, running, None) /\ UNCHANGED <<owner, target, outcome>>
  BY DEF PromoteCopilot, Goto, targetVars, CancelRunning
<1>2. \A d \in Executions : transport[d] = "none" <=> transport'[d] = "none"
  BY DEF PromoteCopilot, CancelRunning, BrokerInv, BrokerType
<1>3. "admitted" \in Stages
  BY DEF Stages
<1> QED
  BY <1>1, <1>2, <1>3, PromotedHolds

LEMMA StartCopilotHolds ==
    ASSUME BrokerInv, HeldInv, NEW e \in Executions, StartCopilot(e)
    PROVE  HeldInv'
<1> USE DEF BrokerInv, HeldInv
<1>0. None \notin Executions /\ Manual \subseteq Executions
  BY SqlExecutionAssumption DEF Executions
<1>1. /\ stage[e] = "announced" /\ pending = e /\ grant[e] = generation
      /\ pending' = None /\ running' = e
      /\ UNCHANGED <<generation, preflight, grant, owner, outcome, target, told>>
      /\ \A d \in Executions : stage'[d] = IF d = e THEN "running" ELSE stage[d]
      /\ \A d \in Executions \ {e} : transport'[d] = transport[d]
  BY DEF StartCopilot, IsPendingCurrent, Goto, targetVars, BrokerType
<1>2. e \notin Manual /\ running = None /\ preflight # e
  BY <1>0, <1>1 DEF Staged, PendingExcludesRunning, BrokerStages
<1>3. BrokerStages'
  BY <1>0, <1>1, <1>2 DEF BrokerStages, Going, BrokerType
<1>4. Staged'
  BY <1>1, <1>2 DEF Staged
<1>5. Answered'
  <2> SUFFICES ASSUME NEW d \in Manual, told[d] = {}, owner[d] = target
               PROVE  /\ stage[d] = "preflight" => preflight = d
                      /\ stage[d] \in Going =>
                            stage[d] = "posting" /\ outcome[d] = "error" /\ transport[d] = "none"
                      /\ stage[d] # "posted"
                      /\ stage[d] = "done" => Unposted(d)
    BY <1>0, <1>1, <1>2 DEF Answered, Unposted, Going
  <2> QED
    BY <1>0, <1>2 DEF Answered
<1> QED
  BY <1>3, <1>4, <1>5

LEMMA CancelCopilotHolds ==
    ASSUME BrokerInv, HeldInv, NEW e \in Executions, CancelCopilot(e)
    PROVE  HeldInv'
<1> USE DEF BrokerInv, HeldInv
<1>0. e \notin Manual
  BY SqlExecutionAssumption DEF CancelCopilot
<1>1. /\ running = e /\ running' = None
      /\ UNCHANGED <<generation, pending, preflight, grant, owner, outcome, target, told, stage>>
      /\ \A d \in Executions : transport[d] = "none" <=> transport'[d] = "none"
  BY DEF CancelCopilot, CancelRunning, hostVars, targetVars, BrokerType
<1> QED
  BY <1>0, <1>1 DEF BrokerStages, Staged, Answered, Unposted, Executions

(* The steps of the webview and of the owners' announcement.               *)
LEMMA ViewHolds ==
    ASSUME HeldInv, Cancel \/ Retarget \/ Receive \/ PublishOwner \/ \E e \in Executions : Run(e)
    PROVE  HeldInv'
<1>1. UNCHANGED <<pending, preflight, running, generation, stage, grant, owner, outcome, transport,
                  told, target>>
  BY DEF Cancel, Retarget, Receive, PublishOwner, Run, broker, hostVars, targetVars
<1> QED
  BY <1>1, HostRests

LEMMA InitHolds == Init => HeldInv
BY DEF Init, HeldInv, BrokerStages, Staged, Answered, Going, Executions

LEMMA HeldStep == BrokerInv /\ HeldInv /\ [Next]_vars => HeldInv'
<1> SUFFICES ASSUME BrokerInv, HeldInv, [Next]_vars PROVE HeldInv'
  OBVIOUS
<1>1. CASE UNCHANGED vars
  BY <1>1, HostRests DEF vars, broker, hostVars, targetVars
<1>2. CASE Cancel \/ Retarget \/ Receive \/ PublishOwner
  BY <1>2, ViewHolds
<1>3. CASE HostReceives
  <2>1. CASE AdoptTarget
    <3>1. target' \in Nat /\ target <= target'
      BY <2>1 DEF AdoptTarget, BrokerInv, BrokerType
    <3> QED
      BY <2>1, <3>1, SupersededHolds DEF AdoptTarget
  <2> QED
    BY <1>3, <2>1, ExecuteHolds, CancelMessageHolds DEF HostReceives
<1>4. CASE Revoke
  BY <1>4, RevokeHolds
<1>5. CASE Noticed
  <2>1. target' \in Nat /\ target <= target'
    BY <1>5 DEF Noticed, BrokerInv, BrokerType
  <2> QED
    BY <1>5, <2>1, SupersededHolds DEF Noticed
<1>6. CASE Restart
  BY <1>6, RestartHolds
<1>7. ASSUME NEW e \in Executions, Run(e) \/ ReserveCopilot(e)
      PROVE  HeldInv'
  BY <1>7, ViewHolds, ReserveCopilotHolds
<1>8. ASSUME NEW e \in Executions, Validate(e) \/ Prepare(e)
      PROVE  HeldInv'
  BY <1>8, RefuseHolds, StartManualHolds, StartManualThrowsHolds, PromoteCopilotHolds,
     PublishStartHolds, StartCopilotHolds, FailCopilotHolds, RetractHolds DEF Validate, Prepare
<1>9. ASSUME NEW e \in Executions, CancelCopilot(e) \/ Conclude(e)
      PROVE  HeldInv'
  BY <1>9, CancelCopilotHolds, SettleHolds, CheckOwnerHolds, PostHolds, PostTimesOutHolds,
     FinishHolds DEF Conclude
<1> QED
  BY <1>1, <1>2, <1>3, <1>4, <1>5, <1>6, <1>7, <1>8, <1>9 DEF Next

(* Whoever the broker holds is at the stage it is held for, and a manual    *)
(* run of the section's owner that was told nothing is held, or its error   *)
(* could not be posted.                                                     *)
THEOREM HeldHolds == Spec => []HeldInv
<1>1. Spec => []BrokerInv
  BY BrokerHolds
<1>2. Init => HeldInv
  BY InitHolds
<1>3. BrokerInv /\ HeldInv /\ [Next]_vars => HeldInv'
  BY HeldStep
<1> QED
  BY <1>1, <1>2, <1>3, PTL DEF Spec

(* The webview is not left without an answer: a manual run that has ended   *)
(* was told how, unless the owner it was sent with is no longer the         *)
(* section's, or its error could not be posted.                            *)
THEOREM EndsAreTold == Spec => []NoSilentEnd
<1>1. HeldInv => NoSilentEnd
  BY AnsweredNoSilentEnd
<1> QED
  BY <1>1, HeldHolds, PTL

-----------------------------------------------------------------------------
(* What the section shows, and the messages that will change it.           *)

Terminal(m, e) == m.type \in Kinds \cup {"idle"} /\ m.value = e

(* The request of e is on its way, under the token the section still has.   *)
Asked(e) ==
    \E i \in DOMAIN toHost :
        toHost[i].type = "execute" /\ toHost[i].value = e /\ toHost[i].token = token

(* A manual run the section shows was sent under the section's token, and   *)
(* if it was told its end, the message has not arrived.                    *)
ShownManual ==
    active \in Manual =>
        /\ token # None
        /\ \/ Asked(active)
           \/ /\ stage[active] # "new" /\ owner[active] = token
              /\ told[active] # {} => \E i \in 1 .. Len(toView) : Terminal(toView[i], active)

OwnerAfter(i) == \E j \in 1 .. Len(toView) : j > i /\ toView[j].type = "owner"

(* A token that is not the section's, in the webview or on its way there,   *)
(* is followed by the one that is.                                         *)
TokenFollows ==
    ownership = "current" =>
        /\ token \in {None, target} \/ OwnerAfter(0)
        /\ \A i \in 1 .. Len(toView) :
              toView[i].type = "owner" => toView[i].value = target \/ OwnerAfter(i)

Shows(e, i) ==
    \/ i = 0 /\ active = e
    \/ i \in 1 .. Len(toView) /\ toView[i].type = "executing" /\ toView[i].value = e

EndsAfter(e, i) ==
    \E j \in 1 .. Len(toView) : j > i /\ (toView[j].type = "owner" \/ Terminal(toView[j], e))

(* A Copilot run that will still post its end. *)
Lives(e) ==
    \/ stage[e] \in {"announced", "retracting"}
    \/ stage[e] \in Going /\ running = e /\ owner[e] = target

(* Its end could not be posted in time. *)
GivenUp(e) == stage[e] = "done" /\ outcome[e] = "suppressed"

StaysGivenUp == \A e \in Executions : GivenUp(e) => GivenUp(e)'

(* A Copilot run that is shown, or will be when the message of its start    *)
(* arrives, will post its end, has posted it behind that message, or was   *)
(* given up.                                                               *)
ShownCopilot ==
    /\ \A i \in 1 .. Len(toView) : toView[i].type = "executing" => toView[i].value \in Copilot
    /\ ownership = "current" =>
          \A e \in Copilot, i \in 0 .. Len(toView) : Shows(e, i) => Lives(e) \/ GivenUp(e) \/ EndsAfter(e, i)

ShownInv == ShownManual /\ TokenFollows /\ ShownCopilot

LEMMA ShownQuiet == BrokerInv /\ HeldInv /\ ShownInv => QuietMeansIdle
<1> SUFFICES ASSUME BrokerInv, HeldInv, ShownInv, Quiet, active # None
             PROVE  Unposted(active)
  BY DEF QuietMeansIdle
<1> USE DEF ShownInv
<1>1. /\ active \in Manual \cup Copilot /\ stage[active] \in {"new", "done"}
      /\ toHost = <<>> /\ toView = <<>> /\ ownership = "current" /\ Len(toView) = 0
  BY DEF Quiet, BrokerInv, BrokerType, Executions
<1>2. active \in Copilot => Unposted(active)
  <2>1. ASSUME active \in Copilot
        PROVE  Unposted(active)
    <3>1. Shows(active, 0)
      BY DEF Shows
    <3>2. ~EndsAfter(active, 0) /\ ~Lives(active)
      BY <1>1 DEF EndsAfter, Lives, Going
    <3> QED
      BY <1>1, <2>1, <3>1, <3>2 DEF ShownCopilot, GivenUp, Unposted
  <2> QED
    BY <2>1
<1>3. active \in Manual => ~Asked(active) /\ token = target
  BY <1>1 DEF Asked, ShownManual, TokenFollows, OwnerAfter
<1>4. active \in Manual => stage[active] = "done" /\ owner[active] = target /\ told[active] = {}
  BY <1>1, <1>3 DEF ShownManual
<1> QED
  BY <1>1, <1>2, <1>4 DEF HeldInv, Answered

-----------------------------------------------------------------------------
(* What a step of the host adds to the messages of the section.            *)

Grown ==
    /\ Len(toView) \in Nat /\ Len(toView') \in Nat /\ Len(toView) <= Len(toView')
    /\ \A i \in 1 .. Len(toView) : toView'[i] = toView[i]

(* It neither starts a run nor hands out an owner. *)
Replied ==
    /\ Grown
    /\ \A i \in Len(toView) + 1 .. Len(toView') : toView'[i].type \notin {"owner", "executing"}

Ended(e) == \E i \in Len(toView) + 1 .. Len(toView') : Terminal(toView'[i], e)

Cancels(m) == m.type = "cancelled"

(* t is s and the notice of e, if there is one to be told. *)
Adds(s, t, e) ==
    /\ t \in Seq(ToViewMsgs) /\ Len(s) \in Nat /\ Len(t) \in Nat /\ Len(s) <= Len(t)
    /\ \A i \in 1 .. Len(s) : t[i] = s[i]
    /\ \A i \in Len(s) + 1 .. Len(t) : Cancels(t[i])
    /\ e # None => \E i \in Len(s) + 1 .. Len(t) : Terminal(t[i], e)

LEMMA NoticeAppends ==
    ASSUME NEW s \in Seq(ToViewMsgs), NEW e \in Executions \cup {None}, NEW t, t = s \o Notice(e)
    PROVE  Adds(s, t, e)
<1>1. CASE e = None
  <2>1. t = s /\ Len(s) \in Nat
    BY <1>1 DEF Notice
  <2>2. (\A i \in 1 .. Len(s) : t[i] = s[i]) /\ \A i \in Len(s) + 1 .. Len(t) : FALSE
    BY <2>1
  <2> HIDE DEF ToViewMsgs
  <2>3. t \in Seq(ToViewMsgs) /\ Len(t) \in Nat /\ Len(s) <= Len(t)
    BY <2>1
  <2> QED
    BY <1>1, <2>1, <2>2, <2>3 DEF Adds
<1>2. CASE e # None
  <2>1. PICK m : m = Msg("cancelled", e)
    OBVIOUS
  <2>2. m \in ToViewMsgs /\ Cancels(m) /\ Terminal(m, e)
    BY <1>2, <2>1 DEF Msg, ToViewMsgs, Kinds, Terminal, Cancels
  <2>3. t = s \o <<m>>
    BY <1>2, <2>1 DEF Notice
  <2> HIDE DEF ToViewMsgs
  <2>5. t \in Seq(ToViewMsgs) /\ Len(s) \in Nat /\ Len(t) = Len(s) + 1 /\ t[Len(s) + 1] = m
        /\ \A i \in 1 .. Len(s) : t[i] = s[i]
    BY <2>2, <2>3
  <2>6. /\ \A i \in Len(s) + 1 .. Len(t) : Cancels(t[i])
        /\ \E i \in Len(s) + 1 .. Len(t) : Terminal(t[i], e)
    BY <2>2, <2>5
  <2> QED
    BY <2>5, <2>6 DEF Adds
<1> QED
  BY <1>1, <1>2

LEMMA NotifyReplies ==
    ASSUME BrokerType, NEW a \in Executions \cup {None}, NEW b \in Executions \cup {None},
           NEW c \in Executions \cup {None}, Notify(a, b, c)
    PROVE  Replied /\ \A e \in Executions : e \in {a, b, c} => Ended(e)
<1>0. None \notin Executions
  BY SqlExecutionAssumption DEF Executions
<1>1. PICK x : x = toView \o Notice(a)
  OBVIOUS
<1>2. PICK y : y = x \o Notice(b)
  OBVIOUS
<1>3. toView' = y \o Notice(c)
  BY <1>1, <1>2 DEF Notify
<1>4. Adds(toView, x, a)
  <2>1. toView \in Seq(ToViewMsgs)
    BY DEF BrokerType
  <2> QED
    BY <1>1, <2>1, NoticeAppends
<1>5. Adds(x, y, b)
  <2>1. x \in Seq(ToViewMsgs)
    BY <1>4 DEF Adds
  <2> QED
    BY <1>2, <2>1, NoticeAppends
<1>6. Adds(y, toView', c)
  <2>1. y \in Seq(ToViewMsgs)
    BY <1>5 DEF Adds
  <2> QED
    BY <1>3, <2>1, NoticeAppends
<1> HIDE DEF ToViewMsgs
<1>7. Replied
  <2>1. Len(toView) <= Len(toView') /\ \A i \in 1 .. Len(toView) : toView'[i] = toView[i]
    BY <1>4, <1>5, <1>6 DEF Adds
  <2>2. ASSUME NEW i \in Len(toView) + 1 .. Len(toView')
        PROVE  Cancels(toView'[i])
    <3>1. CASE i \in Len(y) + 1 .. Len(toView')
      BY <1>6, <3>1 DEF Adds
    <3>2. CASE i \in Len(x) + 1 .. Len(y)
      BY <1>4, <1>5, <1>6, <3>2 DEF Adds
    <3>3. CASE i \in Len(toView) + 1 .. Len(x)
      BY <1>4, <1>5, <1>6, <3>3 DEF Adds
    <3> QED
      BY <1>4, <1>5, <1>6, <3>1, <3>2, <3>3 DEF Adds
  <2> QED
    BY <1>4, <1>6, <2>1, <2>2 DEF Replied, Grown, Cancels, Adds
<1>8. ASSUME NEW e \in Executions, e \in {a, b, c}
      PROVE  Ended(e)
  <2>1. CASE e = a
    <3>1. PICK i \in Len(toView) + 1 .. Len(x) : Terminal(x[i], a)
      BY <1>0, <1>4, <2>1 DEF Adds
    <3>2. i \in Len(toView) + 1 .. Len(toView') /\ toView'[i] = x[i]
      BY <1>4, <1>5, <1>6, <3>1 DEF Adds
    <3> QED
      BY <2>1, <3>1, <3>2 DEF Ended
  <2>2. CASE e = b
    <3>1. PICK i \in Len(x) + 1 .. Len(y) : Terminal(y[i], b)
      BY <1>0, <1>5, <2>2 DEF Adds
    <3>2. i \in Len(toView) + 1 .. Len(toView') /\ toView'[i] = y[i]
      BY <1>4, <1>5, <1>6, <3>1 DEF Adds
    <3> QED
      BY <2>2, <3>1, <3>2 DEF Ended
  <2>3. CASE e = c
    <3>1. PICK i \in Len(y) + 1 .. Len(toView') : Terminal(toView'[i], c)
      BY <1>0, <1>6, <2>3 DEF Adds
    <3>2. i \in Len(toView) + 1 .. Len(toView')
      BY <1>4, <1>5, <1>6, <3>1 DEF Adds
    <3> QED
      BY <2>3, <3>1, <3>2 DEF Ended
  <2> QED
    BY <1>8, <2>1, <2>2, <2>3
<1> QED
  BY <1>7, <1>8

LEMMA AppendGrows ==
    ASSUME BrokerType, NEW m \in ToViewMsgs, toView' = Append(toView, m)
    PROVE  Grown /\ Len(toView') = Len(toView) + 1 /\ toView'[Len(toView) + 1] = m
<1>1. toView \in Seq(ToViewMsgs)
  BY DEF BrokerType
<1> HIDE DEF ToViewMsgs
<1> QED
  BY <1>1 DEF Grown

LEMMA OneReply ==
    ASSUME BrokerType, NEW e \in Executions, NEW type \in Kinds \cup {"idle"},
           toView' = Append(toView, Msg(type, e))
    PROVE  Replied /\ Ended(e)
<1>1. PICK m : m = Msg(type, e)
  OBVIOUS
<1>2. m \in ToViewMsgs /\ m.type \notin {"owner", "executing"} /\ Terminal(m, e)
  BY <1>1 DEF Msg, ToViewMsgs, Kinds, Terminal
<1>3. Grown /\ Len(toView') = Len(toView) + 1 /\ toView'[Len(toView) + 1] = m
  BY <1>1, <1>2, AppendGrows
<1>4. Len(toView) \in Nat
  BY <1>3 DEF Grown
<1> QED
  BY <1>2, <1>3, <1>4 DEF Replied, Ended

LEMMA NoReply ==
    ASSUME BrokerType, UNCHANGED toView
    PROVE  Replied
<1>1. Len(toView) \in Nat
  BY DEF BrokerType
<1> QED
  BY <1>1 DEF Replied, Grown

-----------------------------------------------------------------------------
(* The steps of the host, seen from the section.                           *)

LEMMA GrownFollows ==
    ASSUME TokenFollows, Replied, token' = token,
           ownership' = "current" => ownership = "current" /\ target' = target
    PROVE  TokenFollows'
<1> SUFFICES ASSUME ownership' = "current"
             PROVE  /\ token \in {None, target} \/ OwnerAfter(0)'
                    /\ \A i \in 1 .. Len(toView') :
                          toView'[i].type = "owner" => toView'[i].value = target \/ OwnerAfter(i)'
  BY DEF TokenFollows
<1>1. \A i \in 0 .. Len(toView) : OwnerAfter(i) => OwnerAfter(i)'
  BY DEF OwnerAfter, Replied, Grown
<1>2. \A i \in 1 .. Len(toView') : toView'[i].type = "owner" => i \in 1 .. Len(toView)
  BY DEF Replied, Grown
<1>3. 0 \in 0 .. Len(toView) /\ \A i \in 1 .. Len(toView) : i \in 0 .. Len(toView)
  BY DEF Replied, Grown
<1> QED
  BY <1>1, <1>2, <1>3 DEF TokenFollows, Replied, Grown

LEMMA HostSpeaks ==
    ASSUME StaysGivenUp, ShownInv, Replied, UNCHANGED <<active, token>>,
           ownership' = "current" => ownership = "current" /\ target' = target,
           active \in Manual /\ Asked(active) =>
              Asked(active)' \/ (stage'[active] # "new" /\ owner'[active] = token /\ told'[active] = {}),
           \A e \in Manual : stage[e] # "new" => stage'[e] # "new" /\ owner'[e] = owner[e],
           \A e \in Manual : told'[e] # {} => told[e] # {} \/ Ended(e),
           \A e \in Copilot : Lives(e) => Lives(e)' \/ GivenUp(e)' \/ ownership' # "current" \/ Ended(e)
    PROVE  ShownInv'
<1> USE DEF ShownInv
<1>1. TokenFollows'
  BY GrownFollows
<1>2. ShownManual'
  <2> SUFFICES ASSUME active \in Manual, ~Asked(active)'
               PROVE  /\ token # None /\ stage'[active] # "new" /\ owner'[active] = token
                      /\ told'[active] # {} => \E i \in 1 .. Len(toView') : Terminal(toView'[i], active)
    BY DEF ShownManual
  <2>1. CASE Asked(active)
    BY <2>1 DEF ShownManual
  <2>2. CASE ~Asked(active)
    <3>1. /\ token # None /\ stage[active] # "new" /\ owner[active] = token
          /\ told[active] # {} => \E i \in 1 .. Len(toView) : Terminal(toView[i], active)
      BY <2>2 DEF ShownManual
    <3>2. (\E i \in 1 .. Len(toView) : Terminal(toView[i], active)) \/ Ended(active)
          => \E i \in 1 .. Len(toView') : Terminal(toView'[i], active)
      BY DEF Replied, Grown, Ended
    <3> QED
      BY <3>1, <3>2
  <2> QED
    BY <2>1, <2>2
<1>3. ShownCopilot'
  <2>1. \A i \in 1 .. Len(toView') : toView'[i].type = "executing" =>
            i \in 1 .. Len(toView) /\ toView'[i] = toView[i]
    BY DEF Replied, Grown
  <2>2. ASSUME ownership' = "current", NEW e \in Copilot, NEW i \in 0 .. Len(toView'), Shows(e, i)'
        PROVE  Lives(e)' \/ GivenUp(e)' \/ EndsAfter(e, i)'
    <3>1. i \in 0 .. Len(toView) /\ Shows(e, i)
      BY <2>1, <2>2 DEF Shows, Replied, Grown
    <3>2. Lives(e) \/ GivenUp(e)' \/ EndsAfter(e, i)
      BY <2>2, <3>1 DEF ShownCopilot, StaysGivenUp, Executions
    <3>3. EndsAfter(e, i) => EndsAfter(e, i)'
      BY <3>1 DEF EndsAfter, Replied, Grown
    <3>4. Ended(e) => EndsAfter(e, i)'
      BY <3>1 DEF Ended, EndsAfter, Replied, Grown
    <3> QED
      BY <2>2, <3>2, <3>3, <3>4
  <2> QED
    BY <2>1, <2>2 DEF ShownCopilot
<1> QED
  BY <1>1, <1>2, <1>3

(* A message that is no request leaves those that are. *)
LEMMA AskedStays ==
    ASSUME BrokerType, NEW e, Asked(e), token' = token,
           toHost' = toHost
             \/ (toHost # <<>> /\ toHost' = Tail(toHost) /\ Head(toHost).type # "execute")
    PROVE  Asked(e)'
<1>1. PICK i \in DOMAIN toHost :
         toHost[i].type = "execute" /\ toHost[i].value = e /\ toHost[i].token = token
  BY DEF Asked
<1>2. CASE toHost' = toHost
  BY <1>1, <1>2 DEF Asked
<1>3. CASE toHost # <<>> /\ toHost' = Tail(toHost) /\ Head(toHost).type # "execute"
  <2>1. toHost \in Seq(ToHostMsgs)
    BY DEF BrokerType
  <2> HIDE DEF ToHostMsgs
  <2>2. i \in Nat /\ i >= 1 /\ Head(toHost) = toHost[1]
    BY <1>3, <2>1
  <2>3. i # 1
    BY <1>1, <1>3, <2>2
  <2>4. i - 1 \in DOMAIN toHost' /\ toHost'[i - 1] = toHost[i]
    BY <1>3, <2>1, <2>2, <2>3
  <2> QED
    BY <1>1, <2>4 DEF Asked
<1> QED
  BY <1>2, <1>3

LEMMA SupersedeReplies ==
    ASSUME BrokerInv, Supersede(TRUE)
    PROVE  /\ Replied
           /\ \A e \in Executions : e \in {preflight, pending, running} => Ended(e)
<1>1. preflight \in Executions \cup {None} /\ pending \in Executions \cup {None}
      /\ SupersededRunning \in Executions \cup {None}
  BY DEF SupersededRunning, BrokerInv, BrokerType
<1>2. Notify(preflight, pending, SupersededRunning) /\ BrokerType
  BY DEF Supersede, BrokerInv
<1>3. None \notin Executions /\ (pending # None => running = None)
  BY SqlExecutionAssumption DEF Executions, BrokerInv, PendingExcludesRunning
<1>4. Replied /\ \A e \in Executions : e \in {preflight, pending, SupersededRunning} => Ended(e)
  BY <1>1, <1>2, NotifyReplies
<1> QED
  BY <1>3, <1>4 DEF SupersededRunning

LEMMA SupersededSpeaks ==
    ASSUME StaysGivenUp, BrokerInv, ShownInv, Supersede(TRUE), UNCHANGED <<stage, owner, active, token>>,
           ownership' = "current" => ownership = "current" /\ target' = target,
           toHost' = toHost
             \/ (toHost # <<>> /\ toHost' = Tail(toHost) /\ Head(toHost).type # "execute")
    PROVE  ShownInv'
<1>1. Replied /\ \A e \in Executions : e \in {preflight, pending, running} => Ended(e)
  BY SupersedeReplies
<1>2. \A e \in Executions :
         told'[e] = IF e \in {preflight, pending, running}
                    THEN told[e] \cup {"cancelled"} ELSE told[e]
  BY SupersedeTells DEF BrokerInv
<1>3. Asked(active) => Asked(active)'
  BY AskedStays DEF BrokerInv
<1>4. \A e \in Manual : told'[e] # {} => told[e] # {} \/ Ended(e)
  BY <1>1, <1>2 DEF Executions
<1>5. \A e \in Copilot : Lives(e) => Lives(e)' \/ ownership' # "current" \/ Ended(e)
  BY <1>1 DEF Lives, Executions
<1> QED
  BY <1>1, <1>3, <1>4, <1>5, HostSpeaks

LEMMA CancelMessageSpeaks ==
    ASSUME StaysGivenUp, BrokerInv, HeldInv, ShownInv, CancelMessage
    PROVE  ShownInv'
<1>1. /\ toHost # <<>> /\ Head(toHost).type = "cancel" /\ toHost' = Tail(toHost)
      /\ UNCHANGED <<stage, owner, active, token, ownership, target>>
  BY DEF CancelMessage, Received, hostVars, targetVars, view
<1>2. CASE Head(toHost).value = None
  BY <1>1, <1>2, SupersededSpeaks DEF CancelMessage
<1>3. CASE Head(toHost).value # None
  <2> DEFINE e == Head(toHost).value
  <2>0. None \notin Executions /\ Manual \cup Copilot \subseteq Executions
    BY SqlExecutionAssumption DEF Executions
  <2>1. Head(toHost) \in ToHostMsgs
    BY <1>1, TailRequests DEF BrokerInv, BrokerType
  <2>2. e \in Executions /\ CancelExpected(e, TRUE)
    BY <1>1, <1>3, <2>1 DEF ToHostMsgs, CancelMessage
  <2> HIDE DEF e
  <2>3. Replied /\ (e \in {preflight, pending, running} => Ended(e))
    <3>1. CASE e \in {preflight, pending, running}
      BY <2>2, <3>1, NotifyReplies DEF CancelExpected, BrokerInv
    <3>2. CASE e \notin {preflight, pending, running}
      BY <2>2, <3>2, NoReply DEF CancelExpected, BrokerInv
    <3> QED
      BY <3>1, <3>2
  <2>4. \A d \in Executions :
           told'[d] = IF d = e /\ e \in {preflight, pending, running}
                      THEN told[d] \cup {"cancelled"} ELSE told[d]
    <3>1. CASE e \in {preflight, pending, running}
      <4>1. \A d \in Executions :
               told'[d] = IF d \in {e, None} THEN told[d] \cup {"cancelled"} ELSE told[d]
        BY <2>2, <3>1, NotifyTells DEF CancelExpected
      <4> QED
        BY <2>0, <3>1, <4>1
    <3>2. CASE e \notin {preflight, pending, running}
      BY <2>2, <3>2 DEF CancelExpected
    <3> QED
      BY <3>1, <3>2
  <2>5. running' = running \/ (running = e /\ running' = None)
    BY <2>0, <2>2 DEF CancelExpected, CancelRunning, BrokerInv, BrokerType, PendingExcludesRunning
  <2>6. \A d \in Manual : told'[d] # {} => told[d] # {} \/ Ended(d)
    BY <2>0, <2>3, <2>4
  <2>7. \A d \in Copilot : Lives(d) => Lives(d)' \/ ownership' # "current" \/ Ended(d)
    BY <1>1, <2>0, <2>3, <2>5 DEF Lives
  <2>8. Asked(active) => Asked(active)'
    BY <1>1, AskedStays DEF BrokerInv
  <2> QED
    BY <1>1, <2>3, <2>6, <2>7, <2>8, HostSpeaks
<1> QED
  BY <1>2, <1>3

(* An execution is reserved: of the section's requests at most its own is   *)
(* taken.                                                                  *)
LEMMA ReserveSpeaks ==
    ASSUME StaysGivenUp, BrokerInv, HeldInv, ShownInv, NEW e \in Executions, stage[e] = "new", ReservePreflight(e),
           \A d \in Executions \ {e} : owner'[d] = owner[d],
           Asked(active) => Asked(active)' \/ (active = e /\ owner'[e] = token)
    PROVE  ShownInv'
<1>0. None \notin Executions /\ Manual \cup Copilot = Executions
  BY SqlExecutionAssumption DEF Executions
<1>1. /\ Notify(preflight, None, None) /\ stage' = [stage EXCEPT ![e] = "preflight"]
      /\ UNCHANGED <<active, token, ownership, target, running>>
  BY DEF ReservePreflight, Goto, view, targetVars
<1>2. /\ \A d \in Executions : stage'[d] = IF d = e THEN "preflight" ELSE stage[d]
      /\ \A d \in Executions : told'[d] = IF d = preflight THEN told[d] \cup {"cancelled"} ELSE told[d]
  <2>1. \A d \in Executions : stage'[d] = IF d = e THEN "preflight" ELSE stage[d]
    BY <1>1 DEF BrokerInv, BrokerType
  <2>2. \A d \in Executions :
           told'[d] = IF d \in {preflight, None} THEN told[d] \cup {"cancelled"} ELSE told[d]
    BY <1>1, NotifyTells
  <2> QED
    BY <1>0, <2>1, <2>2
<1>3. Replied /\ \A d \in Executions : d = preflight => Ended(d)
  BY <1>1, NotifyReplies DEF BrokerInv, BrokerType
<1>4. told'[e] = {}
  BY <1>0, <1>2 DEF HeldInv, Staged, BrokerStages
<1>5. active \in Manual /\ Asked(active) =>
         Asked(active)' \/ (stage'[active] # "new" /\ owner'[active] = token /\ told'[active] = {})
  BY <1>2, <1>4
<1>6. \A d \in Manual : stage[d] # "new" => stage'[d] # "new" /\ owner'[d] = owner[d]
  BY <1>0, <1>2
<1>7. \A d \in Manual : told'[d] # {} => told[d] # {} \/ Ended(d)
  BY <1>0, <1>2, <1>3
<1>8. \A d \in Copilot : Lives(d) => Lives(d)' \/ ownership' # "current" \/ Ended(d)
  BY <1>0, <1>1, <1>2 DEF Lives, Going
<1> QED
  BY <1>1, <1>3, <1>5, <1>6, <1>7, <1>8, HostSpeaks

LEMMA ExecuteSpeaks ==
    ASSUME StaysGivenUp, BrokerInv, HeldInv, ShownInv, Execute
    PROVE  ShownInv'
<1> DEFINE e == Head(toHost).value
           t == Head(toHost).token
<1>1. /\ toHost # <<>> /\ Head(toHost).type = "execute" /\ toHost' = Tail(toHost)
      /\ ReservePreflight(e) /\ owner' = [owner EXCEPT ![e] = t]
      /\ UNCHANGED <<token, active>>
  BY DEF Execute, Received, ReservePreflight, view
<1>2. toHost \in Seq(ToHostMsgs) /\ Head(toHost) \in ToHostMsgs
      /\ Head(toHost) = toHost[1] /\ 1 \in DOMAIN toHost
  BY <1>1, TailRequests DEF BrokerInv, BrokerType
<1>3. e \in Executions /\ stage[e] = "new"
  BY <1>1, <1>2 DEF ToHostMsgs, Executions, BrokerInv, Requests
<1>4. \A d \in Executions \ {e} : owner'[d] = owner[d]
  BY <1>1 DEF BrokerInv, BrokerType
<1>5. owner'[e] = t
  BY <1>1, <1>3 DEF BrokerInv, BrokerType
<1>6. ASSUME Asked(active)
      PROVE  Asked(active)' \/ (active = e /\ owner'[e] = token)
  <2>1. PICK i \in DOMAIN toHost :
           toHost[i].type = "execute" /\ toHost[i].value = active /\ toHost[i].token = token
    BY <1>6 DEF Asked
  <2>2. CASE i = 1
    BY <1>2, <1>5, <2>1, <2>2
  <2>3. CASE i # 1
    <3> HIDE DEF ToHostMsgs
    <3>1. i - 1 \in DOMAIN toHost' /\ toHost'[i - 1] = toHost[i]
      BY <1>1, <1>2, <2>3
    <3> QED
      BY <1>1, <2>1, <3>1 DEF Asked
  <2> QED
    BY <2>2, <2>3
<1> HIDE DEF e, t
<1> QED
  BY <1>1, <1>3, <1>4, <1>6, ReserveSpeaks

LEMMA ReserveCopilotSpeaks ==
    ASSUME StaysGivenUp, BrokerInv, HeldInv, ShownInv, NEW e \in Executions, ReserveCopilot(e)
    PROVE  ShownInv'
<1>1. /\ ReservePreflight(e) /\ stage[e] = "new" /\ owner' = [owner EXCEPT ![e] = target]
      /\ UNCHANGED <<toHost, token, active>>
  BY DEF ReserveCopilot, ReservePreflight, view, BrokerInv, Requests
<1>2. (\A d \in Executions \ {e} : owner'[d] = owner[d]) /\ (Asked(active) => Asked(active)')
  BY <1>1, AskedStays DEF BrokerInv, BrokerType
<1> QED
  BY <1>1, <1>2, ReserveSpeaks

(* One execution moves on.  If it ends while it is shown, it says so.       *)
LEMMA OneSpeaks ==
    ASSUME StaysGivenUp, BrokerInv, ShownInv, NEW e \in Executions, NEW s \in Stages \ {"new"},
           stage' = [stage EXCEPT ![e] = s], Replied,
           UNCHANGED <<owner, target, ownership, active, token, toHost>>,
           \A d \in Executions : told'[d] # told[d] => Ended(d),
           \A d \in Executions \ {e} : running = d => running' = d \/ Ended(d),
           e \in Copilot /\ Lives(e) =>
              s \in {"announced", "retracting"} \/ (s \in Going /\ running' = e /\ owner[e] = target)
              \/ Ended(e) \/ GivenUp(e)'
    PROVE  ShownInv'
<1>0. Manual \cup Copilot = Executions
  BY DEF Executions
<1>1. \A d \in Executions : stage'[d] = IF d = e THEN s ELSE stage[d]
  BY DEF BrokerInv, BrokerType
<1>2. Asked(active) => Asked(active)'
  BY AskedStays DEF BrokerInv
<1>3. \A d \in Manual : stage[d] # "new" => stage'[d] # "new" /\ owner'[d] = owner[d]
  BY <1>0, <1>1
<1>4. \A d \in Manual : told'[d] # {} => told[d] # {} \/ Ended(d)
  BY <1>0
<1>5. \A d \in Copilot : Lives(d) => Lives(d)' \/ GivenUp(d)' \/ ownership' # "current" \/ Ended(d)
  <2> SUFFICES ASSUME NEW d \in Copilot, Lives(d) PROVE Lives(d)' \/ GivenUp(d)' \/ Ended(d)
    OBVIOUS
  <2>1. CASE d = e
    BY <1>0, <1>1, <2>1 DEF Lives
  <2>2. CASE d # e
    BY <1>0, <1>1, <2>2 DEF Lives
  <2> QED
    BY <2>1, <2>2
<1> QED
  BY <1>2, <1>3, <1>4, <1>5, HostSpeaks

LEMMA RefuseSpeaks ==
    ASSUME StaysGivenUp, BrokerInv, HeldInv, ShownInv, NEW e \in Executions, Refuse(e)
    PROVE  ShownInv'
<1>1. /\ e \in Manual /\ stage' = [stage EXCEPT ![e] = "done"]
      /\ UNCHANGED <<owner, target, ownership, active, token, toHost, running>>
  BY DEF Refuse, Goto, targetVars, view
<1>2. Replied /\ \A d \in Executions : told'[d] # told[d] => Ended(d)
  <2>1. CASE IsStillActiveRun(e)
    <3>1. toView' = Append(toView, Msg("error", e)) /\ told' = [told EXCEPT ![e] = @ \cup {"error"}]
      BY <2>1 DEF Refuse, Publish
    <3>2. Replied /\ Ended(e)
      BY <3>1, OneReply DEF BrokerInv, Kinds
    <3>3. \A d \in Executions \ {e} : told'[d] = told[d]
      BY <3>1 DEF BrokerInv, BrokerType
    <3> QED
      BY <3>2, <3>3
  <2>2. CASE ~IsStillActiveRun(e)
    BY <2>2, NoReply DEF Refuse, BrokerInv
  <2> QED
    BY <2>1, <2>2
<1> QED
  BY <1>1, <1>2, OneSpeaks, SqlExecutionAssumption DEF Stages

(* An admission tells what it retires. *)
LEMMA PromotedSpeaks ==
    ASSUME StaysGivenUp, BrokerInv, HeldInv, ShownInv, NEW e \in Executions, NEW s \in Stages \ {"new"},
           stage[e] = "preflight", stage' = [stage EXCEPT ![e] = s], Notify(pending, running, None),
           UNCHANGED <<owner, targetVars, view, toHost>>
    PROVE  ShownInv'
<1>0. None \notin Executions
  BY SqlExecutionAssumption DEF Executions
<1>1. Replied /\ \A d \in Executions : d \in {pending, running} => Ended(d)
  BY NotifyReplies DEF BrokerInv, BrokerType
<1>2. \A d \in Executions : told'[d] # told[d] => Ended(d)
  <2>1. \A d \in Executions :
           told'[d] = IF d \in {pending, running, None} THEN told[d] \cup {"cancelled"} ELSE told[d]
    BY NotifyTells
  <2> QED
    BY <1>0, <1>1, <2>1
<1>3. ~Lives(e)
  BY DEF Lives, Going
<1> QED
  BY <1>1, <1>2, <1>3, OneSpeaks DEF targetVars, view

LEMMA AdmissionSpeaks ==
    ASSUME StaysGivenUp, BrokerInv, HeldInv, ShownInv, NEW e \in Executions,
           StartManual(e) \/ StartManualThrows(e) \/ PromoteCopilot(e)
    PROVE  ShownInv'
<1>1. /\ stage[e] = "preflight" /\ Notify(pending, running, None)
      /\ UNCHANGED <<owner, targetVars, view, toHost>>
      /\ \E s \in {"running", "posting", "admitted"} : stage' = [stage EXCEPT ![e] = s]
  BY DEF StartManual, StartManualThrows, PromoteCopilot, Goto
<1>2. {"running", "posting", "admitted"} \subseteq Stages \ {"new"}
  BY DEF Stages
<1> QED
  BY <1>1, <1>2, PromotedSpeaks

LEMMA StartCopilotSpeaks ==
    ASSUME StaysGivenUp, BrokerInv, HeldInv, ShownInv, NEW e \in Executions, StartCopilot(e)
    PROVE  ShownInv'
<1>1. /\ pending = e /\ owner[e] = target /\ running' = e /\ stage' = [stage EXCEPT ![e] = "running"]
      /\ UNCHANGED <<owner, target, ownership, active, token, toHost, toView, told>>
  BY DEF StartCopilot, IsPendingCurrent, Goto, targetVars, view
<1>2. None \notin Executions /\ running = None
  BY <1>1, SqlExecutionAssumption DEF Executions, BrokerInv, PendingExcludesRunning
<1>3. Replied
  BY <1>1, NoReply DEF BrokerInv
<1> QED
  BY <1>1, <1>2, <1>3, OneSpeaks DEF Stages, Going

LEMMA FailCopilotSpeaks ==
    ASSUME StaysGivenUp, BrokerInv, HeldInv, ShownInv, NEW e \in Executions, FailCopilot(e)
    PROVE  ShownInv'
<1> DEFINE s == IF stage[e] = "announced" THEN "retracting" ELSE "done"
<1>0. None \notin Executions
  BY SqlExecutionAssumption DEF Executions
<1>1. /\ CancelExpected(e, FALSE) /\ stage[e] \in {"preflight", "admitted", "announced"}
      /\ stage' = [stage EXCEPT ![e] = s]
      /\ UNCHANGED <<owner, target, ownership, active, token, toHost>>
  BY DEF FailCopilot, Goto, targetVars, view
<1>2. UNCHANGED <<toView, told>>
  BY <1>1 DEF CancelExpected
<1>3. \A d \in Executions \ {e} : running = d => running' = d
  BY <1>0, <1>1 DEF CancelExpected, CancelRunning, BrokerInv, PendingExcludesRunning
<1>4. Replied
  BY <1>2, NoReply DEF BrokerInv
<1>5. s \in Stages \ {"new"} /\ (Lives(e) => s = "retracting")
  BY <1>1 DEF Stages, Lives, Going
<1> HIDE DEF s
<1> QED
  BY <1>1, <1>2, <1>3, <1>4, <1>5, OneSpeaks

LEMMA RetractSpeaks ==
    ASSUME StaysGivenUp, BrokerInv, HeldInv, ShownInv, NEW e \in Executions, Retract(e)
    PROVE  ShownInv'
<1>1. /\ stage' = [stage EXCEPT ![e] = "done"] /\ toView' = Append(toView, Msg("idle", e))
      /\ UNCHANGED <<owner, target, ownership, active, token, toHost, running, told>>
  BY DEF Retract, Goto, targetVars, view, broker
<1>2. Replied /\ Ended(e)
  BY <1>1, OneReply DEF BrokerInv
<1> QED
  BY <1>1, <1>2, OneSpeaks DEF Stages

LEMMA CancelCopilotSpeaks ==
    ASSUME StaysGivenUp, BrokerInv, HeldInv, ShownInv, NEW e \in Executions, CancelCopilot(e)
    PROVE  ShownInv'
<1>1. /\ running = e /\ toView' = Append(toView, Msg("idle", e))
      /\ UNCHANGED <<stage, owner, target, ownership, active, token, toHost, told>>
  BY DEF CancelCopilot, hostVars, targetVars, view
<1>2. Replied /\ Ended(e)
  BY <1>1, OneReply DEF BrokerInv
<1>3. Asked(active) => Asked(active)'
  BY <1>1, AskedStays DEF BrokerInv
<1>4. \A d \in Copilot : Lives(d) => Lives(d)' \/ ownership' # "current" \/ Ended(d)
  BY <1>1, <1>2 DEF Lives, Executions
<1> QED
  BY <1>1, <1>2, <1>3, <1>4, HostSpeaks

LEMMA LivesIsCurrent ==
    ASSUME HeldInv, NEW e \in Executions, stage[e] \in Going, Lives(e)
    PROVE  running = e /\ owner[e] = target /\ IsStillActiveRun(e)
<1>1. None \notin Executions /\ running = e /\ owner[e] = target
  BY SqlExecutionAssumption DEF Executions, Lives, Going
<1> QED
  BY <1>1 DEF HeldInv, BrokerStages, IsStillActiveRun, Going

LEMMA SettleSpeaks ==
    ASSUME StaysGivenUp, BrokerInv, HeldInv, ShownInv, NEW e \in Executions, NEW kind \in Kinds, Settle(e, kind)
    PROVE  ShownInv'
<1> DEFINE s == IF ~IsStillActiveRun(e) THEN "done"
                ELSE IF kind = "result" THEN "checking" ELSE "posting"
<1>1. /\ stage[e] = "running" /\ stage' = [stage EXCEPT ![e] = s]
      /\ UNCHANGED <<owner, target, ownership, active, token, toHost, toView, told>>
      /\ running' = IF IsStillActiveRun(e) \/ running # e THEN running ELSE None
  BY DEF Settle, Goto, Release, targetVars, view
<1>2. Replied
  BY <1>1, NoReply DEF BrokerInv
<1>3. s \in Stages \ {"new"} /\ (IsStillActiveRun(e) => s \in Going)
  BY DEF Stages, Going
<1>4. Lives(e) => s \in Going /\ running' = e /\ owner[e] = target
  BY <1>1, <1>3, LivesIsCurrent DEF Going
<1> HIDE DEF s
<1> QED
  BY <1>1, <1>2, <1>3, <1>4, OneSpeaks

LEMMA CheckOwnerSpeaks ==
    ASSUME StaysGivenUp, BrokerInv, HeldInv, ShownInv, NEW e \in Executions, CheckOwner(e)
    PROVE  ShownInv'
<1> DEFINE s == IF IsStillActiveRun(e) THEN "posting" ELSE "done"
<1>1. /\ stage[e] = "checking" /\ stage' = [stage EXCEPT ![e] = s]
      /\ UNCHANGED <<owner, target, ownership, active, token, toHost, toView, told>>
      /\ running' = IF IsStillActiveRun(e) \/ running # e THEN running ELSE None
  BY DEF CheckOwner, Goto, Release, targetVars, view
<1>2. Replied
  BY <1>1, NoReply DEF BrokerInv
<1>3. s \in Stages \ {"new"} /\ (IsStillActiveRun(e) => s \in Going)
  BY DEF Stages, Going
<1>4. Lives(e) => s \in Going /\ running' = e /\ owner[e] = target
  BY <1>1, <1>3, LivesIsCurrent DEF Going
<1> HIDE DEF s
<1> QED
  BY <1>1, <1>2, <1>3, <1>4, OneSpeaks

LEMMA PostSpeaks ==
    ASSUME StaysGivenUp, BrokerInv, HeldInv, ShownInv, NEW e \in Executions, Post(e)
    PROVE  ShownInv'
<1> DEFINE ok == owner[e] = target /\ IsStillActiveRun(e)
           s == IF ok THEN "posted" ELSE "done"
<1>1. /\ stage[e] = "posting" /\ stage' = [stage EXCEPT ![e] = s]
      /\ UNCHANGED <<owner, target, ownership, active, token, toHost>>
      /\ IF ok THEN Publish(outcome[e], e) ELSE UNCHANGED <<toView, told>>
      /\ running' = IF ok \/ running # e THEN running ELSE None
  BY DEF Post, Goto, Release, targetVars, view
<1>2. s \in Stages \ {"new"}
  BY DEF Stages
<1>3. Lives(e) => ok
  BY <1>1, LivesIsCurrent DEF Going
<1> HIDE DEF ok, s
<1>4. Replied /\ (ok => Ended(e)) /\ \A d \in Executions : told'[d] # told[d] => Ended(d)
  <2>1. CASE ok
    <3>1. outcome[e] \in Kinds
      BY <1>1 DEF BrokerInv, Outcomes
    <3>2. /\ toView' = Append(toView, Msg(outcome[e], e))
          /\ told' = [told EXCEPT ![e] = @ \cup {outcome[e]}]
      BY <1>1, <2>1 DEF Publish
    <3>3. Replied /\ Ended(e)
      BY <3>1, <3>2, OneReply DEF BrokerInv
    <3>4. \A d \in Executions \ {e} : told'[d] = told[d]
      BY <3>2 DEF BrokerInv, BrokerType
    <3> QED
      BY <3>3, <3>4
  <2>2. CASE ~ok
    BY <1>1, <2>2, NoReply DEF BrokerInv
  <2> QED
    BY <2>1, <2>2
<1> QED
  BY <1>1, <1>2, <1>3, <1>4, OneSpeaks

LEMMA PostTimesOutSpeaks ==
    ASSUME StaysGivenUp, BrokerInv, HeldInv, ShownInv, NEW e \in Executions, PostTimesOut(e)
    PROVE  ShownInv'
<1>1. /\ UNCHANGED <<owner, target, ownership, active, token, toHost, toView, told>>
      /\ stage[e] = "posting" /\ (running' = running \/ (running' = None /\ running = e))
      /\ \/ stage' = [stage EXCEPT ![e] = "posting"] /\ running' = running
         \/ stage' = [stage EXCEPT ![e] = "done"] /\ outcome'[e] = "suppressed"
  BY DEF PostTimesOut, Goto, Release, targetVars, view, BrokerInv, BrokerType
<1>2. Replied
  BY <1>1, NoReply DEF BrokerInv
<1>3. Lives(e) => running = e /\ owner[e] = target
  BY <1>1 DEF Lives, Going
<1>4. CASE stage' = [stage EXCEPT ![e] = "posting"] /\ running' = running
  BY <1>1, <1>2, <1>3, <1>4, OneSpeaks DEF Stages, Going
<1>5. CASE stage' = [stage EXCEPT ![e] = "done"] /\ outcome'[e] = "suppressed"
  <2>1. GivenUp(e)'
    BY <1>5 DEF GivenUp, BrokerInv, BrokerType
  <2> QED
    BY <1>1, <1>2, <1>5, <2>1, OneSpeaks DEF Stages
<1> QED
  BY <1>1, <1>4, <1>5

LEMMA FinishSpeaks ==
    ASSUME StaysGivenUp, BrokerInv, HeldInv, ShownInv, NEW e \in Executions, Finish(e)
    PROVE  ShownInv'
<1>1. /\ stage[e] = "posted" /\ stage' = [stage EXCEPT ![e] = "done"]
      /\ UNCHANGED <<owner, target, ownership, active, token, toHost, toView, told>>
      /\ running' = IF running = e THEN None ELSE running
  BY DEF Finish, Goto, Release, targetVars, view
<1>2. Replied /\ ~Lives(e)
  BY <1>1, NoReply DEF BrokerInv, Lives, Going
<1> QED
  BY <1>1, <1>2, OneSpeaks DEF Stages

-----------------------------------------------------------------------------
(* The steps of the section and of its owners, seen from the section.      *)

LEMMA RunSpeaks ==
    ASSUME StaysGivenUp, BrokerInv, ShownInv, NEW e \in Executions, Run(e)
    PROVE  ShownInv'
<1> DEFINE m == RunMsg(e, token)
<1>1. /\ UNCHANGED <<toView, token, ownership, target, stage, running, owner>>
      /\ active' = e /\ active = None /\ token # None /\ e \in Manual \ used
      /\ toHost' = Append(toHost, m) /\ m \in ToHostMsgs
      /\ m.type = "execute" /\ m.value = e /\ m.token = token
  BY DEF Run, RunMsg, ToHostMsgs, targetVars, hostVars, broker, BrokerInv, BrokerType
<1> HIDE DEF m
<1>2. toHost \in Seq(ToHostMsgs)
  BY DEF BrokerInv, BrokerType
<1>3. Asked(active)'
  <2> HIDE DEF ToHostMsgs
  <2>1. Len(toHost) + 1 \in DOMAIN toHost' /\ toHost'[Len(toHost) + 1] = m
    BY <1>1, <1>2
  <2> QED
    BY <1>1, <2>1 DEF Asked
<1>4. ShownManual'
  BY <1>1, <1>3 DEF ShownManual
<1>5. TokenFollows'
  BY <1>1 DEF ShownInv, TokenFollows, OwnerAfter
<1>6. ShownCopilot'
  <2>1. \A c \in Copilot, i \in 0 .. Len(toView) : Shows(c, i)' => Shows(c, i)
    BY <1>1, SqlExecutionAssumption DEF Shows
  <2> QED
    BY <1>1, <2>1 DEF ShownInv, ShownCopilot, Lives, EndsAfter, StaysGivenUp, Executions
<1> QED
  BY <1>4, <1>5, <1>6 DEF ShownInv

(* Nothing is shown any longer. *)
LEMMA ClearedSpeaks ==
    ASSUME StaysGivenUp, ShownInv, active' = None, token' \in {token, None},
           UNCHANGED <<toView, ownership, target, stage, running, owner>>
    PROVE  ShownInv'
<1>0. None \notin Manual /\ None \notin Copilot
  BY SqlExecutionAssumption DEF Executions
<1>1. ShownManual'
  BY <1>0 DEF ShownManual
<1>2. TokenFollows'
  BY DEF ShownInv, TokenFollows, OwnerAfter
<1>3. ShownCopilot'
  <2>1. \A c \in Copilot, i \in 0 .. Len(toView) : Shows(c, i)' => Shows(c, i)
    BY <1>0 DEF Shows
  <2> QED
    BY <2>1 DEF ShownInv, ShownCopilot, Lives, EndsAfter, StaysGivenUp, Executions
<1> QED
  BY <1>1, <1>2, <1>3 DEF ShownInv

LEMMA ReceiveSpeaks ==
    ASSUME StaysGivenUp, BrokerInv, ShownInv, Receive
    PROVE  ShownInv'
<1> USE DEF ShownInv
<1>0. None \notin Executions /\ Manual \cup Copilot = Executions /\ Manual \cap Copilot = {}
  BY SqlExecutionAssumption DEF Executions
<1>1. /\ UNCHANGED <<stage, running, owner, ownership, target, told, toHost>>
      /\ toView # <<>> /\ toView' = Tail(toView) /\ toView \in Seq(ToViewMsgs)
  BY DEF Receive, broker, hostVars, targetVars, BrokerInv, BrokerType
<1>2. PICK m : m = Head(toView)
  OBVIOUS
<1>3. PICK n : n = Len(toView)
  OBVIOUS
<1>4. /\ n \in Nat /\ n >= 1 /\ Len(toView') = n - 1 /\ m = toView[1] /\ m \in ToViewMsgs
      /\ \A i \in 1 .. n - 1 : toView'[i] = toView[i + 1]
  <2> HIDE DEF ToViewMsgs
  <2> QED
    BY <1>1, <1>2, <1>3
<1>5. m.type # "owner" => token' = token /\ m.value \in Executions
  BY <1>2, <1>4 DEF Receive, ToViewMsgs, Kinds
<1>6. m.type = "owner" => active' = None /\ token' = m.value
  BY <1>2 DEF Receive, ActiveAfter
<1>7. m.type = "executing" =>
         active' = (IF active = None THEN m.value ELSE active) /\ m.value \in Copilot
  BY <1>2, <1>3, <1>4 DEF Receive, ActiveAfter, ShownCopilot
<1>8. m.type \notin {"owner", "executing"} => active' \in {active, None} /\ active' # m.value
  BY <1>0, <1>2, <1>5 DEF Receive, ActiveAfter
<1>9. ShownManual'
  <2>1. CASE active' \in Manual
    <3>1. m.type # "owner" /\ active' = active /\ token' = token /\ ~Terminal(m, active)
      BY <1>0, <1>5, <1>6, <1>7, <1>8, <2>1 DEF Terminal, Kinds
    <3>2. Asked(active) => Asked(active)'
      BY <1>1, <3>1 DEF Asked
    <3>3. ASSUME NEW i \in 1 .. n, Terminal(toView[i], active)
          PROVE  \E j \in 1 .. Len(toView') : Terminal(toView'[j], active)
      <4>1. i # 1
        BY <1>4, <3>1, <3>3
      <4>2. i - 1 \in 1 .. Len(toView') /\ toView'[i - 1] = toView[i]
        BY <1>4, <4>1
      <4> QED
        BY <3>3, <4>2
    <3> QED
      BY <1>1, <1>3, <3>1, <3>2, <3>3 DEF ShownManual
  <2>2. CASE active' \notin Manual
    BY <2>2 DEF ShownManual
  <2> QED
    BY <2>1, <2>2
<1>10. TokenFollows'
  <2> SUFFICES ASSUME ownership = "current"
               PROVE  /\ token' \in {None, target} \/ OwnerAfter(0)'
                      /\ \A i \in 1 .. n - 1 :
                            toView'[i].type = "owner" => toView'[i].value = target \/ OwnerAfter(i)'
    BY <1>1, <1>4 DEF TokenFollows
  <2>1. ASSUME NEW i \in 1 .. n, OwnerAfter(i)
        PROVE  OwnerAfter(i - 1)'
    <3>1. PICK j \in 1 .. n : j > i /\ toView[j].type = "owner"
      BY <1>3, <2>1 DEF OwnerAfter
    <3>2. j - 1 \in 1 .. Len(toView') /\ toView'[j - 1] = toView[j] /\ j - 1 > i - 1
      BY <1>4, <3>1
    <3> QED
      BY <3>1, <3>2 DEF OwnerAfter
  <2>2. token' \in {None, target} \/ OwnerAfter(0)'
    <3>1. CASE m.type = "owner"
      <4>1. m.value = target \/ OwnerAfter(1)
        BY <1>3, <1>4, <2>1, <3>1 DEF TokenFollows
      <4> QED
        BY <1>4, <1>6, <2>1, <3>1, <4>1
    <3>2. CASE m.type # "owner"
      <4>1. CASE OwnerAfter(0)
        <5>1. PICK j \in 1 .. n : toView[j].type = "owner"
          BY <1>3, <4>1 DEF OwnerAfter
        <5>2. j # 1
          BY <1>4, <3>2, <5>1
        <5>3. j - 1 \in 1 .. Len(toView') /\ toView'[j - 1] = toView[j] /\ j - 1 > 0
          BY <1>4, <5>1, <5>2
        <5> QED
          BY <5>1, <5>3 DEF OwnerAfter
      <4>2. CASE ~OwnerAfter(0)
        BY <1>5, <3>2, <4>2 DEF TokenFollows
      <4> QED
        BY <4>1, <4>2
    <3> QED
      BY <3>1, <3>2
  <2>3. ASSUME NEW i \in 1 .. n - 1, toView'[i].type = "owner"
        PROVE  toView'[i].value = target \/ OwnerAfter(i)'
    <3>1. i + 1 \in 1 .. n /\ toView'[i] = toView[i + 1] /\ (i + 1) - 1 = i
      BY <1>4
    <3>2. toView[i + 1].value = target \/ OwnerAfter(i + 1)
      BY <1>3, <2>3, <3>1 DEF TokenFollows
    <3> QED
      BY <2>1, <3>1, <3>2
  <2> QED
    BY <2>2, <2>3
<1>11. ShownCopilot'
  <2>1. ASSUME NEW i \in 1 .. Len(toView'), toView'[i].type = "executing"
        PROVE  toView'[i].value \in Copilot
    <3>1. i + 1 \in 1 .. n /\ toView'[i] = toView[i + 1]
      BY <1>4
    <3> QED
      BY <1>3, <2>1, <3>1 DEF ShownCopilot
  <2>2. ASSUME ownership = "current", NEW e \in Copilot, NEW i \in 0 .. n - 1, Shows(e, i)'
        PROVE  Lives(e)' \/ GivenUp(e)' \/ EndsAfter(e, i)'
    <3>1. Lives(e)' = Lives(e) /\ (GivenUp(e) => GivenUp(e)')
      BY <1>0, <1>1 DEF Lives, StaysGivenUp
    <3>2. ASSUME NEW k \in 0 .. n, EndsAfter(e, k), k = i + 1 \/ (k = 0 /\ i = 0),
                 k = 0 => m.type # "owner" /\ ~Terminal(m, e)
          PROVE  EndsAfter(e, i)'
      <4>1. PICK j \in 1 .. n : j > k /\ (toView[j].type = "owner" \/ Terminal(toView[j], e))
        BY <1>3, <3>2 DEF EndsAfter
      <4>2. j # 1
        BY <1>4, <3>2, <4>1
      <4>3. j - 1 \in 1 .. Len(toView') /\ toView'[j - 1] = toView[j] /\ j - 1 > i
        BY <1>4, <3>2, <4>1, <4>2
      <4> QED
        BY <4>1, <4>3 DEF EndsAfter
    <3>3. CASE i >= 1
      <4>1. i + 1 \in 1 .. n /\ i + 1 \in 0 .. n /\ toView'[i] = toView[i + 1] /\ i # 0
        BY <1>4, <3>3
      <4>2. Shows(e, i + 1)
        BY <1>3, <2>2, <4>1 DEF Shows
      <4>3. Lives(e) \/ GivenUp(e) \/ EndsAfter(e, i + 1)
        BY <1>3, <2>2, <4>1, <4>2 DEF ShownCopilot
      <4> QED
        BY <3>1, <3>2, <4>1, <4>3
    <3>4. CASE i = 0 /\ m.type = "executing" /\ active = None
      <4>1. active' = e /\ m.value = e /\ 1 \in 1 .. n /\ 1 \in 0 .. n
        BY <1>4, <1>7, <2>2, <3>4 DEF Shows
      <4>2. Shows(e, 1)
        BY <1>3, <1>4, <3>4, <4>1 DEF Shows
      <4>3. Lives(e) \/ GivenUp(e) \/ EndsAfter(e, 1)
        BY <1>3, <2>2, <4>1, <4>2 DEF ShownCopilot
      <4> QED
        BY <3>1, <3>2, <3>4, <4>1, <4>3
    <3>5. CASE i = 0 /\ ~(m.type = "executing" /\ active = None)
      <4>1. active' = e
        BY <2>2, <3>5 DEF Shows
      <4>2. active = e /\ m.type # "owner" /\ ~Terminal(m, e)
        BY <1>0, <1>6, <1>7, <1>8, <3>5, <4>1 DEF Terminal, Kinds
      <4>3. Shows(e, 0) /\ 0 \in 0 .. n
        BY <1>4, <4>2 DEF Shows
      <4>4. Lives(e) \/ GivenUp(e) \/ EndsAfter(e, 0)
        BY <1>3, <2>2, <4>3 DEF ShownCopilot
      <4> QED
        BY <3>1, <3>2, <3>5, <4>2, <4>3, <4>4
    <3> QED
      BY <1>4, <3>3, <3>4, <3>5
  <2> QED
    BY <1>1, <1>4, <2>1, <2>2 DEF ShownCopilot
<1> QED
  BY <1>9, <1>10, <1>11

LEMMA PublishOwnerSpeaks ==
    ASSUME StaysGivenUp, BrokerInv, ShownInv, PublishOwner
    PROVE  ShownInv'
<1> DEFINE m == Msg("owner", target)
<1>1. /\ UNCHANGED <<stage, running, owner, target, told, toHost, token, active>>
      /\ toView' = Append(toView, m) /\ m \in ToViewMsgs /\ m.type = "owner" /\ m.value = target
  BY DEF PublishOwner, Msg, ToViewMsgs, broker, hostVars, view, BrokerInv, BrokerType
<1> HIDE DEF m
<1>2. Grown /\ Len(toView') = Len(toView) + 1 /\ toView'[Len(toView) + 1] = m /\ Len(toView) \in Nat
  BY <1>1, AppendGrows DEF BrokerInv, Grown
<1>3. ShownManual'
  <2>1. (\E i \in 1 .. Len(toView) : Terminal(toView[i], active))
        => \E i \in 1 .. Len(toView') : Terminal(toView'[i], active)
    BY <1>2 DEF Grown
  <2>2. Asked(active) => Asked(active)'
    BY <1>1 DEF Asked
  <2> QED
    BY <1>1, <2>1, <2>2 DEF ShownInv, ShownManual
<1>4. \A i \in 0 .. Len(toView) : OwnerAfter(i)'
  BY <1>1, <1>2 DEF OwnerAfter
<1>5. TokenFollows'
  <2>1. ASSUME NEW i \in 1 .. Len(toView'), toView'[i].type = "owner"
        PROVE  toView'[i].value = target \/ OwnerAfter(i)'
    BY <1>1, <1>2, <1>4
  <2>2. OwnerAfter(0)'
    BY <1>2, <1>4
  <2> QED
    BY <1>1, <2>1, <2>2 DEF TokenFollows
<1>6. ShownCopilot'
  <2>1. ASSUME NEW i \in 1 .. Len(toView'), toView'[i].type = "executing"
        PROVE  i \in 1 .. Len(toView) /\ toView'[i] = toView[i]
    BY <1>1, <1>2, <2>1 DEF Grown
  <2>2. ASSUME NEW e \in Copilot, NEW i \in 0 .. Len(toView'), Shows(e, i)'
        PROVE  EndsAfter(e, i)'
    <3>1. i \in 0 .. Len(toView)
      BY <1>2, <2>1, <2>2 DEF Shows
    <3> QED
      BY <1>4, <3>1 DEF OwnerAfter, EndsAfter
  <2> QED
    BY <2>1, <2>2 DEF ShownInv, ShownCopilot
<1> QED
  BY <1>3, <1>5, <1>6 DEF ShownInv

LEMMA RestartSpeaks ==
    ASSUME Restart
    PROVE  ShownInv'
<1>1. active' = None /\ toView' = <<>> /\ ownership' = "unpublished" /\ Len(toView') = 0
  BY DEF Restart
<1>2. None \notin Manual
  BY SqlExecutionAssumption DEF Executions
<1> QED
  BY <1>1, <1>2 DEF ShownInv, ShownManual, TokenFollows, ShownCopilot

LEMMA RevokeSpeaks ==
    ASSUME StaysGivenUp, BrokerInv, ShownInv, Revoke
    PROVE  ShownInv'
<1>1. /\ UNCHANGED <<stage, owner, told, active, token, toHost, toView>> /\ ownership' = "revoked"
  BY DEF Revoke, hostVars, view
<1>2. Replied /\ (Asked(active) => Asked(active)')
  BY <1>1, NoReply, AskedStays DEF BrokerInv
<1> QED
  BY <1>1, <1>2, HostSpeaks

LEMMA PublishStartSpeaks ==
    ASSUME StaysGivenUp, BrokerInv, ShownInv, NEW e \in Executions, PublishStart(e)
    PROVE  ShownInv'
<1> DEFINE m == Msg("executing", e)
<1>1. /\ e \in Copilot /\ UNCHANGED <<running, owner, target, ownership, told, toHost, token, active>>
      /\ \A d \in Executions : stage'[d] = IF d = e THEN "announced" ELSE stage[d]
      /\ toView' = Append(toView, m) /\ m \in ToViewMsgs /\ m.type = "executing" /\ m.value = e
  BY DEF PublishStart, Msg, ToViewMsgs, Goto, broker, targetVars, view, BrokerInv, BrokerType
<1> HIDE DEF m
<1>2. Grown /\ Len(toView') = Len(toView) + 1 /\ toView'[Len(toView) + 1] = m /\ Len(toView) \in Nat
  BY <1>1, AppendGrows DEF BrokerInv, Grown
<1>3. ShownManual'
  <2>1. (\E i \in 1 .. Len(toView) : Terminal(toView[i], active))
        => \E i \in 1 .. Len(toView') : Terminal(toView'[i], active)
    BY <1>2 DEF Grown
  <2>2. Asked(active) => Asked(active)'
    BY <1>1 DEF Asked
  <2> QED
    BY <1>1, <2>1, <2>2 DEF ShownInv, ShownManual, Executions
<1>4. \A i \in 0 .. Len(toView) : OwnerAfter(i) => OwnerAfter(i)'
  BY <1>2 DEF OwnerAfter, Grown
<1>5. TokenFollows'
  <2>1. ASSUME ownership = "current", NEW i \in 1 .. Len(toView'), toView'[i].type = "owner"
        PROVE  toView'[i].value = target \/ OwnerAfter(i)'
    <3>1. i \in 1 .. Len(toView) /\ toView'[i] = toView[i] /\ i \in 0 .. Len(toView)
      BY <1>1, <1>2, <2>1 DEF Grown
    <3> QED
      BY <1>4, <2>1, <3>1 DEF ShownInv, TokenFollows
  <2>2. OwnerAfter(0) => OwnerAfter(0)'
    BY <1>2, <1>4
  <2> QED
    BY <1>1, <2>1, <2>2 DEF ShownInv, TokenFollows
<1>6. ShownCopilot'
  <2>1. ASSUME NEW i \in 1 .. Len(toView'), toView'[i].type = "executing"
        PROVE  toView'[i].value \in Copilot
    BY <1>1, <1>2, <2>1 DEF Grown, ShownInv, ShownCopilot
  <2>2. ASSUME ownership = "current", NEW c \in Copilot, NEW i \in 0 .. Len(toView'), Shows(c, i)'
        PROVE  Lives(c)' \/ GivenUp(c)' \/ EndsAfter(c, i)'
    <3>1. Lives(e)' /\ (Lives(c) => Lives(c)') /\ (GivenUp(c) => GivenUp(c)')
      BY <1>1 DEF Lives, StaysGivenUp, Executions
    <3>2. CASE i = Len(toView) + 1
      BY <1>1, <1>2, <2>2, <3>1, <3>2 DEF Shows
    <3>3. CASE i # Len(toView) + 1
      <4>1. i \in 0 .. Len(toView) /\ Shows(c, i)
        BY <1>1, <1>2, <2>2, <3>3 DEF Shows, Grown
      <4>2. Lives(c) \/ GivenUp(c) \/ EndsAfter(c, i)
        BY <2>2, <4>1 DEF ShownInv, ShownCopilot
      <4>3. EndsAfter(c, i) => EndsAfter(c, i)'
        BY <1>2, <4>1 DEF EndsAfter, Grown
      <4> QED
        BY <3>1, <4>2, <4>3
    <3> QED
      BY <3>2, <3>3
  <2> QED
    BY <1>1, <2>1, <2>2 DEF ShownCopilot
<1> QED
  BY <1>3, <1>5, <1>6 DEF ShownInv

LEMMA InitSpeaks == Init => ShownInv
<1> SUFFICES ASSUME Init PROVE ShownInv
  OBVIOUS
<1>1. active = None /\ token = 1 /\ target = 1 /\ toView = <<>> /\ Len(toView) = 0
  BY DEF Init
<1>2. None \notin Executions
  BY SqlExecutionAssumption
<1> QED
  BY <1>1, <1>2 DEF ShownInv, ShownManual, TokenFollows, ShownCopilot, Shows, Executions

(* A run that ended has ended, with the outcome it has. *)
LEMMA GivenUpStays ==
    ASSUME BrokerInv, [Next]_vars
    PROVE  StaysGivenUp
<1> SUFFICES ASSUME NEW d \in Executions, GivenUp(d) PROVE GivenUp(d)'
  BY DEF StaysGivenUp
<1>1. stage[d] = "done" /\ outcome[d] = "suppressed" /\ BrokerType
  BY DEF GivenUp, BrokerInv
<1>2. CASE UNCHANGED vars \/ Cancel \/ Retarget \/ Receive
  BY <1>1, <1>2 DEF vars, hostVars, Cancel, Retarget, Receive, GivenUp
<1>3. CASE HostReceives \/ Revoke \/ Noticed \/ PublishOwner \/ Restart
  <2>1. CASE Execute
    <3>1. /\ toHost # <<>> /\ Head(toHost).type = "execute" /\ toHost \in Seq(ToHostMsgs)
          /\ ReservePreflight(Head(toHost).value)
      BY <2>1 DEF Execute, Received, BrokerInv, BrokerType
    <3>2. 1 \in DOMAIN toHost /\ Head(toHost) = toHost[1]
      BY <3>1, TailRequests
    <3>3. stage[Head(toHost).value] = "new"
      BY <3>1, <3>2 DEF BrokerInv, Requests
    <3> QED
      BY <1>1, <3>1, <3>3 DEF ReservePreflight, Goto, BrokerType, GivenUp
  <2> QED
    BY <1>1, <1>3, <2>1 DEF HostReceives, CancelMessage, AdoptTarget, Revoke, Noticed, PublishOwner,
                            Restart, hostVars, GivenUp
<1>4. ASSUME NEW e \in Executions, Run(e) \/ ReserveCopilot(e) \/ CancelCopilot(e)
      PROVE  GivenUp(d)'
  <2>1. CASE ReserveCopilot(e)
    <3>1. stage[e] = "new"
      BY <2>1 DEF ReserveCopilot, BrokerInv, Requests
    <3> QED
      BY <1>1, <2>1, <3>1 DEF ReserveCopilot, ReservePreflight, Goto, BrokerType, GivenUp
  <2> QED
    BY <1>1, <1>4, <2>1 DEF Run, CancelCopilot, hostVars, GivenUp
<1>5. ASSUME NEW e \in Executions, Validate(e) \/ Prepare(e)
      PROVE  GivenUp(d)'
  BY <1>1, <1>5 DEF Validate, Refuse, StartManual, StartManualThrows, Prepare, PromoteCopilot,
                    PublishStart, StartCopilot, FailCopilot, Retract, Goto, BrokerType, GivenUp
<1>6. ASSUME NEW e \in Executions, Conclude(e)
      PROVE  GivenUp(d)'
  BY <1>1, <1>6 DEF Conclude, Settle, CheckOwner, Post, PostTimesOut, Finish, Goto, BrokerType,
                    GivenUp
<1> QED
  BY <1>2, <1>3, <1>4, <1>5, <1>6 DEF Next

LEMMA ShownStep == BrokerInv /\ HeldInv /\ ShownInv /\ [Next]_vars => ShownInv'
<1> SUFFICES ASSUME BrokerInv, HeldInv, ShownInv, [Next]_vars PROVE ShownInv'
  OBVIOUS
<1>0. StaysGivenUp
  BY GivenUpStays
<1>1. CASE UNCHANGED vars
  <2>1. /\ UNCHANGED <<stage, owner, running, target, ownership, active, token, toHost, toView, told>>
    BY <1>1 DEF vars, broker, hostVars, targetVars, view
  <2>2. Replied /\ (Asked(active) => Asked(active)')
    BY <2>1, NoReply, AskedStays DEF BrokerInv
  <2>3. \A e \in Copilot : Lives(e) => Lives(e)'
    BY <2>1 DEF Lives
  <2> QED
    BY <1>0, <2>1, <2>2, <2>3, HostSpeaks
<1>2. CASE Cancel \/ Retarget
  <2>1. /\ active' = None /\ token' \in {token, None}
        /\ UNCHANGED <<toView, ownership, target, stage, running, owner>>
    BY <1>2 DEF Cancel, Retarget, broker, hostVars, targetVars
  <2> QED
    BY <1>0, <2>1, ClearedSpeaks
<1>3. CASE Receive \/ PublishOwner
  BY <1>0, <1>3, ReceiveSpeaks, PublishOwnerSpeaks
<1>4. CASE HostReceives
  <2>1. CASE AdoptTarget
    <3>1. /\ Supersede(TRUE) /\ ownership' # "current" /\ UNCHANGED <<stage, owner, active, token>>
          /\ toHost # <<>> /\ toHost' = Tail(toHost) /\ Head(toHost).type # "execute"
      BY <2>1 DEF AdoptTarget, Received, hostVars, view
    <3> QED
      BY <1>0, <3>1, SupersededSpeaks
  <2> QED
    BY <1>0, <1>4, <2>1, ExecuteSpeaks, CancelMessageSpeaks DEF HostReceives
<1>5. CASE Revoke
  BY <1>0, <1>5, RevokeSpeaks
<1>6. CASE Noticed
  <2>1. Supersede(TRUE) /\ ownership' # "current" /\ UNCHANGED <<stage, owner, active, token, toHost>>
    BY <1>6 DEF Noticed, hostVars, view
  <2> QED
    BY <1>0, <2>1, SupersededSpeaks
<1>7. CASE Restart
  BY <1>7, RestartSpeaks
<1>8. ASSUME NEW e \in Executions, Run(e) \/ ReserveCopilot(e)
      PROVE  ShownInv'
  BY <1>0, <1>8, RunSpeaks, ReserveCopilotSpeaks
<1>9. ASSUME NEW e \in Executions, Validate(e) \/ Prepare(e)
      PROVE  ShownInv'
  BY <1>0, <1>9, RefuseSpeaks, AdmissionSpeaks, PublishStartSpeaks, StartCopilotSpeaks, FailCopilotSpeaks,
     RetractSpeaks DEF Validate, Prepare
<1>10. ASSUME NEW e \in Executions, CancelCopilot(e) \/ Conclude(e)
       PROVE  ShownInv'
  BY <1>0, <1>10, CancelCopilotSpeaks, SettleSpeaks, CheckOwnerSpeaks, PostSpeaks, PostTimesOutSpeaks,
     FinishSpeaks DEF Conclude
<1> QED
  BY <1>1, <1>2, <1>3, <1>4, <1>5, <1>6, <1>7, <1>8, <1>9, <1>10 DEF Next

(* Once every message has arrived and every execution has ended, the        *)
(* section shows none as executing, but for one, of the user or of Copilot, *)
(* whose error or cancellation could not be posted.                        *)
THEOREM QuietSectionIsIdle == Spec => []QuietMeansIdle
<1>1. Spec => []BrokerInv
  BY BrokerHolds
<1>2. Spec => []HeldInv
  BY HeldHolds
<1>3. Init => ShownInv
  BY InitSpeaks
<1>4. BrokerInv /\ HeldInv /\ ShownInv /\ [Next]_vars => ShownInv'
  BY ShownStep
<1>5. BrokerInv /\ HeldInv /\ ShownInv => QuietMeansIdle
  BY ShownQuiet
<1> QED
  BY <1>1, <1>2, <1>3, <1>4, <1>5, PTL DEF Spec
=============================================================================
