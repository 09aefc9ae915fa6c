----------------------- MODULE KustoPublicationProofs -----------------------
(***************************************************************************)
(* Theorems about KustoPublication, for every number of runs, of troubled  *)
(* transactions and of events: what the host is told of a publication is   *)
(* true, and it goes on with no run that the user cannot see and stop.     *)
(*                                                                         *)
(* The first follows one publication through both channels: it is staged   *)
(* once, committed once, and what the webview acknowledges is settled when *)
(* it says so.  The second follows the order of the messages to the host.  *)
(***************************************************************************)
EXTENDS KustoPublication, SequenceTheorems, FiniteSetTheorems, TLAPS

-----------------------------------------------------------------------------
(* Queues of messages, as sets and as what occurs in them once. *)

Elements(q) == {q[i] : i \in 1..Len(q)}

IsQueue(q) == q \in Seq(Elements(q))

Once(q, m) == \A i, j \in 1..Len(q) : q[i] = m /\ q[j] = m => i = j

LEMMA QueueOf == ASSUME NEW S, NEW q \in Seq(S) PROVE IsQueue(q)
BY DEF IsQueue, Elements

LEMMA QueueIn ==
    ASSUME NEW q, IsQueue(q), NEW S, Elements(q) \subseteq S
    PROVE  q \in Seq(S)
BY DEF IsQueue

LEMMA EmptyQueue ==
    /\ IsQueue(<<>>) /\ Elements(<<>>) = {}
    /\ \A m : Once(<<>>, m)
<1>1. <<>> \in Seq({}) /\ Len(<<>>) = 0
  OBVIOUS
<1>2. 1..0 = {}
  OBVIOUS
<1>3. Elements(<<>>) = {}
  BY <1>1, <1>2 DEF Elements
<1> QED
  BY <1>1, <1>2, <1>3 DEF IsQueue, Once

LEMMA AppendQueue ==
    ASSUME NEW q, IsQueue(q), NEW x
    PROVE  LET r == Append(q, x) IN
           /\ IsQueue(r) /\ Elements(r) = Elements(q) \cup {x}
           /\ \A m : Once(q, m) /\ (x = m => m \notin Elements(q)) => Once(r, m)
<1> DEFINE S == Elements(q) \cup {x}
           r == Append(q, x)
<1>1. q \in Seq(S) /\ x \in S
  BY QueueIn
<1> HIDE DEF S
<1>2. /\ r \in Seq(S) /\ Len(r) = Len(q) + 1 /\ Len(q) \in Nat
      /\ \A i \in 1..Len(q) : r[i] = q[i]
      /\ r[Len(q) + 1] = x
  BY <1>1
<1> HIDE DEF r
<1>3. IsQueue(r)
  BY <1>2, QueueOf
<1>4. Elements(r) = Elements(q) \cup {x}
  BY <1>2 DEF Elements
<1>5. ASSUME NEW m, Once(q, m), x = m => m \notin Elements(q)
      PROVE  Once(r, m)
  BY <1>2, <1>5 DEF Once, Elements
<1> QED
  BY <1>3, <1>4, <1>5 DEF r

LEMMA ConcatQueue ==
    ASSUME NEW q, IsQueue(q), NEW s, IsQueue(s)
    PROVE  LET r == q \o s IN
           /\ IsQueue(r) /\ Elements(r) = Elements(q) \cup Elements(s)
           /\ \A m : Once(q, m) /\ Once(s, m) /\ ~(m \in Elements(q) /\ m \in Elements(s))
                        => Once(r, m)
<1> DEFINE S == Elements(q) \cup Elements(s)
           r == q \o s
<1>1. q \in Seq(S) /\ s \in Seq(S)
  BY QueueIn
<1> HIDE DEF S
<1>2. /\ r \in Seq(S) /\ Len(r) = Len(q) + Len(s) /\ Len(q) \in Nat /\ Len(s) \in Nat
      /\ \A i \in 1..Len(r) : r[i] = IF i <= Len(q) THEN q[i] ELSE s[i - Len(q)]
  BY <1>1
<1> HIDE DEF r
<1>3. IsQueue(r)
  BY <1>2, QueueOf
<1>4. Elements(r) = Elements(q) \cup Elements(s)
  <2>1. ASSUME NEW i \in 1..Len(s) PROVE i + Len(q) \in 1..Len(r) /\ r[i + Len(q)] = s[i]
    BY <1>2
  <2>2. ASSUME NEW i \in 1..Len(q) PROVE i \in 1..Len(r) /\ r[i] = q[i]
    BY <1>2
  <2>3. ASSUME NEW i \in 1..Len(r), i > Len(q) PROVE i - Len(q) \in 1..Len(s)
    BY <1>2, <2>3
  <2>4. Elements(r) \subseteq Elements(q) \cup Elements(s)
    <3>1. ASSUME NEW i \in 1..Len(r) PROVE r[i] \in Elements(q) \cup Elements(s)
      <4>1. CASE i <= Len(q)
        BY <1>2, <4>1 DEF Elements
      <4>2. CASE i > Len(q)
        BY <1>2, <2>3, <4>2 DEF Elements
      <4> QED
        BY <1>2, <4>1, <4>2
    <3> QED
      BY <3>1 DEF Elements
  <2>5. Elements(q) \subseteq Elements(r)
    BY <2>2 DEF Elements
  <2>6. Elements(s) \subseteq Elements(r)
    BY <2>1 DEF Elements
  <2> QED
    BY <2>4, <2>5, <2>6
<1>5. ASSUME NEW m, Once(q, m), Once(s, m), ~(m \in Elements(q) /\ m \in Elements(s))
      PROVE  Once(r, m)
  <2>1. ASSUME NEW i \in 1..Len(r), NEW j \in 1..Len(r), r[i] = m, r[j] = m
        PROVE  i = j
    BY <1>2, <1>5, <2>1 DEF Once, Elements
  <2> QED
    BY <2>1 DEF Once
<1> QED
  BY <1>3, <1>4, <1>5 DEF r

LEMMA TailQueue ==
    ASSUME NEW q, IsQueue(q), q # <<>>
    PROVE  LET r == Tail(q) IN
           /\ Head(q) \in Elements(q)
           /\ IsQueue(r) /\ Elements(r) \subseteq Elements(q)
           /\ \A m : Once(q, m) => Once(r, m) /\ (Head(q) = m => m \notin Elements(r))
<1> DEFINE S == Elements(q)
           r == Tail(q)
<1>1. q \in Seq(S)
  BY QueueIn
<1>2. /\ r \in Seq(S) /\ Len(r) = Len(q) - 1 /\ Len(q) \in Nat /\ Len(q) > 0
      /\ \A i \in 1..Len(r) : r[i] = q[i + 1] /\ i + 1 \in 1..Len(q)
      /\ Head(q) = q[1]
  BY <1>1
<1> HIDE DEF r
<1>3. IsQueue(r)
  BY <1>2, QueueOf
<1>4. Elements(r) \subseteq Elements(q) /\ Head(q) \in Elements(q)
  BY <1>2 DEF Elements
<1>5. ASSUME NEW m, Once(q, m)
      PROVE  Once(r, m) /\ (Head(q) = m => m \notin Elements(r))
  BY <1>2, <1>5 DEF Once, Elements
<1> QED
  BY <1>3, <1>4, <1>5 DEF r

LEMMA RemoveQueue ==
    ASSUME NEW q, IsQueue(q), NEW k \in 1..Len(q)
    PROVE  LET r == RemoveAt(q, k) IN
           /\ IsQueue(r) /\ Elements(r) \subseteq Elements(q)
           /\ \A m : Once(q, m) => Once(r, m) /\ (q[k] = m => m \notin Elements(r))
<1> DEFINE S == Elements(q)
           r == RemoveAt(q, k)
           From(i) == IF i < k THEN i ELSE i + 1
<1>1. q \in Seq(S) /\ Len(q) \in Nat /\ k \in Nat
  BY QueueIn
<1> HIDE DEF S
<1>2. /\ SubSeq(q, 1, k - 1) \in Seq(S) /\ Len(SubSeq(q, 1, k - 1)) = k - 1
      /\ \A i \in 1..k - 1 : SubSeq(q, 1, k - 1)[i] = q[i]
  BY <1>1
<1>3. /\ SubSeq(q, k + 1, Len(q)) \in Seq(S) /\ Len(SubSeq(q, k + 1, Len(q))) = Len(q) - k
      /\ \A i \in 1..Len(q) - k : SubSeq(q, k + 1, Len(q))[i] = q[i + k]
  BY <1>1
<1>4. /\ r \in Seq(S) /\ Len(r) = Len(q) - 1
      /\ \A i \in 1..Len(r) : r[i] = q[From(i)] /\ From(i) \in 1..Len(q) /\ From(i) # k
  <2> DEFINE a == SubSeq(q, 1, k - 1)
             b == SubSeq(q, k + 1, Len(q))
  <2>1. r = a \o b
    BY DEF RemoveAt
  <2> HIDE DEF a, b, r
  <2>2. /\ a \in Seq(S) /\ Len(a) = k - 1 /\ \A i \in 1..k - 1 : a[i] = q[i]
        /\ b \in Seq(S) /\ Len(b) = Len(q) - k /\ \A i \in 1..Len(q) - k : b[i] = q[i + k]
    BY <1>2, <1>3 DEF a, b
  <2> DEFINE c == a \o b
  <2>6. a \in Seq(S) /\ b \in Seq(S)
    BY <2>2
  <2>5. /\ c \in Seq(S) /\ Len(c) = Len(a) + Len(b)
        /\ \A i \in 1..Len(c) : c[i] = IF i <= Len(a) THEN a[i] ELSE b[i - Len(a)]
    BY <2>6
  <2>3. /\ r \in Seq(S) /\ Len(r) = Len(a) + Len(b)
        /\ \A i \in 1..Len(r) : r[i] = IF i <= Len(a) THEN a[i] ELSE b[i - Len(a)]
    BY <2>1, <2>5
  <2>4. ASSUME NEW i \in 1..Len(r)
        PROVE  r[i] = q[From(i)] /\ From(i) \in 1..Len(q) /\ From(i) # k
    <3>1. CASE i < k
      BY <1>1, <2>2, <2>3, <3>1
    <3>2. CASE i >= k
      <4>1. i - Len(a) \in 1..Len(q) - k /\ i - Len(a) + k = i + 1 /\ ~(i <= Len(a))
        BY <1>1, <2>2, <2>3, <3>2
      <4>2. r[i] = q[i + 1]
        BY <2>2, <2>3, <4>1
      <4> QED
        BY <1>1, <2>2, <2>3, <3>2, <4>2
    <3> QED
      BY <1>1, <3>1, <3>2
  <2> QED
    BY <1>1, <2>2, <2>3, <2>4
<1> HIDE DEF r
<1>5. IsQueue(r)
  BY <1>4, QueueOf
<1>6. Elements(r) \subseteq Elements(q)
  BY <1>4 DEF Elements
<1>7. ASSUME NEW m, Once(q, m)
      PROVE  Once(r, m) /\ (q[k] = m => m \notin Elements(r))
  <2>1. \A i, j \in 1..Len(r) : From(i) = From(j) => i = j
    BY <1>1, <1>4
  <2> HIDE DEF From
  <2> QED
    BY <1>4, <1>7, <2>1 DEF Once, Elements
<1> QED
  BY <1>5, <1>6, <1>7 DEF r

LEMMA SeqOfNone == SetToSeq({}) = <<>>
<1>1. Cardinality({}) = 0
  BY FS_EmptySet
<1>2. <<>> \in [1..0 -> {}] /\ IsInjective(<<>>)
  BY DEF IsInjective
<1>3. ASSUME NEW f \in [1..0 -> {}] PROVE f = <<>>
  <2>1. f \in Seq({}) /\ Len(f) = 0
    OBVIOUS
  <2> QED
    BY <2>1
<1> DEFINE P(f) == f \in [1..0 -> {}] /\ IsInjective(f)
<1>4. SetToSeq({}) = CHOOSE f \in [1..0 -> {}] : IsInjective(f)
  BY <1>1 DEF SetToSeq
<1> QED
  BY <1>2, <1>3, <1>4

LEMMA SeqOfOne == ASSUME NEW x PROVE SetToSeq({x}) = <<x>>
<1>1. Cardinality({x}) = 1
  BY FS_Singleton
<1>2. \A f \in [1..1 -> {x}] : f = <<x>>
  OBVIOUS
<1>3. <<x>> \in [1..1 -> {x}] /\ IsInjective(<<x>>)
  BY DEF IsInjective
<1> QED
  BY <1>1, <1>2, <1>3 DEF SetToSeq
-----------------------------------------------------------------------------
(* What happens to a queue in a step: messages of it are taken out, those  *)
(* of X are put in, none of them twice.                                    *)

Sends(q, r, X) ==
    /\ IsQueue(r) /\ Elements(r) \subseteq Elements(q) \cup X
    /\ \A m : Once(q, m) /\ (m \in X => m \notin Elements(q)) => Once(r, m)

LEMMA SendsNothing == ASSUME NEW q, IsQueue(q) PROVE Sends(q, q, {})
BY DEF Sends

LEMMA SendsOne == ASSUME NEW q, IsQueue(q), NEW x PROVE Sends(q, Append(q, x), {x})
BY AppendQueue DEF Sends

LEMMA ReceivesHead ==
    ASSUME NEW q, IsQueue(q), q # <<>>
    PROVE  Sends(q, Tail(q), {}) /\ Head(q) \in Elements(q)
BY TailQueue DEF Sends

LEMMA SendsThen ==
    ASSUME NEW q, NEW r, NEW s, NEW X, NEW Y, Sends(q, r, X), Sends(r, s, Y), X \cap Y = {}
    PROVE  Sends(q, s, X \cup Y)
BY DEF Sends

LEMMA SendsConcat ==
    ASSUME NEW q, IsQueue(q), NEW s, IsQueue(s), \A m : Once(s, m)
    PROVE  Sends(q, q \o s, Elements(s))
BY ConcatQueue DEF Sends

LEMMA OneMessage ==
    ASSUME NEW x
    PROVE  IsQueue(<<x>>) /\ Elements(<<x>>) = {x} /\ \A m : Once(<<x>>, m)
<1>1. <<x>> \in Seq({x}) /\ Len(<<x>>) = 1 /\ <<x>>[1] = x
  OBVIOUS
<1>2. IsQueue(<<x>>)
  BY <1>1, QueueOf
<1> QED
  BY <1>1, <1>2 DEF Elements, Once

-----------------------------------------------------------------------------
(* The names of publications and messages. *)

LEMMA Names ==
    /\ \A e \in Runs : Terminal(e, 1) \in Publications /\ Terminal(e, 2) \in Publications
    /\ Ready \in Publications /\ ReadyFailed \in Publications /\ Ready # ReadyFailed
    /\ \A e, d : Terminal(e, 1) # Terminal(d, 2)
    /\ \A e, d : Terminal(e, 1) = Terminal(d, 1) \/ Terminal(e, 2) = Terminal(d, 2) => e = d
    /\ \A e : {Terminal(e, 1), Terminal(e, 2)} \cap {Ready, ReadyFailed} = {}
    /\ \A p \in Publications :
          \/ \E e \in Runs : p = Terminal(e, 1) \/ p = Terminal(e, 2)
          \/ p = Ready \/ p = ReadyFailed
    /\ \A p \in Publications : p[1] = "run" => p # Ready
BY DEF Terminal, Ready, ReadyFailed, Publications

LEMMA Messages ==
    /\ \A p, q : StageMsg(p) = StageMsg(q) \/ CommitMsg(p) = CommitMsg(q) => p = q
    /\ \A p, q : RevokeMsg(p) = RevokeMsg(q) => p = q
    /\ \A p, q : /\ StageMsg(p) # CommitMsg(q) /\ StageMsg(p) # RevokeMsg(q)
                 /\ CommitMsg(p) # RevokeMsg(q)
    /\ \A p : /\ StageMsg(p).type = "stage" /\ StageMsg(p).pub = p
              /\ CommitMsg(p).type = "commit" /\ CommitMsg(p).pub = p
              /\ RevokeMsg(p).type = "revoke" /\ RevokeMsg(p).pub = p
    /\ \A e, g, x : StartedMsg(e, g, x).type = "started" /\ StartedMsg(e, g, x).exec = e
    /\ \A p, f, ok : LET a == Ack(p, f, ok) IN
          a.type = "ack" /\ a.pub = p /\ a.phase = f /\ a.ok = ok
    /\ \A e : ExecuteMsg(e).type = "execute" /\ ExecuteMsg(e).exec = e
    /\ \A e, ok : StartedAck(e, ok).type = "startedAck" /\ StartedAck(e, ok).exec = e
    /\ \A e : CancelMsg(e).type = "cancel" /\ CancelMsg(e).exec = e
    /\ \A g : TargetMsg(g).type = "target"
    /\ CancelOptimizeMsg.type = "cancelOptimize"
BY DEF StageMsg, CommitMsg, RevokeMsg, StartedMsg, Ack, ExecuteMsg, StartedAck, CancelMsg,
       TargetMsg, CancelOptimizeMsg

(* At most one publication follows another. *)
LEMMA FollowUpIsOne ==
    ASSUME NEW p \in Publications, NEW o
    PROVE  /\ FollowUp(p, o) \subseteq Publications
           /\ \/ FollowUp(p, o) = {}
              \/ \E e \in Runs : p = Terminal(e, 1) /\ FollowUp(p, o) = {Terminal(e, 2)}
              \/ p = Ready /\ FollowUp(p, o) = {ReadyFailed}
<1>1. CASE o = "applied"
  BY <1>1 DEF FollowUp
<1>2. ASSUME o # "applied", NEW e \in Runs, p = Terminal(e, 1)
      PROVE  FollowUp(p, o) = {Terminal(e, 2)}
  <2>1. p[1] = "run" /\ p[2] = e /\ p[3] = 1 /\ p # Ready
    BY <1>2 DEF Terminal, Ready
  <2>2. Terminal(e, 2) \in Publications
    BY Names
  <2> QED
    BY <1>2, <2>1, <2>2 DEF FollowUp
<1>3. ASSUME o # "applied", NEW e \in Runs, p = Terminal(e, 2)
      PROVE  FollowUp(p, o) = {}
  <2>1. p[3] = 2 /\ p # Ready
    BY <1>3 DEF Terminal, Ready
  <2> QED
    BY <1>3, <2>1 DEF FollowUp
<1>4. ASSUME o # "applied", p = Ready
      PROVE  FollowUp(p, o) \in {{}, {ReadyFailed}}
  <2>1. p[1] # "run"
    BY <1>4 DEF Ready
  <2>2. ReadyFailed \in Publications
    BY Names
  <2> QED
    BY <1>4, <2>1, <2>2 DEF FollowUp
<1>5. ASSUME o # "applied", p = ReadyFailed
      PROVE  FollowUp(p, o) = {}
  <2>1. p[1] # "run" /\ p # Ready
    BY <1>5 DEF Ready, ReadyFailed
  <2> QED
    BY <1>5, <2>1 DEF FollowUp
<1>6. FollowUp(p, o) \subseteq Publications
  BY DEF FollowUp
<1> QED
  BY <1>1, <1>2, <1>3, <1>4, <1>5, <1>6, Names

LEMMA StageOne ==
    /\ StageAll({}) = <<>>
    /\ \A p : StageAll({p}) = <<StageMsg(p)>>
<1>1. StageAll({}) = <<>>
  <2>1. {StageMsg(p) : p \in {}} = {}
    OBVIOUS
  <2> QED
    BY <2>1, SeqOfNone DEF StageAll
<1>2. ASSUME NEW q PROVE StageAll({q}) = <<StageMsg(q)>>
  <2>1. {StageMsg(p) : p \in {q}} = {StageMsg(q)}
    OBVIOUS
  <2> QED
    BY <2>1, SeqOfOne DEF StageAll
<1> QED
  BY <1>1, <1>2

-----------------------------------------------------------------------------
(* The invariant. *)

StartedOf(m) == m.type = "started" /\ m.exec \in Runs

ViewMsg(m) ==
    \/ \E p \in Publications : m \in {StageMsg(p), CommitMsg(p), RevokeMsg(p)}
    \/ StartedOf(m)

HostMsg(m) ==
    \/ m.type = "ack" /\ m.pub \in Publications
    \/ \E e \in Runs : m = ExecuteMsg(e)
    \/ m.type \in {"startedAck", "cancel"} /\ m.exec \in Runs
    \/ m.type \in {"cancelOptimize", "target"}

TypeInv ==
    /\ phase \in [Publications -> Phases] /\ outcome \in [Publications -> Outcomes]
    /\ stage \in [Runs -> Stages] /\ active \in Runs \cup {NoRun}
    /\ IsQueue(toView) /\ IsQueue(toHost)
    /\ \A m \in Elements(toView) : ViewMsg(m)
    /\ \A m \in Elements(toHost) : HostMsg(m)

StageOut(p) == StageMsg(p) \in Elements(toView)
CommitOut(p) == CommitMsg(p) \in Elements(toView)
RevokeOut(p) == RevokeMsg(p) \in Elements(toView)
AcksOf(p) == {m \in Elements(toHost) : m.type = "ack" /\ m.pub = p}

(* The webview has taken the staged message. *)
Taken(p) ==
    \/ p \in staged \cup applied \/ phase[p] \in {"applying", "revoking"} \/ outcome[p] = "refused"
    \/ CommitOut(p) \/ RevokeOut(p) \/ AcksOf(p) # {}

Refusing(p) == outcome[p] = "refused" \/ \E m \in AcksOf(p) : m.phase = "applied" /\ ~m.ok

(* One publication: it is staged once and committed once; a refusal is     *)
(* final, as what is not staged is never staged again.                     *)
PubInv(p) ==
    /\ Once(toView, StageMsg(p)) /\ Once(toView, CommitMsg(p))
    /\ phase[p] # "settled" => outcome[p] = "none"
    /\ phase[p] = "idle" => ~StageOut(p) /\ ~Taken(p)
    /\ Taken(p) => ~StageOut(p)
    /\ phase[p] \in {"idle", "staging"} \/ outcome[p] = "unstaged"
          => ~CommitOut(p) /\ p \notin applied
    /\ p \in applied => p \in completed /\ p \notin staged /\ ~CommitOut(p)
    /\ Refusing(p) => p \notin applied \cup staged

Followed == Publications \ {Ready}

(* Only what took place is acknowledged as applied. *)
TruthInv ==
    /\ completed \subseteq applied
    /\ \A m \in Elements(toHost) :
          m.type = "ack" /\ m.phase = "applied" /\ m.ok => m.pub \in applied
    /\ \A p \in Publications : outcome[p] = "applied" => p \in applied

(* A run ends once, with the one terminal that starts its publications; a  *)
(* follow-up is published after what it follows has settled.               *)
OrderInv ==
    /\ \A e \in Runs : phase[Terminal(e, 1)] # "idle" => stage[e] = "ended"
    /\ \A e \in Runs : phase[Terminal(e, 2)] # "idle" => phase[Terminal(e, 1)] = "settled"
    /\ phase[ReadyFailed] # "idle" => phase[Ready] = "settled"
    /\ active # NoRun => stage[active] \in {"claiming", "dispatching", "running"}
    /\ \A e \in Runs : ExecuteMsg(e) \in Elements(toHost) => stage[e] = "sent"
    /\ \A e \in Runs : Once(toHost, ExecuteMsg(e))

(* Runs are numbered as they begin. *)
Begun == {e \in Runs : stage[e] # "new"}
BegunInv == \A e \in Begun, d \in Runs : d <= e => d \in Begun

PublicationInv ==
    /\ TypeInv /\ TruthInv /\ OrderInv /\ BegunInv
    /\ \A p \in Followed : PubInv(p)
-----------------------------------------------------------------------------
(* Steps that pass a publication by. *)

Passes(p) ==
    /\ phase'[p] = phase[p] /\ outcome'[p] = outcome[p]
    /\ p \in staged' => p \in staged
    /\ p \in applied' <=> p \in applied
    /\ p \in completed => p \in completed'
    /\ StageOut(p)' => StageOut(p)
    /\ CommitOut(p)' => CommitOut(p)
    /\ RevokeOut(p)' => RevokeOut(p)
    /\ Once(toView, StageMsg(p)) => Once(toView', StageMsg(p))
    /\ Once(toView, CommitMsg(p)) => Once(toView', CommitMsg(p))
    /\ AcksOf(p)' \subseteq AcksOf(p)

LEMMA PassesKeeps ==
    ASSUME NEW p, PubInv(p), Passes(p)
    PROVE  PubInv(p)'
<1>1. Taken(p)' => Taken(p)
  BY DEF Passes, Taken
<1>2. Refusing(p)' => Refusing(p)
  BY DEF Passes, Refusing
<1> QED
  BY <1>1, <1>2 DEF Passes, PubInv

NoMessageOf(p, X, Y) ==
    /\ \A m \in X : m \notin {StageMsg(p), CommitMsg(p), RevokeMsg(p)}
    /\ \A m \in Y : ~(m.type = "ack" /\ m.pub = p)

LEMMA PassesIf ==
    ASSUME NEW p, NEW X, NEW Y, Sends(toView, toView', X), Sends(toHost, toHost', Y),
           NoMessageOf(p, X, Y),
           phase'[p] = phase[p], outcome'[p] = outcome[p], p \in staged' => p \in staged,
           p \in applied' <=> p \in applied, p \in completed => p \in completed'
    PROVE  Passes(p)
<1>1. /\ StageOut(p)' => StageOut(p)
      /\ CommitOut(p)' => CommitOut(p)
      /\ RevokeOut(p)' => RevokeOut(p)
  BY DEF Sends, NoMessageOf, StageOut, CommitOut, RevokeOut
<1>2. /\ Once(toView, StageMsg(p)) => Once(toView', StageMsg(p))
      /\ Once(toView, CommitMsg(p)) => Once(toView', CommitMsg(p))
  BY DEF Sends, NoMessageOf
<1>3. AcksOf(p)' \subseteq AcksOf(p)
  BY DEF Sends, NoMessageOf, AcksOf
<1> QED
  BY <1>1, <1>2, <1>3 DEF Passes

LEMMA ChannelsKeep ==
    ASSUME TypeInv, NEW X, NEW Y, Sends(toView, toView', X), Sends(toHost, toHost', Y),
           \A m \in X : ViewMsg(m), \A m \in Y : HostMsg(m)
    PROVE  /\ IsQueue(toView') /\ IsQueue(toHost')
           /\ \A m \in Elements(toView') : ViewMsg(m)
           /\ \A m \in Elements(toHost') : HostMsg(m)
BY DEF TypeInv, Sends

LEMMA TruthKeeps ==
    ASSUME TruthInv, NEW P, applied' = applied \cup P, completed' = completed \cup P,
           NEW Y, Sends(toHost, toHost', Y),
           \A m \in Y : m.type = "ack" /\ m.phase = "applied" /\ m.ok => m.pub \in applied',
           \A p \in Publications :
              outcome'[p] = "applied" => outcome[p] = "applied" \/ p \in applied'
    PROVE  TruthInv'
BY DEF TruthInv, Sends

LEMMA TruthStays ==
    ASSUME TruthInv, UNCHANGED <<applied, completed, outcome>>,
           NEW Y, Sends(toHost, toHost', Y), \A m \in Y : m.type = "ack" => m.phase = "staged"
    PROVE  TruthInv'
BY DEF TruthInv, Sends

(* No run begins, goes on or ends, and none is asked for. *)
LEMMA OrderKeeps ==
    ASSUME OrderInv, UNCHANGED <<stage, active>>,
           \A e \in Runs : phase'[Terminal(e, 1)] = "idle" \/ stage[e] = "ended",
           \A e \in Runs : phase'[Terminal(e, 2)] # "idle" => phase'[Terminal(e, 1)] = "settled",
           phase'[ReadyFailed] # "idle" => phase'[Ready] = "settled",
           NEW Y, Sends(toHost, toHost', Y), \A m \in Y : m.type # "execute"
    PROVE  OrderInv'
<1>1. \A e \in Runs : ExecuteMsg(e) \notin Y
  BY Messages
<1> QED
  BY <1>1 DEF OrderInv, Sends

-----------------------------------------------------------------------------
(* Runs. *)

LEMMA RunsFinite ==
    /\ MaxRuns \in Nat /\ Begun \subseteq Runs
    /\ IsFiniteSet(Begun) /\ Cardinality(Begun) \in Nat
<1>1. MaxRuns \in Nat
  BY BoundsAssumption
<1>2. IsFiniteSet(1..MaxRuns)
  BY <1>1, FS_Interval
<1>3. Begun \subseteq 1..MaxRuns
  BY DEF Begun, Runs
<1>4. IsFiniteSet(Begun)
  BY <1>2, <1>3, FS_Subset
<1> QED
  BY <1>1, <1>3, <1>4, FS_CardinalityType DEF Runs

(* The next run has not begun, and all before it have. *)
LEMMA NextRunIsNew ==
    ASSUME BegunInv, NextRun \in Runs
    PROVE  /\ stage[NextRun] = "new"
           /\ \A d \in Runs : d < NextRun => d \in Begun
<1> DEFINE k == Cardinality(Begun)
<1>1. NextRun = k + 1 /\ k \in Nat /\ MaxRuns \in Nat
  BY RunsFinite DEF NextRun, Begun
<1>2. NextRun \notin Begun
  <2>1. SUFFICES ASSUME NextRun \in Begun PROVE FALSE
    OBVIOUS
  <2>2. 1..k + 1 \subseteq Begun
    BY <1>1, <2>1 DEF BegunInv, Runs
  <2>3. Cardinality(1..k + 1) = k + 1
    BY <1>1, FS_Interval
  <2>4. k + 1 <= k
    BY <2>2, <2>3, RunsFinite, FS_Subset
  <2> QED
    BY <1>1, <2>4
<1>3. ASSUME NEW d \in Runs, d < NextRun PROVE d \in Begun
  <2>1. SUFFICES ASSUME d \notin Begun PROVE FALSE
    OBVIOUS
  <2>2. d \in Nat /\ d >= 1
    BY DEF Runs
  <2>3. Begun \subseteq 1..d - 1
    BY <1>1, <2>1, <2>2, RunsFinite DEF BegunInv, Runs
  <2>4. Cardinality(1..d - 1) = d - 1 /\ IsFiniteSet(1..d - 1)
    BY <2>2, FS_Interval
  <2>5. k <= d - 1
    BY <2>3, <2>4, FS_Subset
  <2> QED
    BY <1>1, <1>3, <2>2, <2>5
<1> QED
  BY <1>2, <1>3 DEF Begun

LEMMA BegunKeeps ==
    ASSUME BegunInv, \A e \in Runs : stage[e] # "new" => stage'[e] # "new",
           \A e \in Runs : stage[e] = "new" /\ stage'[e] # "new" => e = NextRun
    PROVE  BegunInv'
<1>1. CASE Begun' = Begun
  BY <1>1 DEF BegunInv
<1>2. CASE Begun' # Begun
  <2>1. NextRun \in Runs /\ Begun' = Begun \cup {NextRun}
    BY <1>2 DEF Begun
  <2>2. \A d \in Runs : d < NextRun => d \in Begun
    BY <2>1, NextRunIsNew
  <2>3. \A d \in Runs : d <= NextRun => d < NextRun \/ d = NextRun
    BY <2>1, BoundsAssumption DEF Runs
  <2> QED
    BY <2>1, <2>2, <2>3 DEF BegunInv
<1> QED
  BY <1>1, <1>2

QuietTypes == {"startedAck", "cancel", "cancelOptimize", "target", "execute"}

(* Runs begin, go on and end: the terminals of those of D are staged. *)
LEMMA RunsKeep ==
    ASSUME PublicationInv, NEW D \in SUBSET Runs, \A d \in D : stage[d] # "ended",
           phase' = [q \in Publications |->
                        IF \E d \in D : q = Terminal(d, 1) THEN "staging" ELSE phase[q]],
           UNCHANGED <<outcome, applied, completed>>,
           \A p \in Followed : p \in staged' => p \in staged,
           NEW X, Sends(toView, toView', X),
           \A m \in X : StartedOf(m) \/ \E d \in D : m = StageMsg(Terminal(d, 1)),
           NEW Y, Sends(toHost, toHost', Y),
           \A m \in Y : HostMsg(m) /\ m.type \in QuietTypes,
           stage' \in [Runs -> Stages], active' \in Runs \cup {NoRun},
           active' # NoRun => stage'[active'] \in {"claiming", "dispatching", "running"},
           \A e \in Runs : stage[e] = "ended" \/ e \in D => stage'[e] = "ended",
           \A e \in Runs : ExecuteMsg(e) \in Elements(toHost') => stage'[e] = "sent",
           \A e \in Runs : Once(toHost', ExecuteMsg(e)),
           BegunInv'
    PROVE  PublicationInv'
<1> USE DEF PublicationInv
<1>1. \A d \in D : phase[Terminal(d, 1)] = "idle"
  BY DEF OrderInv
<1>2. TypeInv'
  <2>1. phase' \in [Publications -> Phases]
    BY DEF TypeInv, Phases
  <2>2. \A m \in X : ViewMsg(m)
    BY Names DEF ViewMsg
  <2> QED
    BY <2>1, <2>2, ChannelsKeep DEF TypeInv
<1>3. TruthInv'
  <2>1. applied' = applied \cup {} /\ completed' = completed \cup {}
    OBVIOUS
  <2>2. \A m \in Y : m.type # "ack"
    BY DEF QuietTypes
  <2>3. \A p \in Publications : outcome'[p] = "applied" => outcome[p] = "applied"
    OBVIOUS
  <2> QED
    BY <2>1, <2>2, <2>3, TruthKeeps
<1>4. OrderInv'
  <2>1. \A e \in Runs : phase'[Terminal(e, 1)] # "idle" => stage'[e] = "ended"
    BY Names DEF OrderInv
  <2>2. \A e \in Runs : phase'[Terminal(e, 2)] # "idle" => phase'[Terminal(e, 1)] = "settled"
    <3>1. ASSUME NEW e \in Runs, phase'[Terminal(e, 2)] # "idle"
          PROVE  phase'[Terminal(e, 1)] = "settled"
      <4>1. phase[Terminal(e, 2)] # "idle"
        BY <3>1, Names
      <4>2. phase[Terminal(e, 1)] = "settled" /\ e \notin D
        BY <1>1, <4>1 DEF OrderInv
      <4> QED
        BY <4>2, Names
    <3> QED
      BY <3>1
  <2>3. phase'[ReadyFailed] # "idle" => phase'[Ready] = "settled"
    BY Names DEF OrderInv
  <2> QED
    BY <2>1, <2>2, <2>3 DEF OrderInv
<1>5. ASSUME NEW p \in Followed PROVE PubInv(p)'
  <2>1. CASE \A d \in D : p # Terminal(d, 1)
    <3>1. NoMessageOf(p, X, Y)
      BY <2>1, Messages DEF NoMessageOf, QuietTypes, StartedOf
    <3>2. phase'[p] = phase[p]
      BY <2>1 DEF Followed
    <3> QED
      BY <3>1, <3>2, PassesIf, PassesKeeps
  <2>2. ASSUME NEW d \in D, p = Terminal(d, 1) PROVE PubInv(p)'
    <3>1. phase[p] = "idle" /\ phase'[p] = "staging" /\ PubInv(p)
      BY <1>1, <2>2 DEF Followed
    <3>2. CommitMsg(p) \notin X /\ RevokeMsg(p) \notin X /\ \A m \in Y : m.type # "ack"
      BY Messages DEF QuietTypes, StartedOf
    <3>3. ~StageOut(p) /\ ~Taken(p) /\ outcome[p] = "none"
      BY <3>1 DEF PubInv
    <3>4. ~Taken(p)' /\ AcksOf(p)' = {} /\ ~CommitOut(p)' /\ p \notin applied'
      BY <3>1, <3>2, <3>3 DEF Taken, CommitOut, RevokeOut, AcksOf, Sends
    <3>5. Once(toView', StageMsg(p)) /\ Once(toView', CommitMsg(p))
      BY <3>1, <3>2, <3>3 DEF PubInv, StageOut, Sends
    <3> QED
      BY <3>1, <3>3, <3>4, <3>5 DEF PubInv, Refusing
  <2> QED
    BY <2>1, <2>2
<1> QED
  BY <1>2, <1>3, <1>4, <1>5

(* Nothing happens to a publication or to a run. *)
LEMMA QuietKeeps ==
    ASSUME PublicationInv, UNCHANGED <<phase, outcome, stage, active, applied, completed>>,
           \A p \in Followed : p \in staged' => p \in staged,
           NEW X, Sends(toView, toView', X), \A m \in X : StartedOf(m),
           NEW Y, Sends(toHost, toHost', Y),
           \A m \in Y : HostMsg(m) /\ m.type \in QuietTypes \ {"execute"}
    PROVE  PublicationInv'
<1> USE DEF PublicationInv
<1>1. phase' = [q \in Publications |->
                   IF \E d \in {} : q = Terminal(d, 1) THEN "staging" ELSE phase[q]]
  BY DEF TypeInv
<1>2. /\ \A e \in Runs : ExecuteMsg(e) \in Elements(toHost') => stage'[e] = "sent"
      /\ \A e \in Runs : Once(toHost', ExecuteMsg(e))
  <2>1. \A e \in Runs : ExecuteMsg(e) \notin Y
    BY Messages
  <2> QED
    BY <2>1 DEF OrderInv, Sends
<1>3. \A m \in Y : HostMsg(m)
  OBVIOUS
<1>4. BegunInv'
  BY DEF BegunInv, Begun
<1>5. stage' \in [Runs -> Stages] /\ active' \in Runs \cup {NoRun}
  BY DEF TypeInv
<1>6. active' # NoRun => stage'[active'] \in {"claiming", "dispatching", "running"}
  BY DEF OrderInv
<1>7. \A m \in X : StartedOf(m) \/ \E d \in {} : m = StageMsg(Terminal(d, 1))
  OBVIOUS
<1>8. \A e \in Runs : stage[e] = "ended" \/ e \in {} => stage'[e] = "ended"
  OBVIOUS
<1>9. {} \in SUBSET Runs /\ \A d \in {} : stage[d] # "ended"
  OBVIOUS
<1>10. \A m \in Y : HostMsg(m) /\ m.type \in QuietTypes
  BY <1>3
<1>11. PublicationInv
  OBVIOUS
<1> HIDE DEF PublicationInv
<1> QED
  BY <1>1, <1>2, <1>4, <1>5, <1>6, <1>7, <1>8, <1>9, <1>10, <1>11, RunsKeep
-----------------------------------------------------------------------------
(* The host's side of a publication. *)

LEMMA SettleKeeps ==
    ASSUME PublicationInv, NEW p \in Publications, NEW o \in Outcomes, NEW sent,
           phase[p] \in {"staging", "applying", "revoking"},
           Settle(p, o, sent), Sends(toView, sent, {}), Sends(toHost, toHost', {}),
           UNCHANGED <<staged, completed, applied>>,
           o = "applied" => p \in applied,
           o = "refused" => \E m \in AcksOf(p) : m.phase = "applied" /\ ~m.ok,
           o = "unstaged" => phase[p] = "staging"
    PROVE  PublicationInv'
<1> USE DEF PublicationInv
<1> DEFINE next == FollowUp(p, o)
           X == {StageMsg(q) : q \in next}
<1>1. phase' = [q \in Publications |-> IF q = p THEN "settled"
                                       ELSE IF q \in next THEN "staging" ELSE phase[q]]
  BY DEF Settle, TypeInv
<1>2. /\ outcome' = [outcome EXCEPT ![p] = o] /\ toView' = sent \o StageAll(next)
      /\ UNCHANGED <<stage, active>>
  BY DEF Settle
<1>3. \/ next = {}
      \/ \E e \in Runs : p = Terminal(e, 1) /\ next = {Terminal(e, 2)}
      \/ p = Ready /\ next = {ReadyFailed}
  BY FollowUpIsOne
<1>4. next \subseteq Publications
  BY FollowUpIsOne
<1> HIDE DEF next
<1>5. IsQueue(StageAll(next)) /\ Elements(StageAll(next)) = X /\ \A m : Once(StageAll(next), m)
  <2>1. CASE next = {}
    BY <2>1, StageOne, EmptyQueue
  <2>2. ASSUME NEW q, next = {q}
        PROVE  IsQueue(StageAll(next)) /\ Elements(StageAll(next)) = X /\ \A m : Once(StageAll(next), m)
    <3>1. X = {StageMsg(q)} /\ StageAll(next) = <<StageMsg(q)>>
      BY <2>2, StageOne
    <3> QED
      BY <3>1, OneMessage
  <2>3. next = {} \/ \E q : next = {q}
    BY <1>3
  <2> QED
    BY <2>1, <2>2, <2>3
<1> HIDE DEF X
<1>6. Sends(toView, toView', X)
  <2>1. IsQueue(sent)
    BY DEF Sends
  <2>2. Sends(sent, toView', X)
    BY <1>2, <1>5, <2>1, SendsConcat
  <2>3. {} \cup X = X /\ {} \cap X = {}
    OBVIOUS
  <2>4. Sends(toView, toView', {} \cup X)
    BY <2>2, <2>3, SendsThen
  <2> QED
    BY <2>3, <2>4
<1>7. \A q \in next : phase[q] = "idle" /\ q # p /\ q # Ready
  <2>1. ASSUME NEW e \in Runs, p = Terminal(e, 1)
        PROVE  phase[Terminal(e, 2)] = "idle" /\ Terminal(e, 2) # p /\ Terminal(e, 2) # Ready
    BY <2>1, Names DEF OrderInv
  <2>2. p = Ready => phase[ReadyFailed] = "idle" /\ ReadyFailed # p /\ ReadyFailed # Ready
    BY Names DEF OrderInv
  <2> QED
    BY <1>3, <2>1, <2>2
<1>8. \A m \in X : \E q \in next : m = StageMsg(q)
  BY DEF X
<1>9. TypeInv'
  <2>1. phase' \in [Publications -> Phases] /\ outcome' \in [Publications -> Outcomes]
    BY <1>1, <1>2 DEF TypeInv, Phases
  <2>2. \A m \in X : ViewMsg(m)
    BY <1>4, <1>8 DEF ViewMsg
  <2> QED
    BY <1>2, <1>6, <2>1, <2>2, ChannelsKeep DEF TypeInv
<1>10. TruthInv'
  <2>1. applied' = applied \cup {} /\ completed' = completed \cup {}
    OBVIOUS
  <2>2. \A q \in Publications : outcome'[q] = "applied" => outcome[q] = "applied" \/ q \in applied'
    BY <1>2 DEF TypeInv
  <2> QED
    BY <2>1, <2>2, TruthKeeps
<1>11. OrderInv'
  <2>0. ASSUME NEW e \in Runs
        PROVE  /\ Terminal(e, 1) \notin next
               /\ Terminal(e, 2) \in next => p = Terminal(e, 1)
    <3>1. ASSUME NEW d \in Runs, p = Terminal(d, 1), next = {Terminal(d, 2)}
          PROVE  /\ Terminal(e, 1) \notin next
                 /\ Terminal(e, 2) \in next => p = Terminal(e, 1)
      BY <3>1, Names
    <3>2. CASE next = {ReadyFailed}
      BY <3>2, Names
    <3> QED
      BY <1>3, <3>1, <3>2
  <2>1. ASSUME NEW e \in Runs PROVE phase'[Terminal(e, 1)] = "idle" \/ stage[e] = "ended"
    <3>1. phase[Terminal(e, 1)] # "idle" => stage[e] = "ended"
      BY DEF OrderInv
    <3> QED
      BY <1>1, <2>0, <3>1, Names
  <2>2. \A e \in Runs : phase'[Terminal(e, 2)] # "idle" => phase'[Terminal(e, 1)] = "settled"
    <3>1. ASSUME NEW e \in Runs, phase'[Terminal(e, 2)] # "idle"
          PROVE  phase'[Terminal(e, 1)] = "settled"
      <4>1. CASE Terminal(e, 2) \in next
        <5>1. p = Terminal(e, 1)
          BY <2>0, <4>1
        <5> QED
          BY <1>1, <5>1
      <4>2. CASE Terminal(e, 2) \notin next
        <5>1. phase[Terminal(e, 2)] # "idle"
          BY <1>1, <3>1, <4>2, Names
        <5>2. phase[Terminal(e, 1)] = "settled"
          BY <5>1 DEF OrderInv
        <5> QED
          BY <1>1, <1>7, <5>2, Names
      <4> QED
        BY <4>1, <4>2
    <3> QED
      BY <3>1
  <2>3. phase'[ReadyFailed] # "idle" => phase'[Ready] = "settled"
    <3>1. CASE ReadyFailed \in next
      BY <1>1, <1>3, <3>1, Names
    <3>2. CASE ReadyFailed \notin next
      BY <1>1, <1>7, <3>2, Names DEF OrderInv
    <3> QED
      BY <3>1, <3>2
  <2> QED
    BY <1>2, <2>1, <2>2, <2>3, OrderKeeps
<1>12. BegunInv'
  BY <1>2 DEF BegunInv, Begun
<1>13. ASSUME NEW q \in Followed PROVE PubInv(q)'
  <2>0. q \in Publications /\ PubInv(q)
    BY DEF Followed
  <2>1. CASE q # p /\ q \notin next
    <3>1. NoMessageOf(q, X, {})
      BY <1>8, <2>1, Messages DEF NoMessageOf
    <3>2. phase'[q] = phase[q] /\ outcome'[q] = outcome[q]
      BY <1>1, <1>2, <2>0, <2>1 DEF TypeInv
    <3> QED
      BY <1>6, <2>0, <3>1, <3>2, PassesIf, PassesKeeps
  <2>2. CASE q \in next
    <3>1. phase[q] = "idle" /\ phase'[q] = "staging" /\ outcome'[q] = outcome[q]
      BY <1>1, <1>2, <1>7, <2>0, <2>2 DEF TypeInv
    <3>2. CommitMsg(q) \notin X /\ RevokeMsg(q) \notin X
      BY <1>8, Messages
    <3>3. ~StageOut(q) /\ ~Taken(q) /\ outcome[q] = "none"
      BY <2>0, <3>1 DEF PubInv
    <3>4. ~Taken(q)' /\ AcksOf(q)' = {} /\ ~CommitOut(q)' /\ q \notin applied'
      BY <1>6, <3>1, <3>2, <3>3 DEF Taken, CommitOut, RevokeOut, AcksOf, Sends
    <3>5. Once(toView', StageMsg(q)) /\ Once(toView', CommitMsg(q))
      BY <1>6, <2>0, <3>2, <3>3 DEF PubInv, StageOut, Sends
    <3> QED
      BY <3>1, <3>3, <3>4, <3>5 DEF PubInv, Refusing
  <2>3. CASE q = p
    <3>1. phase'[p] = "settled" /\ outcome'[p] = o /\ outcome[p] = "none"
      BY <1>1, <1>2, <2>0, <2>3 DEF TypeInv, PubInv
    <3>2. StageMsg(p) \notin X /\ CommitMsg(p) \notin X /\ RevokeMsg(p) \notin X
      BY <1>7, <1>8, Messages
    <3>3. /\ StageOut(p)' => StageOut(p)
          /\ CommitOut(p)' => CommitOut(p)
          /\ RevokeOut(p)' => RevokeOut(p)
          /\ AcksOf(p)' \subseteq AcksOf(p)
          /\ Once(toView', StageMsg(p)) /\ Once(toView', CommitMsg(p))
      BY <1>6, <2>0, <2>3, <3>2 DEF Sends, StageOut, CommitOut, RevokeOut, AcksOf, PubInv
    <3>4. Taken(p)' => Taken(p)
      BY <3>1, <3>3 DEF Taken
    <3>5. Refusing(p)' => Refusing(p)
      BY <3>1, <3>3 DEF Refusing
    <3> QED
      BY <2>0, <2>3, <3>1, <3>3, <3>4, <3>5 DEF PubInv
  <2> QED
    BY <2>1, <2>2, <2>3
<1> QED
  BY <1>9, <1>10, <1>11, <1>12, <1>13

(* The staged publication is committed, or the committed one revoked.      *)
LEMMA GoesOn ==
    ASSUME PublicationInv, NEW p \in Publications, NEW m,
           \/ phase[p] = "staging" /\ AcksOf(p) # {} /\ m = CommitMsg(p)
              /\ phase' = [phase EXCEPT ![p] = "applying"]
           \/ phase[p] = "applying" /\ m = RevokeMsg(p)
              /\ phase' = [phase EXCEPT ![p] = "revoking"],
           toView' = Append(toView, m), Sends(toHost, toHost', {}),
           UNCHANGED <<outcome, stage, active, staged, completed, applied>>
    PROVE  PublicationInv'
<1> USE DEF PublicationInv
<1>1. Sends(toView, toView', {m})
  BY SendsOne DEF TypeInv
<1>2. TypeInv'
  <2>1. phase' \in [Publications -> Phases]
    BY DEF TypeInv, Phases
  <2>2. ViewMsg(m)
    BY DEF ViewMsg
  <2> QED
    BY <1>1, <2>1, <2>2, ChannelsKeep DEF TypeInv
<1>3. TruthInv'
  <2>1. \A x \in {} : x.type = "ack" => x.phase = "staged"
    OBVIOUS
  <2> QED
    BY <2>1, TruthStays
<1>4. phase[p] # "idle" /\ phase[p] # "settled" /\ phase'[p] # "idle"
      /\ \A q \in Publications \ {p} : phase'[q] = phase[q]
  BY DEF TypeInv
<1>5. OrderInv'
  <2>1. \A e \in Runs : phase'[Terminal(e, 1)] = "idle" \/ stage[e] = "ended"
    BY <1>4, Names DEF OrderInv
  <2>2. \A e \in Runs : phase'[Terminal(e, 2)] # "idle" => phase'[Terminal(e, 1)] = "settled"
    BY <1>4, Names DEF OrderInv
  <2>3. phase'[ReadyFailed] # "idle" => phase'[Ready] = "settled"
    BY <1>4, Names DEF OrderInv
  <2> QED
    BY <2>1, <2>2, <2>3, OrderKeeps
<1>6. BegunInv'
  BY DEF BegunInv, Begun
<1>7. ASSUME NEW q \in Followed PROVE PubInv(q)'
  <2>0. q \in Publications /\ PubInv(q)
    BY DEF Followed
  <2>1. CASE q # p
    <3>1. NoMessageOf(q, {m}, {})
      BY <2>1, Messages DEF NoMessageOf
    <3> QED
      BY <1>1, <1>4, <2>0, <2>1, <3>1, PassesIf, PassesKeeps
  <2>2. CASE q = p
    <3>1. Taken(p) /\ phase'[p] \in {"applying", "revoking"} /\ outcome[p] = "none"
      BY <2>0, <2>2 DEF Taken, TypeInv, PubInv
    <3>2. ~StageOut(p)' /\ Once(toView', StageMsg(p))
      BY <1>1, <2>0, <2>2, <3>1, Messages DEF PubInv, StageOut, Sends
    <3>3. AcksOf(p)' \subseteq AcksOf(p)
      BY DEF AcksOf, Sends
    <3>4. Refusing(p)' => Refusing(p)
      BY <3>3 DEF Refusing
    <3>5. Once(toView', CommitMsg(p))
      <4>1. CASE phase[p] = "staging"
        <5>1. ~CommitOut(p)
          BY <2>0, <2>2, <4>1 DEF PubInv
        <5> QED
          BY <1>1, <2>0, <2>2, <5>1 DEF PubInv, CommitOut, Sends
      <4>2. CASE phase[p] # "staging"
        BY <1>1, <2>0, <2>2, <4>2, Messages DEF PubInv, Sends
      <4> QED
        BY <4>1, <4>2
    <3>6. p \in applied => ~CommitOut(p)'
      <4>1. CASE phase[p] = "staging"
        BY <2>0, <2>2, <4>1 DEF PubInv
      <4>2. CASE phase[p] # "staging"
        BY <1>1, <2>0, <2>2, <4>2, Messages DEF PubInv, CommitOut, Sends
      <4> QED
        BY <4>1, <4>2
    <3> QED
      BY <2>0, <2>2, <3>1, <3>2, <3>4, <3>5, <3>6 DEF PubInv
  <2> QED
    BY <2>1, <2>2
<1> QED
  BY <1>2, <1>3, <1>5, <1>6, <1>7

(* The ready message is published. *)
LEMMA PublishReadyKeeps ==
    ASSUME PublicationInv, PublishReady
    PROVE  PublicationInv'
<1> USE DEF PublicationInv
<1>1. /\ phase[Ready] = "idle" /\ phase' = [phase EXCEPT ![Ready] = "staging"]
      /\ toView' = Append(toView, StageMsg(Ready))
      /\ UNCHANGED <<outcome, stage, active, staged, completed, applied, toHost>>
  BY DEF PublishReady, viewVars
<1>2. Sends(toView, toView', {StageMsg(Ready)}) /\ Sends(toHost, toHost', {})
  BY <1>1, SendsOne, SendsNothing DEF TypeInv
<1>3. TypeInv'
  <2>1. phase' \in [Publications -> Phases]
    BY <1>1 DEF TypeInv, Phases
  <2>2. ViewMsg(StageMsg(Ready))
    BY Names DEF ViewMsg
  <2> QED
    BY <1>1, <1>2, <2>1, <2>2, ChannelsKeep DEF TypeInv
<1>4. TruthInv'
  <2>1. UNCHANGED <<applied, completed, outcome>> /\ Sends(toHost, toHost', {})
    BY <1>1, <1>2
  <2>2. TruthInv /\ \A m \in {} : m.type = "ack" => m.phase = "staged"
    OBVIOUS
  <2> QED
    BY <2>1, <2>2 DEF TruthInv, Sends
<1>5. \A q \in Publications \ {Ready} : phase'[q] = phase[q]
  BY <1>1 DEF TypeInv
<1>6. OrderInv'
  <2>1. \A e \in Runs : /\ phase'[Terminal(e, 1)] = phase[Terminal(e, 1)]
                       /\ phase'[Terminal(e, 2)] = phase[Terminal(e, 2)]
    BY <1>5, Names
  <2>2. OrderInv
    OBVIOUS
  <2> HIDE DEF PublicationInv
  <2>3. \A e \in Runs : phase'[Terminal(e, 1)] = "idle" \/ stage[e] = "ended"
    BY <2>1, <2>2 DEF OrderInv
  <2>4. \A e \in Runs : phase'[Terminal(e, 2)] # "idle" => phase'[Terminal(e, 1)] = "settled"
    BY <2>1, <2>2 DEF OrderInv
  <2>5. phase'[ReadyFailed] # "idle" => phase'[Ready] = "settled"
    BY <1>1, <1>5, <2>2, Names DEF OrderInv
  <2> QED
    BY <1>1, <1>2, <2>2, <2>3, <2>4, <2>5, OrderKeeps
<1>7. BegunInv'
  BY <1>1 DEF BegunInv, Begun
<1>8. ASSUME NEW q \in Followed PROVE PubInv(q)'
  <2>1. q \in Publications /\ q # Ready /\ PubInv(q)
    BY DEF Followed
  <2>2. NoMessageOf(q, {StageMsg(Ready)}, {})
    BY <2>1, Messages DEF NoMessageOf
  <2> QED
    BY <1>1, <1>2, <1>5, <2>1, <2>2, PassesIf, PassesKeeps
<1> QED
  BY <1>3, <1>4, <1>6, <1>7, <1>8
-----------------------------------------------------------------------------
(* The webview's side of a publication. *)

LEMMA TwoMessages ==
    ASSUME NEW x, NEW y, x # y
    PROVE  LET s == Append(<<x>>, y) IN
           IsQueue(s) /\ Elements(s) = {x, y} /\ \A m : Once(s, m)
<1>1. IsQueue(<<x>>) /\ Elements(<<x>>) = {x} /\ \A m : Once(<<x>>, m)
  BY OneMessage
<1> QED
  BY <1>1, AppendQueue

(* A message that was at the head of the channel, and once in it, is gone. *)
LEMMA TakesOne ==
    ASSUME NEW m, IsQueue(toView), toView # <<>>, Head(toView) = m, toView' = Tail(toView)
    PROVE  /\ Sends(toView, toView', {}) /\ m \in Elements(toView)
           /\ Once(toView, m) => m \notin Elements(toView')
BY TailQueue DEF Sends

LEMMA SendsLast == ASSUME NEW q, IsQueue(q), NEW x PROVE Sends(q, q \o <<x>>, {x})
<1>1. IsQueue(<<x>>) /\ Elements(<<x>>) = {x} /\ \A m : Once(<<x>>, m)
  BY OneMessage
<1>2. Sends(q, q \o <<x>>, Elements(<<x>>))
  BY <1>1, SendsConcat
<1> QED
  BY <1>1, <1>2

LEMMA StageKeeps ==
    ASSUME PublicationInv, NEW p \in Publications,
           toView # <<>>, Head(toView) = StageMsg(p), toView' = Tail(toView), OnStage(p),
           UNCHANGED <<phase, outcome, stage, active>>
    PROVE  PublicationInv'
<1> USE DEF PublicationInv
<1> DEFINE a == Ack(p, "staged", p \notin late)
<1>1. /\ toHost' = Append(toHost, a) /\ UNCHANGED <<completed, applied>>
      /\ \A q : q \in staged' => q \in staged \/ q = p
  BY DEF OnStage
<1>2. a.type = "ack" /\ a.pub = p /\ a.phase = "staged"
  BY Messages
<1> HIDE DEF a
<1>3. Sends(toHost, toHost', {a})
  BY <1>1, SendsOne DEF TypeInv
<1>4. /\ Sends(toView, toView', {}) /\ StageOut(p)
      /\ Once(toView, StageMsg(p)) => ~StageOut(p)'
  BY TakesOne DEF TypeInv, StageOut
<1>5. TypeInv'
  <2>1. \A m \in {} : ViewMsg(m)
    OBVIOUS
  <2>2. HostMsg(a)
    BY <1>2 DEF HostMsg
  <2> QED
    BY <1>3, <1>4, <2>1, <2>2, ChannelsKeep DEF TypeInv
<1>6. TruthInv'
  <2>1. \A m \in {a} : m.type = "ack" => m.phase = "staged"
    BY <1>2
  <2> QED
    BY <1>1, <1>3, <2>1, TruthStays
<1>7. OrderInv'
  <2>1. \A e \in Runs : phase'[Terminal(e, 1)] = "idle" \/ stage[e] = "ended"
    BY DEF OrderInv
  <2>2. \A e \in Runs : phase'[Terminal(e, 2)] # "idle" => phase'[Terminal(e, 1)] = "settled"
    BY DEF OrderInv
  <2>3. phase'[ReadyFailed] # "idle" => phase'[Ready] = "settled"
    BY DEF OrderInv
  <2> QED
    BY <1>2, <1>3, <2>1, <2>2, <2>3, OrderKeeps
<1>8. BegunInv'
  BY DEF BegunInv, Begun
<1>9. ASSUME NEW q \in Followed PROVE PubInv(q)'
  <2>0. q \in Publications /\ PubInv(q)
    BY DEF Followed
  <2>1. CASE q # p
    <3>1. NoMessageOf(q, {}, {a})
      BY <1>2, <2>1 DEF NoMessageOf
    <3> QED
      BY <1>1, <1>3, <1>4, <2>0, <2>1, <3>1, PassesIf, PassesKeeps
  <2>2. CASE q = p
    <3>1. ~Taken(p)
      BY <1>4, <2>0, <2>2 DEF PubInv
    <3>2. ~StageOut(p)' /\ Once(toView', StageMsg(p)) /\ Once(toView', CommitMsg(p))
      BY <1>4, <2>0, <2>2 DEF PubInv, Sends
    <3>3. ~CommitOut(p)' /\ p \notin applied' /\ phase[p] # "idle" /\ outcome[p] # "refused"
      BY <1>1, <1>4, <2>0, <2>2, <3>1 DEF PubInv, Taken, CommitOut, Sends
    <3>4. AcksOf(p)' \subseteq {a}
      BY <1>3, <3>1 DEF Taken, AcksOf, Sends
    <3>5. ~Refusing(p)'
      BY <1>2, <3>3, <3>4 DEF Refusing
    <3> QED
      BY <2>0, <2>2, <3>2, <3>3, <3>5 DEF PubInv
  <2> QED
    BY <2>1, <2>2
<1> QED
  BY <1>5, <1>6, <1>7, <1>8, <1>9

(* The webview answers for the publication p: those of P took place now.   *)
LEMMA AnswerKeeps ==
    ASSUME PublicationInv, NEW p \in Publications, NEW P \in SUBSET {p, Ready},
           UNCHANGED <<phase, outcome, stage, active>>,
           Sends(toView, toView', {}), NEW Y, Sends(toHost, toHost', Y),
           staged' = staged \ {p}, applied' = applied \cup P, completed' = completed \cup P,
           p # Ready => Taken(p),
           p \in P /\ p # Ready => p \in staged /\ CommitOut(p) /\ ~CommitOut(p)',
           \A m \in Y : m.type = "ack" /\ m.phase = "applied" /\ m.pub \in {p, Ready},
           \A m \in Y : IF m.ok THEN m.pub \in applied' ELSE m.pub = Ready \/ m.pub \notin applied'
    PROVE  PublicationInv'
<1> USE DEF PublicationInv
<1>1. TypeInv'
  <2>1. \A m \in {} : ViewMsg(m)
    OBVIOUS
  <2>2. \A m \in Y : HostMsg(m)
    BY Names DEF HostMsg
  <2> QED
    BY <2>1, <2>2, ChannelsKeep DEF TypeInv
<1>2. TruthInv'
  <2>1. \A q \in Publications : outcome'[q] = "applied" => outcome[q] = "applied" \/ q \in applied'
    OBVIOUS
  <2>2. \A m \in Y : m.type = "ack" /\ m.phase = "applied" /\ m.ok => m.pub \in applied'
    OBVIOUS
  <2> QED
    BY <2>1, <2>2, TruthKeeps
<1>3. OrderInv'
  <2>1. \A e \in Runs : phase'[Terminal(e, 1)] = "idle" \/ stage[e] = "ended"
    BY DEF OrderInv
  <2>2. \A e \in Runs : phase'[Terminal(e, 2)] # "idle" => phase'[Terminal(e, 1)] = "settled"
    BY DEF OrderInv
  <2>3. phase'[ReadyFailed] # "idle" => phase'[Ready] = "settled"
    BY DEF OrderInv
  <2>4. \A m \in Y : m.type # "execute"
    OBVIOUS
  <2> QED
    BY <2>1, <2>2, <2>3, <2>4, OrderKeeps
<1>4. BegunInv'
  BY DEF BegunInv, Begun
<1>5. ASSUME NEW q \in Followed PROVE PubInv(q)'
  <2>0. q \in Publications /\ q # Ready /\ PubInv(q)
    BY DEF Followed
  <2>1. CASE q # p
    <3>1. NoMessageOf(q, {}, Y)
      BY <2>0, <2>1 DEF NoMessageOf
    <3>2. (q \in applied' <=> q \in applied) /\ (q \in completed => q \in completed')
          /\ (q \in staged' => q \in staged) /\ phase'[q] = phase[q] /\ outcome'[q] = outcome[q]
      BY <2>0, <2>1
    <3> QED
      BY <2>0, <3>1, <3>2, PassesIf, PassesKeeps
  <2>2. CASE q = p
    <3>1. Taken(p) /\ PubInv(p) /\ p # Ready
      BY <2>0, <2>2
    <3>2. /\ Once(toView', StageMsg(p)) /\ Once(toView', CommitMsg(p))
          /\ ~StageOut(p)' /\ (CommitOut(p)' => CommitOut(p))
      BY <3>1 DEF PubInv, StageOut, CommitOut, Sends
    <3>3. ASSUME Refusing(p)'
          PROVE  (Refusing(p) /\ p \notin P) \/ p \notin applied'
      <4>1. ASSUME NEW m \in AcksOf(p)', m.phase = "applied", ~m.ok
            PROVE  m \in AcksOf(p) \/ p \notin applied'
        BY <3>1, <4>1 DEF AcksOf, Sends
      <4>2. Refusing(p) \/ p \notin applied'
        BY <3>3, <4>1 DEF Refusing
      <4>3. Refusing(p) => p \notin P
        BY <3>1 DEF PubInv
      <4> QED
        BY <4>2, <4>3
    <3>4. Refusing(p)' => p \notin applied' \cup staged'
      BY <3>1, <3>3 DEF PubInv
    <3>5. phase[p] \in {"idle", "staging"} \/ outcome[p] = "unstaged"
             => ~CommitOut(p)' /\ p \notin applied'
      BY <3>1, <3>2 DEF PubInv
    <3>6. p \in applied' => p \in completed' /\ p \notin staged' /\ ~CommitOut(p)'
      BY <3>1, <3>2 DEF PubInv
    <3>7. phase'[p] # "idle" /\ (phase'[p] # "settled" => outcome'[p] = "none")
      BY <3>1 DEF PubInv
    <3> QED
      BY <2>2, <3>2, <3>4, <3>5, <3>6, <3>7 DEF PubInv
  <2> QED
    BY <2>1, <2>2
<1> QED
  BY <1>1, <1>2, <1>3, <1>4, <1>5
-----------------------------------------------------------------------------
(* The steps of the webview. *)

LEMMA RefuseKeeps ==
    ASSUME PublicationInv, NEW p \in Publications, Sends(toView, toView', {}), Refuse(p),
           staged' = staged \ {p}, UNCHANGED <<phase, outcome, stage, active>>,
           p # Ready => Taken(p) /\ p \notin applied
    PROVE  PublicationInv'
<1> DEFINE a == Ack(p, "applied", FALSE)
           Y == {a}
<1>1. a.type = "ack" /\ a.pub = p /\ a.phase = "applied" /\ ~a.ok
  BY DEF Ack
<1>2. applied' = applied \cup {} /\ completed' = completed \cup {} /\ toHost' = toHost \o <<a>>
  BY DEF Refuse, Confirm
<1> HIDE DEF a
<1>3. Sends(toHost, toHost', Y)
  BY <1>2, SendsLast DEF PublicationInv, TypeInv
<1>4. \A m \in Y : m.type = "ack" /\ m.phase = "applied" /\ m.pub \in {p, Ready}
  BY <1>1
<1>5. \A m \in Y : IF m.ok THEN m.pub \in applied' ELSE m.pub = Ready \/ m.pub \notin applied'
  BY <1>1, <1>2
<1> HIDE DEF Y
<1>6. {} \in SUBSET {p, Ready}
  OBVIOUS
<1> QED
  BY <1>2, <1>3, <1>4, <1>5, <1>6, AnswerKeeps

(* What the application of a publication comes to. *)
LEMMA ConfirmKeeps ==
    ASSUME PublicationInv, NEW p \in Publications, NEW ok \in BOOLEAN,
           Sends(toView, toView', {}), UNCHANGED <<phase, outcome, stage, active>>,
           staged' = staged \ {p}, p # Ready => p \in staged /\ CommitOut(p) /\ ~CommitOut(p)',
           Confirm({q \in {p} : ok}, <<Ack(p, "applied", ok)>>)
    PROVE  PublicationInv'
<1> DEFINE a == Ack(p, "applied", ok)
           P == {q \in {p} : ok}
           Y == {a}
<1>1. a.type = "ack" /\ a.pub = p /\ a.phase = "applied" /\ a.ok = ok
  BY Messages
<1>2. applied' = applied \cup P /\ completed' = completed \cup P /\ toHost' = toHost \o <<a>>
  BY DEF Confirm
<1>3. p # Ready => Taken(p) /\ p \notin applied
  BY DEF PublicationInv, Followed, PubInv, Taken
<1> HIDE DEF a
<1>4. Sends(toHost, toHost', Y)
  BY <1>2, SendsLast DEF PublicationInv, TypeInv
<1>5. \A m \in Y : m.type = "ack" /\ m.phase = "applied" /\ m.pub \in {p, Ready}
  BY <1>1
<1>6. \A m \in Y : IF m.ok THEN m.pub \in applied' ELSE m.pub = Ready \/ m.pub \notin applied'
  BY <1>1, <1>2, <1>3
<1>7. P \in SUBSET {p, Ready}
  OBVIOUS
<1> HIDE DEF Y, P
<1> QED
  BY <1>2, <1>3, <1>4, <1>5, <1>6, <1>7, AnswerKeeps

LEMMA AnnounceKeeps ==
    ASSUME PublicationInv, NEW p \in Publications, p # Ready, NEW ok \in BOOLEAN, NEW e,
           Sends(toView, toView', {}), UNCHANGED <<phase, outcome, stage, active>>,
           staged' = staged \ {p}, p \in staged, CommitOut(p), ~CommitOut(p)',
           Announce(e, {q \in {p} : ok}, <<Ack(p, "applied", ok)>>)
    PROVE  PublicationInv'
<1>1. CASE comparing # e
  BY <1>1, ConfirmKeeps DEF Announce
<1>2. CASE comparing = e
  <2> DEFINE a == Ack(p, "applied", ok)
             b == Ack(Ready, "applied", owner)
             P == {q \in {p} : ok} \cup {q \in {Ready} : owner}
             s == Append(<<a>>, b)
             Y == {a, b}
  <2>1. /\ a.type = "ack" /\ a.pub = p /\ a.phase = "applied" /\ a.ok = ok
        /\ b.type = "ack" /\ b.pub = Ready /\ b.phase = "applied" /\ b.ok = owner
    BY Messages
  <2>2. applied' = applied \cup P /\ completed' = completed \cup P /\ toHost' = toHost \o s
    BY <1>2 DEF Announce, Confirm
  <2>3. Taken(p) /\ p \notin applied
    BY DEF PublicationInv, Followed, PubInv, Taken
  <2> HIDE DEF a, b
  <2>4. IsQueue(s) /\ Elements(s) = Y /\ \A m : Once(s, m)
    <3>1. a # b
      BY <2>1
    <3> QED
      BY <3>1, TwoMessages
  <2> HIDE DEF s
  <2>5. Sends(toHost, toHost', Y)
    BY <2>2, <2>4, SendsConcat DEF PublicationInv, TypeInv
  <2>6. \A m \in Y : m.type = "ack" /\ m.phase = "applied" /\ m.pub \in {p, Ready}
    BY <2>1
  <2>7. \A m \in Y : IF m.ok THEN m.pub \in applied' ELSE m.pub = Ready \/ m.pub \notin applied'
    BY <2>1, <2>2, <2>3
  <2>8. P \in SUBSET {p, Ready}
    OBVIOUS
  <2> HIDE DEF Y, P
  <2> QED
    BY <2>2, <2>3, <2>5, <2>6, <2>7, <2>8, AnswerKeeps
<1> QED
  BY <1>1, <1>2

(* A run begins in the webview, which asks the host for it. *)
LEMMA AskKeeps ==
    ASSUME PublicationInv, NewRun(NextRun), stage' = [stage EXCEPT ![NextRun] = "sent"],
           Sends(toView, toView', {}), Sends(toHost, toHost', {ExecuteMsg(NextRun)}),
           UNCHANGED <<phase, outcome, active, applied, completed>>,
           \A p \in Followed : p \in staged' => p \in staged
    PROVE  PublicationInv'
<1> DEFINE e == NextRun
<1>1. e \in Runs /\ stage[e] = "new"
  BY NextRunIsNew DEF NewRun, PublicationInv
<1> HIDE DEF e
<1>2. stage' = [stage EXCEPT ![e] = "sent"] /\ Sends(toHost, toHost', {ExecuteMsg(e)})
  BY DEF e
<1>3. BegunInv'
  <2>1. \A d \in Runs : stage[d] # "new" => stage'[d] # "new"
    BY <1>1, <1>2 DEF PublicationInv, TypeInv
  <2>2. \A d \in Runs : stage[d] = "new" /\ stage'[d] # "new" => d = NextRun
    BY <1>1, <1>2 DEF PublicationInv, TypeInv, e
  <2> QED
    BY <2>1, <2>2, BegunKeeps DEF PublicationInv
<1>4. stage' \in [Runs -> Stages] /\ active' \in Runs \cup {NoRun}
  BY <1>1, <1>2 DEF PublicationInv, TypeInv, Stages
<1>5. active' # NoRun => stage'[active'] \in {"claiming", "dispatching", "running"}
  BY <1>1, <1>2 DEF PublicationInv, TypeInv, OrderInv
<1>6. \A d \in Runs : ExecuteMsg(d) \in Elements(toHost') => stage'[d] = "sent"
  <2>1. \A d \in Runs : d # e => ExecuteMsg(d) # ExecuteMsg(e)
    BY Messages
  <2>2. \A d \in Runs : ExecuteMsg(d) \in Elements(toHost') => d = e \/ stage[d] = "sent"
    BY <1>2, <2>1 DEF PublicationInv, OrderInv, Sends
  <2> QED
    BY <1>1, <1>2, <2>2 DEF PublicationInv, TypeInv
<1>7. \A d \in Runs : Once(toHost', ExecuteMsg(d))
  <2>1. ExecuteMsg(e) \notin Elements(toHost)
    BY <1>1 DEF PublicationInv, OrderInv
  <2> QED
    BY <1>2, <2>1 DEF PublicationInv, OrderInv, Sends
<1>8. \A m \in {ExecuteMsg(e)} : HostMsg(m) /\ m.type \in QuietTypes
  BY <1>1, Messages DEF HostMsg, QuietTypes
<1>9. phase' = [q \in Publications |->
                   IF \E d \in {} : q = Terminal(d, 1) THEN "staging" ELSE phase[q]]
  BY DEF PublicationInv, TypeInv
<1>10. \A m \in {} : StartedOf(m) \/ \E d \in {} : m = StageMsg(Terminal(d, 1))
  OBVIOUS
<1>11. \A d \in Runs : stage[d] = "ended" \/ d \in {} => stage'[d] = "ended"
  BY <1>1, <1>2 DEF PublicationInv, TypeInv
<1>12. {} \in SUBSET Runs /\ \A d \in {} : stage[d] # "ended"
  OBVIOUS
<1> QED
  BY <1>2, <1>3, <1>4, <1>5, <1>6, <1>7, <1>8, <1>9, <1>10, <1>11, <1>12, RunsKeep
LEMMA CommitKeeps ==
    ASSUME PublicationInv, NEW p \in Publications,
           toView # <<>>, Head(toView) = CommitMsg(p), toView' = Tail(toView), OnCommit(p),
           UNCHANGED <<phase, outcome, active>>
    PROVE  PublicationInv'
<1>1. /\ Sends(toView, toView', {}) /\ CommitOut(p)
      /\ Once(toView, CommitMsg(p)) => ~CommitOut(p)'
  BY TakesOne DEF PublicationInv, TypeInv, CommitOut
<1>2. p # Ready => Taken(p) /\ p \notin applied /\ ~CommitOut(p)'
  BY <1>1 DEF PublicationInv, Followed, PubInv, Taken
<1>3. staged' = staged \ {p}
  BY DEF OnCommit
<1>4. ASSUME Refuse(p), UNCHANGED stage PROVE PublicationInv'
  BY <1>1, <1>2, <1>3, <1>4, RefuseKeeps
<1>5. CASE p \notin staged \/ p \in late
  BY <1>4, <1>5 DEF OnCommit
<1>6. CASE p \in staged /\ p \notin late
  <2>1. \/ p[1] = "run" /\ ApplyTerminal(p) /\ UNCHANGED stage
        \/ p = Ready /\ ApplyReady
        \/ p = ReadyFailed /\ ApplyReadyFailed /\ UNCHANGED stage
    BY <1>6 DEF OnCommit
  <2>2. ASSUME NEW e, NEW ok \in BOOLEAN, p[1] = "run", UNCHANGED stage,
               Announce(e, {q \in {p} : ok}, <<Ack(p, "applied", ok)>>)
        PROVE  PublicationInv'
    <3>1. p # Ready
      BY <2>2, Names
    <3> QED
      BY <1>1, <1>2, <1>3, <1>6, <2>2, <3>1, AnnounceKeeps
  <2>3. CASE p[1] = "run" /\ ApplyTerminal(p) /\ UNCHANGED stage
    <3>1. CASE ApplyActive(p)
      <4>1. CASE Announce(p[2], {p}, <<Ack(p, "applied", TRUE)>>)
        <5>1. {p} = {q \in {p} : TRUE} /\ TRUE \in BOOLEAN
          OBVIOUS
        <5>2. Announce(p[2], {q \in {p} : TRUE}, <<Ack(p, "applied", TRUE)>>)
          BY <4>1, <5>1
        <5> QED
          BY <2>2, <2>3, <5>1, <5>2
      <4>2. CASE Refuse(p)
        BY <1>4, <2>3, <4>2
      <4> QED
        BY <3>1, <4>1, <4>2 DEF ApplyActive
    <3>2. CASE ApplyRetired(p)
      <4> DEFINE ok == KindOf(p) = "cancelled"
      <4>1. Announce(p[2], {q \in {p} : ok}, <<Ack(p, "applied", ok)>>) /\ ok \in BOOLEAN
        BY <3>2 DEF ApplyRetired
      <4> HIDE DEF ok
      <4> QED
        BY <2>2, <2>3, <4>1
    <3>3. CASE RejectTerminal(p)
      BY <1>4, <2>3, <3>3 DEF RejectTerminal
    <3> QED
      BY <2>3, <3>1, <3>2, <3>3 DEF ApplyTerminal
  <2>4. CASE p = Ready /\ ApplyReady
    <3>1. CASE ReadyRejected
      BY <1>4, <2>4, <3>1 DEF ReadyRejected
    <3>2. CASE ReadyRunsSource
      <4>1. /\ NewRun(NextRun) /\ stage' = [stage EXCEPT ![NextRun] = "sent"]
            /\ applied' = applied \cup {} /\ completed' = completed \cup {}
            /\ toHost' = toHost \o <<ExecuteMsg(NextRun)>>
        BY <3>2 DEF ReadyRunsSource, Confirm
      <4>2. Sends(toHost, toHost', {ExecuteMsg(NextRun)})
        BY <4>1, SendsLast DEF PublicationInv, TypeInv
      <4>3. UNCHANGED <<applied, completed>> /\ \A q \in Followed : q \in staged' => q \in staged
        BY <1>3, <4>1
      <4> QED
        BY <1>1, <4>1, <4>2, <4>3, AskKeeps
    <3>3. CASE ReadyWithoutRun
      <4>1. {Ready} = {q \in {Ready} : TRUE} /\ TRUE \in BOOLEAN
        OBVIOUS
      <4>2. UNCHANGED stage /\ Confirm({q \in {p} : TRUE}, <<Ack(p, "applied", TRUE)>>)
        BY <2>4, <3>3, <4>1 DEF ReadyWithoutRun
      <4> QED
        BY <1>1, <1>2, <1>3, <1>6, <4>1, <4>2, ConfirmKeeps
    <3> QED
      BY <2>4, <3>1, <3>2, <3>3 DEF ApplyReady
  <2>5. CASE p = ReadyFailed /\ ApplyReadyFailed /\ UNCHANGED stage
    <3>1. CASE owner
      <4>1. {ReadyFailed} = {q \in {ReadyFailed} : TRUE} /\ TRUE \in BOOLEAN
        OBVIOUS
      <4>2. Confirm({q \in {p} : TRUE}, <<Ack(p, "applied", TRUE)>>)
        BY <2>5, <3>1, <4>1 DEF ApplyReadyFailed
      <4> QED
        BY <1>1, <1>2, <1>3, <1>6, <2>5, <4>1, <4>2, ConfirmKeeps
    <3>2. CASE ~owner
      BY <1>4, <2>5, <3>2 DEF ApplyReadyFailed
    <3> QED
      BY <3>1, <3>2
  <2> QED
    BY <2>1, <2>3, <2>4, <2>5
<1> QED
  BY <1>5, <1>6

(* The answer to a revocation is what the ledger of the webview says.      *)
LEMMA RevokeKeeps ==
    ASSUME PublicationInv, NEW p \in Publications,
           toView # <<>>, Head(toView) = RevokeMsg(p), toView' = Tail(toView), OnRevoke(p),
           UNCHANGED <<phase, outcome, stage, active>>
    PROVE  PublicationInv'
<1> DEFINE ok == p \in completed
           a == Ack(p, "applied", ok)
           Y == {a}
<1>1. Sends(toView, toView', {}) /\ RevokeOut(p)
  BY TakesOne DEF PublicationInv, TypeInv, RevokeOut
<1>2. /\ toHost' = Append(toHost, a) /\ staged' = staged \ {p}
      /\ applied' = applied \cup {} /\ completed' = completed \cup {}
  BY DEF OnRevoke, KnownApplied
<1>3. a.type = "ack" /\ a.pub = p /\ a.phase = "applied" /\ a.ok = ok
  BY Messages
<1>4. IF ok THEN p \in applied ELSE p = Ready \/ p \notin applied
  BY DEF PublicationInv, Followed, PubInv, TruthInv
<1> HIDE DEF a
<1>5. Sends(toHost, toHost', Y)
  BY <1>2, SendsOne DEF PublicationInv, TypeInv
<1>6. \A m \in Y : m.type = "ack" /\ m.phase = "applied" /\ m.pub \in {p, Ready}
  BY <1>3
<1>7. \A m \in Y : IF m.ok THEN m.pub \in applied' ELSE m.pub = Ready \/ m.pub \notin applied'
  BY <1>2, <1>3, <1>4
<1>8. {} \in SUBSET {p, Ready} /\ p \notin {}
  OBVIOUS
<1>9. Taken(p)
  BY <1>1 DEF Taken
<1> HIDE DEF Y
<1> QED
  BY <1>1, <1>2, <1>5, <1>6, <1>7, <1>8, <1>9, AnswerKeeps

LEMMA ExpireKeeps ==
    ASSUME PublicationInv, NEW p \in Publications, StagedExpires(p)
    PROVE  PublicationInv'
<1>1. /\ p \in staged /\ staged' = staged \ {p} /\ toHost' = Append(toHost, Ack(p, "applied", FALSE))
      /\ UNCHANGED <<phase, outcome, stage, active, toView, applied, completed>>
  BY DEF StagedExpires, hostVars
<1>2. Sends(toView, toView', {})
  BY <1>1, SendsNothing DEF PublicationInv, TypeInv
<1>3. p # Ready => Taken(p) /\ p \notin applied
  BY <1>1 DEF PublicationInv, Followed, PubInv, Taken
<1> DEFINE a == Ack(p, "applied", FALSE)
           Y == {a}
<1>4. a.type = "ack" /\ a.pub = p /\ a.phase = "applied" /\ ~a.ok
  BY DEF Ack
<1>5. applied' = applied \cup {} /\ completed' = completed \cup {} /\ toHost' = Append(toHost, a)
  BY <1>1
<1> HIDE DEF a
<1>6. Sends(toHost, toHost', Y)
  BY <1>5, SendsOne DEF PublicationInv, TypeInv
<1>7. \A m \in Y : m.type = "ack" /\ m.phase = "applied" /\ m.pub \in {p, Ready}
  BY <1>4
<1>8. \A m \in Y : IF m.ok THEN m.pub \in applied' ELSE m.pub = Ready \/ m.pub \notin applied'
  BY <1>1, <1>3, <1>4
<1>9. {} \in SUBSET {p, Ready} /\ p \notin {}
  OBVIOUS
<1> HIDE DEF Y
<1> QED
  BY <1>1, <1>2, <1>3, <1>5, <1>6, <1>7, <1>8, <1>9, AnswerKeeps

(* A claim is answered: it concerns no publication. *)
LEMMA StartedKeeps ==
    ASSUME PublicationInv, NEW m, StartedOf(m), toView # <<>>, Head(toView) = m,
           toView' = Tail(toView), OnStarted(m), UNCHANGED <<phase, outcome, stage, active>>
    PROVE  PublicationInv'
<1> DEFINE ok == m.generation = generation /\ PredecessorMatches(m)
           a == StartedAck(m.exec, ok)
<1>1. toHost' = Append(toHost, a) /\ UNCHANGED <<staged, completed, applied>>
  BY DEF OnStarted
<1>2. a.type = "startedAck" /\ a.exec \in Runs
  BY Messages DEF StartedOf
<1> HIDE DEF a
<1>3. Sends(toView, toView', {}) /\ Sends(toHost, toHost', {a})
  BY <1>1, TakesOne, SendsOne DEF PublicationInv, TypeInv
<1>4. \A x \in {a} : HostMsg(x) /\ x.type \in QuietTypes \ {"execute"}
  BY <1>2 DEF QuietTypes, HostMsg
<1>5. \A x \in {} : StartedOf(x)
  OBVIOUS
<1> QED
  BY <1>1, <1>3, <1>4, <1>5, QuietKeeps

LEMMA ReceiveViewKeeps == ASSUME PublicationInv, ReceiveView PROVE PublicationInv'
<1> DEFINE m == Head(toView)
<1>1. toView # <<>> /\ toView' = Tail(toView) /\ UNCHANGED <<phase, outcome, active>>
  BY DEF ReceiveView
<1>2. ViewMsg(m)
  BY <1>1, TailQueue DEF PublicationInv, TypeInv
<1>3. \/ m.type = "stage"   /\ OnStage(m.pub)  /\ UNCHANGED stage
      \/ m.type = "commit"  /\ OnCommit(m.pub)
      \/ m.type = "revoke"  /\ OnRevoke(m.pub) /\ UNCHANGED stage
      \/ m.type = "started" /\ OnStarted(m)    /\ UNCHANGED stage
  BY DEF ReceiveView
<1>4. m = Head(toView)
  OBVIOUS
<1> HIDE DEF m
<1>5. CASE StartedOf(m)
  BY <1>1, <1>3, <1>4, <1>5, StartedKeeps DEF StartedOf
<1>6. ASSUME NEW p \in Publications, m = StageMsg(p) PROVE PublicationInv'
  BY <1>1, <1>3, <1>4, <1>6, Messages, StageKeeps
<1>7. ASSUME NEW p \in Publications, m = CommitMsg(p) PROVE PublicationInv'
  BY <1>1, <1>3, <1>4, <1>7, Messages, CommitKeeps
<1>8. ASSUME NEW p \in Publications, m = RevokeMsg(p) PROVE PublicationInv'
  BY <1>1, <1>3, <1>4, <1>8, Messages, RevokeKeeps
<1> QED
  BY <1>2, <1>5, <1>6, <1>7, <1>8 DEF ViewMsg
-----------------------------------------------------------------------------
(* The steps of the host. *)

Held == {"claiming", "dispatching", "running"}

(* A run of the host begins, goes on, or ends if it is of D. *)
Moves(e, D) ==
    \/ e \in D /\ stage'[e] = "ended"
    \/ e \notin D /\ stage'[e] = stage[e]
    \/ e \notin D /\ stage[e] \in Held /\ stage'[e] \in Held
    \/ e \notin D /\ stage[e] = "new" /\ e = NextRun /\ stage'[e] \in Held
    \/ /\ e \notin D /\ stage[e] = "sent" /\ stage'[e] \in Held
       /\ ExecuteMsg(e) \notin Elements(toHost')

LEMMA MovesKeep ==
    ASSUME PublicationInv, NEW D \in SUBSET Runs, \A d \in D : stage[d] \in Held,
           phase' = [q \in Publications |->
                        IF \E d \in D : q = Terminal(d, 1) THEN "staging" ELSE phase[q]],
           UNCHANGED <<outcome, applied, completed, staged>>,
           NEW X, Sends(toView, toView', X),
           \A m \in X : StartedOf(m) \/ \E d \in D : m = StageMsg(Terminal(d, 1)),
           Sends(toHost, toHost', {}),
           stage' \in [Runs -> Stages], active' \in Runs \cup {NoRun},
           active' # NoRun => stage'[active'] \in Held,
           \A e \in Runs : Moves(e, D)
    PROVE  PublicationInv'
<1>1. \A d \in D : stage[d] # "ended"
  BY DEF Held
<1>2. \A m \in {} : HostMsg(m) /\ m.type \in QuietTypes
  OBVIOUS
<1>3. \A e \in Runs : stage[e] = "ended" \/ e \in D => stage'[e] = "ended"
  BY DEF Moves, Held
<1>4. \A e \in Runs : ExecuteMsg(e) \in Elements(toHost') => stage'[e] = "sent"
  <2>1. \A e \in Runs : ExecuteMsg(e) \in Elements(toHost') => stage[e] = "sent"
    BY DEF PublicationInv, OrderInv, Sends
  <2> QED
    BY <2>1 DEF Moves, Held
<1>5. \A e \in Runs : Once(toHost', ExecuteMsg(e))
  BY DEF PublicationInv, OrderInv, Sends
<1>6. BegunInv'
  <2>1. \A e \in Runs : stage[e] # "new" => stage'[e] # "new"
    BY DEF Moves, Held
  <2>2. \A e \in Runs : stage[e] = "new" /\ stage'[e] # "new" => e = NextRun
    BY DEF Moves, Held
  <2> QED
    BY <2>1, <2>2, BegunKeeps DEF PublicationInv
<1>7. active' # NoRun => stage'[active'] \in {"claiming", "dispatching", "running"}
  BY DEF Held
<1>8. \A p \in Followed : p \in staged' => p \in staged
  OBVIOUS
<1>9. UNCHANGED <<outcome, applied, completed>>
  OBVIOUS
<1> QED
  BY <1>1, <1>2, <1>3, <1>4, <1>5, <1>6, <1>7, <1>8, <1>9, RunsKeep

LEMMA NoneEnds ==
    ASSUME TypeInv, UNCHANGED phase
    PROVE  /\ phase' = [q \in Publications |->
                           IF \E d \in {} : q = Terminal(d, 1) THEN "staging" ELSE phase[q]]
           /\ {} \in SUBSET Runs /\ \A d \in {} : stage[d] \in Held
           /\ \A m \in {} : StartedOf(m) \/ \E d \in {} : m = StageMsg(Terminal(d, 1))
BY DEF TypeInv

LEMMA OneEnds ==
    ASSUME TypeInv, NEW e \in Runs, phase' = [phase EXCEPT ![Terminal(e, 1)] = "staging"]
    PROVE  phase' = [q \in Publications |->
                        IF \E d \in {e} : q = Terminal(d, 1) THEN "staging" ELSE phase[q]]
<1>1. Terminal(e, 1) \in Publications
  BY Names
<1> QED
  BY <1>1 DEF TypeInv

LEMMA EndKeeps ==
    ASSUME PublicationInv, NEW e \in Runs, stage[e] \in Held, NEW k, EndRun(e, k),
           UNCHANGED <<outcome, applied, completed, staged>>, Sends(toHost, toHost', {})
    PROVE  PublicationInv'
<1> DEFINE s == StageMsg(Terminal(e, 1))
<1>1. /\ active' = NoRun /\ stage' = [stage EXCEPT ![e] = "ended"]
      /\ phase' = [phase EXCEPT ![Terminal(e, 1)] = "staging"]
      /\ toView' = Append(toView, s)
  BY DEF EndRun
<1>2. phase' = [q \in Publications |->
                   IF \E d \in {e} : q = Terminal(d, 1) THEN "staging" ELSE phase[q]]
  BY <1>1, OneEnds DEF PublicationInv
<1>3. \A m \in {s} : StartedOf(m) \/ \E d \in {e} : m = StageMsg(Terminal(d, 1))
  OBVIOUS
<1> HIDE DEF s
<1>4. Sends(toView, toView', {s})
  BY <1>1, SendsOne DEF PublicationInv, TypeInv
<1>5. /\ stage' \in [Runs -> Stages] /\ active' \in Runs \cup {NoRun}
      /\ active' # NoRun => stage'[active'] \in Held
  BY <1>1 DEF PublicationInv, TypeInv, Stages
<1>6. \A d \in Runs : Moves(d, {e})
  BY <1>1 DEF PublicationInv, TypeInv, Moves
<1>7. {e} \in SUBSET Runs /\ \A d \in {e} : stage[d] \in Held
  OBVIOUS
<1> QED
  BY <1>2, <1>3, <1>4, <1>5, <1>6, <1>7, MovesKeep

LEMMA StepKeeps ==
    ASSUME PublicationInv, NEW e \in Runs, stage[e] \in Held, NEW s \in Held,
           stage' = [stage EXCEPT ![e] = s],
           UNCHANGED <<active, phase, outcome, toView, applied, completed, staged>>,
           Sends(toHost, toHost', {})
    PROVE  PublicationInv'
<1>1. Sends(toView, toView', {})
  BY SendsNothing DEF PublicationInv, TypeInv
<1>2. /\ stage' \in [Runs -> Stages] /\ active' \in Runs \cup {NoRun}
      /\ active' # NoRun => stage'[active'] \in Held
  BY DEF PublicationInv, TypeInv, OrderInv, Stages, Held
<1>3. \A d \in Runs : Moves(d, {})
  BY DEF PublicationInv, TypeInv, Moves
<1>4. TypeInv
  BY DEF PublicationInv
<1> QED
  BY <1>1, <1>2, <1>3, <1>4, NoneEnds, MovesKeep

(* A run takes the section; the one that held it ends. *)
LEMMA ReserveKeeps ==
    ASSUME PublicationInv, NEW e \in Runs, NEW to \in Held, NEW sent, Reserve(e, to, sent),
           IsQueue(sent), \A m : Once(sent, m), \A m \in Elements(sent) : StartedOf(m),
           \/ stage[e] = "new" /\ e = NextRun
           \/ stage[e] = "sent" /\ ExecuteMsg(e) \notin Elements(toHost'),
           UNCHANGED <<applied, completed, staged>>, Sends(toHost, toHost', {})
    PROVE  PublicationInv'
<1> DEFINE M == Elements(sent)
<1>1. active' = e /\ UNCHANGED outcome /\ e # NoRun
  BY DEF Reserve, Runs, NoRun
<1>2. CASE active = NoRun
  <2>1. stage' = [stage EXCEPT ![e] = to] /\ toView' = toView \o sent /\ UNCHANGED phase
    BY <1>2 DEF Reserve
  <2>2. Sends(toView, toView', M)
    BY <2>1, SendsConcat DEF PublicationInv, TypeInv
  <2>3. /\ stage' \in [Runs -> Stages] /\ active' \in Runs \cup {NoRun}
        /\ active' # NoRun => stage'[active'] \in Held
    BY <1>1, <2>1 DEF PublicationInv, TypeInv, Stages, Held
  <2>4. \A d \in Runs : Moves(d, {})
    BY <2>1 DEF PublicationInv, TypeInv, Moves
  <2>5. TypeInv /\ \A m \in M : StartedOf(m) \/ \E d \in {} : m = StageMsg(Terminal(d, 1))
    BY DEF PublicationInv
  <2> HIDE DEF M
  <2> QED
    BY <1>1, <2>1, <2>2, <2>3, <2>4, <2>5, NoneEnds, MovesKeep
<1>3. CASE active # NoRun
  <2> DEFINE a == active
             s == StageMsg(Terminal(a, 1))
  <2>1. a \in Runs /\ stage[a] \in Held /\ a # e
    BY <1>3 DEF PublicationInv, TypeInv, OrderInv, Held
  <2>2. /\ stage' = [stage EXCEPT ![a] = "ended", ![e] = to]
        /\ phase' = [phase EXCEPT ![Terminal(a, 1)] = "staging"]
        /\ toView' = Append(toView, s) \o sent
    BY <1>3 DEF Reserve
  <2> HIDE DEF a
  <2>3. phase' = [q \in Publications |->
                     IF \E d \in {a} : q = Terminal(d, 1) THEN "staging" ELSE phase[q]]
    BY <2>1, <2>2, OneEnds DEF PublicationInv
  <2>4. \A m \in {s} \cup M : StartedOf(m) \/ \E d \in {a} : m = StageMsg(Terminal(d, 1))
    OBVIOUS
  <2>5. s \notin M
    BY Messages DEF StartedOf
  <2> HIDE DEF s
  <2>6. Sends(toView, toView', {s} \cup M)
    <3> DEFINE r == Append(toView, s)
    <3>1. Sends(toView, r, {s}) /\ IsQueue(r)
      BY SendsOne, AppendQueue DEF PublicationInv, TypeInv
    <3> HIDE DEF r
    <3>2. Sends(r, r \o sent, M)
      BY <3>1, SendsConcat
    <3>3. toView' = r \o sent /\ {s} \cap M = {}
      BY <2>2, <2>5 DEF r
    <3> HIDE DEF M
    <3> QED
      BY <3>1, <3>2, <3>3, SendsThen
  <2>7. stage' = [d \in Runs |-> IF d = e THEN to ELSE IF d = a THEN "ended" ELSE stage[d]]
    BY <2>1, <2>2 DEF PublicationInv, TypeInv
  <2>8. /\ stage' \in [Runs -> Stages] /\ active' \in Runs \cup {NoRun}
        /\ active' # NoRun => stage'[active'] \in Held
    BY <1>1, <2>1, <2>7 DEF PublicationInv, TypeInv, Stages, Held
  <2>9. \A d \in Runs : Moves(d, {a})
    BY <2>1, <2>7 DEF Moves
  <2>10. {a} \in SUBSET Runs /\ \A d \in {a} : stage[d] \in Held
    BY <2>1
  <2> HIDE DEF M
  <2> QED
    BY <1>1, <2>3, <2>4, <2>6, <2>8, <2>9, <2>10, MovesKeep
<1> QED
  BY <1>2, <1>3
(* Only the requests of the webview, or what is lost, concern the channels. *)
LEMMA IdleKeeps ==
    ASSUME PublicationInv, UNCHANGED <<phase, outcome, stage, active, staged, applied, completed>>,
           Sends(toView, toView', {}),
           NEW Y, Sends(toHost, toHost', Y),
           \A m \in Y : HostMsg(m) /\ m.type \in QuietTypes \ {"execute"}
    PROVE  PublicationInv'
<1>1. \A m \in {} : StartedOf(m)
  OBVIOUS
<1> QED
  BY <1>1, QuietKeeps

LEMMA StillKeeps ==
    ASSUME PublicationInv, UNCHANGED <<phase, outcome, stage, active, staged, applied, completed>>,
           Sends(toView, toView', {}), Sends(toHost, toHost', {})
    PROVE  PublicationInv'
<1>1. \A m \in {} : HostMsg(m) /\ m.type \in QuietTypes \ {"execute"}
  OBVIOUS
<1> QED
  BY <1>1, IdleKeeps

LEMMA QueuesStay ==
    ASSUME PublicationInv
    PROVE  /\ UNCHANGED toView => Sends(toView, toView', {})
           /\ UNCHANGED toHost => Sends(toHost, toHost', {})
BY SendsNothing DEF PublicationInv, TypeInv

LEMMA CancelKeeps ==
    ASSUME PublicationInv, NEW e \in Runs, CancelExpected(e), Sends(toHost, toHost', {}),
           UNCHANGED <<applied, completed, staged>>
    PROVE  PublicationInv'
<1>1. CASE active = e
  <2>1. stage[e] \in Held /\ EndRun(e, "cancelled") /\ UNCHANGED outcome
    BY <1>1 DEF PublicationInv, OrderInv, Held, CancelExpected, Runs, NoRun
  <2> QED
    BY <2>1, EndKeeps
<1>2. CASE active # e
  <2>1. UNCHANGED <<phase, outcome, stage, active, toView>>
    BY <1>2 DEF CancelExpected, hostVars
  <2> QED
    BY <2>1, QueuesStay, StillKeeps
<1> QED
  BY <1>1, <1>2

LEMMA AdoptKeeps ==
    ASSUME PublicationInv, NEW g, AdoptTarget(g), Sends(toHost, toHost', {}),
           UNCHANGED <<applied, completed, staged>>
    PROVE  PublicationInv'
<1>1. CASE active # NoRun
  <2>1. active \in Runs /\ stage[active] \in Held
    BY <1>1 DEF PublicationInv, TypeInv, OrderInv, Held
  <2>2. EndRun(active, "cancelled") /\ UNCHANGED outcome
    BY <1>1 DEF AdoptTarget
  <2> QED
    BY <2>1, <2>2, EndKeeps
<1>2. CASE active = NoRun
  <2>1. UNCHANGED <<phase, outcome, stage, active, toView>>
    BY <1>2 DEF AdoptTarget
  <2> QED
    BY <2>1, QueuesStay, StillKeeps
<1> QED
  BY <1>1, <1>2

LEMMA ClaimedKeeps ==
    ASSUME PublicationInv, NEW e \in Runs, NEW ok, Claimed(e, ok), Sends(toHost, toHost', {}),
           UNCHANGED <<applied, completed, staged>>
    PROVE  PublicationInv'
<1>1. CASE stage[e] # "claiming"
  <2>1. UNCHANGED <<phase, outcome, stage, active, toView>>
    BY <1>1 DEF Claimed, hostVars
  <2> QED
    BY <2>1, QueuesStay, StillKeeps
<1>2. CASE stage[e] = "claiming" /\ ok
  <2>1. stage[e] \in Held /\ "dispatching" \in Held
    BY <1>2 DEF Held
  <2>2. /\ stage' = [stage EXCEPT ![e] = "dispatching"]
        /\ UNCHANGED <<active, phase, outcome, toView>>
    BY <1>2 DEF Claimed
  <2> QED
    BY <2>1, <2>2, StepKeeps
<1>3. CASE stage[e] = "claiming" /\ ~ok
  BY <1>3, CancelKeeps DEF Claimed
<1> QED
  BY <1>1, <1>2, <1>3

(* The acknowledgement m arrives, and is still in the channel it came by. *)
LEMMA AcknowledgedKeeps ==
    ASSUME PublicationInv, NEW m \in Elements(toHost), m.type = "ack", m.pub \in Publications,
           Acknowledged(m), Sends(toHost, toHost', {}), UNCHANGED <<applied, completed, staged>>
    PROVE  PublicationInv'
<1> DEFINE p == m.pub
<1>1. p \in Publications /\ m \in AcksOf(p)
  BY DEF AcksOf
<1>2. CASE m.phase = "staged" /\ phase[p] = "staging" /\ m.ok
  <2>1. /\ phase' = [phase EXCEPT ![p] = "applying"] /\ toView' = Append(toView, CommitMsg(p))
        /\ UNCHANGED <<outcome, stage, active>>
    BY <1>2 DEF Acknowledged
  <2> HIDE DEF p
  <2> QED
    BY <1>1, <1>2, <2>1, GoesOn
<1>3. CASE m.phase = "staged" /\ phase[p] = "staging" /\ ~m.ok
  <2>1. Settle(p, "unstaged", toView) /\ "unstaged" \in Outcomes
    BY <1>3 DEF Acknowledged, Outcomes
  <2> HIDE DEF p
  <2> QED
    BY <1>1, <1>3, <2>1, QueuesStay, SettleKeeps, SendsNothing DEF PublicationInv, TypeInv
<1>4. CASE m.phase = "applied" /\ phase[p] \in {"applying", "revoking"} /\ m.ok
  <2>1. Settle(p, "applied", toView) /\ "applied" \in Outcomes
    BY <1>4 DEF Acknowledged, Outcomes
  <2>2. p \in applied /\ Sends(toView, toView, {})
    BY <1>4, SendsNothing DEF PublicationInv, TypeInv, TruthInv
  <2> HIDE DEF p
  <2> QED
    BY <1>1, <1>4, <2>1, <2>2, SettleKeeps
<1>5. CASE m.phase = "applied" /\ phase[p] \in {"applying", "revoking"} /\ ~m.ok
  <2>1. Settle(p, "refused", toView) /\ "refused" \in Outcomes
    BY <1>5 DEF Acknowledged, Outcomes
  <2>2. \E a \in AcksOf(p) : a.phase = "applied" /\ ~a.ok
    BY <1>1, <1>5
  <2>3. Sends(toView, toView, {})
    BY SendsNothing DEF PublicationInv, TypeInv
  <2> HIDE DEF p
  <2> QED
    BY <1>1, <1>5, <2>1, <2>2, <2>3, SettleKeeps
<1>6. CASE UNCHANGED <<hostVars, toView>>
  <2>1. UNCHANGED <<phase, outcome, stage, active, toView>>
    BY <1>6 DEF hostVars
  <2> QED
    BY <2>1, QueuesStay, StillKeeps
<1> QED
  BY <1>2, <1>3, <1>4, <1>5, <1>6 DEF Acknowledged

LEMMA ReceiveHostKeeps == ASSUME PublicationInv, ReceiveHost PROVE PublicationInv'
<1> DEFINE m == Head(toHost)
<1>1. /\ toHost # <<>> /\ toHost' = Tail(toHost) /\ UNCHANGED <<applied, completed, staged>>
      /\ IsQueue(toHost)
  BY DEF ReceiveHost, viewVars, PublicationInv, TypeInv
<1>2. /\ Sends(toHost, toHost', {}) /\ m \in Elements(toHost) /\ HostMsg(m)
      /\ Once(toHost, m) => m \notin Elements(toHost')
  BY <1>1, TailQueue, ReceivesHead DEF PublicationInv, TypeInv
<1>3. /\ m.type = "ack" => Acknowledged(m)
      /\ m.type = "startedAck" => Claimed(m.exec, m.ok)
      /\ m.type = "execute" => Reserve(m.exec, "dispatching", <<>>)
      /\ m.type = "cancel" => CancelExpected(m.exec)
      /\ m.type = "cancelOptimize" => UNCHANGED <<phase, outcome, stage, active, toView>>
      /\ m.type = "target" => AdoptTarget(m.generation)
  BY DEF ReceiveHost
<1> HIDE DEF m
<1>4. CASE m.type = "ack" /\ m.pub \in Publications
  BY <1>1, <1>2, <1>3, <1>4, AcknowledgedKeeps
<1>5. ASSUME NEW e \in Runs, m = ExecuteMsg(e) PROVE PublicationInv'
  <2>1. Reserve(e, "dispatching", <<>>)
    BY <1>3, <1>5, Messages
  <2>2. stage[e] = "sent" /\ ExecuteMsg(e) \notin Elements(toHost')
    BY <1>2, <1>5 DEF PublicationInv, OrderInv
  <2>3. "dispatching" \in Held /\ \A x \in Elements(<<>>) : StartedOf(x)
    BY EmptyQueue DEF Held
  <2> QED
    BY <1>1, <1>2, <2>1, <2>2, <2>3, EmptyQueue, ReserveKeeps
<1>6. CASE m.type = "startedAck" /\ m.exec \in Runs
  BY <1>1, <1>2, <1>3, <1>6, ClaimedKeeps
<1>7. CASE m.type = "cancel" /\ m.exec \in Runs
  BY <1>1, <1>2, <1>3, <1>7, CancelKeeps
<1>8. CASE m.type = "cancelOptimize"
  BY <1>1, <1>2, <1>3, <1>8, QueuesStay, StillKeeps
<1>9. CASE m.type = "target"
  BY <1>1, <1>2, <1>3, <1>9, AdoptKeeps
<1> QED
  BY <1>2, <1>4, <1>5, <1>6, <1>7, <1>8, <1>9 DEF HostMsg
LEMMA TimeoutKeeps ==
    ASSUME PublicationInv, NEW p \in Publications, StagedTimeout(p) PROVE PublicationInv'
<1>1. /\ phase[p] = "staging" /\ Settle(p, "unstaged", toView) /\ "unstaged" \in Outcomes
      /\ UNCHANGED <<toHost, staged, completed, applied>>
  BY DEF StagedTimeout, viewVars, Outcomes
<1>2. Sends(toView, toView, {}) /\ Sends(toHost, toHost', {})
  BY <1>1, SendsNothing DEF PublicationInv, TypeInv
<1> QED
  BY <1>1, <1>2, SettleKeeps

LEMMA HostRevokes ==
    ASSUME PublicationInv, NEW p \in Publications, Revoke(p) PROVE PublicationInv'
<1>1. /\ phase[p] = "applying" /\ phase' = [phase EXCEPT ![p] = "revoking"]
      /\ toView' = Append(toView, RevokeMsg(p))
      /\ UNCHANGED <<toHost, outcome, stage, active, staged, completed, applied>>
  BY DEF Revoke, viewVars
<1>2. Sends(toHost, toHost', {})
  BY <1>1, QueuesStay
<1> QED
  BY <1>1, <1>2, GoesOn

LEMMA GraceKeeps ==
    ASSUME PublicationInv, NEW p \in Publications, GraceEnds(p) PROVE PublicationInv'
<1>1. /\ phase[p] = "revoking" /\ Settle(p, "unknown", toView) /\ "unknown" \in Outcomes
      /\ UNCHANGED <<toHost, staged, completed, applied>>
  BY DEF GraceEnds, viewVars, Outcomes
<1>2. Sends(toView, toView, {}) /\ Sends(toHost, toHost', {})
  BY <1>1, SendsNothing DEF PublicationInv, TypeInv
<1> QED
  BY <1>1, <1>2, SettleKeeps

LEMMA UndeliveredKeeps ==
    ASSUME PublicationInv, NEW p \in Publications, Undelivered(p) PROVE PublicationInv'
<1>1. PICK i \in 1..Len(toView) :
         /\ <<toView[i].type, phase[p]>> \in
               {<<"stage", "staging">>, <<"commit", "applying">>, <<"commit", "revoking">>,
                <<"revoke", "revoking">>}
         /\ Settle(p, IF toView[i].type = "stage" THEN "unstaged" ELSE "unknown", RemoveAt(toView, i))
  BY DEF Undelivered
<1> DEFINE o == IF toView[i].type = "stage" THEN "unstaged" ELSE "unknown"
           sent == RemoveAt(toView, i)
<1>2. UNCHANGED <<toHost, staged, completed, applied>>
  BY DEF Undelivered, viewVars
<1>3. Sends(toView, sent, {}) /\ Sends(toHost, toHost', {})
  BY <1>2, RemoveQueue, SendsNothing DEF PublicationInv, TypeInv, Sends
<1>4. /\ o \in {"unstaged", "unknown"} /\ o \in Outcomes /\ (o = "unstaged" => phase[p] = "staging")
      /\ phase[p] \in {"staging", "applying", "revoking"} /\ Settle(p, o, sent)
  BY <1>1 DEF Outcomes
<1> HIDE DEF o, sent
<1> QED
  BY <1>2, <1>3, <1>4, SettleKeeps

LEMMA StartKeeps == ASSUME PublicationInv, StartClaimed PROVE PublicationInv'
<1> DEFINE e == NextRun
           s == StartedMsg(e, target, active)
<1>1. /\ e \in Runs /\ Reserve(e, "claiming", <<s>>)
      /\ UNCHANGED <<toHost, applied, completed, staged>>
  BY DEF StartClaimed, NewRun, viewVars
<1>2. stage[e] = "new"
  BY <1>1, NextRunIsNew DEF PublicationInv
<1>3. s.type = "started" /\ s.exec = e
  BY Messages
<1>4. e = NextRun
  OBVIOUS
<1> HIDE DEF s, e
<1>5. /\ IsQueue(<<s>>) /\ \A m : Once(<<s>>, m)
      /\ \A m \in Elements(<<s>>) : StartedOf(m)
  BY <1>1, <1>3, OneMessage DEF StartedOf
<1>6. "claiming" \in Held /\ Sends(toHost, toHost', {})
  BY <1>1, QueuesStay DEF Held
<1> QED
  BY <1>1, <1>2, <1>4, <1>5, <1>6, ReserveKeeps

LEMMA RunsOfHostKeep ==
    ASSUME PublicationInv, NEW e \in Runs,
           ClaimTimeout(e) \/ Dispatch(e) \/ Admit(e) \/ Fail(e)
    PROVE  PublicationInv'
<1>1. UNCHANGED <<toHost, applied, completed, staged>>
  BY DEF ClaimTimeout, Dispatch, Admit, Fail, viewVars
<1>2. Sends(toHost, toHost', {})
  BY <1>1, QueuesStay
<1>3. CASE ClaimTimeout(e)
  BY <1>1, <1>2, <1>3, CancelKeeps DEF ClaimTimeout
<1>4. CASE Dispatch(e)
  <2>1. /\ stage[e] \in Held /\ "running" \in Held /\ stage' = [stage EXCEPT ![e] = "running"]
        /\ UNCHANGED <<active, phase, outcome, toView>>
    BY <1>4 DEF Dispatch, Held
  <2> QED
    BY <1>1, <1>2, <2>1, StepKeeps
<1>5. CASE Admit(e)
  <2>1. stage[e] \in Held /\ EndRun(e, "result") /\ UNCHANGED outcome
    BY <1>5 DEF Admit, Held
  <2> QED
    BY <1>1, <1>2, <2>1, EndKeeps
<1>6. CASE Fail(e)
  <2>1. stage[e] \in Held /\ EndRun(e, "error") /\ UNCHANGED outcome
    BY <1>6 DEF Fail, Held
  <2> QED
    BY <1>1, <1>2, <2>1, EndKeeps
<1> QED
  BY <1>3, <1>4, <1>5, <1>6

LEMMA ManualKeeps == ASSUME PublicationInv, RunManually PROVE PublicationInv'
<1>1. /\ NewRun(NextRun) /\ stage' = [stage EXCEPT ![NextRun] = "sent"]
      /\ toHost' = Append(toHost, ExecuteMsg(NextRun))
      /\ UNCHANGED <<phase, outcome, active, applied, completed, staged, toView>>
  BY DEF RunManually
<1>2. Sends(toView, toView', {}) /\ Sends(toHost, toHost', {ExecuteMsg(NextRun)})
  BY <1>1, QueuesStay, SendsOne DEF PublicationInv, TypeInv
<1> QED
  BY <1>1, <1>2, AskKeeps

(* The run the section shows is one of the runs.                           *)
RunningInv == running \in Runs \cup {NoRun}

LEMMA RunningKeeps ==
    ASSUME PublicationInv, RunningInv, [Next]_vars
    PROVE  RunningInv'
<1>1. ASSUME ReceiveView PROVE RunningInv'
  <2> DEFINE m == Head(toView)
  <2>1. ViewMsg(m)
    BY <1>1, TailQueue DEF ReceiveView, PublicationInv, TypeInv
  <2>2. m.type = "started" => m.exec \in Runs
    BY <2>1, Messages DEF ViewMsg, StartedOf
  <2>3. \/ OnStage(m.pub) \/ OnCommit(m.pub) \/ OnRevoke(m.pub)
        \/ m.type = "started" /\ OnStarted(m)
    BY <1>1 DEF ReceiveView
  <2> HIDE DEF m
  <2>4. CASE OnStage(m.pub) \/ OnRevoke(m.pub)
    BY <2>4 DEF OnStage, OnRevoke, runVars, RunningInv
  <2>5. CASE m.type = "started" /\ OnStarted(m)
    BY <2>2, <2>5 DEF OnStarted, BeginInView, runVars, RunningInv
  <2>6. CASE OnCommit(m.pub)
    <3>1. ASSUME NEW p, ApplyTerminal(p) PROVE UNCHANGED running \/ running' = NoRun
      <4>1. ApplyActive(p) => running' = NoRun
        BY DEF ApplyActive
      <4>2. ApplyRetired(p) \/ RejectTerminal(p) => UNCHANGED running
        BY DEF ApplyRetired, RejectTerminal, runVars
      <4> QED
        BY <3>1, <4>1, <4>2 DEF ApplyTerminal
    <3>2. ReadyRejected \/ ReadyWithoutRun \/ ApplyReadyFailed => UNCHANGED running
      BY DEF ReadyRejected, ReadyWithoutRun, ApplyReadyFailed, runVars
    <3>3. ReadyRunsSource => running' = NextRun /\ NextRun \in Runs
      BY DEF ReadyRunsSource, BeginInView, NewRun
    <3>4. \/ UNCHANGED runVars \/ ApplyTerminal(m.pub) \/ ApplyReady \/ ApplyReadyFailed
      BY <2>6 DEF OnCommit
    <3> QED
      BY <3>1, <3>2, <3>3, <3>4 DEF ApplyReady, runVars, RunningInv
  <2> QED
    BY <2>3, <2>4, <2>5, <2>6
<1>2. ASSUME RunManually PROVE RunningInv'
  BY <1>2 DEF RunManually, BeginInView, NewRun, RunningInv
<1>3. ASSUME CancelQuery \/ RequestOptimize PROVE RunningInv'
  BY <1>3 DEF CancelQuery, RequestOptimize, runVars, RunningInv
<1>4. ASSUME ClearTargetBoundState PROVE RunningInv'
  BY <1>4 DEF ClearTargetBoundState, RunningInv
<1>5. ASSUME UNCHANGED viewVars PROVE RunningInv'
  BY <1>5 DEF viewVars, runVars, RunningInv
<1>6. CASE UNCHANGED vars
  BY <1>5, <1>6 DEF vars
<1>7. ASSUME NEW p \in Publications, StagedExpires(p) PROVE RunningInv'
  BY <1>7 DEF StagedExpires, runVars, RunningInv
<1>8. ASSUME NEW p \in Publications,
             StagedTimeout(p) \/ Revoke(p) \/ GraceEnds(p) \/ Undelivered(p) \/ DeadlinePasses(p)
      PROVE  RunningInv'
  BY <1>5, <1>8 DEF StagedTimeout, Revoke, GraceEnds, Undelivered, DeadlinePasses
<1>9. ASSUME NEW e \in Runs, ClaimTimeout(e) \/ Dispatch(e) \/ Admit(e) \/ Fail(e)
      PROVE  RunningInv'
  BY <1>5, <1>9 DEF ClaimTimeout, Dispatch, Admit, Fail
<1>10. ASSUME StartClaimed \/ PublishReady \/ ReceiveHost \/ LoseToView \/ LoseToHost
       PROVE  RunningInv'
  BY <1>5, <1>10 DEF StartClaimed, PublishReady, ReceiveHost, LoseToView, LoseToHost
<1> QED
  BY <1>1, <1>2, <1>3, <1>4, <1>6, <1>7, <1>8, <1>9, <1>10 DEF Next

(* The steps of the webview and of the environment that concern no         *)
(* publication.                                                            *)
LEMMA OthersKeep ==
    ASSUME PublicationInv, RunningInv,
           \/ CancelQuery \/ ClearTargetBoundState \/ RequestOptimize \/ LoseToView \/ LoseToHost
           \/ \E p \in Publications : DeadlinePasses(p)
    PROVE  PublicationInv'
<1>1. CASE CancelQuery
  <2> DEFINE a == CancelMsg(running)
  <2>1. /\ toHost' = Append(toHost, a) /\ running \in Runs
        /\ UNCHANGED <<phase, outcome, stage, active, staged, applied, completed, toView>>
    BY <1>1 DEF CancelQuery, hostVars, RunningInv
  <2>2. a.type = "cancel" /\ a.exec \in Runs
    BY <2>1, Messages
  <2> HIDE DEF a
  <2>3. Sends(toView, toView', {}) /\ Sends(toHost, toHost', {a})
    BY <2>1, QueuesStay, SendsOne DEF PublicationInv, TypeInv
  <2>4. \A m \in {a} : HostMsg(m) /\ m.type \in QuietTypes \ {"execute"}
    BY <2>2 DEF HostMsg, QuietTypes
  <2> QED
    BY <2>1, <2>3, <2>4, IdleKeeps
<1>2. CASE ClearTargetBoundState
  <2> DEFINE A == IF running = NoRun THEN <<>> ELSE <<CancelMsg(running)>>
             B == IF owner THEN <<CancelOptimizeMsg>> ELSE <<>>
             t == TargetMsg(generation')
             C == {CancelMsg(running)} \ {CancelMsg(NoRun)}
             Q(s, X) == IsQueue(s) /\ Elements(s) \subseteq X /\ \A m : Once(s, m)
  <2>1. /\ toHost' = toHost \o A \o B \o <<t>>
        /\ UNCHANGED <<phase, outcome, stage, active, staged, applied, completed, toView>>
    BY <1>2 DEF ClearTargetBoundState, hostVars
  <2>2. /\ t.type = "target" /\ CancelOptimizeMsg.type = "cancelOptimize"
        /\ \A m \in C : m.type = "cancel" /\ m.exec \in Runs
    BY Messages DEF RunningInv
  <2>3. Q(A, C)
    <3>1. CASE running = NoRun
      BY <3>1, EmptyQueue
    <3>2. CASE running # NoRun
      <4>1. CancelMsg(running) \in C
        BY <3>2, Messages
      <4> QED
        BY <3>2, <4>1, OneMessage
    <3> QED
      BY <3>1, <3>2
  <2>4. Q(B, {CancelOptimizeMsg})
    <3>1. CASE owner
      BY <3>1, OneMessage
    <3>2. CASE ~owner
      BY <3>2, EmptyQueue
    <3> QED
      BY <3>1, <3>2
  <2> HIDE DEF A, B, C, t
  <2> DEFINE q1 == toHost \o A
             q2 == q1 \o B
             X == Elements(A) \cup Elements(B) \cup {t}
  <2>5. Sends(toHost, q1, Elements(A)) /\ IsQueue(q1)
    BY <2>3, SendsConcat DEF PublicationInv, TypeInv, Sends
  <2> HIDE DEF q1
  <2>6. Sends(q1, q2, Elements(B)) /\ IsQueue(q2)
    BY <2>4, <2>5, SendsConcat DEF Sends
  <2> HIDE DEF q2
  <2>7. Sends(q2, toHost', {t})
    BY <2>1, <2>6, SendsLast DEF q1, q2
  <2>8. Elements(A) \cap Elements(B) = {} /\ (Elements(A) \cup Elements(B)) \cap {t} = {}
    BY <2>2, <2>3, <2>4
  <2>9. Sends(toHost, q2, Elements(A) \cup Elements(B))
    BY <2>5, <2>6, <2>8, SendsThen
  <2>10. Sends(toHost, toHost', X)
    BY <2>7, <2>8, <2>9, SendsThen
  <2>11. \A m \in X : HostMsg(m) /\ m.type \in QuietTypes \ {"execute"}
    BY <2>2, <2>3, <2>4 DEF HostMsg, QuietTypes
  <2> HIDE DEF X
  <2> QED
    BY <2>1, <2>10, <2>11, QueuesStay, IdleKeeps
<1>3. CASE RequestOptimize
  <2>1. UNCHANGED <<phase, outcome, stage, active, staged, applied, completed, toView, toHost>>
    BY <1>3 DEF RequestOptimize
  <2> QED
    BY <2>1, QueuesStay, StillKeeps
<1>4. CASE LoseToView
  <2>1. /\ toView # <<>> /\ toView' = Tail(toView)
        /\ UNCHANGED <<phase, outcome, stage, active, staged, applied, completed, toHost>>
    BY <1>4 DEF LoseToView, hostVars, viewVars
  <2>2. Sends(toView, toView', {})
    BY <2>1, ReceivesHead DEF PublicationInv, TypeInv
  <2> QED
    BY <2>1, <2>2, QueuesStay, StillKeeps
<1>5. CASE LoseToHost
  <2>1. /\ toHost # <<>> /\ toHost' = Tail(toHost)
        /\ UNCHANGED <<phase, outcome, stage, active, staged, applied, completed, toView>>
    BY <1>5 DEF LoseToHost, hostVars, viewVars
  <2>2. Sends(toHost, toHost', {})
    BY <2>1, ReceivesHead DEF PublicationInv, TypeInv
  <2> QED
    BY <2>1, <2>2, QueuesStay, StillKeeps
<1>6. CASE \E p \in Publications : DeadlinePasses(p)
  <2>1. UNCHANGED <<phase, outcome, stage, active, staged, applied, completed, toView, toHost>>
    BY <1>6 DEF DeadlinePasses, hostVars, viewVars
  <2> QED
    BY <2>1, QueuesStay, StillKeeps
<1> QED
  BY <1>1, <1>2, <1>3, <1>4, <1>5, <1>6

-----------------------------------------------------------------------------
IInv == PublicationInv /\ RunningInv

LEMMA InitInv == Init => IInv
<1> SUFFICES ASSUME Init PROVE IInv
  OBVIOUS
<1>1. TypeInv
  BY EmptyQueue DEF Init, TypeInv, Phases, Outcomes, Stages
<1>2. TruthInv /\ OrderInv /\ BegunInv
  BY EmptyQueue, Names DEF Init, TruthInv, OrderInv, BegunInv, Begun
<1>3. ASSUME NEW p \in Followed PROVE PubInv(p)
  <2>1. p \in Publications /\ phase[p] = "idle" /\ outcome[p] = "none"
    BY DEF Followed, Init
  <2>2. toView = <<>> /\ toHost = <<>> /\ p \notin staged /\ p \notin applied
    BY DEF Init
  <2>3. ~StageOut(p) /\ ~CommitOut(p) /\ ~RevokeOut(p) /\ AcksOf(p) = {}
    BY <2>2, EmptyQueue DEF StageOut, CommitOut, RevokeOut, AcksOf
  <2>4. ~Taken(p) /\ ~Refusing(p)
    BY <2>1, <2>2, <2>3 DEF Taken, Refusing
  <2> QED
    BY <2>1, <2>2, <2>3, <2>4, EmptyQueue DEF PubInv
<1>4. RunningInv
  BY DEF Init, RunningInv
<1> QED
  BY <1>1, <1>2, <1>3, <1>4 DEF IInv, PublicationInv

LEMMA NextInv == IInv /\ [Next]_vars => IInv'
<1> SUFFICES ASSUME PublicationInv, RunningInv, [Next]_vars PROVE PublicationInv'
  BY RunningKeeps DEF IInv
<1>1. CASE UNCHANGED vars
  <2>1. UNCHANGED <<phase, outcome, stage, active, staged, applied, completed, toView, toHost>>
    BY <1>1 DEF vars, hostVars, viewVars
  <2> QED
    BY <2>1, QueuesStay, StillKeeps
<1>2. ASSUME NEW p \in Publications,
             StagedTimeout(p) \/ Revoke(p) \/ GraceEnds(p) \/ Undelivered(p) \/ StagedExpires(p)
      PROVE  PublicationInv'
  BY <1>2, TimeoutKeeps, HostRevokes, GraceKeeps, UndeliveredKeeps, ExpireKeeps
<1>3. ASSUME NEW e \in Runs, ClaimTimeout(e) \/ Dispatch(e) \/ Admit(e) \/ Fail(e)
      PROVE  PublicationInv'
  BY <1>3, RunsOfHostKeep
<1>4. CASE StartClaimed
  BY <1>4, StartKeeps
<1>5. CASE PublishReady
  BY <1>5, PublishReadyKeeps
<1>6. CASE ReceiveHost
  BY <1>6, ReceiveHostKeeps
<1>7. CASE ReceiveView
  BY <1>7, ReceiveViewKeeps
<1>8. CASE RunManually
  BY <1>8, ManualKeeps
<1>9. CASE \/ CancelQuery \/ ClearTargetBoundState \/ RequestOptimize \/ LoseToView \/ LoseToHost
           \/ \E p \in Publications : DeadlinePasses(p)
  BY <1>9, OthersKeep
<1> QED
  BY <1>1, <1>2, <1>3, <1>4, <1>5, <1>6, <1>7, <1>8, <1>9 DEF Next

(* What postKustoPublication tells its caller is true then and ever after: *)
(* what it reports as applied the section shows, and what it reports as    *)
(* refused or never staged the section never shows, whatever is lost, late *)
(* or revoked, for every number of runs, faults and events.                *)
THEOREM AnswersAreTrue == Spec => []AnswerIsTruth
<1>1. IInv => AnswerIsTruth
  <2> SUFFICES ASSUME PublicationInv, NEW p \in Publications
               PROVE  /\ outcome[p] = "applied" => p \in applied
                      /\ outcome[p] \in {"refused", "unstaged"} /\ p # Ready => p \notin applied
    BY DEF IInv, AnswerIsTruth
  <2>1. outcome[p] = "applied" => p \in applied
    BY DEF PublicationInv, TruthInv
  <2>2. ASSUME p # Ready PROVE PubInv(p)
    BY <2>2 DEF PublicationInv, Followed
  <2> QED
    BY <2>1, <2>2 DEF PubInv, Refusing
<1> QED
  BY <1>1, InitInv, NextInv, PTL DEF Spec
-----------------------------------------------------------------------------
(* The host's run is in sight.  What the argument follows is the order of  *)
(* the messages to the host: behind every message that makes the host take *)
(* up a run, or go on with it, there is one that stops it, unless the      *)
(* section shows the run.                                                  *)

Stops(m, e) == m = CancelMsg(e) \/ m.type \in {"execute", "target"}

Seen(e, i) == running = e \/ \E j \in 1..Len(toHost) : j > i /\ Stops(toHost[j], e)

(* The host takes up run e when m arrives, or goes on with it.             *)
Claims(m, e) ==
    \/ m = ExecuteMsg(e)
    \/ m.type = "startedAck" /\ m.exec = e /\ m.ok /\ stage[e] = "claiming"

Holds(e) == active = e /\ stage[e] # "claiming"

SeenInv ==
    /\ \A e \in Runs : Holds(e) => Seen(e, 0)
    /\ \A i \in 1..Len(toHost), e \in Runs : Claims(toHost[i], e) => Seen(e, i)

(* A claim names the run it replaces, which has ended.                     *)
Fresh(m) ==
    /\ m.exec \in Runs /\ stage[m.exec] # "new"
    /\ m.expected = NoRun \/ (m.expected \in Runs /\ stage[m.expected] = "ended")

ClaimInv ==
    /\ \A m \in Elements(toView) : m.type = "started" => Fresh(m)
    /\ \A m \in Elements(toHost) : m.type = "startedAck" => stage[m.exec] # "new"

HeldInv == \A e \in Runs : stage[e] \in Held => active = e

VisibleInv == ClaimInv /\ HeldInv /\ SeenInv

(* Both before and after the step. *)
Known == PublicationInv /\ PublicationInv' /\ RunningInv /\ VisibleInv

-----------------------------------------------------------------------------
(* Queues by position. *)

Extends(q, r) ==
    /\ Len(q) \in Nat /\ Len(r) \in Nat /\ Len(q) <= Len(r)
    /\ \A i \in 1..Len(q) : r[i] = q[i]

LEMMA ExtendsBy ==
    ASSUME NEW q, IsQueue(q)
    PROVE  /\ Extends(q, q)
           /\ \A x : LET r == Append(q, x) IN
                 Extends(q, r) /\ Len(r) = Len(q) + 1 /\ r[Len(q) + 1] = x
           /\ \A s : IsQueue(s) =>
                 LET r == q \o s IN
                 /\ Extends(q, r) /\ Len(r) = Len(q) + Len(s) /\ Len(s) \in Nat
                 /\ \A k \in 1..Len(s) : r[Len(q) + k] = s[k]
<1>1. Extends(q, q)
  BY DEF IsQueue, Extends
<1>2. ASSUME NEW x
      PROVE  LET r == Append(q, x) IN
             Extends(q, r) /\ Len(r) = Len(q) + 1 /\ r[Len(q) + 1] = x
  <2> DEFINE S == Elements(q) \cup {x}
  <2>1. q \in Seq(S) /\ x \in S
    BY QueueIn
  <2> QED
    BY <2>1 DEF Extends
<1>3. ASSUME NEW s, IsQueue(s)
      PROVE  LET r == q \o s IN
             /\ Extends(q, r) /\ Len(r) = Len(q) + Len(s) /\ Len(s) \in Nat
             /\ \A k \in 1..Len(s) : r[Len(q) + k] = s[k]
  <2> DEFINE S == Elements(q) \cup Elements(s)
             r == q \o s
  <2>1. q \in Seq(S) /\ s \in Seq(S)
    BY <1>3, QueueIn
  <2> HIDE DEF S
  <2>2. /\ r \in Seq(S) /\ Len(r) = Len(q) + Len(s) /\ Len(q) \in Nat /\ Len(s) \in Nat
        /\ \A i \in 1..Len(r) : r[i] = IF i <= Len(q) THEN q[i] ELSE s[i - Len(q)]
    BY <2>1
  <2> HIDE DEF r
  <2>3. \A i \in 1..Len(q) : i \in 1..Len(r) /\ r[i] = q[i]
    BY <2>2
  <2>4. \A k \in 1..Len(s) : r[Len(q) + k] = s[k]
    <3>1. ASSUME NEW k \in 1..Len(s) PROVE r[Len(q) + k] = s[k]
      <4>1. Len(q) + k \in 1..Len(r) /\ ~(Len(q) + k <= Len(q)) /\ Len(q) + k - Len(q) = k
        BY <2>2
      <4> QED
        BY <2>2, <4>1
    <3> QED
      BY <3>1
  <2> QED
    BY <2>2, <2>3, <2>4 DEF Extends, r
<1> QED
  BY <1>1, <1>2, <1>3

LEMMA TailShifts ==
    ASSUME NEW q, IsQueue(q), q # <<>>
    PROVE  LET r == Tail(q) IN
           /\ Len(q) \in Nat /\ Len(r) \in Nat /\ Len(q) = Len(r) + 1
           /\ \A i \in 1..Len(r) : r[i] = q[i + 1] /\ i + 1 \in 1..Len(q)
           /\ Head(q) = q[1]
<1>1. q \in Seq(Elements(q))
  BY DEF IsQueue
<1> QED
  BY <1>1

(* Messages are added, if any: a run that is in sight stays in sight, ends *)
(* or is stopped by what is added.                                         *)
LEMMA SeenMore ==
    ASSUME Known, Extends(toHost, toHost'),
           \A e \in Runs : Holds(e)' => Holds(e),
           \A e \in Runs : stage'[e] = "claiming" => stage[e] \in {"claiming", "new"},
           \A e \in Runs : running = e =>
               \/ running' = e \/ stage'[e] = "ended"
               \/ \E j \in 1..Len(toHost') : j > Len(toHost) /\ Stops(toHost'[j], e),
           \A i \in 1..Len(toHost'), e \in Runs :
               i > Len(toHost) /\ Claims(toHost[i], e)' => running' = e
    PROVE  SeenInv'
<1>1. /\ Len(toHost) \in Nat /\ Len(toHost') \in Nat /\ Len(toHost) <= Len(toHost')
      /\ \A i \in 1..Len(toHost) : toHost'[i] = toHost[i] /\ i \in 1..Len(toHost')
  BY DEF Extends
<1>2. ASSUME NEW e \in Runs, NEW i \in 0..Len(toHost), Seen(e, i), stage'[e] # "ended"
      PROVE  Seen(e, i)'
  BY <1>1, <1>2 DEF Seen
<1>3. ASSUME NEW e \in Runs, Holds(e)' PROVE Seen(e, 0)'
  <2>1. stage'[e] # "ended"
    BY <1>3 DEF Holds, Known, PublicationInv, OrderInv, Runs, NoRun
  <2>2. Seen(e, 0) /\ 0 \in 0..Len(toHost)
    BY <1>1, <1>3 DEF Known, VisibleInv, SeenInv
  <2> QED
    BY <1>2, <2>1, <2>2
<1>4. ASSUME NEW i \in 1..Len(toHost'), NEW e \in Runs, Claims(toHost[i], e)'
      PROVE  Seen(e, i)'
  <2>1. CASE i > Len(toHost)
    BY <1>4, <2>1 DEF Seen
  <2>2. CASE i <= Len(toHost)
    <3>1. i \in 1..Len(toHost) /\ i \in 0..Len(toHost) /\ toHost'[i] = toHost[i]
      BY <1>1, <2>2
    <3>2. toHost[i] \in Elements(toHost) /\ toHost'[i] \in Elements(toHost')
      BY <3>1 DEF Elements
    <3>3. stage'[e] # "ended"
      BY <1>4, <3>2 DEF Claims, Known, PublicationInv, OrderInv
    <3>4. toHost[i].type = "startedAck" /\ toHost[i].exec = e => stage[e] # "new"
      BY <3>2 DEF Known, VisibleInv, ClaimInv
    <3>5. Claims(toHost[i], e)
      BY <1>4, <3>1, <3>4 DEF Claims
    <3> QED
      BY <1>2, <3>1, <3>3, <3>5 DEF Known, VisibleInv, SeenInv
  <2> QED
    BY <1>1, <2>1, <2>2
<1> QED
  BY <1>3, <1>4 DEF SeenInv

(* The first message is taken, or lost. *)
LEMMA SeenLess ==
    ASSUME Known, toHost # <<>>, toHost' = Tail(toHost), UNCHANGED running,
           \A e \in Runs : Holds(e)' =>
               Claims(Head(toHost), e) \/ (Holds(e) /\ ~Stops(Head(toHost), e)),
           \A e \in Runs : stage'[e] = "claiming" => stage[e] = "claiming"
    PROVE  SeenInv'
<1>1. /\ Len(toHost) \in Nat /\ Len(toHost') \in Nat /\ Len(toHost) = Len(toHost') + 1
      /\ \A i \in 1..Len(toHost') : toHost'[i] = toHost[i + 1] /\ i + 1 \in 1..Len(toHost)
      /\ Head(toHost) = toHost[1]
  BY TailShifts DEF Known, PublicationInv, TypeInv
<1>2. \A j \in 1..Len(toHost) : j > 1 => j - 1 \in 1..Len(toHost') /\ toHost'[j - 1] = toHost[j]
  <2>1. ASSUME NEW j \in 1..Len(toHost), j > 1
        PROVE  j - 1 \in 1..Len(toHost') /\ toHost'[j - 1] = toHost[j]
    <3>1. j - 1 \in 1..Len(toHost') /\ j - 1 + 1 = j
      BY <1>1, <2>1
    <3> QED
      BY <1>1, <3>1
  <2> QED
    BY <2>1
<1>3. ASSUME NEW e \in Runs, NEW i \in 0..Len(toHost'), Seen(e, i + 1) PROVE Seen(e, i)'
  <2>1. CASE running = e
    BY <2>1 DEF Seen
  <2>2. ASSUME NEW j \in 1..Len(toHost), j > i + 1, Stops(toHost[j], e) PROVE Seen(e, i)'
    <3>1. j - 1 \in 1..Len(toHost') /\ toHost'[j - 1] = toHost[j] /\ j - 1 > i
      BY <1>1, <1>2, <2>2
    <3> QED
      BY <2>2, <3>1 DEF Seen, Stops
  <2> QED
    BY <1>3, <2>1, <2>2 DEF Seen
<1>4. ASSUME NEW e \in Runs, Holds(e)' PROVE Seen(e, 0)'
  <2>1. Seen(e, 1)
    <3>1. CASE Claims(Head(toHost), e)
      <4>1. 1 \in 1..Len(toHost)
        BY <1>1
      <4> QED
        BY <1>1, <3>1, <4>1 DEF Known, VisibleInv, SeenInv
    <3>2. CASE Holds(e) /\ ~Stops(Head(toHost), e)
      <4>1. Seen(e, 0)
        BY <3>2 DEF Known, VisibleInv, SeenInv
      <4>2. CASE running = e
        BY <4>2 DEF Seen
      <4>3. ASSUME NEW j \in 1..Len(toHost), Stops(toHost[j], e) PROVE Seen(e, 1)
        <5>1. j > 1
          BY <1>1, <3>2, <4>3
        <5> QED
          BY <4>3, <5>1 DEF Seen
      <4> QED
        BY <4>1, <4>2, <4>3 DEF Seen
    <3> QED
      BY <1>4, <3>1, <3>2
  <2> QED
    BY <1>1, <1>3, <2>1
<1>5. ASSUME NEW i \in 1..Len(toHost'), NEW e \in Runs, Claims(toHost[i], e)'
      PROVE  Seen(e, i)'
  <2>1. i + 1 \in 1..Len(toHost) /\ i \in 0..Len(toHost') /\ toHost'[i] = toHost[i + 1]
    BY <1>1
  <2>2. Claims(toHost[i + 1], e)
    BY <1>5, <2>1 DEF Claims
  <2> QED
    BY <1>3, <2>1, <2>2 DEF Known, VisibleInv, SeenInv
<1> QED
  BY <1>4, <1>5 DEF SeenInv

-----------------------------------------------------------------------------
(* Steps. *)

StageGoesOn ==
    /\ \A e \in Runs : stage[e] # "new" => stage'[e] # "new"
    /\ \A e \in Runs : stage[e] = "ended" => stage'[e] = "ended"

NothingClaimed == \A m \in Elements(toView') : m.type = "started" => m \in Elements(toView)

LEMMA ClaimKeeps ==
    ASSUME Known, StageGoesOn,
           \A m \in Elements(toView') : m.type = "started" => m \in Elements(toView) \/ Fresh(m)',
           \A m \in Elements(toHost') :
               m.type = "startedAck" => m \in Elements(toHost) \/ stage'[m.exec] # "new"
    PROVE  ClaimInv'
<1>1. ASSUME NEW m \in Elements(toView'), m.type = "started" PROVE Fresh(m)'
  <2>1. CASE m \in Elements(toView)
    <3>1. Fresh(m)
      BY <1>1, <2>1 DEF Known, VisibleInv, ClaimInv
    <3> QED
      BY <3>1 DEF Fresh, StageGoesOn
  <2> QED
    BY <1>1, <2>1
<1>2. ASSUME NEW m \in Elements(toHost'), m.type = "startedAck" PROVE stage'[m.exec] # "new"
  <2>1. CASE m \in Elements(toHost)
    <3>1. HostMsg(m)
      BY <2>1 DEF Known, PublicationInv, TypeInv
    <3>2. m.exec \in Runs
      BY <1>2, <3>1, Messages DEF HostMsg
    <3> QED
      BY <1>2, <2>1, <3>2 DEF Known, VisibleInv, ClaimInv, StageGoesOn
  <2> QED
    BY <1>2, <2>1
<1> QED
  BY <1>1, <1>2 DEF ClaimInv

(* The host does something on its own. *)
LEMMA HostAlone ==
    ASSUME Known, UNCHANGED <<toHost, running>>, StageGoesOn, HeldInv',
           \A m \in Elements(toView') : m.type = "started" => m \in Elements(toView) \/ Fresh(m)',
           \A e \in Runs : Holds(e)' => Holds(e),
           \A e \in Runs : stage'[e] = "claiming" => stage[e] \in {"claiming", "new"}
    PROVE  VisibleInv'
<1>1. ClaimInv'
  BY ClaimKeeps
<1>2. Extends(toHost, toHost')
  BY ExtendsBy DEF Known, PublicationInv, TypeInv
<1>3. ~(\E i \in 1..Len(toHost') : i > Len(toHost))
  BY <1>2 DEF Extends
<1>4. SeenInv'
  BY <1>2, <1>3, SeenMore
<1> QED
  BY <1>1, <1>4 DEF VisibleInv

(* The host takes a message, or it is lost. *)
LEMMA HostTakes ==
    ASSUME Known, toHost # <<>>, toHost' = Tail(toHost), UNCHANGED running, StageGoesOn, HeldInv',
           NothingClaimed,
           \A e \in Runs : Holds(e)' =>
               Claims(Head(toHost), e) \/ (Holds(e) /\ ~Stops(Head(toHost), e)),
           \A e \in Runs : stage'[e] = "claiming" => stage[e] = "claiming"
    PROVE  VisibleInv'
<1>1. Elements(toHost') \subseteq Elements(toHost)
  BY TailQueue DEF Known, PublicationInv, TypeInv
<1>2. ClaimInv'
  BY <1>1, ClaimKeeps DEF NothingClaimed
<1>3. SeenInv'
  BY SeenLess
<1> QED
  BY <1>2, <1>3 DEF VisibleInv

LEMMA StageStays ==
    ASSUME Known, UNCHANGED <<stage, active>>
    PROVE  /\ StageGoesOn /\ HeldInv' /\ \A e \in Runs : Holds(e)' <=> Holds(e)
           /\ \A e \in Runs : stage'[e] = "claiming" => stage[e] = "claiming"
BY DEF StageGoesOn, Known, VisibleInv, HeldInv, Holds

(* Nothing of this is concerned. *)
LEMMA VisibleStays ==
    ASSUME Known, UNCHANGED <<stage, active, running, toHost>>, NothingClaimed
    PROVE  VisibleInv'
BY StageStays, HostAlone DEF NothingClaimed

Ended(e) == active' = NoRun /\ stage' = [stage EXCEPT ![e] = "ended"]

LEMMA EndedRun ==
    ASSUME Known, NEW e \in Runs, stage[e] \in Held, Ended(e)
    PROVE  /\ StageGoesOn /\ HeldInv' /\ \A d \in Runs : ~Holds(d)'
           /\ \A d \in Runs : stage'[d] = "claiming" => stage[d] = "claiming"
<1>1. \A d \in Runs : d # NoRun
  BY DEF Runs, NoRun
<1>2. stage' = [stage EXCEPT ![e] = "ended"] /\ stage \in [Runs -> Stages] /\ active = e
  BY DEF Ended, Known, PublicationInv, TypeInv, VisibleInv, HeldInv
<1>3. \A d \in Runs : ~Holds(d)'
  BY <1>1 DEF Holds, Ended
<1>4. \A d \in Runs : stage'[d] \notin Held
  BY <1>2 DEF Known, VisibleInv, HeldInv, Held
<1>5. StageGoesOn
  BY <1>2 DEF StageGoesOn, Held
<1> QED
  BY <1>3, <1>4, <1>5 DEF HeldInv, Held

(* A run gives up the section: EndRun. *)
LEMMA EndVisible ==
    ASSUME Known, NEW e \in Runs, stage[e] \in Held, NEW k, EndRun(e, k), UNCHANGED running,
           UNCHANGED toHost \/ (toHost # <<>> /\ toHost' = Tail(toHost))
    PROVE  VisibleInv'
<1>1. Ended(e) /\ toView' = Append(toView, StageMsg(Terminal(e, 1)))
  BY DEF EndRun, Ended
<1>2. NothingClaimed
  <2>1. Elements(toView') = Elements(toView) \cup {StageMsg(Terminal(e, 1))}
    BY <1>1, AppendQueue DEF Known, PublicationInv, TypeInv
  <2> QED
    BY <2>1, Messages DEF NothingClaimed
<1>3. CASE UNCHANGED toHost
  BY <1>1, <1>2, <1>3, EndedRun, HostAlone DEF NothingClaimed
<1>4. CASE toHost # <<>> /\ toHost' = Tail(toHost)
  BY <1>1, <1>2, <1>4, EndedRun, HostTakes
<1> QED
  BY <1>3, <1>4

(* The host. *)

LEMMA SettleSends ==
    ASSUME Known, NEW p \in Publications, NEW o, NEW sent, Settle(p, o, sent),
           Sends(toView, sent, {})
    PROVE  NothingClaimed /\ UNCHANGED <<stage, active>>
<1> DEFINE next == FollowUp(p, o)
           s == StageAll(next)
<1>1. toView' = sent \o s /\ UNCHANGED <<stage, active>>
  BY DEF Settle
<1>2. next = {} \/ \E q : next = {q}
  BY FollowUpIsOne
<1> HIDE DEF next
<1>3. IsQueue(s) /\ \A m \in Elements(s) : m.type = "stage"
  <2>1. CASE next = {}
    BY <2>1, StageOne, EmptyQueue
  <2>2. ASSUME NEW q, next = {q} PROVE IsQueue(s) /\ \A m \in Elements(s) : m.type = "stage"
    <3>1. s = <<StageMsg(q)>> /\ StageMsg(q).type = "stage"
      BY <2>2, StageOne, Messages
    <3> QED
      BY <3>1, OneMessage
  <2> QED
    BY <1>2, <2>1, <2>2
<1> HIDE DEF s
<1>4. Elements(toView') = Elements(sent) \cup Elements(s)
  BY <1>1, <1>3, ConcatQueue DEF Sends
<1>5. Elements(sent) \subseteq Elements(toView)
  BY DEF Sends
<1> QED
  BY <1>1, <1>3, <1>4, <1>5 DEF NothingClaimed

(* What is appended to the messages for the webview is no claim. *)
LEMMA NoClaim ==
    ASSUME Known
    PROVE  /\ UNCHANGED toView => NothingClaimed
           /\ toView # <<>> /\ toView' = Tail(toView) => NothingClaimed
           /\ \A p : toView' = Append(toView, CommitMsg(p)) => NothingClaimed
           /\ \A p : toView' = Append(toView, RevokeMsg(p)) => NothingClaimed
           /\ \A p : toView' = Append(toView, StageMsg(p)) => NothingClaimed
<1>1. IsQueue(toView)
  BY DEF Known, PublicationInv, TypeInv
<1>2. toView # <<>> => Elements(Tail(toView)) \subseteq Elements(toView)
  BY <1>1, TailQueue
<1>3. ASSUME NEW m, m.type # "started", toView' = Append(toView, m) PROVE NothingClaimed
  <2>1. Elements(toView') = Elements(toView) \cup {m}
    BY <1>1, <1>3, AppendQueue
  <2> QED
    BY <1>3, <2>1 DEF NothingClaimed
<1>4. \A p : /\ CommitMsg(p).type # "started" /\ RevokeMsg(p).type # "started"
             /\ StageMsg(p).type # "started"
  BY Messages
<1> QED
  BY <1>2, <1>3, <1>4 DEF NothingClaimed

LEMMA ReserveVisible ==
    ASSUME Known, NEW e \in Runs, NEW to \in Held, NEW sent, Reserve(e, to, sent),
           stage[e] \in {"new", "sent"}
    PROVE  /\ StageGoesOn /\ HeldInv'
           /\ \A d \in Runs : Holds(d)' => d = e /\ to # "claiming"
           /\ \A d \in Runs : stage'[d] = "claiming" => d = e /\ to = "claiming"
           /\ active \in Runs => stage'[active] = "ended"
           /\ stage'[e] = to
           /\ IsQueue(sent) =>
                 \A m \in Elements(toView') :
                     m.type = "started" => m \in Elements(toView) \cup Elements(sent)
<1>1. /\ active' = e /\ e # NoRun /\ stage \in [Runs -> Stages] /\ active \in Runs \cup {NoRun}
      /\ IsQueue(toView) /\ HeldInv
      /\ active # NoRun => stage[active] \in Held
  BY DEF Reserve, Runs, NoRun, Known, PublicationInv, TypeInv, OrderInv, VisibleInv, Held
<1>2. CASE active = NoRun
  <2>1. stage' = [stage EXCEPT ![e] = to] /\ toView' = toView \o sent
    BY <1>2 DEF Reserve
  <2>2. \A d \in Runs : stage[d] \notin Held
    BY <1>1, <1>2 DEF HeldInv, Runs, NoRun
  <2>3. \A d \in Runs : stage'[d] \in Held => d = e
    BY <1>1, <2>1, <2>2
  <2>4. stage'[e] = to /\ StageGoesOn
    BY <1>1, <2>1 DEF StageGoesOn, Held
  <2>5. IsQueue(sent) => Elements(toView') = Elements(toView) \cup Elements(sent)
    BY <1>1, <2>1, ConcatQueue
  <2>6. active \notin Runs
    BY <1>2 DEF Runs, NoRun
  <2> QED
    BY <1>1, <2>3, <2>4, <2>5, <2>6 DEF HeldInv, Holds, Held
<1>3. CASE active # NoRun
  <2> DEFINE a == active
             s == StageMsg(Terminal(a, 1))
             r == Append(toView, s)
  <2>1. a \in Runs /\ stage[a] \in Held /\ a # e
    BY <1>1, <1>3 DEF Held
  <2>2. stage' = [stage EXCEPT ![a] = "ended", ![e] = to] /\ toView' = r \o sent
    BY <1>3 DEF Reserve
  <2>3. \A d \in Runs : d # a => stage[d] \notin Held
    BY <1>1 DEF HeldInv
  <2>4. s.type = "stage"
    BY Messages
  <2>5. IsQueue(r) /\ Elements(r) = Elements(toView) \cup {s}
    BY <1>1, AppendQueue
  <2> HIDE DEF a, s, r
  <2>6. stage' = [d \in Runs |-> IF d = e THEN to ELSE IF d = a THEN "ended" ELSE stage[d]]
    BY <1>1, <2>1, <2>2
  <2>7. \A d \in Runs : stage'[d] \in Held => d = e
    BY <2>1, <2>3, <2>6 DEF Held
  <2>8. stage'[e] = to /\ stage'[a] = "ended" /\ StageGoesOn
    BY <2>1, <2>6 DEF StageGoesOn, Held
  <2>9. IsQueue(sent) => Elements(toView') = Elements(toView) \cup {s} \cup Elements(sent)
    BY <2>2, <2>5, ConcatQueue
  <2>10. a = active
    BY DEF a
  <2> QED
    BY <1>1, <2>4, <2>7, <2>8, <2>9, <2>10 DEF HeldInv, Holds, Held
<1> QED
  BY <1>2, <1>3

LEMMA StartVisible == ASSUME Known, StartClaimed PROVE VisibleInv'
<1> PICK e : e = NextRun
  OBVIOUS
<1> PICK s : s = StartedMsg(e, target, active)
  OBVIOUS
<1>1. e \in Runs /\ Reserve(e, "claiming", <<s>>) /\ UNCHANGED <<toHost, running>>
  BY DEF StartClaimed, NewRun, viewVars, runVars
<1>2. stage[e] = "new"
  BY <1>1, NextRunIsNew DEF Known, PublicationInv
<1>3. s.type = "started" /\ s.exec = e /\ s.expected = active
  BY DEF StartedMsg
<1>4. active \in Runs \cup {NoRun}
  BY DEF Known, PublicationInv, TypeInv
<1>5. IsQueue(<<s>>) /\ Elements(<<s>>) = {s}
  BY OneMessage
<1>6. "claiming" \in Held
  BY DEF Held
<1>7. /\ StageGoesOn /\ HeldInv' /\ \A d \in Runs : ~Holds(d)'
      /\ \A d \in Runs : stage'[d] = "claiming" => d = e
      /\ active \in Runs => stage'[active] = "ended"
      /\ stage'[e] = "claiming"
      /\ \A m \in Elements(toView') : m.type = "started" => m \in Elements(toView) \cup {s}
  BY <1>1, <1>2, <1>5, <1>6, ReserveVisible
<1>8. Fresh(s)'
  BY <1>1, <1>3, <1>4, <1>7 DEF Fresh
<1> QED
  BY <1>1, <1>2, <1>7, <1>8, HostAlone

LEMMA CancelVisible ==
    ASSUME Known, NEW e \in Runs, CancelExpected(e), UNCHANGED running,
           \/ UNCHANGED toHost
           \/ toHost # <<>> /\ toHost' = Tail(toHost)
              /\ \A d \in Runs : Stops(Head(toHost), d) => d = e
    PROVE  VisibleInv'
<1>1. CASE active = e
  <2>1. stage[e] \in Held
    BY <1>1 DEF Known, PublicationInv, OrderInv, Held, Runs, NoRun
  <2>2. EndRun(e, "cancelled")
    BY <1>1 DEF CancelExpected
  <2> QED
    BY <2>1, <2>2, EndVisible
<1>2. CASE active # e
  <2>1. UNCHANGED <<stage, active, toView>>
    BY <1>2 DEF CancelExpected, hostVars
  <2>2. NothingClaimed
    BY <2>1, NoClaim
  <2>3. CASE UNCHANGED toHost
    BY <2>1, <2>2, <2>3, VisibleStays
  <2>4. CASE toHost # <<>> /\ toHost' = Tail(toHost)
             /\ \A d \in Runs : Stops(Head(toHost), d) => d = e
    <3>1. \A d \in Runs : Holds(d) => ~Stops(Head(toHost), d)
      BY <1>2, <2>4 DEF Holds
    <3> QED
      BY <2>1, <2>2, <2>4, <3>1, StageStays, HostTakes
  <2> QED
    BY <2>3, <2>4
<1> QED
  BY <1>1, <1>2

LEMMA ReceiveHostVisible == ASSUME Known, ReceiveHost PROVE VisibleInv'
<1> PICK m : m = Head(toHost)
  OBVIOUS
<1>1. /\ toHost # <<>> /\ toHost' = Tail(toHost) /\ UNCHANGED running
      /\ IsQueue(toHost) /\ IsQueue(toView)
  BY DEF ReceiveHost, viewVars, runVars, Known, PublicationInv, TypeInv
<1>2. m \in Elements(toHost) /\ HostMsg(m)
  BY <1>1, TailQueue DEF Known, PublicationInv, TypeInv
<1>3. /\ m.type = "ack" => Acknowledged(m)
      /\ m.type = "startedAck" => Claimed(m.exec, m.ok)
      /\ m.type = "execute" => Reserve(m.exec, "dispatching", <<>>)
      /\ m.type = "cancel" => CancelExpected(m.exec)
      /\ m.type = "cancelOptimize" => UNCHANGED <<stage, active, toView>>
      /\ m.type = "target" => AdoptTarget(m.generation)
  BY DEF ReceiveHost
<1>4. /\ \A d \in Runs : m.type \notin {"cancel", "execute", "target"} => ~Stops(m, d)
      /\ \A d \in Runs : m.type = "cancel" /\ Stops(m, d) => d = m.exec
  BY Messages DEF Stops
<1>5. ASSUME UNCHANGED <<stage, active>>, NothingClaimed,
             \A d \in Runs : Holds(d) => ~Stops(m, d)
      PROVE  VisibleInv'
  BY <1>1, <1>5, StageStays, HostTakes
<1>6. CASE m.type = "ack" /\ m.pub \in Publications
  <2>1. Acknowledged(m) /\ Sends(toView, toView, {})
    BY <1>1, <1>3, <1>6, SendsNothing
  <2>2. CASE /\ toView' = Append(toView, CommitMsg(m.pub)) /\ UNCHANGED <<stage, active>>
    BY <1>4, <1>5, <1>6, <2>2, NoClaim
  <2>3. CASE \E o : Settle(m.pub, o, toView)
    BY <1>4, <1>5, <1>6, <2>1, <2>3, SettleSends
  <2>4. CASE UNCHANGED <<hostVars, toView>>
    BY <1>4, <1>5, <1>6, <2>4, NoClaim DEF hostVars
  <2> QED
    BY <2>1, <2>2, <2>3, <2>4 DEF Acknowledged
<1>7. ASSUME NEW e \in Runs, m = ExecuteMsg(e) PROVE VisibleInv'
  <2>1. Reserve(e, "dispatching", <<>>)
    BY <1>3, <1>7, Messages
  <2>2. stage[e] = "sent"
    BY <1>2, <1>7 DEF Known, PublicationInv, OrderInv
  <2>3. "dispatching" \in Held /\ IsQueue(<<>>) /\ Elements(<<>>) = {}
    BY EmptyQueue DEF Held
  <2>4. /\ StageGoesOn /\ HeldInv' /\ \A d \in Runs : Holds(d)' => d = e
        /\ \A d \in Runs : stage'[d] # "claiming"
        /\ NothingClaimed
    BY <2>1, <2>2, <2>3, ReserveVisible DEF NothingClaimed
  <2>5. Claims(Head(toHost), e)
    BY <1>7 DEF Claims
  <2> QED
    BY <1>1, <2>4, <2>5, HostTakes
<1>8. CASE m.type = "startedAck" /\ m.exec \in Runs
  <2> PICK e \in Runs : e = m.exec
    BY <1>8
  <2>1. Claimed(e, m.ok)
    BY <1>3, <1>8
  <2>2. CASE stage[e] # "claiming"
    <3>1. UNCHANGED <<stage, active, toView>>
      BY <2>1, <2>2 DEF Claimed, hostVars
    <3> QED
      BY <1>4, <1>5, <1>8, <3>1, NoClaim
  <2>3. CASE stage[e] = "claiming" /\ m.ok
    <3>1. stage' = [stage EXCEPT ![e] = "dispatching"] /\ UNCHANGED <<active, toView>>
      BY <2>1, <2>3 DEF Claimed
    <3>2. stage \in [Runs -> Stages] /\ HeldInv
      BY DEF Known, PublicationInv, TypeInv, VisibleInv
    <3>3. /\ StageGoesOn /\ HeldInv'
          /\ \A d \in Runs : stage'[d] = "claiming" => stage[d] = "claiming"
      BY <2>3, <3>1, <3>2 DEF StageGoesOn, HeldInv, Held
    <3>4. Claims(Head(toHost), e)
      BY <1>8, <2>3 DEF Claims
    <3>5. \A d \in Runs : Holds(d)' => d = e \/ Holds(d)
      BY <3>1, <3>2 DEF Holds
    <3>6. \A d \in Runs : ~Stops(Head(toHost), d)
      BY <1>4, <1>8
    <3> QED
      BY <1>1, <3>1, <3>3, <3>4, <3>5, <3>6, HostTakes, NoClaim
  <2>4. CASE stage[e] = "claiming" /\ ~m.ok
    <3>1. CancelExpected(e)
      BY <2>1, <2>4 DEF Claimed
    <3>2. \A d \in Runs : ~Stops(Head(toHost), d)
      BY <1>4, <1>8
    <3> QED
      BY <1>1, <3>1, <3>2, CancelVisible
  <2> QED
    BY <2>2, <2>3, <2>4
<1>9. CASE m.type = "cancel" /\ m.exec \in Runs
  <2> PICK e \in Runs : e = m.exec
    BY <1>9
  <2>1. CancelExpected(e) /\ \A d \in Runs : Stops(Head(toHost), d) => d = e
    BY <1>3, <1>4, <1>9
  <2> QED
    BY <1>1, <2>1, CancelVisible
<1>10. CASE m.type = "cancelOptimize"
  BY <1>3, <1>4, <1>5, <1>10, NoClaim
<1>11. CASE m.type = "target"
  <2> PICK e : e = active
    OBVIOUS
  <2>1. AdoptTarget(m.generation)
    BY <1>3, <1>11
  <2>2. CASE e # NoRun
    <3>1. e \in Runs /\ stage[e] \in Held
      BY <2>2 DEF Known, PublicationInv, TypeInv, OrderInv, Held
    <3>2. EndRun(e, "cancelled")
      BY <2>1, <2>2 DEF AdoptTarget
    <3> QED
      BY <1>1, <3>1, <3>2, EndVisible
  <2>3. CASE e = NoRun
    <3>1. UNCHANGED <<stage, active, toView>>
      BY <2>1, <2>3 DEF AdoptTarget
    <3>2. \A d \in Runs : ~Holds(d)
      BY <2>3 DEF Holds, Runs, NoRun
    <3> QED
      BY <1>5, <3>1, <3>2, NoClaim
  <2> QED
    BY <2>2, <2>3
<1> QED
  BY <1>2, <1>6, <1>7, <1>8, <1>9, <1>10, <1>11 DEF HostMsg

(* What the host, its timers and the transport do besides. *)
LEMMA HostVisible ==
    ASSUME Known,
           \/ \E p \in Publications : \/ StagedTimeout(p) \/ Revoke(p) \/ GraceEnds(p)
                                      \/ Undelivered(p) \/ DeadlinePasses(p)
           \/ PublishReady \/ RequestOptimize \/ LoseToView \/ LoseToHost \/ UNCHANGED vars
    PROVE  VisibleInv'
<1>1. IsQueue(toView) /\ IsQueue(toHost) /\ Sends(toView, toView, {})
  BY SendsNothing DEF Known, PublicationInv, TypeInv
<1>2. ASSUME NEW p \in Publications, NEW o, NEW sent, Settle(p, o, sent),
             Sends(toView, sent, {}), UNCHANGED <<toHost, viewVars>>
      PROVE  VisibleInv'
  BY <1>2, SettleSends, VisibleStays DEF viewVars, runVars
<1>3. ASSUME NEW p \in Publications, StagedTimeout(p) \/ GraceEnds(p) PROVE VisibleInv'
  BY <1>1, <1>2, <1>3 DEF StagedTimeout, GraceEnds
<1>4. ASSUME NEW p \in Publications, Undelivered(p) PROVE VisibleInv'
  <2>0. PICK i \in 1..Len(toView) : \E o : Settle(p, o, RemoveAt(toView, i))
    BY <1>4 DEF Undelivered
  <2>1. PICK o : Settle(p, o, RemoveAt(toView, i))
    BY <2>0
  <2>2. Sends(toView, RemoveAt(toView, i), {})
    BY <1>1, RemoveQueue DEF Sends
  <2>3. UNCHANGED <<toHost, viewVars>>
    BY <1>4 DEF Undelivered
  <2> QED
    BY <1>2, <2>1, <2>2, <2>3
<1>5. ASSUME NEW p \in Publications, Revoke(p) \/ DeadlinePasses(p) PROVE VisibleInv'
  BY <1>5, NoClaim, VisibleStays DEF Revoke, DeadlinePasses, viewVars, runVars, hostVars
<1>6. CASE PublishReady \/ RequestOptimize \/ LoseToView
  BY <1>6, NoClaim, VisibleStays DEF PublishReady, RequestOptimize, LoseToView, viewVars, runVars,
     hostVars
<1>7. CASE UNCHANGED vars
  BY <1>7, NoClaim, VisibleStays DEF vars, viewVars, runVars, hostVars
<1>8. CASE LoseToHost
  <2> PICK m : m = Head(toHost)
    OBVIOUS
  <2>1. /\ toHost # <<>> /\ toHost' = Tail(toHost) /\ TransactionOf(m) # NoPublication
        /\ UNCHANGED <<stage, active, running, toView>>
    BY <1>8 DEF LoseToHost, Trouble, viewVars, runVars, hostVars
  <2>2. \A d \in Runs : ~Stops(m, d)
    BY <2>1, Messages DEF TransactionOf, Stops
  <2> QED
    BY <2>1, <2>2, NoClaim, StageStays, HostTakes
<1> QED
  BY <1>3, <1>4, <1>5, <1>6, <1>7, <1>8

LEMMA RunsVisible ==
    ASSUME Known, NEW e \in Runs, ClaimTimeout(e) \/ Dispatch(e) \/ Admit(e) \/ Fail(e)
    PROVE  VisibleInv'
<1>1. UNCHANGED <<toHost, running>>
  BY DEF ClaimTimeout, Dispatch, Admit, Fail, viewVars, runVars
<1>2. CASE ClaimTimeout(e)
  BY <1>1, <1>2, CancelVisible DEF ClaimTimeout
<1>3. CASE Dispatch(e)
  <2>1. /\ stage[e] = "dispatching" /\ stage' = [stage EXCEPT ![e] = "running"]
        /\ UNCHANGED <<active, toView>>
    BY <1>3 DEF Dispatch
  <2>2. stage \in [Runs -> Stages] /\ HeldInv
    BY DEF Known, PublicationInv, TypeInv, VisibleInv
  <2>3. /\ StageGoesOn /\ HeldInv' /\ \A d \in Runs : Holds(d)' => Holds(d)
        /\ \A d \in Runs : stage'[d] = "claiming" => stage[d] = "claiming"
    BY <2>1, <2>2 DEF StageGoesOn, HeldInv, Held, Holds
  <2> QED
    BY <1>1, <2>1, <2>3, HostAlone, NoClaim DEF NothingClaimed
<1>4. CASE Admit(e) \/ Fail(e)
  <2>1. stage[e] \in Held /\ \E k : EndRun(e, k)
    BY <1>4 DEF Admit, Fail, Held
  <2> QED
    BY <1>1, <2>1, EndVisible
<1> QED
  BY <1>2, <1>3, <1>4

(* The webview. *)

LEMMA OneConcat ==
    ASSUME NEW q, IsQueue(q), NEW x
    PROVE  IsQueue(<<x>>) /\ Elements(<<x>>) = {x} /\ Append(q, x) = q \o <<x>>
<1> DEFINE S == Elements(q) \cup {x}
<1>1. q \in Seq(S) /\ x \in S
  BY QueueIn
<1> HIDE DEF S
<1>2. Append(q, x) = q \o <<x>>
  BY <1>1
<1> QED
  BY <1>2, OneMessage

(* The messages of X are added to those of q. *)
Adds(q, r, X) ==
    /\ Extends(q, r) /\ Elements(r) = Elements(q) \cup X
    /\ \A i \in 1..Len(r) : i > Len(q) => r[i] \in X
    /\ \A x \in X : \E i \in 1..Len(r) : i > Len(q) /\ r[i] = x

LEMMA Added ==
    ASSUME NEW q, IsQueue(q), NEW s, IsQueue(s)
    PROVE  Adds(q, q \o s, Elements(s))
<1> DEFINE r == q \o s
<1>1. /\ Extends(q, r) /\ Len(r) = Len(q) + Len(s) /\ Len(s) \in Nat /\ Len(q) \in Nat
      /\ \A k \in 1..Len(s) : r[Len(q) + k] = s[k]
  BY ExtendsBy DEF Extends
<1>2. Elements(r) = Elements(q) \cup Elements(s)
  BY ConcatQueue
<1> HIDE DEF r
<1>3. ASSUME NEW i \in 1..Len(r), i > Len(q) PROVE r[i] \in Elements(s)
  <2>1. i - Len(q) \in 1..Len(s) /\ Len(q) + (i - Len(q)) = i
    BY <1>1, <1>3
  <2>2. r[i] = s[i - Len(q)]
    BY <1>1, <2>1
  <2> QED
    BY <2>1, <2>2 DEF Elements
<1>4. ASSUME NEW k \in 1..Len(s) PROVE \E i \in 1..Len(r) : i > Len(q) /\ r[i] = s[k]
  <2>1. Len(q) + k \in 1..Len(r) /\ Len(q) + k > Len(q)
    BY <1>1
  <2> QED
    BY <1>1, <2>1
<1>5. \A x \in Elements(s) : \E i \in 1..Len(r) : i > Len(q) /\ r[i] = x
  BY <1>4 DEF Elements
<1> QED
  BY <1>1, <1>2, <1>3, <1>5 DEF Adds, r

(* The webview says s, and shows another run only if the one it showed has *)
(* ended or is stopped by what it says.                                    *)
LEMMA ViewSays ==
    ASSUME Known, UNCHANGED <<stage, active>>, NothingClaimed,
           NEW s, IsQueue(s), toHost' = toHost \o s,
           \A x \in Elements(s) : x.type = "startedAck" => stage[x.exec] # "new",
           \A x \in Elements(s), e \in Runs : Claims(x, e)' => running' = e,
           \A e \in Runs : running = e =>
               running' = e \/ stage[e] = "ended" \/ \E x \in Elements(s) : Stops(x, e)
    PROVE  VisibleInv'
<1>1. IsQueue(toHost)
  BY DEF Known, PublicationInv, TypeInv
<1>2. /\ Extends(toHost, toHost') /\ Elements(toHost') = Elements(toHost) \cup Elements(s)
      /\ \A i \in 1..Len(toHost') : i > Len(toHost) => toHost'[i] \in Elements(s)
      /\ \A x \in Elements(s) : \E i \in 1..Len(toHost') : i > Len(toHost) /\ toHost'[i] = x
  <2>1. Adds(toHost, toHost', Elements(s))
    BY <1>1, Added
  <2> QED
    BY <2>1 DEF Adds
<1>3. ClaimInv'
  BY <1>2, StageStays, ClaimKeeps DEF NothingClaimed
<1>4. \A e \in Runs : running = e =>
         \/ running' = e \/ stage'[e] = "ended"
         \/ \E j \in 1..Len(toHost') : j > Len(toHost) /\ Stops(toHost'[j], e)
  <2>1. ASSUME NEW e \in Runs, NEW x \in Elements(s), Stops(x, e)
        PROVE  \E j \in 1..Len(toHost') : j > Len(toHost) /\ Stops(toHost'[j], e)
    BY <1>2, <2>1
  <2> QED
    BY <2>1
<1>5. \A i \in 1..Len(toHost'), e \in Runs :
          i > Len(toHost) /\ Claims(toHost[i], e)' => running' = e
  <2>1. ASSUME NEW i \in 1..Len(toHost'), NEW e \in Runs, i > Len(toHost), Claims(toHost[i], e)'
        PROVE  running' = e
    <3>1. PICK x \in Elements(s) : x = toHost'[i]
      BY <1>2, <2>1
    <3>2. Claims(x, e)'
      BY <2>1, <3>1 DEF Claims
    <3> QED
      BY <3>2
  <2> QED
    BY <2>1
<1>6. SeenInv'
  BY <1>2, <1>4, <1>5, StageStays, SeenMore
<1> QED
  BY <1>3, <1>6, StageStays DEF VisibleInv

LEMMA ViewAnswers ==
    ASSUME Known, UNCHANGED <<stage, active>>, NothingClaimed,
           NEW s, IsQueue(s), toHost' = toHost \o s, \A x \in Elements(s) : x.type = "ack",
           UNCHANGED running \/ (running \in Runs => stage[running] = "ended")
    PROVE  VisibleInv'
<1>1. \A x \in Elements(s), e \in Runs : ~Claims(x, e)'
  BY Messages DEF Claims
<1> QED
  BY <1>1, ViewSays

(* A manual run begins. *)
LEMMA AskVisible ==
    ASSUME Known, NewRun(NextRun), stage' = [stage EXCEPT ![NextRun] = "sent"],
           UNCHANGED active, NothingClaimed, BeginInView(NextRun),
           toHost' = toHost \o <<ExecuteMsg(NextRun)>>
    PROVE  VisibleInv'
<1> PICK e \in Runs : e = NextRun
  BY DEF NewRun
<1> PICK x : x = ExecuteMsg(e)
  OBVIOUS
<1>1. stage[e] = "new"
  BY NextRunIsNew DEF Known, PublicationInv
<1>2. /\ stage' = [stage EXCEPT ![e] = "sent"] /\ stage \in [Runs -> Stages] /\ HeldInv
      /\ running' = e
  BY DEF Known, PublicationInv, TypeInv, VisibleInv, BeginInView
<1>3. /\ StageGoesOn /\ HeldInv' /\ \A d \in Runs : Holds(d)' => Holds(d)
      /\ \A d \in Runs : stage'[d] = "claiming" => stage[d] = "claiming"
  <2>1. active # e
    BY <1>1 DEF Known, PublicationInv, OrderInv, Runs, NoRun
  <2> QED
    BY <1>1, <1>2, <2>1 DEF StageGoesOn, HeldInv, Held, Holds
<1>4. /\ IsQueue(toHost) /\ IsQueue(<<x>>) /\ Elements(<<x>>) = {x} /\ toHost' = toHost \o <<x>>
  BY OneConcat DEF Known, PublicationInv, TypeInv
<1>5. x.type = "execute" /\ \A d : x = ExecuteMsg(d) => d = e
  BY DEF ExecuteMsg
<1>6. /\ Extends(toHost, toHost') /\ Elements(toHost') = Elements(toHost) \cup {x}
      /\ \A i \in 1..Len(toHost') : i > Len(toHost) => toHost'[i] = x
      /\ \E i \in 1..Len(toHost') : i > Len(toHost) /\ toHost'[i] = x
  <2>1. Adds(toHost, toHost', {x})
    BY <1>4, Added
  <2> QED
    BY <2>1 DEF Adds
<1>7. ClaimInv'
  BY <1>3, <1>5, <1>6, ClaimKeeps DEF NothingClaimed
<1>8. \A d \in Runs : \E j \in 1..Len(toHost') : j > Len(toHost) /\ Stops(toHost'[j], d)
  BY <1>5, <1>6 DEF Stops
<1>9. \A i \in 1..Len(toHost'), d \in Runs :
          i > Len(toHost) /\ Claims(toHost[i], d)' => running' = d
  BY <1>2, <1>5, <1>6 DEF Claims
<1>10. SeenInv'
  BY <1>3, <1>6, <1>8, <1>9, SeenMore
<1> QED
  BY <1>3, <1>7, <1>10 DEF VisibleInv

LEMMA AckIsAck == \A p, f, ok : Ack(p, f, ok).type = "ack"
BY DEF Ack

(* What is committed of a run is committed after its end. *)
LEMMA CommittedHasEnded ==
    ASSUME PublicationInv, NEW p \in Publications, p[1] = "run", CommitOut(p)
    PROVE  p[2] \in Runs /\ stage[p[2]] = "ended"
<1>1. PICK e \in Runs : p = Terminal(e, 1) \/ p = Terminal(e, 2)
  BY Names DEF Ready, ReadyFailed
<1>2. p[2] = e /\ p \in Followed
  BY <1>1, Names DEF Terminal, Followed
<1>3. phase[p] # "idle"
  BY <1>2 DEF PublicationInv, PubInv, Taken
<1> QED
  BY <1>1, <1>2, <1>3 DEF PublicationInv, OrderInv

LEMMA ConfirmVisible ==
    ASSUME Known, UNCHANGED <<stage, active>>, NothingClaimed,
           NEW P, NEW s, IsQueue(s), \A x \in Elements(s) : x.type = "ack", Confirm(P, s),
           UNCHANGED running \/ (running \in Runs => stage[running] = "ended")
    PROVE  VisibleInv'
BY ViewAnswers DEF Confirm

LEMMA AnnounceVisible ==
    ASSUME Known, UNCHANGED <<stage, active>>, NothingClaimed,
           NEW p, NEW ok, NEW e, NEW P, Announce(e, P, <<Ack(p, "applied", ok)>>),
           UNCHANGED running \/ (running \in Runs => stage[running] = "ended")
    PROVE  VisibleInv'
<1> PICK a, b : a = Ack(p, "applied", ok) /\ b = Ack(Ready, "applied", owner)
  OBVIOUS
<1>1. a.type = "ack" /\ b.type = "ack"
  BY Messages
<1>2. IsQueue(<<a>>) /\ Elements(<<a>>) = {a}
  BY OneMessage
<1>3. IsQueue(Append(<<a>>, b)) /\ Elements(Append(<<a>>, b)) = {a} \cup {b}
  BY <1>2, AppendQueue
<1>4. \/ Confirm(P, <<a>>)
      \/ \E Q : Confirm(Q, Append(<<a>>, b))
  BY DEF Announce
<1> QED
  BY <1>1, <1>2, <1>3, <1>4, ConfirmVisible

LEMMA RefuseVisible ==
    ASSUME Known, UNCHANGED <<stage, active>>, NothingClaimed, NEW p, Refuse(p), UNCHANGED running
    PROVE  VisibleInv'
<1> PICK a : a = Ack(p, "applied", FALSE)
  OBVIOUS
<1>1. a.type = "ack" /\ Confirm({}, <<a>>)
  BY AckIsAck DEF Refuse
<1>2. IsQueue(<<a>>) /\ Elements(<<a>>) = {a}
  BY OneMessage
<1> QED
  BY <1>1, <1>2, ConfirmVisible

LEMMA CommitVisible ==
    ASSUME Known, NEW p \in Publications, CommitOut(p), OnCommit(p), UNCHANGED active,
           NothingClaimed
    PROVE  VisibleInv'
<1>1. CASE Refuse(p) /\ UNCHANGED <<stage, runVars>>
  BY <1>1, RefuseVisible DEF runVars
<1>2. CASE p[1] = "run" /\ ApplyTerminal(p) /\ UNCHANGED stage
  <2>1. p[2] \in Runs /\ stage[p[2]] = "ended"
    BY <1>2, CommittedHasEnded DEF Known
  <2>2. CASE ApplyActive(p)
    <3>1. running \in Runs => stage[running] = "ended"
      BY <2>1, <2>2 DEF ApplyActive
    <3>2. CASE Announce(p[2], {p}, <<Ack(p, "applied", TRUE)>>)
      BY <1>2, <3>1, <3>2, AnnounceVisible
    <3>3. CASE Refuse(p)
      <4> PICK a : a = Ack(p, "applied", FALSE)
        OBVIOUS
      <4>1. a.type = "ack" /\ Confirm({}, <<a>>)
        BY <3>3, AckIsAck DEF Refuse
      <4>2. IsQueue(<<a>>) /\ Elements(<<a>>) = {a}
        BY OneMessage
      <4> QED
        BY <1>2, <3>1, <4>1, <4>2, ConfirmVisible
    <3> QED
      BY <2>2, <3>2, <3>3 DEF ApplyActive
  <2>3. CASE ApplyRetired(p)
    <3>1. UNCHANGED running
      BY <2>3 DEF ApplyRetired
    <3>2. \E ok : Announce(p[2], {q \in {p} : ok}, <<Ack(p, "applied", ok)>>)
      BY <2>3 DEF ApplyRetired
    <3> QED
      BY <1>2, <3>1, <3>2, AnnounceVisible
  <2>4. CASE RejectTerminal(p)
    BY <1>2, <2>4, RefuseVisible DEF RejectTerminal, runVars
  <2> QED
    BY <1>2, <2>2, <2>3, <2>4 DEF ApplyTerminal
<1>3. CASE ReadyRejected
  BY <1>3, RefuseVisible DEF ReadyRejected, runVars
<1>4. CASE ReadyRunsSource
  BY <1>4, AskVisible DEF ReadyRunsSource, Confirm
<1>5. CASE ReadyWithoutRun
  <2> PICK a : a = Ack(Ready, "applied", TRUE)
    OBVIOUS
  <2>1. a.type = "ack" /\ Confirm({Ready}, <<a>>) /\ UNCHANGED <<stage, running>>
    BY <1>5, AckIsAck DEF ReadyWithoutRun, runVars
  <2>2. IsQueue(<<a>>) /\ Elements(<<a>>) = {a}
    BY OneMessage
  <2> QED
    BY <2>1, <2>2, ConfirmVisible
<1>6. CASE ApplyReadyFailed /\ UNCHANGED stage
  <2> PICK a : a = Ack(ReadyFailed, "applied", TRUE)
    OBVIOUS
  <2>1. a.type = "ack" /\ UNCHANGED running
        /\ (Confirm({ReadyFailed}, <<a>>) \/ Refuse(ReadyFailed))
    BY <1>6, AckIsAck DEF ApplyReadyFailed, runVars
  <2>2. IsQueue(<<a>>) /\ Elements(<<a>>) = {a}
    BY OneMessage
  <2> QED
    BY <1>6, <2>1, <2>2, ConfirmVisible, RefuseVisible
<1> QED
  BY <1>1, <1>2, <1>3, <1>4, <1>5, <1>6 DEF OnCommit, ApplyReady

LEMMA StartedVisible ==
    ASSUME Known, NEW m \in Elements(toView), m.type = "started", OnStarted(m),
           UNCHANGED <<stage, active>>, NothingClaimed
    PROVE  VisibleInv'
<1> PICK ok \in BOOLEAN : ok <=> m.generation = generation /\ PredecessorMatches(m)
  OBVIOUS
<1> PICK a : a = StartedAck(m.exec, m.generation = generation /\ PredecessorMatches(m))
  OBVIOUS
<1>1. /\ toHost' = Append(toHost, a)
      /\ ok => running' = m.exec /\ running \in {NoRun, m.expected}
      /\ ~ok => UNCHANGED running
  BY DEF OnStarted, BeginInView, PredecessorMatches, runVars
<1>2. a.type = "startedAck" /\ a.exec = m.exec /\ (a.ok <=> ok)
  BY DEF StartedAck
<1>3. Fresh(m)
  BY DEF Known, VisibleInv, ClaimInv
<1>4. IsQueue(<<a>>) /\ Elements(<<a>>) = {a} /\ toHost' = toHost \o <<a>>
  BY <1>1, OneConcat DEF Known, PublicationInv, TypeInv
<1>5. \A e \in Runs : Claims(a, e)' => running' = e
  <2>1. \A e : a # ExecuteMsg(e)
    BY <1>2, Messages
  <2> QED
    BY <1>1, <1>2, <2>1 DEF Claims
<1>6. \A e \in Runs : running = e => running' = e \/ stage[e] = "ended"
  BY <1>1, <1>3 DEF Fresh, Runs, NoRun
<1>7. stage[a.exec] # "new"
  BY <1>2, <1>3 DEF Fresh
<1> QED
  BY <1>4, <1>5, <1>6, <1>7, ViewSays

LEMMA ReceiveViewVisible == ASSUME Known, ReceiveView PROVE VisibleInv'
<1> PICK m : m = Head(toView)
  OBVIOUS
<1>1. /\ toView # <<>> /\ toView' = Tail(toView) /\ UNCHANGED active
      /\ IsQueue(toView) /\ IsQueue(toHost) /\ NothingClaimed
  BY NoClaim DEF ReceiveView, Known, PublicationInv, TypeInv
<1>2. m \in Elements(toView) /\ ViewMsg(m)
  BY <1>1, TailQueue DEF Known, PublicationInv, TypeInv
<1>3. \/ m.type = "stage"   /\ OnStage(m.pub)  /\ UNCHANGED stage
      \/ m.type = "commit"  /\ OnCommit(m.pub)
      \/ m.type = "revoke"  /\ OnRevoke(m.pub) /\ UNCHANGED stage
      \/ m.type = "started" /\ OnStarted(m)    /\ UNCHANGED stage
  BY DEF ReceiveView
<1>4. ASSUME NEW a, toHost' = Append(toHost, a), a.type = "ack", UNCHANGED <<stage, running>>
      PROVE  VisibleInv'
  <2>1. IsQueue(<<a>>) /\ Elements(<<a>>) = {a} /\ toHost' = toHost \o <<a>>
    BY <1>1, <1>4, OneConcat
  <2> QED
    BY <1>1, <1>4, <2>1, ViewAnswers
<1>5. CASE StartedOf(m)
  BY <1>1, <1>2, <1>3, <1>5, StartedVisible DEF StartedOf
<1>6. ASSUME NEW p \in Publications, m = StageMsg(p) PROVE VisibleInv'
  BY <1>3, <1>4, <1>6, Messages DEF OnStage, runVars
<1>7. ASSUME NEW p \in Publications, m = CommitMsg(p) PROVE VisibleInv'
  <2>1. OnCommit(p) /\ CommitOut(p)
    BY <1>2, <1>3, <1>7, Messages DEF CommitOut
  <2> QED
    BY <1>1, <2>1, CommitVisible
<1>8. ASSUME NEW p \in Publications, m = RevokeMsg(p) PROVE VisibleInv'
  BY <1>3, <1>4, <1>8, Messages DEF OnRevoke, runVars
<1> QED
  BY <1>2, <1>5, <1>6, <1>7, <1>8 DEF ViewMsg

Groups(q, a, b, c) ==
    /\ q \o a \o b \o c = q \o (a \o b \o c)
    /\ IsQueue(a \o b \o c)
    /\ Elements(a \o b \o c) = Elements(a) \cup Elements(b) \cup Elements(c)

LEMMA ConcatGroups ==
    ASSUME NEW q, IsQueue(q), NEW a, IsQueue(a), NEW b, IsQueue(b), NEW c, IsQueue(c)
    PROVE  Groups(q, a, b, c)
<1>1. PICK S : q \in Seq(S) /\ a \in Seq(S) /\ b \in Seq(S) /\ c \in Seq(S)
  <2> DEFINE T == Elements(q) \cup Elements(a) \cup Elements(b) \cup Elements(c)
  <2>1. q \in Seq(T) /\ a \in Seq(T) /\ b \in Seq(T) /\ c \in Seq(T)
    BY QueueIn
  <2> QED
    BY <2>1
<1>2. q \o (a \o b) = q \o a \o b
  BY <1>1, ConcatAssociative
<1>3. a \o b \in Seq(S)
  BY <1>1
<1>4. q \o (a \o b \o c) = q \o (a \o b) \o c
  <2>1. PICK d : d \in Seq(S) /\ d = a \o b
    BY <1>3
  <2>2. q \in Seq(S) /\ d \in Seq(S) /\ c \in Seq(S)
    BY <1>1, <2>1
  <2>3. (q \o d) \o c = q \o (d \o c)
    BY <2>2, ConcatAssociative
  <2> QED
    BY <2>1, <2>3
<1>5. IsQueue(a \o b) /\ Elements(a \o b) = Elements(a) \cup Elements(b)
  BY ConcatQueue
<1>6. /\ IsQueue(a \o b \o c)
      /\ Elements(a \o b \o c) = Elements(a \o b) \cup Elements(c)
  BY <1>5, ConcatQueue
<1> QED
  BY <1>2, <1>4, <1>5, <1>6 DEF Groups

LEMMA ClearVisible == ASSUME Known, ClearTargetBoundState PROVE VisibleInv'
<1> PICK a, b, t : /\ a = IF running = NoRun THEN <<>> ELSE <<CancelMsg(running)>>
                   /\ b = IF owner THEN <<CancelOptimizeMsg>> ELSE <<>>
                   /\ t = TargetMsg(generation')
  OBVIOUS
<1> PICK s : s = a \o b \o <<t>>
  OBVIOUS
<1>1. toHost' = toHost \o a \o b \o <<t>> /\ UNCHANGED <<stage, active, toView>>
  BY DEF ClearTargetBoundState, hostVars
<1>2. IsQueue(a) /\ \A x \in Elements(a) : x.type = "cancel"
  <2>1. CASE running = NoRun
    BY <2>1, EmptyQueue
  <2>2. CASE running # NoRun
    <3> PICK c : c = CancelMsg(running)
      OBVIOUS
    <3>1. c.type = "cancel"
      BY DEF CancelMsg
    <3> QED
      BY <2>2, <3>1, OneMessage
  <2> QED
    BY <2>1, <2>2
<1>3. IsQueue(b) /\ \A x \in Elements(b) : x.type = "cancelOptimize"
  <2>1. CASE ~owner
    BY <2>1, EmptyQueue
  <2>2. CASE owner
    <3> PICK c : c = CancelOptimizeMsg
      OBVIOUS
    <3>1. c.type = "cancelOptimize"
      BY DEF CancelOptimizeMsg
    <3> QED
      BY <2>2, <3>1, OneMessage
  <2> QED
    BY <2>1, <2>2
<1>4. t.type = "target" /\ IsQueue(<<t>>) /\ Elements(<<t>>) = {t}
  BY OneMessage DEF TargetMsg
<1>5. IsQueue(toHost)
  BY DEF Known, PublicationInv, TypeInv
<1>6. /\ toHost' = toHost \o s /\ IsQueue(s)
      /\ Elements(s) = Elements(a) \cup Elements(b) \cup {t}
  <2> PICK c : c = <<t>>
    OBVIOUS
  <2>1. toHost' = toHost \o a \o b \o c /\ s = a \o b \o c /\ IsQueue(c) /\ Elements(c) = {t}
    BY <1>1, <1>4
  <2>2. Groups(toHost, a, b, c)
    BY <1>2, <1>3, <1>5, <2>1, ConcatGroups
  <2> QED
    BY <2>1, <2>2 DEF Groups
<1>7. \A x \in Elements(s) : x.type \in {"cancel", "cancelOptimize", "target"}
  BY <1>2, <1>3, <1>4, <1>6
<1>8. \A x \in Elements(s), e \in Runs : ~Claims(x, e)'
  BY <1>7, Messages DEF Claims
<1>9. \A e \in Runs : \E x \in Elements(s) : Stops(x, e)
  BY <1>4, <1>6 DEF Stops
<1> QED
  BY <1>1, <1>6, <1>7, <1>8, <1>9, NoClaim, ViewSays

LEMMA ViewVisible ==
    ASSUME Known,
           \/ RunManually \/ CancelQuery \/ ClearTargetBoundState
           \/ \E p \in Publications : StagedExpires(p)
    PROVE  VisibleInv'
<1>1. IsQueue(toHost)
  BY DEF Known, PublicationInv, TypeInv
<1>2. CASE RunManually
  <2>1. toHost' = toHost \o <<ExecuteMsg(NextRun)>>
    BY <1>1, <1>2, OneConcat DEF RunManually
  <2> QED
    BY <1>2, <2>1, NoClaim, AskVisible DEF RunManually
<1>3. CASE CancelQuery
  <2> PICK c : c = CancelMsg(running)
    OBVIOUS
  <2>1. toHost' = Append(toHost, c) /\ UNCHANGED <<stage, active, toView, running>>
    BY <1>3 DEF CancelQuery, hostVars
  <2>2. c.type = "cancel"
    BY DEF CancelMsg
  <2>3. IsQueue(<<c>>) /\ Elements(<<c>>) = {c} /\ toHost' = toHost \o <<c>>
    BY <1>1, <2>1, OneConcat
  <2>4. \A e \in Runs : ~Claims(c, e)'
    BY <2>2, Messages DEF Claims
  <2> QED
    BY <2>1, <2>2, <2>3, <2>4, NoClaim, ViewSays
<1>4. ASSUME NEW p \in Publications, StagedExpires(p) PROVE VisibleInv'
  <2> PICK a : a = Ack(p, "applied", FALSE)
    OBVIOUS
  <2>1. /\ toHost' = Append(toHost, a) /\ a.type = "ack"
        /\ UNCHANGED <<stage, active, toView, running>>
    BY <1>4, AckIsAck DEF StagedExpires, hostVars, runVars
  <2>2. IsQueue(<<a>>) /\ Elements(<<a>>) = {a} /\ toHost' = toHost \o <<a>>
    BY <1>1, <2>1, OneConcat
  <2> QED
    BY <2>1, <2>2, NoClaim, ViewAnswers
<1> QED
  BY <1>2, <1>3, <1>4, ClearVisible

LEMMA InitVisible == Init => VisibleInv
<1> SUFFICES ASSUME Init PROVE VisibleInv
  OBVIOUS
<1>1. Elements(toView) = {} /\ Elements(toHost) = {} /\ Len(toHost) = 0
  BY EmptyQueue DEF Init
<1>2. ClaimInv
  BY <1>1 DEF ClaimInv
<1>3. HeldInv
  BY DEF Init, HeldInv, Held
<1>4. SeenInv
  <2>1. \A e \in Runs : ~Holds(e)
    BY DEF Init, Holds, Runs, NoRun
  <2> QED
    BY <1>1, <2>1 DEF SeenInv
<1> QED
  BY <1>2, <1>3, <1>4 DEF VisibleInv

LEMMA NextVisible == IInv /\ IInv' /\ VisibleInv /\ [Next]_vars => VisibleInv'
<1> SUFFICES ASSUME Known, [Next]_vars PROVE VisibleInv'
  BY DEF IInv, Known
<1>1. CASE \E e \in Runs : ClaimTimeout(e) \/ Dispatch(e) \/ Admit(e) \/ Fail(e)
  BY <1>1, RunsVisible
<1>2. CASE StartClaimed \/ ReceiveHost \/ ReceiveView
  BY <1>2, StartVisible, ReceiveHostVisible, ReceiveViewVisible
<1>3. CASE \/ \E p \in Publications : \/ StagedTimeout(p) \/ Revoke(p) \/ GraceEnds(p)
                                      \/ Undelivered(p) \/ DeadlinePasses(p)
           \/ PublishReady \/ RequestOptimize \/ LoseToView \/ LoseToHost \/ UNCHANGED vars
  BY <1>3, HostVisible
<1>4. CASE \/ RunManually \/ CancelQuery \/ ClearTargetBoundState
           \/ \E p \in Publications : StagedExpires(p)
  BY <1>4, ViewVisible
<1> QED
  BY <1>1, <1>2, <1>3, <1>4 DEF Next

(* The host never goes on with a run that the user can neither see nor     *)
(* stop: the section shows it, or what cancels, replaces or retires it is  *)
(* on its way to the host, for every number of runs, faults and events.    *)
THEOREM NoRunIsInvisible == Spec => []NoInvisibleRun
<1>1. IInv /\ VisibleInv => NoInvisibleRun
  <2> SUFFICES ASSUME IInv, VisibleInv, active # NoRun, stage[active] # "claiming"
               PROVE  \/ running = active
                      \/ \E i \in 1..Len(toHost) :
                            \/ toHost[i] \in {CancelMsg(active)} \cup {ExecuteMsg(e) : e \in Runs}
                            \/ toHost[i].type = "target"
    BY DEF NoInvisibleRun
  <2>1. active \in Runs /\ Holds(active)
    BY DEF IInv, PublicationInv, TypeInv, Holds
  <2>2. Seen(active, 0)
    BY <2>1 DEF VisibleInv, SeenInv
  <2>3. ASSUME NEW i \in 1..Len(toHost), toHost[i].type = "execute"
        PROVE  toHost[i] \in {ExecuteMsg(e) : e \in Runs}
    <3>1. HostMsg(toHost[i])
      BY DEF IInv, PublicationInv, TypeInv, Elements
    <3> QED
      BY <2>3, <3>1 DEF HostMsg
  <2> QED
    BY <2>2, <2>3 DEF Seen, Stops
<1> QED
  BY <1>1, InitInv, NextInv, InitVisible, NextVisible, PTL DEF Spec
=============================================================================
