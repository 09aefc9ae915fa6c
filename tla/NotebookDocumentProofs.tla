------------------------ MODULE NotebookDocumentProofs ------------------------
(***************************************************************************)
(* Two theorems about a panel and its notebook, for every bound on         *)
(* commands, edits, saves and faults: that no snapshot, rollback or save   *)
(* of the panel takes a command out of the notebook that the webview saw   *)
(* accepted, and that none takes out what another editor wrote before the  *)
(* webview has shown it. What the host knows of a text is its commands and *)
(* its marks. KeptInv says that every text it may still write has each     *)
(* command accepted and not edited over elsewhere; OwedInv says, of each   *)
(* projection, job and save under way, that what it may write over has     *)
(* been shown or is in what it writes.                                     *)
(***************************************************************************)
EXTENDS NotebookDocument, SequenceTheorems, TLAPS

-----------------------------------------------------------------------------
(* Sequences, seen as the set of their elements. *)

IsSeq(q) == \E S : q \in Seq(S)

LEMMA FunctionIsSeq == ASSUME NEW n \in Nat, NEW U, NEW q \in [1 .. n -> U] PROVE IsSeq(q)
<1>1. q \in Seq(U)
  OBVIOUS
<1> QED
  BY <1>1 DEF IsSeq

LEMMA SeqFacts ==
    ASSUME NEW q, IsSeq(q)
    PROVE  /\ Len(q) \in Nat /\ DOMAIN q = 1 .. Len(q)
           /\ q # <<>> => Head(q) = q[1] /\ 1 \in DOMAIN q /\ Head(q) \in Elements(q)
BY DEF IsSeq, Elements

LEMMA AppendFacts ==
    ASSUME NEW q, IsSeq(q), NEW x
    PROVE  /\ IsSeq(Append(q, x)) /\ Elements(Append(q, x)) = Elements(q) \cup {x}
           /\ DOMAIN Append(q, x) = DOMAIN q \cup {Len(q) + 1}
           /\ Append(q, x)[Len(q) + 1] = x
           /\ \A i \in DOMAIN q : Append(q, x)[i] = q[i] /\ i # Len(q) + 1
<1>1. PICK S : q \in Seq(S)
  BY DEF IsSeq
<1> DEFINE T == S \cup {x}
<1>2. q \in Seq(T) /\ x \in T
  BY <1>1
<1> HIDE DEF T
<1> DEFINE r == Append(q, x)
<1>3. /\ r \in Seq(T) /\ Len(r) = Len(q) + 1 /\ Len(q) \in Nat
      /\ DOMAIN q = 1 .. Len(q) /\ DOMAIN r = 1 .. Len(r)
      /\ r[Len(q) + 1] = x
      /\ \A i \in 1 .. Len(q) : r[i] = q[i]
  BY <1>2
<1> HIDE DEF r
<1>4. IsSeq(r)
  BY <1>3 DEF IsSeq
<1>5. DOMAIN r = DOMAIN q \cup {Len(q) + 1}
  BY <1>3
<1>6. Elements(r) = Elements(q) \cup {x}
  BY <1>3, <1>5 DEF Elements
<1>7. \A i \in DOMAIN q : r[i] = q[i] /\ i # Len(q) + 1
  BY <1>3
<1> QED
  BY <1>3, <1>4, <1>5, <1>6, <1>7 DEF r

LEMMA TailFacts ==
    ASSUME NEW q, IsSeq(q), q # <<>>
    PROVE  /\ IsSeq(Tail(q)) /\ Elements(Tail(q)) \subseteq Elements(q)
           /\ \A i \in DOMAIN Tail(q) : i + 1 \in DOMAIN q /\ i + 1 # 1 /\ Tail(q)[i] = q[i + 1]
<1>1. PICK S : q \in Seq(S)
  BY DEF IsSeq
<1> DEFINE r == Tail(q)
<1>2. /\ r \in Seq(S) /\ Len(r) = Len(q) - 1 /\ Len(q) \in Nat /\ Len(q) > 0
      /\ DOMAIN q = 1 .. Len(q) /\ DOMAIN r = 1 .. Len(r)
      /\ \A i \in 1 .. Len(r) : r[i] = q[i + 1]
  BY <1>1
<1> HIDE DEF r
<1>3. IsSeq(r)
  BY <1>2 DEF IsSeq
<1>4. \A i \in DOMAIN r : i + 1 \in DOMAIN q /\ i + 1 # 1 /\ r[i] = q[i + 1]
  BY <1>2
<1>5. Elements(r) \subseteq Elements(q)
  BY <1>4 DEF Elements
<1> QED
  BY <1>3, <1>4, <1>5 DEF r

LEMMA ConcatFacts ==
    ASSUME NEW q, IsSeq(q), NEW r, IsSeq(r)
    PROVE  IsSeq(q \o r) /\ Elements(q \o r) \subseteq Elements(q) \cup Elements(r)
<1>1. PICK S : q \in Seq(S)
  BY DEF IsSeq
<1>2. PICK R : r \in Seq(R)
  BY DEF IsSeq
<1> DEFINE T == S \cup R
<1>3. q \in Seq(T) /\ r \in Seq(T)
  BY <1>1, <1>2
<1> HIDE DEF T
<1> DEFINE s == q \o r
<1>4. /\ s \in Seq(T) /\ Len(s) = Len(q) + Len(r) /\ Len(q) \in Nat /\ Len(r) \in Nat
      /\ DOMAIN q = 1 .. Len(q) /\ DOMAIN r = 1 .. Len(r) /\ DOMAIN s = 1 .. Len(s)
      /\ \A i \in 1 .. Len(s) : s[i] = IF i <= Len(q) THEN q[i] ELSE r[i - Len(q)]
  BY <1>3, ConcatProperties
<1> HIDE DEF s
<1>5. ASSUME NEW i \in DOMAIN s PROVE s[i] \in Elements(q) \cup Elements(r)
  <2>1. CASE i <= Len(q)
    BY <1>4, <1>5, <2>1 DEF Elements
  <2>2. CASE ~(i <= Len(q))
    <3>1. i - Len(q) \in 1 .. Len(r) /\ s[i] = r[i - Len(q)]
      BY <1>4, <1>5, <2>2
    <3> QED
      BY <1>4, <3>1 DEF Elements
  <2> QED
    BY <2>1, <2>2
<1>6. Elements(s) \subseteq Elements(q) \cup Elements(r)
  BY <1>5 DEF Elements
<1> QED
  BY <1>4, <1>6 DEF s, IsSeq

-----------------------------------------------------------------------------
(* The invariant.  It is stated of a host h and a set S of commands, so     *)
(* that what the host's functions keep can be said of each of them.         *)

Entries == [rev : Nat, owned : Owned, text : Texts]

Fields ==
    {"authority", "observed", "postGen", "activeGen", "activeToken", "entry", "posts", "initialized",
     "recovery", "expected", "unrestored", "queue", "save"}

JobFields ==
    {"kind", "id", "ask", "gen", "token", "stage", "base", "want", "to", "lost", "fresh", "tries", "seen"}

JobTyped(j) ==
    /\ JobFields \subseteq DOMAIN j
    /\ j.kind = "command" => j.id \in Nat
    /\ j.kind = "snapshot" => j.ask \in Texts
    /\ j.base \in Texts \cup {None} /\ j.want \in Texts \cup {None} /\ j.to \in Texts \cup {None}
    /\ j.lost \in Texts \cup {None}

SaveFields == {"stage", "id", "gen", "rev", "token", "text", "edit", "fresh", "atomic"}

SaveTyped(s) ==
    SaveFields \subseteq DOMAIN s /\ s.gen \in Nat /\ s.text \in Texts \cup {None}

PostFields == {"gen", "stage", "text", "token", "epoch", "force", "origin", "retry", "made"}

PostTyped(p) ==
    /\ PostFields \subseteq DOMAIN p
    /\ p.gen \in Nat /\ p.text \in Texts
    /\ p.origin \in {"change", "request", "initial"}
    /\ p.stage = "posted" => p.made \in Entries

HostTyped(h) ==
    /\ Fields \subseteq DOMAIN h
    /\ h.authority \in [token : Nat, text : Texts]
    /\ h.postGen \in Nat /\ h.activeGen \in Nat /\ h.activeToken \in Nat
    /\ h.entry \in Entries
    /\ \A p \in h.posts : PostTyped(p)
    /\ IsSeq(h.queue) /\ \A i \in DOMAIN h.queue : JobTyped(h.queue[i])
    /\ SaveTyped(h.save)

(* Generations and authorities are never used again. *)
Generations(h) ==
    /\ h.activeToken <= h.authority.token
    /\ h.activeGen <= h.postGen /\ h.save.gen <= h.activeGen
    /\ \A p \in h.posts : p.gen <= h.postGen /\ p.gen # h.activeGen
    /\ \A p, q \in h.posts : p.gen = q.gen => p = q

(* The text has all of these commands. *)
Holds(text, S) == S \subseteq Elements(text.owned.cmds)

CommandHolds(j, S) ==
    /\ j.base \in Texts /\ Holds(j.base, S)
    /\ j.want \in Texts /\ Holds(j.want, S) /\ j.id \in Elements(j.want.owned.cmds)
    /\ j.stage \in {"restoring", "restored"} => j.to \in Texts /\ Holds(j.to, S)

SnapshotHolds(j, S) ==
    /\ j.want \in Texts /\ Holds(j.want, S)
    /\ j.lost # None => Holds(j.lost, S)
    /\ j.stage \in {"restoring", "restored"} => j.to \in Texts /\ Holds(j.to, S)

(* Every text the job under way may write has them. *)
HeadHolds(j, S) ==
    j.stage # "queued" =>
        /\ j.kind \in {"command", "snapshot"}
        /\ j.kind = "command" => CommandHolds(j, S)
        /\ j.kind = "snapshot" => SnapshotHolds(j, S)

Waits(j) == j.stage = "queued" /\ j.kind # "lease"

QueueHolds(h, S) ==
    /\ h.queue # <<>> => HeadHolds(h.queue[1], S)
    /\ \A i \in DOMAIN h.queue : i # 1 => Waits(h.queue[i])

(* A snapshot that is not revoked is of the projection and the authority   *)
(* the host has.                                                           *)
CurrentIn(h, j) ==
    j.gen = h.activeGen /\ j.token = h.activeToken /\ h.authority.token = j.token

Kept(h, j) == j.kind = "snapshot" /\ j.lost = None => CurrentIn(h, j)

Revoked(h) == \A i \in DOMAIN h.queue : Kept(h, h.queue[i])

(* While a save waits for the last snapshot it keeps the queue, and the    *)
(* owner's entry with it.                                                  *)
Flushing(h) ==
    h.save.stage = "flushing" =>
        /\ HasLease(h) /\ h.save.text \in Texts
        /\ h.activeGen = h.save.gen => h.entry.owned = h.save.text.owned

Committing(h, d) ==
    h.save.stage = "committing" /\ h.save.edit /\ h.save.fresh =>
        h.save.text \in Texts /\ h.save.text.owned = d.owned

Sound(h, S) ==
    /\ HostTyped(h) /\ Generations(h)
    /\ Holds(h.authority.text, S) /\ QueueHolds(h, S) /\ Flushing(h)

HostHolds(h, S) == Sound(h, S) /\ Revoked(h)

(* From h to g, jobs stay as they were, unless they are revoked; so does   *)
(* the save, unless it is refused.                                         *)
Follows(h, g) ==
    /\ g.save = h.save \/ g.save = NoSave
    /\ DOMAIN g.queue = DOMAIN h.queue
    /\ \A i \in DOMAIN h.queue :
         /\ g.queue[i].kind = h.queue[i].kind /\ g.queue[i].stage = h.queue[i].stage
         /\ g.queue[i].want = h.queue[i].want

Moves(h, g, S) == HostHolds(g, S) /\ Follows(h, g)

IsOk(m) == m.type = "result" /\ m.ok

Told == {m.id : m \in {x \in Elements(toView) : IsOk(x)}}

(* The commands accepted and not edited over elsewhere. *)
Live == (kept \cup Told) \ replaced

ToHostTyped(m) ==
    /\ m.type \in {"command", "snapshot", "reload", "barrier", "flush", "request"}
    /\ m.type = "command" => m.id \in Nat
    /\ m.type \in {"snapshot", "flush"} => m.state \in Texts

ToViewTyped(m) ==
    /\ m.type \in {"data", "result", "barrier", "ack", "flush"}
    /\ m.type = "data" => m.owned \in Owned /\ m.rest \in Nat
    /\ m.type = "result" => m.owned \in Owned

MailTyped ==
    /\ IsSeq(toHost) /\ \A m \in Elements(toHost) : ToHostTyped(m)
    /\ IsSeq(toView) /\ \A m \in Elements(toView) : ToViewTyped(m)

ViewTyped ==
    /\ {"gen", "rev", "owned"} \subseteq DOMAIN view /\ view.owned \in Owned
    /\ rest \in Nat /\ clean \in Nat /\ \A s \in unacked : s.rest \in Nat
    /\ issued \in Nat /\ edits \in Nat /\ externals \in Nat /\ saves \in Nat

KeptInv ==
    /\ MailTyped /\ ViewTyped
    /\ doc \in Texts /\ saved \in Texts /\ Holds(doc, Live)
    /\ HostHolds(host, Live) /\ Committing(host, doc)

-----------------------------------------------------------------------------
(* What the host's functions keep. *)

LEMMA HeadLess ==
    ASSUME NEW j, NEW S, NEW T, T \subseteq S, HeadHolds(j, S)
    PROVE  HeadHolds(j, T)
BY DEF HeadHolds, CommandHolds, SnapshotHolds, Holds

(* Fewer commands are held a fortiori. *)
LEMMA Less ==
    ASSUME NEW h, NEW S, NEW T, T \subseteq S, HostHolds(h, S)
    PROVE  HostHolds(h, T)
BY HeadLess DEF HostHolds, Sound, QueueHolds, Holds

LEMMA Chain ==
    ASSUME NEW f, NEW g, NEW h, NEW S, Follows(f, g), Moves(g, h, S)
    PROVE  Moves(f, h, S)
BY DEF Moves, Follows

LEMMA Stays == ASSUME NEW h, NEW S, HostHolds(h, S) PROVE Moves(h, h, S)
BY DEF Moves, Follows

(* What the invariant looks at. *)
Same(h, g) ==
    /\ Fields \subseteq DOMAIN g
    /\ g.authority = h.authority /\ g.postGen = h.postGen /\ g.activeGen = h.activeGen
    /\ g.activeToken = h.activeToken /\ g.entry = h.entry /\ g.posts = h.posts
    /\ g.queue = h.queue /\ g.save = h.save

LEMMA SameHolds ==
    ASSUME NEW h, NEW g, NEW S, HostHolds(h, S), Same(h, g)
    PROVE  Moves(h, g, S)
<1>1. HostTyped(g)
  BY DEF HostHolds, Sound, HostTyped, Same
<1>2. Generations(g)
  BY DEF HostHolds, Sound, Generations, Same
<1>3. Holds(g.authority.text, S) /\ QueueHolds(g, S) /\ Flushing(g)
  BY DEF HostHolds, Sound, QueueHolds, Flushing, HasLease, Same
<1>4. Revoked(g)
  BY DEF HostHolds, Revoked, Kept, CurrentIn, Same
<1>5. Follows(h, g)
  BY DEF Follows, Same
<1> QED
  BY <1>1, <1>2, <1>3, <1>4, <1>5 DEF Moves, HostHolds, Sound

LEMMA Unseen ==
    ASSUME NEW h, NEW S, HostHolds(h, S), NEW x
    PROVE  /\ Moves(h, [h EXCEPT !.recovery = x], S)
           /\ Moves(h, [h EXCEPT !.recovery.restart = x], S)
           /\ Moves(h, [h EXCEPT !.recovery.attempt = @ + 1], S)
           /\ Moves(h, [h EXCEPT !.initialized = TRUE, !.recovery = None], S)
           /\ Moves(h, [h EXCEPT !.initialized = x], S)
           /\ Moves(h, [h EXCEPT !.expected = x], S)
           /\ Moves(h, [h EXCEPT !.unrestored = x], S)
<1>0. Fields \subseteq DOMAIN h
  BY DEF HostHolds, Sound, HostTyped
<1>1. Same(h, [h EXCEPT !.recovery = x])
  BY <1>0 DEF Same, Fields
<1>2. Same(h, [h EXCEPT !.recovery.restart = x])
  BY <1>0 DEF Same, Fields
<1>3. Same(h, [h EXCEPT !.recovery.attempt = @ + 1])
  BY <1>0 DEF Same, Fields
<1>4. Same(h, [h EXCEPT !.initialized = TRUE, !.recovery = None])
  BY <1>0 DEF Same, Fields
<1>5. Same(h, [h EXCEPT !.initialized = x])
  BY <1>0 DEF Same, Fields
<1>6. Same(h, [h EXCEPT !.expected = x])
  BY <1>0 DEF Same, Fields
<1>7. Same(h, [h EXCEPT !.unrestored = x])
  BY <1>0 DEF Same, Fields
<1> QED
  BY <1>1, <1>2, <1>3, <1>4, <1>5, <1>6, <1>7, SameHolds

RevokedJob(j, text) == IF j.kind = "snapshot" THEN [j EXCEPT !.lost = text] ELSE j

LEMMA RevokedHolds ==
    ASSUME NEW j, JobTyped(j), NEW S, NEW text \in Texts, Holds(text, S), HeadHolds(j, S)
    PROVE  HeadHolds(RevokedJob(j, text), S)
BY DEF HeadHolds, RevokedJob, JobTyped, JobFields, CommandHolds, SnapshotHolds

LEMMA RevokedTyped ==
    ASSUME NEW j, JobTyped(j), NEW text \in Texts
    PROVE  LET r == RevokedJob(j, text) IN
           /\ JobTyped(r) /\ (r.kind = "snapshot" => r.lost # None)
           /\ r.kind = j.kind /\ r.stage = j.stage /\ r.want = j.want
BY NotebookAssumption DEF RevokedJob, JobTyped, JobFields

(* Everything in the queue is revoked, whatever it was made against. *)
LEMMA RetireHolds ==
    ASSUME NEW h, NEW S, Sound(h, S)
    PROVE  LET g == Retire(h) IN
           /\ Moves(h, g, S)
           /\ \A i \in DOMAIN g.queue : g.queue[i].kind = "snapshot" => g.queue[i].lost # None
           /\ g.authority = h.authority /\ g.postGen = h.postGen /\ g.activeGen = h.activeGen
           /\ g.activeToken = h.activeToken /\ g.entry = h.entry /\ g.posts = h.posts
<1> DEFINE g == Retire(h)
           text == h.authority.text
<1>1. HostTyped(h)
  BY DEF Sound
<1>2. text \in Texts /\ Holds(text, S)
  BY <1>1 DEF HostTyped, Sound
<1>3. /\ Fields \subseteq DOMAIN g
      /\ g.authority = h.authority /\ g.postGen = h.postGen /\ g.activeGen = h.activeGen
      /\ g.activeToken = h.activeToken /\ g.entry = h.entry /\ g.posts = h.posts
  BY <1>1 DEF Retire, HostTyped, Fields
<1>4. g.save = h.save \/ g.save = NoSave
  BY <1>1 DEF Retire, HostTyped, Fields
<1>5. /\ DOMAIN g.queue = DOMAIN h.queue
      /\ \A i \in DOMAIN h.queue : g.queue[i] = RevokedJob(h.queue[i], text)
      /\ IsSeq(g.queue)
  <2>1. g.queue = [i \in DOMAIN h.queue |-> RevokedJob(h.queue[i], text)]
    BY <1>1 DEF Retire, HostTyped, Fields, RevokedJob
  <2>2. PICK T : h.queue \in Seq(T)
    BY <1>1 DEF HostTyped, IsSeq
  <2>3. Len(h.queue) \in Nat /\ DOMAIN h.queue = 1 .. Len(h.queue)
    BY <2>2
  <2> DEFINE U == {RevokedJob(h.queue[i], text) : i \in DOMAIN h.queue}
  <2>4. g.queue \in [1 .. Len(h.queue) -> U]
    BY <2>1, <2>3
  <2> HIDE DEF g, U
  <2>5. g.queue \in Seq(U)
    BY <2>3, <2>4
  <2> QED
    BY <2>1, <2>5 DEF IsSeq
<1> HIDE DEF g, text
<1>6. \A i \in DOMAIN h.queue :
        /\ JobTyped(g.queue[i])
        /\ g.queue[i].kind = "snapshot" => g.queue[i].lost # None
        /\ g.queue[i].kind = h.queue[i].kind /\ g.queue[i].stage = h.queue[i].stage
        /\ g.queue[i].want = h.queue[i].want
  BY <1>1, <1>2, <1>5, RevokedTyped DEF HostTyped
<1>7. SaveTyped(NoSave) /\ NoSave.gen = 0 /\ NoSave.stage = "none"
  BY DEF NoSave, SaveTyped, SaveFields
<1>8. HostTyped(g)
  BY <1>1, <1>3, <1>4, <1>5, <1>6, <1>7 DEF HostTyped
<1>9. Generations(g)
  BY <1>1, <1>3, <1>4, <1>7 DEF Generations, Sound, HostTyped
<1>10. QueueHolds(g, S)
  <2>1. g.queue # <<>> => HeadHolds(g.queue[1], S)
    <3> SUFFICES ASSUME g.queue # <<>> PROVE HeadHolds(g.queue[1], S)
      OBVIOUS
    <3>1. 1 \in DOMAIN h.queue
      BY <1>5, SeqFacts
    <3>2. JobTyped(h.queue[1]) /\ HeadHolds(h.queue[1], S)
      BY <1>1, <3>1 DEF HostTyped, Sound, QueueHolds
    <3> QED
      BY <1>2, <1>5, <3>1, <3>2, RevokedHolds
  <2> QED
    BY <1>5, <1>6, <2>1 DEF QueueHolds, Sound, Waits
<1>11. Flushing(g)
  <2>1. CASE g.save = NoSave
    BY <1>7, <2>1 DEF Flushing
  <2>2. CASE g.save = h.save
    <3>1. HasLease(h) => HasLease(g)
      <4> SUFFICES ASSUME HasLease(h) PROVE HasLease(g)
        OBVIOUS
      <4>1. 1 \in DOMAIN h.queue
        BY <1>1, SeqFacts DEF HasLease, HostTyped
      <4> QED
        BY <1>5, <1>6, <4>1 DEF HasLease
    <3> QED
      BY <1>3, <2>2, <3>1 DEF Flushing, Sound
  <2> QED
    BY <1>4, <2>1, <2>2
<1>12. Revoked(g)
  BY <1>5, <1>6 DEF Revoked, Kept
<1>13. Follows(h, g)
  BY <1>4, <1>5, <1>6 DEF Follows
<1>14. HostHolds(g, S)
  BY <1>2, <1>3, <1>8, <1>9, <1>10, <1>11, <1>12 DEF HostHolds, Sound, text
<1> QED
  BY <1>3, <1>5, <1>6, <1>13, <1>14 DEF Moves, g

(* Another text becomes the authority, and revokes what the queue holds. *)
LEMMA FenceHolds ==
    ASSUME NEW h, NEW S, HostHolds(h, S), NEW text \in Texts, Holds(text, S)
    PROVE  /\ Moves(h, Fence(h, text), S)
           /\ Fence(h, text).postGen = h.postGen /\ Fence(h, text).activeGen = h.activeGen
           /\ Fence(h, text).posts = h.posts
<1>0. Sound(h, S) /\ HostTyped(h)
  BY DEF HostHolds, Sound
<1>1. PICK f : f = IF h.authority.text = text THEN h
                   ELSE [h EXCEPT !.authority = [token |-> @.token + 1, text |-> text]]
  OBVIOUS
<1>2. Fence(h, text) = IF f.authority.token = f.activeToken THEN f ELSE Retire(f)
  BY <1>1 DEF Fence
<1>3. CASE h.authority.text = text
  BY <1>0, <1>1, <1>2, <1>3, RetireHolds, Stays
<1>4. CASE h.authority.text # text
  <2>1. /\ Fields \subseteq DOMAIN f
        /\ f.authority = [token |-> h.authority.token + 1, text |-> text]
        /\ f.postGen = h.postGen /\ f.activeGen = h.activeGen
        /\ f.activeToken = h.activeToken /\ f.entry = h.entry /\ f.posts = h.posts
        /\ f.queue = h.queue /\ f.save = h.save
    BY <1>0, <1>1, <1>4 DEF HostTyped, Fields
  <2>2. HostTyped(f)
    BY <1>0, <2>1 DEF HostTyped
  <2>3. Generations(f) /\ f.authority.token # f.activeToken
    BY <1>0, <2>1 DEF Sound, Generations, HostTyped
  <2>4. Holds(f.authority.text, S) /\ QueueHolds(f, S) /\ Flushing(f)
    BY <1>0, <2>1 DEF Sound, QueueHolds, Flushing, HasLease
  <2>5. Sound(f, S)
    BY <2>2, <2>3, <2>4 DEF Sound
  <2>6. Follows(h, f)
    BY <2>1 DEF Follows
  <2> QED
    BY <1>2, <2>1, <2>3, <2>5, <2>6, RetireHolds, Chain
<1> QED
  BY <1>3, <1>4

(* A projection is added to those under way, under a generation of its own. *)
LEMMA PostsHold ==
    ASSUME NEW h, NEW S, HostHolds(h, S), NEW p, PostTyped(p), p.gen = h.postGen + 1
    PROVE  Moves(h, [h EXCEPT !.postGen = @ + 1, !.posts = @ \cup {p}], S)
<1>0. HostTyped(h) /\ Generations(h)
  BY DEF HostHolds, Sound
<1>1. PICK g : g = [h EXCEPT !.postGen = @ + 1, !.posts = @ \cup {p}]
  OBVIOUS
<1>2. /\ Fields \subseteq DOMAIN g
      /\ g.postGen = h.postGen + 1 /\ g.posts = h.posts \cup {p}
      /\ g.authority = h.authority /\ g.activeGen = h.activeGen
      /\ g.activeToken = h.activeToken /\ g.entry = h.entry
      /\ g.queue = h.queue /\ g.save = h.save
  BY <1>0, <1>1 DEF HostTyped, Fields
<1>3. HostTyped(g)
  BY <1>0, <1>2 DEF HostTyped
<1>4. Generations(g)
  <2>1. \A q \in h.posts : q.gen \in Nat
    BY <1>0 DEF HostTyped, PostTyped
  <2> QED
    BY <1>0, <1>2, <2>1 DEF Generations, HostTyped
<1>5. Holds(g.authority.text, S) /\ QueueHolds(g, S) /\ Flushing(g)
  BY <1>2 DEF HostHolds, Sound, QueueHolds, Flushing, HasLease
<1>6. Revoked(g) /\ Follows(h, g)
  BY <1>2 DEF HostHolds, Revoked, Kept, CurrentIn, Follows
<1> QED
  BY <1>1, <1>3, <1>4, <1>5, <1>6 DEF Moves, HostHolds, Sound

LEMMA StartPostHolds ==
    ASSUME NEW h, NEW S, HostHolds(h, S), NEW text \in Texts, Holds(text, S),
           NEW force, NEW origin \in {"change", "request", "initial"}, NEW retry
    PROVE  Moves(h, StartPost(h, text, force, origin, retry), S)
<1>1. PICK f : f = Fence(h, text)
  OBVIOUS
<1>2. Moves(h, f, S)
  BY <1>1, FenceHolds
<1>3. PICK p : p = [gen |-> f.postGen + 1, stage |-> "preparing", text |-> text,
                    token |-> f.authority.token, epoch |-> f.observed, force |-> force,
                    origin |-> origin, retry |-> retry, made |-> None]
  OBVIOUS
<1>4. PostTyped(p) /\ p.gen = f.postGen + 1
  <2>1. f.postGen \in Nat
    BY <1>2 DEF Moves, HostHolds, Sound, HostTyped
  <2> QED
    BY <1>3, <2>1 DEF PostTyped, PostFields
<1>5. StartPost(h, text, force, origin, retry) = [f EXCEPT !.postGen = @ + 1, !.posts = @ \cup {p}]
  BY <1>1, <1>3 DEF StartPost
<1>6. HostHolds(f, S) /\ Follows(h, f)
  BY <1>2 DEF Moves
<1>7. Moves(f, [f EXCEPT !.postGen = @ + 1, !.posts = @ \cup {p}], S)
  BY <1>4, <1>6, PostsHold
<1> QED
  BY <1>5, <1>6, <1>7, Chain

LEMMA StartRecoveryHolds ==
    ASSUME NEW h, NEW S, HostHolds(h, S), NEW text \in Texts, Holds(text, S), NEW followUp
    PROVE  Moves(h, StartRecovery(h, text, followUp), S)
<1>1. PICK r : r = [attempt |-> 1, restart |-> FALSE, followUp |-> followUp]
  OBVIOUS
<1>2. PICK g : g = [h EXCEPT !.recovery = r]
  OBVIOUS
<1>3. Moves(h, g, S)
  BY <1>2, Unseen
<1>4. StartRecovery(h, text, followUp) = StartPost(g, text, FALSE, "initial", FALSE)
  BY <1>1, <1>2 DEF StartRecovery
<1>5. Moves(g, StartPost(g, text, FALSE, "initial", FALSE), S)
  BY <1>3, StartPostHolds DEF Moves
<1> QED
  BY <1>3, <1>4, <1>5, Chain DEF Moves

LEMMA EnsureInitialHolds ==
    ASSUME NEW h, NEW S, HostHolds(h, S), NEW text \in Texts, Holds(text, S)
    PROVE  Moves(h, EnsureInitial(h, text), S)
BY Unseen, StartRecoveryHolds DEF EnsureInitial

LEMMA EndAttemptHolds ==
    ASSUME NEW h, NEW S, HostHolds(h, S), doc \in Texts, Holds(doc, S), NEW delivered
    PROVE  Moves(h, EndAttempt(h, delivered), S)
<1>1. CASE delivered
  BY <1>1, Unseen DEF EndAttempt
<1>2. CASE ~delivered /\ h.recovery.attempt < InitialAttempts
  <2>1. PICK g : g = [h EXCEPT !.recovery.attempt = @ + 1]
    OBVIOUS
  <2>2. Moves(h, g, S)
    BY <2>1, Unseen
  <2>3. EndAttempt(h, delivered) = StartPost(g, doc, TRUE, "initial", FALSE)
    BY <1>2, <2>1 DEF EndAttempt
  <2>4. Moves(g, StartPost(g, doc, TRUE, "initial", FALSE), S)
    BY <2>2, StartPostHolds DEF Moves
  <2> QED
    BY <2>2, <2>3, <2>4, Chain DEF Moves
<1>3. CASE ~delivered /\ ~(h.recovery.attempt < InitialAttempts)
  BY <1>3, Unseen, StartRecoveryHolds DEF EndAttempt
<1> QED
  BY <1>1, <1>2, <1>3

(* A projection is no longer under way. *)
LEMMA WithoutPost ==
    ASSUME NEW h, NEW S, HostHolds(h, S), NEW p
    PROVE  Moves(h, [h EXCEPT !.posts = @ \ {p}], S)
<1>0. HostTyped(h) /\ Generations(h)
  BY DEF HostHolds, Sound
<1>1. PICK g : g = [h EXCEPT !.posts = @ \ {p}]
  OBVIOUS
<1>2. /\ Fields \subseteq DOMAIN g
      /\ g.postGen = h.postGen /\ g.posts = h.posts \ {p}
      /\ g.authority = h.authority /\ g.activeGen = h.activeGen
      /\ g.activeToken = h.activeToken /\ g.entry = h.entry
      /\ g.queue = h.queue /\ g.save = h.save
  BY <1>0, <1>1 DEF HostTyped, Fields
<1>3. HostTyped(g) /\ Generations(g)
  BY <1>0, <1>2 DEF HostTyped, Generations
<1>4. Holds(g.authority.text, S) /\ QueueHolds(g, S) /\ Flushing(g)
  BY <1>2 DEF HostHolds, Sound, QueueHolds, Flushing, HasLease
<1>5. Revoked(g) /\ Follows(h, g)
  BY <1>2 DEF HostHolds, Revoked, Kept, CurrentIn, Follows
<1> QED
  BY <1>1, <1>3, <1>4, <1>5 DEF Moves, HostHolds, Sound

(* What a call of postDocument does when it returns. *)
Settled(g, p, delivered) ==
    CASE p.origin = "change" -> g
      [] p.origin = "request" -> [g EXCEPT !.initialized = delivered]
      [] p.origin = "initial" -> EndAttempt(g, delivered)

LEMMA SettledHolds ==
    ASSUME NEW h, NEW S, HostHolds(h, S), doc \in Texts, Holds(doc, S), NEW p, PostTyped(p),
           NEW delivered
    PROVE  Moves(h, Settled(h, p, delivered), S)
BY Stays, Unseen, EndAttemptHolds DEF Settled, PostTyped

LEMMA ReturnHolds ==
    ASSUME NEW h, NEW S, HostHolds(h, S), doc \in Texts, Holds(doc, S), NEW p, PostTyped(p),
           NEW delivered
    PROVE  Moves(h, Return(h, p, delivered), S)
<1>1. PICK g : g = [h EXCEPT !.posts = @ \ {p}]
  OBVIOUS
<1>2. Moves(h, g, S)
  BY <1>1, WithoutPost
<1>3. Return(h, p, delivered) = Settled(g, p, delivered)
  BY <1>1 DEF Return, Settled
<1>4. Moves(g, Settled(g, p, delivered), S)
  BY <1>2, SettledHolds DEF Moves
<1> QED
  BY <1>2, <1>3, <1>4, Chain DEF Moves

LEMMA EndReloadHolds ==
    ASSUME NEW h, NEW S, HostHolds(h, S), doc \in Texts, Holds(doc, S), NEW p, PostTyped(p)
    PROVE  Moves(h, EndReload(h, p, FALSE), S)
<1>1. CASE EndReload(h, p, FALSE) = Return(h, p, FALSE)
  BY <1>1, ReturnHolds
<1>2. CASE EndReload(h, p, FALSE) = StartPost([h EXCEPT !.posts = @ \ {p}], doc, TRUE, p.origin, TRUE)
  <2>1. PICK g : g = [h EXCEPT !.posts = @ \ {p}]
    OBVIOUS
  <2>2. Moves(h, g, S)
    BY <2>1, WithoutPost
  <2>3. Moves(g, StartPost(g, doc, TRUE, p.origin, TRUE), S)
    BY <2>2, StartPostHolds DEF Moves, PostTyped
  <2> QED
    BY <1>2, <2>1, <2>2, <2>3, Chain DEF Moves
<1> QED
  BY <1>1, <1>2 DEF EndReload

(* The document has changed: nothing under way is fresh any more. *)
Unfresh(h) ==
    /\ h.save.fresh = FALSE \/ h.save = NoSave
    /\ h.save.stage = "committing" => h.save.fresh = FALSE

LEMMA StaleJob ==
    ASSUME NEW j, JobTyped(j), NEW r, r = [j EXCEPT !.fresh = FALSE]
    PROVE  /\ JobTyped(r) /\ r.kind = j.kind /\ r.stage = j.stage /\ r.want = j.want
           /\ r.base = j.base /\ r.to = j.to /\ r.lost = j.lost /\ r.id = j.id
           /\ r.gen = j.gen /\ r.token = j.token
BY DEF JobTyped, JobFields

LEMMA HeadSame ==
    ASSUME NEW j, NEW r, NEW S, HeadHolds(j, S),
           /\ r.kind = j.kind /\ r.want = j.want /\ r.base = j.base /\ r.to = j.to
           /\ r.lost = j.lost /\ r.id = j.id,
           \/ r.stage = j.stage
           \/ j.stage = "applying" /\ r.stage = "applied"
           \/ j.stage = "restoring" /\ r.stage = "restored"
    PROVE  HeadHolds(r, S)
BY DEF HeadHolds, CommandHolds, SnapshotHolds

LEMMA OutdateHolds ==
    ASSUME NEW h, NEW S, HostHolds(h, S)
    PROVE  LET g == Outdate(h) IN
           /\ HostHolds(g, S)
           /\ g.save.fresh = FALSE /\ g.save.stage = h.save.stage
           /\ DOMAIN g.queue = DOMAIN h.queue
           /\ \A i \in DOMAIN h.queue :
                /\ g.queue[i].kind = h.queue[i].kind /\ g.queue[i].stage = h.queue[i].stage
                /\ g.queue[i].want = h.queue[i].want
<1> DEFINE g == Outdate(h)
<1>0. HostTyped(h) /\ Generations(h)
  BY DEF HostHolds, Sound
<1>1. /\ Fields \subseteq DOMAIN g
      /\ g.authority = h.authority /\ g.postGen = h.postGen /\ g.activeGen = h.activeGen
      /\ g.activeToken = h.activeToken /\ g.entry = h.entry /\ g.posts = h.posts
      /\ g.queue = [i \in DOMAIN h.queue |-> [h.queue[i] EXCEPT !.fresh = FALSE]]
      /\ g.save = [h.save EXCEPT !.fresh = FALSE]
  BY <1>0 DEF HostTyped, Fields, Outdate
<1> HIDE DEF g
<1>2. /\ SaveTyped(g.save) /\ g.save.fresh = FALSE /\ g.save.stage = h.save.stage
      /\ g.save.gen = h.save.gen /\ g.save.text = h.save.text
  BY <1>0, <1>1 DEF HostTyped, SaveTyped, SaveFields
<1>3. /\ DOMAIN g.queue = DOMAIN h.queue /\ IsSeq(g.queue)
      /\ \A i \in DOMAIN h.queue : g.queue[i] = [h.queue[i] EXCEPT !.fresh = FALSE]
  <2>1. PICK T : h.queue \in Seq(T)
    BY <1>0 DEF HostTyped, IsSeq
  <2>2. Len(h.queue) \in Nat /\ DOMAIN h.queue = 1 .. Len(h.queue)
    BY <2>1
  <2> DEFINE U == {g.queue[i] : i \in DOMAIN h.queue}
  <2>3. g.queue \in [1 .. Len(h.queue) -> U]
    BY <1>1, <2>2
  <2> HIDE DEF U
  <2>4. g.queue \in Seq(U)
    BY <2>2, <2>3
  <2> QED
    BY <1>1, <2>4 DEF IsSeq
<1>4. \A i \in DOMAIN h.queue :
        LET r == g.queue[i]
            j == h.queue[i]
        IN /\ JobTyped(r) /\ r.kind = j.kind /\ r.stage = j.stage /\ r.want = j.want
           /\ r.base = j.base /\ r.to = j.to /\ r.lost = j.lost /\ r.id = j.id
           /\ r.gen = j.gen /\ r.token = j.token
  BY <1>0, <1>3, StaleJob DEF HostTyped
<1>5. HostTyped(g) /\ Generations(g)
  <2>1. \A i \in DOMAIN g.queue : JobTyped(g.queue[i])
    BY <1>3, <1>4
  <2> QED
    BY <1>0, <1>1, <1>2, <1>3, <2>1 DEF HostTyped, Generations
<1>6. QueueHolds(g, S)
  <2>1. g.queue # <<>> => HeadHolds(g.queue[1], S)
    <3> SUFFICES ASSUME g.queue # <<>> PROVE HeadHolds(g.queue[1], S)
      OBVIOUS
    <3>1. 1 \in DOMAIN h.queue
      BY <1>3, SeqFacts
    <3>2. HeadHolds(h.queue[1], S)
      BY <3>1 DEF HostHolds, Sound, QueueHolds
    <3> QED
      BY <1>4, <3>1, <3>2, HeadSame
  <2> QED
    BY <1>3, <1>4, <2>1 DEF QueueHolds, HostHolds, Sound, Waits
<1>7. HasLease(h) => HasLease(g)
  <2> SUFFICES ASSUME HasLease(h) PROVE HasLease(g)
    OBVIOUS
  <2>1. 1 \in DOMAIN h.queue
    BY <1>0, SeqFacts DEF HasLease, HostTyped
  <2> QED
    BY <1>3, <1>4, <2>1 DEF HasLease
<1>8. Flushing(g)
  BY <1>1, <1>2, <1>7 DEF Flushing, HostHolds, Sound
<1>9. Revoked(g)
  BY <1>1, <1>3, <1>4 DEF HostHolds, Revoked, Kept, CurrentIn
<1>10. Holds(g.authority.text, S)
  BY <1>1 DEF HostHolds, Sound
<1> QED
  BY <1>2, <1>3, <1>4, <1>5, <1>6, <1>8, <1>9, <1>10 DEF HostHolds, Sound, g

LEMMA ChangedHolds ==
    ASSUME NEW h, NEW S, HostHolds(h, S), NEW text \in Texts, Holds(text, S)
    PROVE  Moves(h, Changed(h, text), S)
<1>1. PICK g : g = IF BagIn(text, h.expected)
                   THEN [h EXCEPT !.expected = @ (-) SetToBag({text})] ELSE h
  OBVIOUS
<1>2. Moves(h, g, S)
  <2>1. PICK x : x = h.expected (-) SetToBag({text})
    OBVIOUS
  <2>2. g = [h EXCEPT !.expected = x] \/ g = h
    BY <1>1, <2>1
  <2>3. Moves(h, [h EXCEPT !.expected = x], S) /\ Moves(h, h, S)
    BY Unseen, Stays
  <2> QED
    BY <2>2, <2>3
<1>3. HostHolds(g, S) /\ Follows(h, g)
  BY <1>2 DEF Moves
<1>4. \/ Changed(h, text) = EnsureInitial(g, text)
      \/ Changed(h, text) = g
      \/ Changed(h, text) = Reload(g, text)
  BY <1>1 DEF Changed
<1>5. Moves(g, EnsureInitial(g, text), S)
  BY <1>3, EnsureInitialHolds
<1>6. Moves(g, Reload(g, text), S)
  BY <1>3, StartPostHolds DEF Reload
<1> QED
  BY <1>2, <1>3, <1>4, <1>5, <1>6, Chain

(* A change of the document, as the host hears of it. *)
LEMMA ChangeHolds ==
    ASSUME NEW h, NEW S, HostHolds(h, S), NEW text \in Texts, Holds(text, S)
    PROVE  LET g == Changed(Outdate(h), text) IN
           /\ HostHolds(g, S) /\ Committing(g, text)
           /\ g.save.stage = h.save.stage \/ g.save = NoSave
           /\ DOMAIN g.queue = DOMAIN h.queue
           /\ \A i \in DOMAIN h.queue :
                /\ g.queue[i].kind = h.queue[i].kind /\ g.queue[i].stage = h.queue[i].stage
                /\ g.queue[i].want = h.queue[i].want
<1>1. PICK f : f = Outdate(h)
  OBVIOUS
<1>2. /\ HostHolds(f, S) /\ f.save.fresh = FALSE /\ f.save.stage = h.save.stage
      /\ DOMAIN f.queue = DOMAIN h.queue
      /\ \A i \in DOMAIN h.queue :
           /\ f.queue[i].kind = h.queue[i].kind /\ f.queue[i].stage = h.queue[i].stage
           /\ f.queue[i].want = h.queue[i].want
  BY <1>1, OutdateHolds
<1>3. PICK g : g = Changed(f, text)
  OBVIOUS
<1>4. HostHolds(g, S) /\ Follows(f, g)
  BY <1>2, <1>3, ChangedHolds DEF Moves
<1>5. Committing(g, text)
  BY <1>2, <1>4 DEF Committing, Follows, NoSave
<1> QED
  BY <1>1, <1>2, <1>3, <1>4, <1>5 DEF Follows

(* The reload has been applied: its projection becomes the active one. *)
LEMMA ActivateHolds ==
    ASSUME NEW S, HostHolds(host, S), NEW p \in host.posts, p.stage = "posted",
           p.gen = host.postGen, host.authority.token = p.token
    PROVE  Moves(host, [Activate(p) EXCEPT !.posts = @ \ {p}], S)
<1>0. HostTyped(host) /\ Generations(host) /\ Sound(host, S)
  BY DEF HostHolds, Sound
<1>1. PICK f : f = Retire(host)
  OBVIOUS
<1>2. /\ HostHolds(f, S) /\ Follows(host, f)
      /\ \A i \in DOMAIN f.queue : f.queue[i].kind = "snapshot" => f.queue[i].lost # None
      /\ f.authority = host.authority /\ f.postGen = host.postGen /\ f.activeGen = host.activeGen
      /\ f.posts = host.posts
  BY <1>0, <1>1, RetireHolds DEF Moves
<1>3. PICK g : g = [Activate(p) EXCEPT !.posts = @ \ {p}]
  OBVIOUS
<1>4. /\ Fields \subseteq DOMAIN g
      /\ g.authority = f.authority /\ g.postGen = f.postGen /\ g.posts = f.posts \ {p}
      /\ g.activeGen = p.gen /\ g.activeToken = p.token /\ g.entry = p.made
      /\ g.queue = f.queue /\ g.save = f.save
  <2>1. Fields \subseteq DOMAIN f
    BY <1>2 DEF HostHolds, Sound, HostTyped
  <2> QED
    BY <1>1, <1>3, <2>1 DEF Activate, Fields
<1>5. HostTyped(f) /\ Generations(f)
  BY <1>2 DEF HostHolds, Sound
<1>6. p.made \in Entries /\ p.gen \in Nat /\ p.token \in Nat
  BY <1>0 DEF HostTyped, PostTyped
<1>7. HostTyped(g)
  BY <1>4, <1>5, <1>6 DEF HostTyped
<1>8. p.gen > f.activeGen
  BY <1>0, <1>2, <1>5, <1>6 DEF Generations, HostTyped
<1>9. Generations(g)
  <2>1. g.activeToken <= g.authority.token /\ g.activeGen <= g.postGen
    BY <1>2, <1>4, <1>6 
  <2>2. g.save.gen <= g.activeGen
    BY <1>4, <1>5, <1>6, <1>8 DEF Generations, HostTyped, SaveTyped
  <2>3. \A q \in g.posts : q.gen <= g.postGen /\ q.gen # g.activeGen
    BY <1>2, <1>4, <1>5 DEF Generations
  <2>4. \A q, r \in g.posts : q.gen = r.gen => q = r
    BY <1>4, <1>5 DEF Generations
  <2> QED
    BY <2>1, <2>2, <2>3, <2>4 DEF Generations
<1>10. Holds(g.authority.text, S) /\ QueueHolds(g, S)
  BY <1>2, <1>4 DEF HostHolds, Sound, QueueHolds
<1>11. Flushing(g)
  <2>1. g.activeGen # g.save.gen
    BY <1>4, <1>5, <1>6, <1>8 DEF Generations, HostTyped, SaveTyped
  <2> QED
    BY <1>2, <1>4, <2>1 DEF Flushing, HasLease, HostHolds, Sound
<1>12. Revoked(g)
  BY <1>2, <1>4 DEF Revoked, Kept
<1>13. Follows(f, g)
  BY <1>4 DEF Follows
<1>14. Moves(f, g, S)
  BY <1>7, <1>9, <1>10, <1>11, <1>12, <1>13 DEF Moves, HostHolds, Sound
<1> QED
  BY <1>2, <1>3, <1>14, Chain

LEMMA ReloadResultHolds ==
    ASSUME NEW S, HostHolds(host, S), doc \in Texts, Holds(doc, S), NEW m
    PROVE  Moves(host, ReloadResult(m), S)
<1>0. \A p \in host.posts : PostTyped(p)
  BY DEF HostHolds, Sound, HostTyped
<1>1. PICK found : found = {p \in host.posts : p.stage = "posted" /\ p.gen = m.gen}
  OBVIOUS
<1>2. CASE found = {}
  BY <1>1, <1>2, Stays DEF ReloadResult
<1>3. CASE found # {}
  <2>1. PICK p : p = CHOOSE q \in found : TRUE
    OBVIOUS
  <2>2. p \in host.posts /\ p.stage = "posted" /\ PostTyped(p)
    BY <1>0, <1>1, <1>3, <2>1
  <2>3. \/ /\ p.gen = host.postGen /\ host.authority.token = p.token
           /\ ReloadResult(m) = EndReload(Activate(p), p, TRUE)
        \/ ReloadResult(m) = EndReload(Reload(host, doc), p, FALSE)
        \/ ReloadResult(m) = EndReload(host, p, FALSE)
    BY <1>1, <1>3, <2>1 DEF ReloadResult
  <2>4. CASE /\ p.gen = host.postGen /\ host.authority.token = p.token
             /\ ReloadResult(m) = EndReload(Activate(p), p, TRUE)
    <3>1. PICK g : g = [Activate(p) EXCEPT !.posts = @ \ {p}]
      OBVIOUS
    <3>2. Moves(host, g, S)
      BY <2>2, <2>4, <3>1, ActivateHolds
    <3>3. ReloadResult(m) = Settled(g, p, TRUE)
      BY <2>4, <3>1 DEF EndReload, Return, Settled
    <3>4. HostHolds(g, S) /\ Follows(host, g)
      BY <3>2 DEF Moves
    <3> QED
      BY <2>2, <3>3, <3>4, SettledHolds, Chain
  <2>5. CASE ReloadResult(m) = EndReload(Reload(host, doc), p, FALSE)
    <3>1. PICK g : g = Reload(host, doc)
      OBVIOUS
    <3>2. HostHolds(g, S) /\ Follows(host, g)
      BY <3>1, StartPostHolds DEF Reload, Moves
    <3> QED
      BY <2>2, <2>5, <3>1, <3>2, EndReloadHolds, Chain
  <2>6. CASE ReloadResult(m) = EndReload(host, p, FALSE)
    BY <2>2, <2>6, EndReloadHolds
  <2> QED
    BY <2>3, <2>4, <2>5, <2>6
<1> QED
  BY <1>2, <1>3

-----------------------------------------------------------------------------
(* What the steps of a job and of a save do to the host. *)

(* The save is not waiting for the last snapshot when another job than its *)
(* lease is under way.                                                     *)
LEMMA NotFlushing ==
    ASSUME NEW h, NEW S, HostHolds(h, S), h.queue # <<>>, h.queue[1].kind # "lease"
    PROVE  h.save.stage # "flushing"
BY DEF HostHolds, Sound, Flushing, HasLease

LEMMA DoneHolds ==
    ASSUME NEW h, NEW S, HostHolds(h, S), h.queue # <<>>, h.save.stage # "flushing"
    PROVE  HostHolds(Done(h), S) /\ Done(h).save = h.save
<1>0. HostTyped(h) /\ Generations(h)
  BY DEF HostHolds, Sound
<1>1. PICK g : g = Done(h)
  OBVIOUS
<1>2. /\ Fields \subseteq DOMAIN g /\ g.queue = Tail(h.queue)
      /\ g.authority = h.authority /\ g.postGen = h.postGen /\ g.activeGen = h.activeGen
      /\ g.activeToken = h.activeToken /\ g.entry = h.entry /\ g.posts = h.posts
      /\ g.save = h.save
  BY <1>0, <1>1 DEF HostTyped, Fields, Done
<1>3. /\ IsSeq(g.queue)
      /\ \A i \in DOMAIN g.queue : i + 1 \in DOMAIN h.queue /\ i + 1 # 1 /\ g.queue[i] = h.queue[i + 1]
  BY <1>0, <1>2, TailFacts DEF HostTyped
<1>4. \A i \in DOMAIN g.queue : JobTyped(g.queue[i])
  BY <1>0, <1>3 DEF HostTyped
<1>5. \A i \in DOMAIN g.queue : Waits(g.queue[i])
  BY <1>3 DEF HostHolds, Sound, QueueHolds
<1>6. HostTyped(g) /\ Generations(g)
  BY <1>0, <1>2, <1>3, <1>4 DEF HostTyped, Generations
<1>7. QueueHolds(g, S)
  BY <1>3, <1>5, SeqFacts DEF QueueHolds, HeadHolds, Waits
<1>8. Revoked(g)
  BY <1>2, <1>3 DEF HostHolds, Revoked, Kept, CurrentIn
<1>9. Holds(g.authority.text, S) /\ Flushing(g)
  BY <1>2 DEF HostHolds, Sound, Flushing
<1> QED
  BY <1>1, <1>2, <1>6, <1>7, <1>8, <1>9 DEF HostHolds, Sound

(* The job at the head becomes j. *)
LEMMA NowHolds ==
    ASSUME NEW h, NEW S, HostHolds(h, S), h.queue # <<>>, h.queue[1].kind # "lease",
           NEW j, JobTyped(j), HeadHolds(j, S), Kept(h, j),
           NEW g, g = [h EXCEPT !.queue[1] = j]
    PROVE  HostHolds(g, S) /\ g.save = h.save
<1>0. HostTyped(h) /\ Generations(h)
  BY DEF HostHolds, Sound
<1>1. 1 \in DOMAIN h.queue
  BY <1>0, SeqFacts DEF HostTyped
<1>2. /\ Fields \subseteq DOMAIN g /\ g.queue = [h.queue EXCEPT ![1] = j]
      /\ g.authority = h.authority /\ g.postGen = h.postGen /\ g.activeGen = h.activeGen
      /\ g.activeToken = h.activeToken /\ g.entry = h.entry /\ g.posts = h.posts
      /\ g.save = h.save
  BY <1>0 DEF HostTyped, Fields
<1>3. /\ DOMAIN g.queue = DOMAIN h.queue /\ g.queue[1] = j
      /\ \A i \in DOMAIN h.queue : i # 1 => g.queue[i] = h.queue[i]
  BY <1>1, <1>2
<1>4. IsSeq(g.queue)
  <2>1. PICK T : h.queue \in Seq(T)
    BY <1>0 DEF HostTyped, IsSeq
  <2>2. Len(h.queue) \in Nat /\ DOMAIN h.queue = 1 .. Len(h.queue)
    BY <2>1
  <2> DEFINE U == T \cup {j}
  <2>3. h.queue \in [1 .. Len(h.queue) -> U] /\ j \in U
    BY <2>1, <2>2
  <2> HIDE DEF U
  <2>4. g.queue \in [1 .. Len(h.queue) -> U]
    BY <1>2, <2>3
  <2> QED
    BY <2>2, <2>4, FunctionIsSeq
<1>5. HostTyped(g) /\ Generations(g)
  <2>1. \A i \in DOMAIN g.queue : JobTyped(g.queue[i])
    BY <1>0, <1>3 DEF HostTyped
  <2> QED
    BY <1>0, <1>2, <1>4, <2>1 DEF HostTyped, Generations
<1>6. QueueHolds(g, S)
  BY <1>3 DEF QueueHolds, HostHolds, Sound
<1>7. Revoked(g)
  BY <1>2, <1>3 DEF HostHolds, Revoked, Kept, CurrentIn
<1>8. h.save.stage # "flushing"
  BY NotFlushing
<1>9. Holds(g.authority.text, S) /\ Flushing(g)
  BY <1>2, <1>8 DEF HostHolds, Sound, Flushing
<1> QED
  BY <1>2, <1>5, <1>6, <1>7, <1>9 DEF HostHolds, Sound

LEMMA AdmitHolds ==
    ASSUME NEW h, NEW S, HostHolds(h, S), NEW j, JobTyped(j), Waits(j), Kept(h, j)
    PROVE  LET g == [h EXCEPT !.queue = Append(@, j)] IN
           HostHolds(g, S) /\ g.save = h.save
<1>0. HostTyped(h) /\ Generations(h)
  BY DEF HostHolds, Sound
<1>1. PICK g : g = [h EXCEPT !.queue = Append(@, j)]
  OBVIOUS
<1>2. /\ Fields \subseteq DOMAIN g /\ g.queue = Append(h.queue, j)
      /\ g.authority = h.authority /\ g.postGen = h.postGen /\ g.activeGen = h.activeGen
      /\ g.activeToken = h.activeToken /\ g.entry = h.entry /\ g.posts = h.posts
      /\ g.save = h.save
  BY <1>0, <1>1 DEF HostTyped, Fields
<1>3. /\ IsSeq(g.queue) /\ DOMAIN g.queue = DOMAIN h.queue \cup {Len(h.queue) + 1}
      /\ g.queue[Len(h.queue) + 1] = j
      /\ \A i \in DOMAIN h.queue : g.queue[i] = h.queue[i]
  BY <1>0, <1>2, AppendFacts DEF HostTyped
<1>4. h.queue # <<>> => 1 \in DOMAIN h.queue
  BY <1>0, SeqFacts DEF HostTyped
<1>5. HostTyped(g) /\ Generations(g)
  <2>1. \A i \in DOMAIN g.queue : JobTyped(g.queue[i])
    BY <1>0, <1>3 DEF HostTyped
  <2> QED
    BY <1>0, <1>2, <1>3, <2>1 DEF HostTyped, Generations
<1>6. QueueHolds(g, S)
  <2>1. HeadHolds(g.queue[1], S)
    <3>1. CASE h.queue # <<>>
      BY <1>3, <1>4, <3>1 DEF QueueHolds, HostHolds, Sound
    <3>2. CASE h.queue = <<>>
      <4>1. g.queue[1] = j
        BY <1>3, <3>2
      <4> QED
        BY <4>1 DEF HeadHolds, Waits
    <3> QED
      BY <3>1, <3>2
  <2>2. \A i \in DOMAIN g.queue : i # 1 => Waits(g.queue[i])
    BY <1>3 DEF QueueHolds, HostHolds, Sound
  <2> QED
    BY <2>1, <2>2 DEF QueueHolds
<1>7. Revoked(g)
  BY <1>2, <1>3 DEF HostHolds, Revoked, Kept, CurrentIn
<1>8. Holds(g.authority.text, S) /\ Flushing(g)
  BY <1>2, <1>3, <1>4 DEF HostHolds, Sound, Flushing, HasLease
<1> QED
  BY <1>1, <1>2, <1>5, <1>6, <1>7, <1>8 DEF HostHolds, Sound

LEMMA EntryHolds ==
    ASSUME NEW h, NEW S, HostHolds(h, S), NEW e \in Entries,
           h.save.stage = "flushing" => e.owned = h.entry.owned
    PROVE  LET g == [h EXCEPT !.entry = e] IN
           /\ HostHolds(g, S) /\ g.save = h.save /\ g.queue = h.queue /\ g.entry = e
           /\ g.authority = h.authority
<1>0. HostTyped(h) /\ Generations(h)
  BY DEF HostHolds, Sound
<1>1. PICK g : g = [h EXCEPT !.entry = e]
  OBVIOUS
<1>2. /\ Fields \subseteq DOMAIN g /\ g.queue = h.queue /\ g.entry = e
      /\ g.authority = h.authority /\ g.postGen = h.postGen /\ g.activeGen = h.activeGen
      /\ g.activeToken = h.activeToken /\ g.posts = h.posts /\ g.save = h.save
  BY <1>0, <1>1 DEF HostTyped, Fields
<1>3. HostTyped(g) /\ Generations(g)
  BY <1>0, <1>2 DEF HostTyped, Generations
<1>4. Holds(g.authority.text, S) /\ QueueHolds(g, S) /\ Flushing(g)
  BY <1>2 DEF HostHolds, Sound, QueueHolds, Flushing, HasLease
<1>5. Revoked(g)
  BY <1>2 DEF HostHolds, Revoked, Kept, CurrentIn
<1> QED
  BY <1>1, <1>2, <1>3, <1>4, <1>5 DEF HostHolds, Sound

(* The owner follows a text that differs only in the rest. *)
LEMMA RebaseHolds ==
    ASSUME NEW h, NEW S, HostHolds(h, S), NEW text \in Texts,
           NEW g, g = [h EXCEPT !.entry.text = text]
    PROVE  HostHolds(g, S) /\ g.save = h.save /\ g.queue = h.queue
           /\ g.authority = h.authority /\ g.entry.owned = h.entry.owned
<1>1. h.entry \in Entries /\ Fields \subseteq DOMAIN h
  BY DEF HostHolds, Sound, HostTyped
<1>2. PICK e : e = [h.entry EXCEPT !.text = text]
  OBVIOUS
<1>3. e \in Entries /\ e.owned = h.entry.owned
  BY <1>1, <1>2 DEF Entries
<1>4. PICK k : k = [h EXCEPT !.entry = e]
  OBVIOUS
<1>5. /\ HostHolds(k, S) /\ k.save = h.save /\ k.queue = h.queue /\ k.entry = e
      /\ k.authority = h.authority
  <2>1. h.save.stage = "flushing" => e.owned = h.entry.owned
    BY <1>3
  <2> QED
    BY <1>3, <1>4, <2>1, EntryHolds
<1>6. k = g
  BY <1>2, <1>4
<1>7. /\ HostHolds(g, S) /\ g.save = h.save /\ g.queue = h.queue /\ g.entry = e
      /\ g.authority = h.authority
  BY <1>5, <1>6
<1> QED
  BY <1>3, <1>7

LEMMA CommitHolds ==
    ASSUME NEW h, NEW S, HostHolds(h, S), NEW text \in Texts, Holds(text, S)
    PROVE  LET g == Commit(h, text) IN
           /\ HostHolds(g, S) /\ g.save = h.save /\ g.queue = h.queue /\ g.entry = h.entry
           /\ g.authority.token = h.authority.token /\ g.activeGen = h.activeGen
           /\ g.activeToken = h.activeToken
<1>0. HostTyped(h) /\ Generations(h)
  BY DEF HostHolds, Sound
<1>1. PICK g : g = Commit(h, text)
  OBVIOUS
<1>2. /\ Fields \subseteq DOMAIN g /\ g.queue = h.queue /\ g.entry = h.entry
      /\ g.authority = [h.authority EXCEPT !.text = text]
      /\ g.postGen = h.postGen /\ g.activeGen = h.activeGen
      /\ g.activeToken = h.activeToken /\ g.posts = h.posts /\ g.save = h.save
  BY <1>0, <1>1 DEF HostTyped, Fields, Commit
<1>3. /\ g.authority \in [token : Nat, text : Texts]
      /\ g.authority.token = h.authority.token /\ g.authority.text = text
  BY <1>0, <1>2 DEF HostTyped
<1>4. HostTyped(g) /\ Generations(g)
  BY <1>0, <1>2, <1>3 DEF HostTyped, Generations
<1>5. Holds(g.authority.text, S) /\ QueueHolds(g, S) /\ Flushing(g)
  BY <1>2, <1>3 DEF HostHolds, Sound, QueueHolds, Flushing, HasLease
<1>6. Revoked(g)
  BY <1>2, <1>3 DEF HostHolds, Revoked, Kept, CurrentIn
<1> QED
  BY <1>1, <1>2, <1>3, <1>4, <1>5, <1>6 DEF HostHolds, Sound

LEMMA SaveHolds ==
    ASSUME NEW h, NEW S, HostHolds(h, S), NEW s, SaveTyped(s), s.gen <= h.activeGen,
           s.stage # "flushing", NEW g, g = [h EXCEPT !.save = s]
    PROVE  HostHolds(g, S) /\ g.save = s /\ g.queue = h.queue
<1>0. HostTyped(h) /\ Generations(h)
  BY DEF HostHolds, Sound
<1>2. /\ Fields \subseteq DOMAIN g /\ g.queue = h.queue /\ g.entry = h.entry
      /\ g.authority = h.authority /\ g.postGen = h.postGen /\ g.activeGen = h.activeGen
      /\ g.activeToken = h.activeToken /\ g.posts = h.posts /\ g.save = s
  BY <1>0 DEF HostTyped, Fields
<1>4. HostTyped(g) /\ Generations(g)
  BY <1>0, <1>2 DEF HostTyped, Generations
<1>5. Holds(g.authority.text, S) /\ QueueHolds(g, S) /\ Flushing(g)
  BY <1>2 DEF HostHolds, Sound, QueueHolds, Flushing
<1>6. Revoked(g)
  BY <1>2 DEF HostHolds, Revoked, Kept, CurrentIn
<1> QED
  BY <1>2, <1>4, <1>5, <1>6 DEF HostHolds, Sound

LEMMA RefusedHolds ==
    ASSUME NEW h, NEW S, HostHolds(h, S)
    PROVE  HostHolds(Refused(h), S) /\ Refused(h).save = NoSave /\ Refused(h).queue = h.queue
<1>1. SaveTyped(NoSave) /\ NoSave.gen = 0 /\ NoSave.stage = "none"
  BY DEF NoSave, SaveTyped, SaveFields
<1>2. h.activeGen \in Nat
  BY DEF HostHolds, Sound, HostTyped
<1> QED
  BY <1>1, <1>2, SaveHolds DEF Refused

LEMMA WithoutLeaseHolds ==
    ASSUME NEW h, NEW S, HostHolds(h, S), h.save.stage # "flushing"
    PROVE  HostHolds(WithoutLease(h), S) /\ WithoutLease(h).save = h.save
BY DoneHolds DEF WithoutLease, HasLease

(* Keeping account of the edits to come changes nothing else. *)
LEMMA ExpectHolds ==
    ASSUME NEW h, NEW S, HostHolds(h, S), NEW text
    PROVE  /\ HostHolds(Expect(h, text), S) /\ Expect(h, text).save = h.save
           /\ Expect(h, text).queue = h.queue
           /\ HostHolds(Cancel(h, text), S) /\ Cancel(h, text).save = h.save
           /\ Cancel(h, text).queue = h.queue
<1>0. Fields \subseteq DOMAIN h
  BY DEF HostHolds, Sound, HostTyped
<1>1. PICK x : x = h.expected (+) SetToBag({text})
  OBVIOUS
<1>2. PICK y : y = h.expected (-) SetToBag({text})
  OBVIOUS
<1>3. Expect(h, text) = [h EXCEPT !.expected = x] /\ Cancel(h, text) = [h EXCEPT !.expected = y]
  BY <1>1, <1>2 DEF Expect, Cancel
<1>4. HostHolds(Expect(h, text), S) /\ HostHolds(Cancel(h, text), S)
  <2>1. Moves(h, [h EXCEPT !.expected = x], S) /\ Moves(h, [h EXCEPT !.expected = y], S)
    BY Unseen
  <2> QED
    BY <1>3, <2>1 DEF Moves
<1> QED
  BY <1>0, <1>3, <1>4 DEF Fields

LEMMA NowJob ==
    ASSUME NEW h, NEW S, HostHolds(h, S), h.queue # <<>>, h.queue[1].kind # "lease",
           NEW j, JobTyped(j), HeadHolds(j, S), Kept(h, j)
    PROVE  HostHolds(Now(h, j), S) /\ Now(h, j).save = h.save
BY NowHolds DEF Now

-----------------------------------------------------------------------------
(* What a step leaves to show. *)

LEMMA TellsNothing ==
    ASSUME IsSeq(toView), NEW m, toView' = Append(toView, m), ~IsOk(m)
    PROVE  Told' = Told
BY AppendFacts DEF Told

(* A step of the host that accepts no command, and may take a message. *)
LEMMA HostReceives ==
    ASSUME KeptInv, UNCHANGED <<webVars, issued, edits, externals, kept, replaced>>,
           IsSeq(toHost'), Elements(toHost') \subseteq Elements(toHost),
           saves' \in Nat, saved' \in Texts,
           \/ UNCHANGED toView
           \/ \E m : toView' = Append(toView, m) /\ ToViewTyped(m) /\ ~IsOk(m),
           doc' \in Texts, Holds(doc', Live), HostHolds(host', Live), Committing(host', doc')
    PROVE  KeptInv'
<1>1. MailTyped' /\ Told' = Told
  <2>1. CASE UNCHANGED toView
    BY <2>1 DEF KeptInv, MailTyped, Told
  <2>2. CASE \E m : toView' = Append(toView, m) /\ ToViewTyped(m) /\ ~IsOk(m)
    <3>1. PICK m : toView' = Append(toView, m) /\ ToViewTyped(m) /\ ~IsOk(m)
      BY <2>2
    <3> QED
      BY <3>1, AppendFacts, TellsNothing DEF KeptInv, MailTyped
  <2> QED
    BY <2>1, <2>2
<1>2. Live' = Live
  BY <1>1 DEF Live
<1>3. ViewTyped'
  BY DEF KeptInv, ViewTyped, webVars, commandVars, restVars
<1> QED
  BY <1>1, <1>2, <1>3 DEF KeptInv

(* One that takes none. *)
LEMMA HostStep ==
    ASSUME KeptInv, UNCHANGED <<webVars, toHost, issued, edits, externals, kept, replaced>>,
           saves' \in Nat, saved' \in Texts,
           \/ UNCHANGED toView
           \/ \E m : toView' = Append(toView, m) /\ ToViewTyped(m) /\ ~IsOk(m),
           doc' \in Texts, Holds(doc', Live), HostHolds(host', Live), Committing(host', doc')
    PROVE  KeptInv'
<1>1. IsSeq(toHost') /\ Elements(toHost') \subseteq Elements(toHost)
  BY DEF KeptInv, MailTyped
<1> QED
  BY <1>1, HostReceives

LEMMA HostFacts ==
    ASSUME KeptInv
    PROVE  /\ HostHolds(host, Live) /\ Committing(host, doc)
           /\ doc \in Texts /\ saved \in Texts /\ saves \in Nat /\ Holds(doc, Live)
           /\ HostTyped(host) /\ host.entry \in Entries /\ host.entry.owned \in Owned
           /\ Fields \subseteq DOMAIN host /\ IsSeq(host.queue)
           /\ host.authority.text \in Texts /\ Holds(host.authority.text, Live)
BY DEF KeptInv, ViewTyped, HostHolds, Sound, HostTyped, Entries

(* The job under way, of either kind. *)
LEMMA JobFacts ==
    ASSUME KeptInv, NEW kind \in {"command", "snapshot"}, NEW stage, Running(kind, stage)
    PROVE  /\ host.queue # <<>> /\ Job = host.queue[1] /\ 1 \in DOMAIN host.queue
           /\ Job.kind = kind /\ Job.stage = stage /\ Job.kind # "lease"
           /\ JobTyped(Job) /\ HeadHolds(Job, Live) /\ Kept(host, Job)
           /\ host.save.stage # "flushing"
<1>1. host.queue # <<>> /\ Job = host.queue[1] /\ Job.kind = kind /\ Job.stage = stage
  BY DEF Running, Job
<1>2. 1 \in DOMAIN host.queue
  BY <1>1, HostFacts, SeqFacts
<1>3. JobTyped(Job) /\ HeadHolds(Job, Live) /\ Kept(host, Job)
  BY <1>1, <1>2, HostFacts DEF HostTyped, HostHolds, Sound, QueueHolds, Revoked
<1>4. host.save.stage # "flushing"
  BY <1>1, HostFacts, NotFlushing
<1> QED
  BY <1>1, <1>2, <1>3, <1>4

LEMMA ResultTyped ==
    ASSUME NEW h, HostTyped(h), NEW id, NEW ok
    PROVE  /\ ToViewTyped(Result(id, ok, h))
           /\ IsOk(Result(id, ok, h)) <=> ok
           /\ Result(id, ok, h).id = id
BY DEF ToViewTyped, Result, IsOk, HostTyped, Entries

LEMMA JobSideFacts ==
    ASSUME KeptInv, UNCHANGED JobSide
    PROVE  /\ UNCHANGED <<webVars, toHost, issued, edits, externals, kept, replaced>>
           /\ saves' \in Nat /\ saved' \in Texts
BY HostFacts DEF JobSide, historyVars

(* A refused command leaves the queue. *)
LEMMA FailStep ==
    ASSUME KeptInv, UNCHANGED <<JobSide, doc>>, NEW h, HostHolds(h, Live), h.queue # <<>>,
           h.save = host.save, host.save.stage # "flushing", Fail(h)
    PROVE  KeptInv'
<1>1. host' = Done(h) /\ toView' = Append(toView, Result(Job.id, FALSE, h))
  BY DEF Fail, Answer
<1>2. HostHolds(host', Live) /\ host'.save = host.save
  BY <1>1, DoneHolds
<1>3. HostTyped(h)
  BY DEF HostHolds, Sound
<1>4. ToViewTyped(Result(Job.id, FALSE, h)) /\ ~IsOk(Result(Job.id, FALSE, h))
  BY <1>3, ResultTyped
<1>5. Committing(host', doc)
  BY <1>2, HostFacts DEF Committing
<1> QED
  BY <1>1, <1>2, <1>4, <1>5, HostFacts, JobSideFacts, HostStep

(* A step of a job that neither ends a command nor edits the document. *)
LEMMA JobStep ==
    ASSUME KeptInv, UNCHANGED <<JobSide, doc, toView>>, HostHolds(host', Live), host'.save = host.save
    PROVE  KeptInv'
<1>1. Committing(host', doc)
  BY HostFacts DEF Committing
<1> QED
  BY <1>1, HostFacts, JobSideFacts, HostStep

(* ... or hears of a change of the document. *)
LEMMA FollowStep ==
    ASSUME KeptInv, UNCHANGED <<JobSide, doc, toView>>, NEW h, h.save = host.save,
           Moves(h, host', Live)
    PROVE  KeptInv'
<1>1. HostHolds(host', Live) /\ (host'.save = host.save \/ host'.save = NoSave)
  BY DEF Moves, Follows
<1>2. Committing(host', doc)
  BY <1>1, HostFacts DEF Committing, NoSave
<1> QED
  BY <1>1, <1>2, HostFacts, JobSideFacts, HostStep

-----------------------------------------------------------------------------
(* The jobs. *)

LEMMA OwnedText ==
    ASSUME NEW d \in Texts, NEW id \in Nat, NEW S, Holds(d, S),
           NEW t, t = [d EXCEPT !.owned = WithCommand(@, id)]
    PROVE  t \in Texts /\ Holds(t, S) /\ id \in Elements(t.owned.cmds)
           /\ Elements(t.owned.cmds) = Elements(d.owned.cmds) \cup {id}
<1>1. d.owned \in Owned /\ d.rest \in Nat /\ d.owned.cmds \in Seq(Nat) /\ IsSeq(d.owned.cmds)
  BY DEF Texts, Owned, IsSeq
<1>2. t.owned = [d.owned EXCEPT !.cmds = Append(@, id)] /\ t.rest = d.rest /\ t \in [owned : {t.owned}, rest : Nat]
  BY DEF Texts, WithCommand
<1>3. Append(d.owned.cmds, id) \in Seq(Nat)
  BY <1>1
<1>4. t.owned \in Owned /\ t.owned.cmds = Append(d.owned.cmds, id)
  BY <1>1, <1>2, <1>3 DEF Owned
<1>5. t \in Texts
  BY <1>2, <1>4 DEF Texts
<1>6. Elements(t.owned.cmds) = Elements(d.owned.cmds) \cup {id}
  BY <1>1, <1>4, AppendFacts
<1> QED
  BY <1>5, <1>6 DEF Holds

LEMMA OverlayText ==
    ASSUME NEW state \in Texts, NEW entry \in Entries
    PROVE  Overlay(state, entry) \in Texts /\ Overlay(state, entry).owned = entry.owned
BY DEF Overlay, Texts, Entries

LEMMA RunCommandKeeps == ASSUME KeptInv, RunCommand PROVE KeptInv'
<1>0. /\ HostHolds(host, Live) /\ doc \in Texts /\ Holds(doc, Live) /\ Fields \subseteq DOMAIN host
      /\ host.queue # <<>> /\ Job = host.queue[1] /\ Job.kind = "command" /\ JobTyped(Job)
      /\ host.save.stage # "flushing" /\ UNCHANGED <<JobSide, doc>>
  BY HostFacts, JobFacts DEF RunCommand
<1>1. PICK g : g = [host EXCEPT !.entry.text = doc]
  OBVIOUS
<1>2. HostHolds(g, Live) /\ g.save = host.save /\ g.queue = host.queue
  BY <1>0, <1>1, RebaseHolds
<1>3. CASE Fail(host) \/ Fail(g)
  BY <1>0, <1>2, <1>3, FailStep
<1>4. CASE host' = Begin([doc EXCEPT !.owned = WithCommand(@, Job.id)]) /\ UNCHANGED toView
  <2>1. PICK t : t = [doc EXCEPT !.owned = WithCommand(@, Job.id)]
    OBVIOUS
  <2>2. t \in Texts /\ Holds(t, Live) /\ Job.id \in Elements(t.owned.cmds)
    <3>1. Job.id \in Nat
      BY <1>0 DEF JobTyped
    <3>2. doc \in Texts /\ Holds(doc, Live)
      BY <1>0
    <3> QED
      BY <2>1, <3>1, <3>2, OwnedText
  <2>3. PICK j : j = [Job EXCEPT !.stage = "applying", !.base = doc, !.want = t, !.fresh = TRUE]
    OBVIOUS
  <2>4. /\ JobFields \subseteq DOMAIN j
        /\ j.stage = "applying" /\ j.base = doc /\ j.want = t /\ j.kind = "command"
        /\ j.id = Job.id /\ j.to = Job.to /\ j.lost = Job.lost
    BY <1>0, <2>3 DEF JobTyped, JobFields
  <2>5. JobTyped(j) /\ HeadHolds(j, Live) /\ Kept(g, j)
    BY <1>0, <2>2, <2>4 DEF JobTyped, HeadHolds, CommandHolds, Kept
  <2>6. HostHolds(Now(g, j), Live) /\ Now(g, j).save = host.save
    BY <1>0, <1>2, <2>5, NowJob
  <2>7. host' = Expect(Now(g, j), t)
    BY <1>1, <1>4, <2>1, <2>3 DEF Begin
  <2>8. HostHolds(host', Live) /\ host'.save = host.save
    BY <2>6, <2>7, ExpectHolds
  <2> QED
    BY <1>0, <1>4, <2>8, JobStep
<1> QED
  BY <1>1, <1>3, <1>4 DEF RunCommand

LEMMA RunSnapshotKeeps == ASSUME KeptInv, RunSnapshot PROVE KeptInv'
<1>0. /\ HostHolds(host, Live) /\ doc \in Texts /\ Holds(doc, Live) /\ host.entry \in Entries
      /\ host.queue # <<>> /\ Job = host.queue[1] /\ Job.kind = "snapshot" /\ JobTyped(Job)
      /\ Kept(host, Job)
      /\ host.save.stage # "flushing" /\ UNCHANGED <<JobSide, doc, toView>>
  BY HostFacts, JobFacts DEF RunSnapshot
<1>1. CASE host' = Done(host)
  BY <1>0, <1>1, DoneHolds, JobStep
<1>2. CASE /\ IsCurrent(Job) /\ SameOwned(host.entry, doc)
           /\ host' = Now([host EXCEPT !.entry.text = doc],
                          [Job EXCEPT !.stage = "preparing", !.base = doc,
                                      !.want = Overlay(Job.ask, host.entry)])
  <2>1. PICK g : g = [host EXCEPT !.entry.text = doc]
    OBVIOUS
  <2>2. HostHolds(g, Live) /\ g.save = host.save /\ g.queue = host.queue
    BY <1>0, <2>1, RebaseHolds
  <2>3. PICK t : t = Overlay(Job.ask, host.entry)
    OBVIOUS
  <2>4. t \in Texts /\ t.owned = doc.owned
    BY <1>0, <1>2, <2>3, OverlayText DEF JobTyped, SameOwned
  <2>5. PICK j : j = [Job EXCEPT !.stage = "preparing", !.base = doc, !.want = t]
    OBVIOUS
  <2>6. /\ JobFields \subseteq DOMAIN j
        /\ j.stage = "preparing" /\ j.base = doc /\ j.want = t /\ j.kind = "snapshot"
        /\ j.ask = Job.ask /\ j.to = Job.to /\ j.lost = Job.lost /\ j.gen = Job.gen
        /\ j.token = Job.token
    BY <1>0, <2>5 DEF JobTyped, JobFields
  <2>7. j.lost = None
    BY <1>2, <2>6 DEF IsCurrent
  <2>8. JobTyped(j) /\ HeadHolds(j, Live)
    BY <1>0, <2>4, <2>6, <2>7 DEF JobTyped, HeadHolds, SnapshotHolds, Holds
  <2>9. Kept(g, j)
    <3>1. Fields \subseteq DOMAIN host
      BY HostFacts
    <3> QED
      BY <1>0, <2>1, <2>6, <3>1 DEF Kept, CurrentIn, Fields
  <2>10. HostHolds(Now(g, j), Live) /\ Now(g, j).save = host.save
    BY <1>0, <2>2, <2>8, <2>9, NowJob
  <2>11. host' = Now(g, j)
    BY <1>2, <2>1, <2>3, <2>5
  <2> QED
    BY <1>0, <2>10, <2>11, JobStep
<1> QED
  BY <1>1, <1>2 DEF RunSnapshot

(* A text to be shown no later than it is written: an acknowledged snapshot. *)
LEMMA AcknowledgeStep ==
    ASSUME KeptInv, UNCHANGED <<JobSide, doc>>, host.queue # <<>>, host.save.stage # "flushing",
           Job.want \in Texts, Holds(Job.want, Live), Acknowledge
    PROVE  KeptInv'
<1>0. HostHolds(host, Live)
  BY HostFacts
<1>1. PICK c : c = Commit(host, Job.want)
  OBVIOUS
<1>2. HostHolds(c, Live) /\ c.save = host.save /\ c.queue = host.queue
  BY <1>0, <1>1, CommitHolds
<1>3. PICK g : g = [c EXCEPT !.entry.text = Job.want]
  OBVIOUS
<1>4. HostHolds(g, Live) /\ g.save = host.save /\ g.queue = host.queue
  BY <1>2, <1>3, RebaseHolds
<1>5. host' = Done(g) /\ toView' = Append(toView, [type |-> "ack", id |-> Job.id])
  BY <1>1, <1>3 DEF Acknowledge
<1>6. HostHolds(host', Live) /\ host'.save = host.save
  BY <1>4, <1>5, DoneHolds
<1>7. ToViewTyped([type |-> "ack", id |-> Job.id]) /\ ~IsOk([type |-> "ack", id |-> Job.id])
  BY DEF ToViewTyped, IsOk
<1>8. Committing(host', doc)
  BY <1>6, HostFacts DEF Committing
<1> QED
  BY <1>5, <1>6, <1>7, <1>8, HostFacts, JobSideFacts, HostStep

LEMMA SnapshotHead ==
    ASSUME KeptInv, NEW stage, stage # "queued", Running("snapshot", stage)
    PROVE  /\ host.queue # <<>> /\ Job.kind = "snapshot" /\ Job.stage = stage
           /\ host.save.stage # "flushing" /\ SnapshotHolds(Job, Live)
           /\ JobTyped(Job) /\ HeadHolds(Job, Live) /\ Kept(host, Job)
           /\ Job.want \in Texts /\ Holds(Job.want, Live)
BY JobFacts DEF HeadHolds, SnapshotHolds

LEMMA CommandHead ==
    ASSUME KeptInv, NEW stage, stage # "queued", Running("command", stage)
    PROVE  /\ host.queue # <<>> /\ Job.kind = "command" /\ Job.stage = stage
           /\ host.save.stage # "flushing" /\ CommandHolds(Job, Live)
           /\ JobTyped(Job) /\ HeadHolds(Job, Live) /\ Kept(host, Job)
           /\ Job.want \in Texts /\ Holds(Job.want, Live) /\ Job.id \in Nat
BY JobFacts DEF HeadHolds, CommandHolds, JobTyped

(* The job under way has another stage, base or text to go back to. *)
LEMMA RestagedJob ==
    ASSUME NEW h, NEW S, NEW j, JobTyped(j), HeadHolds(j, S), Kept(h, j), j.stage # "queued",
           NEW r, JobFields \subseteq DOMAIN r,
           /\ r.kind = j.kind /\ r.id = j.id /\ r.ask = j.ask /\ r.gen = j.gen
           /\ r.token = j.token /\ r.want = j.want /\ r.lost = j.lost,
           r.base \in Texts \cup {None},
           j.kind = "command" => r.base \in Texts /\ Holds(r.base, S),
           r.to \in Texts \cup {None},
           r.stage \in {"restoring", "restored"} => r.to \in Texts /\ Holds(r.to, S)
    PROVE  JobTyped(r) /\ HeadHolds(r, S) /\ Kept(h, r)
<1>1. JobTyped(r)
  BY DEF JobTyped
<1>2. HeadHolds(r, S)
  BY DEF HeadHolds, CommandHolds, SnapshotHolds
<1>3. Kept(h, r)
  BY DEF Kept, CurrentIn
<1> QED
  BY <1>1, <1>2, <1>3

LEMMA PrepareSnapshotKeeps == ASSUME KeptInv, PrepareSnapshot PROVE KeptInv'
<1>0. /\ HostHolds(host, Live) /\ doc \in Texts /\ Holds(doc, Live)
      /\ host.queue # <<>> /\ Job = host.queue[1] /\ Job.kind = "snapshot" /\ Job.stage = "preparing"
      /\ JobTyped(Job) /\ HeadHolds(Job, Live) /\ Kept(host, Job)
      /\ Job.want \in Texts /\ Holds(Job.want, Live)
      /\ host.save.stage # "flushing" /\ UNCHANGED <<JobSide, doc>>
  BY HostFacts, SnapshotHead DEF PrepareSnapshot, Job
<1>1. CASE host' = Done(host) /\ UNCHANGED toView
  BY <1>0, <1>1, DoneHolds, JobStep
<1>2. CASE Acknowledge
  BY <1>0, <1>2, AcknowledgeStep
<1>3. CASE host' = Reload(Done(host), doc) /\ UNCHANGED toView
  <2>1. PICK f : f = Done(host)
    OBVIOUS
  <2>2. HostHolds(f, Live) /\ f.save = host.save
    BY <1>0, <2>1, DoneHolds
  <2>3. Moves(f, Reload(f, doc), Live)
    BY <1>0, <2>2, StartPostHolds DEF Reload
  <2> QED
    BY <1>0, <1>3, <2>1, <2>2, <2>3, FollowStep
<1>4. CASE host' = Now(host, [Job EXCEPT !.base = doc, !.tries = @ + 1]) /\ UNCHANGED toView
  <2>1. PICK r : r = [Job EXCEPT !.base = doc, !.tries = @ + 1]
    OBVIOUS
  <2>2. /\ JobFields \subseteq DOMAIN r
        /\ r.kind = Job.kind /\ r.id = Job.id /\ r.ask = Job.ask /\ r.gen = Job.gen
        /\ r.token = Job.token /\ r.want = Job.want /\ r.lost = Job.lost
        /\ r.base = doc /\ r.to = Job.to /\ r.stage = "preparing"
    BY <1>0, <2>1 DEF JobTyped, JobFields
  <2>3. Job.to \in Texts \cup {None}
    BY <1>0 DEF JobTyped
  <2>4. JobTyped(r) /\ HeadHolds(r, Live) /\ Kept(host, r)
    BY <1>0, <2>2, <2>3, RestagedJob
  <2>5. HostHolds(Now(host, r), Live) /\ Now(host, r).save = host.save
    BY <1>0, <2>4, NowJob
  <2> QED
    BY <1>0, <1>4, <2>1, <2>5, JobStep
<1>5. CASE /\ host' = Expect(Now(host, [Job EXCEPT !.stage = "applying", !.fresh = TRUE]), Job.want)
           /\ UNCHANGED toView
  <2>1. PICK r : r = [Job EXCEPT !.stage = "applying", !.fresh = TRUE]
    OBVIOUS
  <2>2. /\ JobFields \subseteq DOMAIN r
        /\ r.kind = Job.kind /\ r.id = Job.id /\ r.ask = Job.ask /\ r.gen = Job.gen
        /\ r.token = Job.token /\ r.want = Job.want /\ r.lost = Job.lost
        /\ r.base = Job.base /\ r.to = Job.to /\ r.stage = "applying"
    BY <1>0, <2>1 DEF JobTyped, JobFields
  <2>3. Job.to \in Texts \cup {None} /\ Job.base \in Texts \cup {None}
    BY <1>0 DEF JobTyped
  <2>4. JobTyped(r) /\ HeadHolds(r, Live) /\ Kept(host, r)
    BY <1>0, <2>2, <2>3, RestagedJob
  <2>5. HostHolds(Now(host, r), Live) /\ Now(host, r).save = host.save
    BY <1>0, <2>4, NowJob
  <2>6. HostHolds(host', Live) /\ host'.save = host.save
    BY <1>5, <2>1, <2>5, ExpectHolds
  <2> QED
    BY <1>0, <1>5, <2>6, JobStep
<1> QED
  BY <1>1, <1>2, <1>3, <1>4, <1>5 DEF PrepareSnapshot

(* The editor applies an edit of the job under way. *)
LEMMA EditStep ==
    ASSUME KeptInv, UNCHANGED <<JobSide, toView>>, NEW kind \in {"command", "snapshot"},
           NEW from, NEW into, Running(kind, from),
           from = "applying" => into = "applied", from = "restoring" => into = "restored",
           from \in {"applying", "restoring"},
           NEW text \in Texts, Holds(text, Live), doc' = text,
           NEW h, h = Changed(Outdate(host), text),
           host' = [h EXCEPT !.queue[1].stage = into]
    PROVE  KeptInv'
<1>0. /\ HostHolds(host, Live) /\ 1 \in DOMAIN host.queue /\ Job = host.queue[1]
      /\ Job.kind = kind /\ Job.stage = from
  BY HostFacts, JobFacts
<1>1. /\ HostHolds(h, Live) /\ Committing(h, text)
      /\ DOMAIN h.queue = DOMAIN host.queue
      /\ h.queue[1].kind = kind /\ h.queue[1].stage = from
  BY <1>0, ChangeHolds
<1>2. HostTyped(h)
  BY <1>1 DEF HostHolds, Sound
<1>3. h.queue # <<>> /\ JobTyped(h.queue[1]) /\ HeadHolds(h.queue[1], Live) /\ Kept(h, h.queue[1])
  <2>1. h.queue # <<>>
    BY <1>0, <1>1
  <2> QED
    BY <1>0, <1>1, <1>2, <2>1 DEF HostTyped, HostHolds, Sound, QueueHolds, Revoked
<1>4. PICK j : j = h.queue[1]
  OBVIOUS
<1>5. PICK r : r = [j EXCEPT !.stage = into]
  OBVIOUS
<1>6. /\ JobFields \subseteq DOMAIN r
      /\ r.kind = j.kind /\ r.id = j.id /\ r.ask = j.ask /\ r.gen = j.gen
      /\ r.token = j.token /\ r.want = j.want /\ r.lost = j.lost
      /\ r.base = j.base /\ r.to = j.to /\ r.stage = into
  BY <1>3, <1>4, <1>5 DEF JobTyped, JobFields
<1>7. JobTyped(r) /\ Kept(h, r)
  BY <1>3, <1>4, <1>6 DEF JobTyped, Kept, CurrentIn
<1>8. HeadHolds(r, Live)
  BY <1>1, <1>3, <1>4, <1>6, HeadSame
<1>9. host' = [h EXCEPT !.queue[1] = r]
  BY <1>4, <1>5
<1>10. h.queue[1].kind # "lease"
  BY <1>1
<1>11. HostHolds(host', Live) /\ host'.save = h.save
  BY <1>1, <1>3, <1>7, <1>8, <1>9, <1>10, NowHolds
<1>12. Committing(host', doc')
  BY <1>1, <1>11 DEF Committing
<1> QED
  BY <1>11, <1>12, JobSideFacts, HostStep

LEMMA ApplyKeeps == ASSUME KeptInv, Apply PROVE KeptInv'
<1>0. PICK kind \in {"command", "snapshot"} : Running(kind, "applying")
  BY DEF Apply
<1>1. /\ HostHolds(host, Live) /\ doc \in Texts /\ Holds(doc, Live)
      /\ host.queue # <<>> /\ Job = host.queue[1] /\ Job.kind = kind /\ Job.stage = "applying"
      /\ JobTyped(Job) /\ HeadHolds(Job, Live) /\ Kept(host, Job)
      /\ Job.want \in Texts /\ Holds(Job.want, Live) /\ UNCHANGED JobSide
      /\ host.save.stage # "flushing"
  BY <1>0, HostFacts, SnapshotHead, CommandHead DEF Apply, Job
<1>2. CASE /\ doc' = Job.want /\ UNCHANGED toView
           /\ LET h == Changed(Outdate(host), Job.want)
              IN host' = [h EXCEPT !.queue[1].stage = "applied"]
  <2>1. PICK h : h = Changed(Outdate(host), Job.want)
    OBVIOUS
  <2>2. host' = [h EXCEPT !.queue[1].stage = "applied"]
    BY <1>2, <2>1
  <2>3. UNCHANGED <<JobSide, toView>>
    BY <1>1, <1>2
  <2> QED
    BY <1>0, <1>1, <1>2, <2>1, <2>2, <2>3, EditStep
<1>3. CASE Fail(Cancel(host, Job.want)) /\ UNCHANGED doc
  <2>1. PICK h : h = Cancel(host, Job.want)
    OBVIOUS
  <2>2. HostHolds(h, Live) /\ h.save = host.save /\ h.queue = host.queue
    BY <1>1, <2>1, ExpectHolds
  <2> QED
    BY <1>1, <1>3, <2>1, <2>2, FailStep
<1>4. CASE /\ Job.kind = "snapshot" /\ UNCHANGED <<toView, doc>>
           /\ host' = Now(Cancel(host, Job.want), [Job EXCEPT !.stage = "preparing", !.tries = @ + 1])
  <2>1. PICK h : h = Cancel(host, Job.want)
    OBVIOUS
  <2>2. HostHolds(h, Live) /\ h.save = host.save /\ h.queue = host.queue
    BY <1>1, <2>1, ExpectHolds
  <2>3. HostTyped(h) /\ 1 \in DOMAIN host.queue
    BY <1>1, <2>2, SeqFacts DEF HostHolds, Sound, HostTyped
  <2>4. Kept(h, Job)
    BY <1>1, <2>2, <2>3 DEF HostHolds, Revoked
  <2>5. PICK r : r = [Job EXCEPT !.stage = "preparing", !.tries = @ + 1]
    OBVIOUS
  <2>6. /\ JobFields \subseteq DOMAIN r
        /\ r.kind = Job.kind /\ r.id = Job.id /\ r.ask = Job.ask /\ r.gen = Job.gen
        /\ r.token = Job.token /\ r.want = Job.want /\ r.lost = Job.lost
        /\ r.base = Job.base /\ r.to = Job.to /\ r.stage = "preparing"
    BY <1>1, <2>5 DEF JobTyped, JobFields
  <2>7. Job.to \in Texts \cup {None} /\ Job.base \in Texts \cup {None}
    BY <1>1 DEF JobTyped
  <2>8. JobTyped(r) /\ HeadHolds(r, Live) /\ Kept(h, r)
    BY <1>1, <1>4, <2>4, <2>6, <2>7, RestagedJob
  <2>9. HostHolds(Now(h, r), Live) /\ Now(h, r).save = h.save
    BY <1>1, <2>2, <2>8, NowJob
  <2>10. HostHolds(host', Live) /\ host'.save = host.save
    BY <1>4, <2>1, <2>2, <2>5, <2>9
  <2> QED
    BY <1>1, <1>4, <2>10, JobStep
<1> QED
  <2>1. Job.kind = "command" \/ Job.kind = "snapshot"
    BY <1>1
  <2> QED
    BY <1>1, <1>2, <1>3, <1>4, <2>1 DEF Apply

(* The job under way is to put back a text that has every command too. *)
LEMMA RollbackStep ==
    ASSUME KeptInv, UNCHANGED <<JobSide, doc, toView>>,
           NEW kind \in {"command", "snapshot"}, NEW stage, stage # "queued", Running(kind, stage),
           NEW h, HostHolds(h, Live), h.queue = host.queue, h.save = host.save,
           NEW to \in Texts, Holds(to, Live), NEW tries, host' = StartRollback(h, Job, to, tries)
    PROVE  KeptInv'
<1>1. /\ host.queue # <<>> /\ 1 \in DOMAIN host.queue /\ Job = host.queue[1] /\ Job.kind = kind
      /\ Job.stage = stage /\ JobTyped(Job) /\ HeadHolds(Job, Live)
  BY JobFacts
<1>2. Kept(h, Job)
  BY <1>1 DEF HostHolds, Revoked
<1>3. PICK r : r = [Job EXCEPT !.stage = "restoring", !.to = to, !.tries = tries,
                               !.fresh = TRUE, !.seen = host.authority.token]
  OBVIOUS
<1>4. /\ JobFields \subseteq DOMAIN r
      /\ r.kind = Job.kind /\ r.id = Job.id /\ r.ask = Job.ask /\ r.gen = Job.gen
      /\ r.token = Job.token /\ r.want = Job.want /\ r.lost = Job.lost
      /\ r.base = Job.base /\ r.to = to /\ r.stage = "restoring"
  BY <1>1, <1>3 DEF JobTyped, JobFields
<1>5. /\ Job.base \in Texts \cup {None}
      /\ Job.kind = "command" => Job.base \in Texts /\ Holds(Job.base, Live)
  BY <1>1 DEF JobTyped, HeadHolds, CommandHolds
<1>6. JobTyped(r) /\ HeadHolds(r, Live) /\ Kept(h, r)
  BY <1>1, <1>2, <1>4, <1>5, RestagedJob
<1>7. HostHolds(Now(h, r), Live) /\ Now(h, r).save = h.save
  BY <1>1, <1>6, NowJob
<1>8. host' = Expect(Now(h, r), to)
  BY <1>3 DEF StartRollback
<1>9. HostHolds(host', Live) /\ host'.save = host.save
  BY <1>7, <1>8, ExpectHolds
<1> QED
  BY <1>9, JobStep

(* A host nothing of which is under way holds whatever its authority holds. *)
LEMMA Grow ==
    ASSUME NEW h, NEW S, HostHolds(h, S), NEW T, Holds(h.authority.text, T),
           \A i \in DOMAIN h.queue : Waits(h.queue[i])
    PROVE  HostHolds(h, T)
<1>1. HostTyped(h)
  BY DEF HostHolds, Sound
<1>2. h.queue # <<>> => Waits(h.queue[1])
  BY <1>1, SeqFacts DEF HostTyped
<1>3. QueueHolds(h, T)
  BY <1>2 DEF QueueHolds, HeadHolds, Waits
<1> QED
  BY <1>3 DEF HostHolds, Sound

LEMMA DoneWaits ==
    ASSUME NEW h, NEW S, HostHolds(h, S), h.queue # <<>>
    PROVE  /\ Done(h).authority = h.authority
           /\ \A i \in DOMAIN Done(h).queue : Waits(Done(h).queue[i])
<1>1. HostTyped(h)
  BY DEF HostHolds, Sound
<1>2. Done(h).authority = h.authority /\ Done(h).queue = Tail(h.queue)
  BY <1>1 DEF Done, HostTyped, Fields
<1>3. \A i \in DOMAIN Tail(h.queue) :
        i + 1 \in DOMAIN h.queue /\ i + 1 # 1 /\ Tail(h.queue)[i] = h.queue[i + 1]
  BY <1>1, TailFacts DEF HostTyped
<1> QED
  BY <1>2, <1>3 DEF HostHolds, Sound, QueueHolds

(* A command is accepted: from here on every text must have it. *)
LEMMA AcceptStep ==
    ASSUME KeptInv, UNCHANGED <<JobSide, doc>>, Running("command", "applied"), doc = Job.want,
           NEW h, h = [Commit(host, Job.want) EXCEPT
                          !.entry = [rev |-> @.rev + 1, owned |-> Job.want.owned, text |-> Job.want]],
           host' = Done(h), Answer(Job.id, TRUE, h)
    PROVE  KeptInv'
<1>0. /\ HostHolds(host, Live) /\ doc \in Texts /\ Holds(doc, Live) /\ host.queue # <<>>
      /\ Job.want \in Texts /\ host.save.stage # "flushing" /\ Job.id \in Elements(doc.owned.cmds)
  BY HostFacts, CommandHead DEF CommandHolds
<1> DEFINE T == Live \cup {Job.id}
<1>1. Holds(doc, T)
  BY <1>0 DEF Holds
<1>2. PICK c : c = Commit(host, Job.want)
  OBVIOUS
<1>3. /\ HostHolds(c, Live) /\ c.save = host.save /\ c.queue = host.queue
      /\ c.entry = host.entry
  BY <1>0, <1>2, CommitHolds
<1>4. c.authority.text = doc
  BY <1>2, HostFacts DEF Commit, Fields, HostTyped
<1>5. PICK e : e = [rev |-> c.entry.rev + 1, owned |-> Job.want.owned, text |-> Job.want]
  OBVIOUS
<1>6. e \in Entries
  <2>1. c.entry.rev \in Nat /\ Job.want.owned \in Owned
    BY <1>0, <1>3, HostFacts DEF Entries, Texts
  <2> QED
    BY <1>0, <1>5, <2>1 DEF Entries
<1>7. h = [c EXCEPT !.entry = e]
  BY <1>2, <1>5
<1>8. c.save.stage = "flushing" => e.owned = c.entry.owned
  BY <1>0, <1>3
<1>9. HostHolds(h, Live) /\ h.save = host.save /\ h.queue = host.queue /\ h.authority = c.authority
  <2>1. PICK k : k = [c EXCEPT !.entry = e]
    OBVIOUS
  <2>2. HostHolds(k, Live) /\ k.save = c.save /\ k.queue = c.queue /\ k.authority = c.authority
    BY <1>3, <1>6, <1>8, <2>1, EntryHolds
  <2> QED
    BY <1>3, <1>7, <2>1, <2>2
<1>10. /\ HostHolds(host', Live) /\ host'.save = host.save /\ host'.authority.text = doc
       /\ \A i \in DOMAIN host'.queue : Waits(host'.queue[i])
  BY <1>0, <1>4, <1>9, DoneHolds, DoneWaits
<1>11. HostHolds(host', T)
  BY <1>1, <1>10, Grow
<1>12. UNCHANGED <<webVars, toHost, issued, edits, externals, kept, replaced>>
       /\ saves' \in Nat /\ saved' \in Texts
  BY JobSideFacts
<1>13. PICK m : m = Result(Job.id, TRUE, h)
  OBVIOUS
<1>14. ToViewTyped(m) /\ m.id = Job.id
  <2>1. HostTyped(h)
    BY <1>9 DEF HostHolds, Sound
  <2> QED
    BY <1>13, <2>1 DEF ToViewTyped, Result, HostTyped, Entries
<1>15. /\ IsSeq(toView') /\ Elements(toView') = Elements(toView) \cup {m}
       /\ MailTyped'
  <2>1. toView' = Append(toView, m)
    BY <1>13 DEF Answer
  <2> QED
    BY <1>12, <1>14, <2>1, AppendFacts DEF KeptInv, MailTyped
<1>16. Told' \subseteq Told \cup {Job.id}
  BY <1>14, <1>15 DEF Told
<1>17. Live' \subseteq T
  BY <1>12, <1>16 DEF Live
<1> HIDE DEF T
<1>18. HostHolds(host', Live') /\ Holds(doc', Live')
  BY <1>1, <1>11, <1>17, Less DEF Holds
<1>19. Committing(host', doc')
  BY <1>10, HostFacts DEF Committing
<1>20. ViewTyped'
  BY <1>12 DEF KeptInv, ViewTyped, webVars, commandVars, restVars
<1> QED
  BY <1>0, <1>12, <1>15, <1>18, <1>19, <1>20 DEF KeptInv

LEMMA ResumeCommandKeeps == ASSUME KeptInv, ResumeCommand PROVE KeptInv'
<1>0. /\ HostHolds(host, Live) /\ Running("command", "applied") /\ UNCHANGED <<JobSide, doc>>
      /\ host.queue # <<>> /\ host.save.stage # "flushing" /\ CommandHolds(Job, Live)
      /\ host.authority.text \in Texts /\ Holds(host.authority.text, Live)
  BY HostFacts, CommandHead DEF ResumeCommand
<1>1. CASE Fail(host)
  BY <1>0, <1>1, FailStep
<1>2. CASE /\ doc = Job.want
           /\ LET h == [Commit(host, Job.want) EXCEPT
                           !.entry = [rev |-> @.rev + 1, owned |-> Job.want.owned, text |-> Job.want]]
              IN host' = Done(h) /\ Answer(Job.id, TRUE, h)
  BY <1>0, <1>2, AcceptStep
<1>3. CASE /\ host' = StartRollback(host, Job,
                          IF Superseding(Job) THEN host.authority.text ELSE Job.base, 1)
           /\ UNCHANGED toView
  <2>1. PICK to : to = IF Superseding(Job) THEN host.authority.text ELSE Job.base
    OBVIOUS
  <2>2. to \in Texts /\ Holds(to, Live)
    BY <1>0, <2>1 DEF CommandHolds
  <2>3. host' = StartRollback(host, Job, to, 1)
    BY <1>3, <2>1
  <2> QED
    BY <1>0, <1>3, <2>2, <2>3, RollbackStep
<1> QED
  BY <1>1, <1>2, <1>3 DEF ResumeCommand

(* What is undone is recorded; the invariant does not look at it. *)
LEMMA UnrestoredHolds ==
    ASSUME NEW h, NEW S, HostHolds(h, S), NEW x, NEW g, g = [h EXCEPT !.unrestored = x]
    PROVE  HostHolds(g, S) /\ g.save = h.save /\ g.queue = h.queue
<1>1. HostHolds(g, S)
  BY Unseen DEF Moves
<1> QED
  BY <1>1 DEF HostHolds, Sound, HostTyped, Fields

LEMMA ResumeSnapshotKeeps == ASSUME KeptInv, ResumeSnapshot PROVE KeptInv'
<1>0. /\ HostHolds(host, Live) /\ Running("snapshot", "applied") /\ UNCHANGED <<JobSide, doc>>
      /\ host.queue # <<>> /\ host.save.stage # "flushing" /\ SnapshotHolds(Job, Live)
      /\ Job.kind = "snapshot" /\ JobTyped(Job) /\ Kept(host, Job) /\ doc \in Texts /\ Holds(doc, Live)
  BY HostFacts, SnapshotHead DEF ResumeSnapshot
<1>1. CASE host' = Reload(Done(host), doc) /\ UNCHANGED toView
  <2>1. PICK f : f = Done(host)
    OBVIOUS
  <2>2. HostHolds(f, Live) /\ f.save = host.save
    BY <1>0, <2>1, DoneHolds
  <2>3. Moves(f, Reload(f, doc), Live)
    BY <1>0, <2>2, StartPostHolds DEF Reload
  <2> QED
    BY <1>0, <1>1, <2>1, <2>2, <2>3, FollowStep
<1>2. CASE Acknowledge
  BY <1>0, <1>2, AcknowledgeStep DEF SnapshotHolds
<1>3. CASE /\ ~IsCurrent(Job)
           /\ host' = StartRollback([host EXCEPT !.unrestored = Job.want], Job, Job.lost, 1)
           /\ UNCHANGED toView
  <2>1. Job.lost # None
    BY <1>0, <1>3 DEF Kept, CurrentIn, IsCurrent
  <2>2. Job.lost \in Texts /\ Holds(Job.lost, Live)
    BY <1>0, <2>1 DEF SnapshotHolds, JobTyped
  <2>3. PICK h : h = [host EXCEPT !.unrestored = Job.want]
    OBVIOUS
  <2>4. HostHolds(h, Live) /\ h.save = host.save /\ h.queue = host.queue
    BY <1>0, <2>3, UnrestoredHolds
  <2>5. host' = StartRollback(h, Job, Job.lost, 1)
    BY <1>3, <2>3
  <2> QED
    BY <1>0, <1>3, <2>2, <2>4, <2>5, RollbackStep
<1> QED
  BY <1>1, <1>2, <1>3 DEF ResumeSnapshot

LEMMA ApplyRollbackKeeps == ASSUME KeptInv, ApplyRollback PROVE KeptInv'
<1>0. PICK kind \in {"command", "snapshot"} : Running(kind, "restoring")
  BY DEF ApplyRollback
<1>1. /\ HostHolds(host, Live)
      /\ host.queue # <<>> /\ Job = host.queue[1] /\ Job.kind = kind /\ Job.stage = "restoring"
      /\ JobTyped(Job) /\ HeadHolds(Job, Live)
      /\ Job.to \in Texts /\ Holds(Job.to, Live) /\ UNCHANGED <<JobSide, toView>>
  BY <1>0, HostFacts, SnapshotHead, CommandHead DEF ApplyRollback, Job, SnapshotHolds, CommandHolds
<1>2. CASE /\ doc' = Job.to
           /\ LET h == Changed(Outdate(host), Job.to)
              IN host' = [h EXCEPT !.queue[1].stage = "restored"]
  <2>1. PICK h : h = Changed(Outdate(host), Job.to)
    OBVIOUS
  <2>2. host' = [h EXCEPT !.queue[1].stage = "restored"]
    BY <1>2, <2>1
  <2> QED
    BY <1>0, <1>1, <1>2, <2>1, <2>2, EditStep
<1>3. CASE /\ UNCHANGED doc
           /\ host' = Now(Cancel(host, Job.to), [Job EXCEPT !.stage = "restored"])
  <2>1. PICK h : h = Cancel(host, Job.to)
    OBVIOUS
  <2>2. HostHolds(h, Live) /\ h.save = host.save /\ h.queue = host.queue
    BY <1>1, <2>1, ExpectHolds
  <2>3. HostTyped(h) /\ 1 \in DOMAIN host.queue
    BY <1>1, <2>2, SeqFacts DEF HostHolds, Sound, HostTyped
  <2>4. Kept(h, Job)
    BY <1>1, <2>2, <2>3 DEF HostHolds, Revoked
  <2>5. PICK r : r = [Job EXCEPT !.stage = "restored"]
    OBVIOUS
  <2>6. /\ JobFields \subseteq DOMAIN r
        /\ r.kind = Job.kind /\ r.id = Job.id /\ r.ask = Job.ask /\ r.gen = Job.gen
        /\ r.token = Job.token /\ r.want = Job.want /\ r.lost = Job.lost
        /\ r.base = Job.base /\ r.to = Job.to /\ r.stage = "restored"
    BY <1>1, <2>5 DEF JobTyped, JobFields
  <2>7. /\ Job.base \in Texts \cup {None}
        /\ Job.kind = "command" => Job.base \in Texts /\ Holds(Job.base, Live)
    BY <1>1 DEF JobTyped, HeadHolds, CommandHolds
  <2>8. JobTyped(r) /\ HeadHolds(r, Live) /\ Kept(h, r)
    BY <1>1, <2>4, <2>6, <2>7, RestagedJob
  <2>9. HostHolds(Now(h, r), Live) /\ Now(h, r).save = h.save
    BY <1>1, <2>2, <2>8, NowJob
  <2>10. HostHolds(host', Live) /\ host'.save = host.save
    BY <1>3, <2>1, <2>2, <2>5, <2>9
  <2> QED
    BY <1>1, <1>3, <2>10, JobStep
<1> QED
  BY <1>2, <1>3 DEF ApplyRollback

LEMMA ResumeCommandRollbackKeeps == ASSUME KeptInv, ResumeCommandRollback PROVE KeptInv'
<1>0. /\ HostHolds(host, Live) /\ Running("command", "restored") /\ UNCHANGED <<JobSide, doc>>
      /\ host.queue # <<>> /\ host.save.stage # "flushing"
      /\ host.authority.text \in Texts /\ Holds(host.authority.text, Live)
  BY HostFacts, CommandHead DEF ResumeCommandRollback
<1>1. CASE /\ host' = StartRollback(host, Job, host.authority.text, Job.tries + 1)
           /\ UNCHANGED toView
  BY <1>0, <1>1, RollbackStep
<1>2. CASE Fail(IF doc = host.authority.text THEN host ELSE [host EXCEPT !.unrestored = Job.want])
  <2>1. PICK h : h = IF doc = host.authority.text THEN host ELSE [host EXCEPT !.unrestored = Job.want]
    OBVIOUS
  <2>2. HostHolds(h, Live) /\ h.save = host.save /\ h.queue = host.queue
    BY <1>0, <2>1, UnrestoredHolds
  <2>3. Fail(h)
    BY <1>2, <2>1
  <2> QED
    BY <1>0, <2>2, <2>3, FailStep
<1> QED
  BY <1>1, <1>2 DEF ResumeCommandRollback

LEMMA ResumeSnapshotRollbackKeeps == ASSUME KeptInv, ResumeSnapshotRollback PROVE KeptInv'
<1>0. /\ HostHolds(host, Live) /\ Running("snapshot", "restored")
      /\ UNCHANGED <<JobSide, doc, toView>>
      /\ host.queue # <<>> /\ host.save.stage # "flushing"
      /\ SnapshotHolds(Job, Live) /\ Job.stage = "restored"
  BY HostFacts, SnapshotHead DEF ResumeSnapshotRollback
<1>1. CASE host' = StartRollback(host, Job, Job.to, Job.tries + 1)
  BY <1>0, <1>1, RollbackStep DEF SnapshotHolds
<1>2. CASE host' = Done([host EXCEPT !.unrestored = IF doc = Job.want THEN doc ELSE None])
  <2>1. PICK x : x = IF doc = Job.want THEN doc ELSE None
    OBVIOUS
  <2>2. PICK h : h = [host EXCEPT !.unrestored = x]
    OBVIOUS
  <2>3. HostHolds(h, Live) /\ h.save = host.save /\ h.queue = host.queue
    BY <1>0, <2>2, UnrestoredHolds
  <2>4. HostHolds(host', Live) /\ host'.save = host.save
    BY <1>0, <1>2, <2>1, <2>2, <2>3, DoneHolds
  <2> QED
    BY <1>0, <2>4, JobStep
<1> QED
  BY <1>1, <1>2 DEF ResumeSnapshotRollback

-----------------------------------------------------------------------------
(* Saving. *)

LEMMA SaveSideFacts ==
    ASSUME KeptInv, UNCHANGED SaveSide
    PROVE  UNCHANGED <<webVars, toHost, issued, edits, externals, kept, replaced>>
BY DEF SaveSide, historyVars

(* The save under way, as the invariant knows it. *)
LEMMA SaveFacts ==
    ASSUME NEW h, NEW S, HostHolds(h, S)
    PROVE  /\ SaveTyped(h.save) /\ h.save.gen \in Nat /\ h.activeGen \in Nat
           /\ h.save.gen <= h.activeGen /\ h.save.text \in Texts \cup {None}
           /\ Fields \subseteq DOMAIN h
BY DEF HostHolds, Sound, HostTyped, SaveTyped, Generations

(* A save without an edit that is fresh commits nothing. *)
LEMMA RefuseStep ==
    ASSUME KeptInv, UNCHANGED <<SaveSide, saved, doc, toView>>, saves' \in Nat, host' = Refused(host)
    PROVE  KeptInv'
<1>1. HostHolds(host', Live) /\ host'.save = NoSave
  BY HostFacts, RefusedHolds
<1>2. Committing(host', doc)
  BY <1>1 DEF Committing, NoSave
<1> QED
  BY <1>1, <1>2, HostFacts, SaveSideFacts, HostStep

LEMMA WillSaveKeeps == ASSUME KeptInv, WillSave PROVE KeptInv'
<1>0. HostHolds(host, Live) /\ UNCHANGED <<SaveSide, doc, saved>> /\ saves \in Nat /\ saves' = saves + 1
  BY HostFacts DEF WillSave
<1>1. PICK s : s = [NoSave EXCEPT !.stage = "barrier", !.id = saves + 1, !.gen = host.activeGen]
  OBVIOUS
<1>2. host' = [host EXCEPT !.save = s]
  BY <1>1 DEF WillSave
<1>3. SaveTyped(s) /\ s.gen <= host.activeGen /\ s.stage = "barrier"
  BY <1>0, <1>1, SaveFacts DEF NoSave, SaveTyped, SaveFields
<1>4. HostHolds(host', Live) /\ host'.save = s
  BY <1>0, <1>2, <1>3, SaveHolds
<1>5. Committing(host', doc)
  BY <1>3, <1>4 DEF Committing
<1>6. PICK m : m = [type |-> "barrier", id |-> saves + 1, gen |-> host.activeGen]
  OBVIOUS
<1>7. toView' = Append(toView, m) /\ ToViewTyped(m) /\ ~IsOk(m)
  BY <1>6 DEF WillSave, ToViewTyped, IsOk
<1> QED
  BY <1>0, <1>4, <1>5, <1>7, HostFacts, SaveSideFacts, HostStep

LEMMA BarrierTimesOutKeeps == ASSUME KeptInv, BarrierTimesOut PROVE KeptInv'
BY HostFacts, RefuseStep DEF BarrierTimesOut

LEMMA BarrierResultHolds ==
    ASSUME KeptInv, NEW m
    PROVE  HostHolds(BarrierResult(m), Live) /\ Committing(BarrierResult(m), doc)
<1>1. HostHolds(host, Live) /\ Committing(host, doc)
  BY HostFacts
<1>2. HostHolds(Refused(host), Live) /\ Committing(Refused(host), doc)
  BY <1>1, RefusedHolds DEF Committing, NoSave
<1>3. PICK s : s = [host.save EXCEPT !.stage = "draining", !.rev = m.rev]
  OBVIOUS
<1>4. SaveTyped(s) /\ s.gen <= host.activeGen /\ s.stage = "draining"
  BY <1>1, <1>3, SaveFacts DEF SaveTyped, SaveFields
<1>5. PICK g : g = [host EXCEPT !.save = s]
  OBVIOUS
<1>6. HostHolds(g, Live) /\ g.save = s
  BY <1>1, <1>4, <1>5, SaveHolds
<1>7. Committing(g, doc)
  BY <1>4, <1>6 DEF Committing
<1>8. BarrierResult(m) = host \/ BarrierResult(m) = Refused(host) \/ BarrierResult(m) = g
  BY <1>3, <1>5 DEF BarrierResult
<1> QED
  BY <1>1, <1>2, <1>6, <1>7, <1>8

LEMMA FailClosedHolds ==
    ASSUME NEW h, NEW S, HostHolds(h, S), doc \in Texts
    PROVE  HostHolds(FailClosed(h), S) /\ Committing(FailClosed(h), doc)
<1>1. PICK s : s = [h.save EXCEPT !.stage = "committing", !.text = doc, !.fresh = TRUE]
  OBVIOUS
<1>2. SaveTyped(s) /\ s.gen <= h.activeGen /\ s.stage = "committing" /\ s.text = doc
  BY <1>1, SaveFacts DEF SaveTyped, SaveFields
<1>3. PICK g : g = [h EXCEPT !.save = s]
  OBVIOUS
<1>4. HostHolds(g, S) /\ g.save = s
  BY <1>2, <1>3, SaveHolds
<1>5. FailClosed(h) = g
  BY <1>1, <1>3 DEF FailClosed
<1> QED
  BY <1>2, <1>4, <1>5 DEF Committing

(* The queue is empty, and taken by the save. *)
LEMMA LeaseHolds ==
    ASSUME NEW S, HostHolds(host, S), host.queue = <<>>, NEW e \in Entries,
           NEW s, SaveTyped(s), s.gen <= host.activeGen,
           s.stage = "flushing" => s.text \in Texts /\ e.owned = s.text.owned,
           NEW g, g = [host EXCEPT !.queue = <<Lease>>, !.entry = e, !.save = s]
    PROVE  HostHolds(g, S) /\ g.save = s
<1>0. HostTyped(host) /\ Generations(host)
  BY DEF HostHolds, Sound
<1>1. /\ Fields \subseteq DOMAIN g /\ g.queue = <<Lease>> /\ g.entry = e /\ g.save = s
      /\ g.authority = host.authority /\ g.postGen = host.postGen /\ g.activeGen = host.activeGen
      /\ g.activeToken = host.activeToken /\ g.posts = host.posts
  BY <1>0 DEF HostTyped, Fields
<1>2. JobTyped(Lease) /\ Lease.kind = "lease" /\ Lease.stage = "queued"
  BY DEF Lease, NewJob, JobTyped, JobFields
<1>3. IsSeq(g.queue) /\ DOMAIN g.queue = {1} /\ g.queue[1] = Lease /\ g.queue # <<>>
  <2>1. PICK j : j = Lease
    OBVIOUS
  <2>2. g.queue = <<j>>
    BY <1>1, <2>1
  <2>3. g.queue \in Seq({j}) /\ DOMAIN g.queue = {1} /\ g.queue[1] = j
    BY <2>2
  <2>4. g.queue # <<>>
    BY <2>2
  <2>5. IsSeq(g.queue)
    BY <2>3 DEF IsSeq
  <2> QED
    BY <2>1, <2>3, <2>4, <2>5
<1>4. HostTyped(g) /\ Generations(g)
  BY <1>0, <1>1, <1>2, <1>3 DEF HostTyped, Generations
<1>5. QueueHolds(g, S) /\ Revoked(g) /\ HasLease(g)
  BY <1>2, <1>3 DEF QueueHolds, HeadHolds, Revoked, Kept, HasLease
<1>6. Flushing(g) /\ Holds(g.authority.text, S)
  BY <1>1, <1>5 DEF Flushing, HostHolds, Sound
<1> QED
  BY <1>1, <1>4, <1>5, <1>6 DEF HostHolds, Sound

LEMMA SaveDrainedKeeps == ASSUME KeptInv, SaveDrained PROVE KeptInv'
<1>0. /\ HostHolds(host, Live) /\ UNCHANGED <<SaveSide, doc, saved, saves>> /\ host.queue = <<>>
      /\ doc \in Texts /\ host.entry \in Entries /\ saves \in Nat
      /\ SaveTyped(host.save) /\ host.save.gen <= host.activeGen
  BY HostFacts, SaveFacts DEF SaveDrained
<1>1. CASE host' = Refused(host) /\ UNCHANGED toView
  BY <1>0, <1>1, RefuseStep
<1>2. CASE /\ SameOwned(host.entry, doc)
           /\ host' = [host EXCEPT !.queue = <<Lease>>, !.save.token = host.activeToken,
                                   !.entry.text = doc, !.save.stage = "flushing", !.save.text = doc]
           /\ toView' = Append(toView, [type |-> "flush", id |-> host.save.id])
  <2>1. PICK e : e = [host.entry EXCEPT !.text = doc]
    OBVIOUS
  <2>2. e \in Entries /\ e.owned = doc.owned
    BY <1>0, <1>2, <2>1 DEF Entries, SameOwned
  <2>3. PICK s : s = [host.save EXCEPT !.token = host.activeToken, !.stage = "flushing", !.text = doc]
    OBVIOUS
  <2>4. SaveTyped(s) /\ s.gen = host.save.gen /\ s.stage = "flushing" /\ s.text = doc
    BY <1>0, <2>3 DEF SaveTyped, SaveFields
  <2>5. host' = [host EXCEPT !.queue = <<Lease>>, !.entry = e, !.save = s]
    BY <1>2, <2>1, <2>3
  <2>6. HostHolds(host', Live) /\ host'.save = s
    BY <1>0, <2>2, <2>4, <2>5, LeaseHolds
  <2>7. Committing(host', doc)
    BY <2>4, <2>6 DEF Committing
  <2>8. PICK m : m = [type |-> "flush", id |-> host.save.id]
    OBVIOUS
  <2>9. toView' = Append(toView, m) /\ ToViewTyped(m) /\ ~IsOk(m)
    BY <1>2, <2>8 DEF ToViewTyped, IsOk
  <2> QED
    BY <1>0, <2>6, <2>7, <2>9, HostFacts, SaveSideFacts, HostStep
<1>3. CASE /\ host' = FailClosed([host EXCEPT !.queue = <<Lease>>, !.save.token = host.activeToken])
           /\ UNCHANGED toView
  <2>1. PICK s : s = [host.save EXCEPT !.token = host.activeToken]
    OBVIOUS
  <2>2. SaveTyped(s) /\ s.gen = host.save.gen /\ s.stage = "draining"
    BY <1>0, <2>1 DEF SaveTyped, SaveFields, SaveDrained
  <2>3. PICK h : h = [host EXCEPT !.queue = <<Lease>>, !.entry = host.entry, !.save = s]
    OBVIOUS
  <2>4. HostHolds(h, Live)
    BY <1>0, <2>2, <2>3, LeaseHolds
  <2>5. h = [host EXCEPT !.queue = <<Lease>>, !.save.token = host.activeToken]
    BY <2>1, <2>3, HostFacts DEF Fields
  <2>6. host' = FailClosed(h)
    BY <1>3, <2>5
  <2>7. HostHolds(host', Live) /\ Committing(host', doc)
    BY <1>0, <2>4, <2>6, FailClosedHolds
  <2> QED
    BY <1>0, <1>3, <2>7, HostFacts, SaveSideFacts, HostStep
<1> QED
  BY <1>1, <1>2, <1>3 DEF SaveDrained

(* The last snapshot: what the save is to store has the owned part that is  *)
(* in the document.                                                         *)
LEMMA FinalSnapshotHolds ==
    ASSUME KeptInv, NEW m, m.state \in Texts
    PROVE  HostHolds(FinalSnapshot(m), Live) /\ Committing(FinalSnapshot(m), doc)
<1>0. /\ HostHolds(host, Live) /\ Committing(host, doc) /\ doc \in Texts /\ host.entry \in Entries
      /\ SaveTyped(host.save) /\ host.save.gen <= host.activeGen
  BY HostFacts, SaveFacts
<1>1. HostHolds(FailClosed(host), Live) /\ Committing(FailClosed(host), doc)
  BY <1>0, FailClosedHolds
<1>2. HostHolds(WithoutLease(Refused(host)), Live) /\ Committing(WithoutLease(Refused(host)), doc)
  <2>1. HostHolds(Refused(host), Live) /\ Refused(host).save = NoSave
    BY <1>0, RefusedHolds
  <2>2. NoSave.stage = "none"
    BY DEF NoSave
  <2>3. HostHolds(WithoutLease(Refused(host)), Live) /\ WithoutLease(Refused(host)).save = NoSave
    BY <2>1, <2>2, WithoutLeaseHolds
  <2> QED
    BY <2>2, <2>3 DEF Committing
<1>3. ASSUME host.save.stage = "flushing", SaveOwnerIsCurrent,
             NEW want, want = Overlay(m.state, host.entry),
             NEW h, h = [host EXCEPT !.save.stage = "committing", !.save.text = want,
                                     !.save.edit = want # doc, !.save.fresh = TRUE,
                                     !.save.atomic = TRUE]
      PROVE  /\ HostHolds(h, Live) /\ Committing(h, doc)
             /\ HostHolds(Expect(h, want), Live) /\ Committing(Expect(h, want), doc)
  <2>1. want \in Texts /\ want.owned = host.entry.owned
    BY <1>0, <1>3, OverlayText
  <2>2. want.owned = doc.owned
    BY <1>0, <1>3, <2>1 DEF HostHolds, Sound, Flushing, SaveOwnerIsCurrent
  <2>3. PICK s : s = [host.save EXCEPT !.stage = "committing", !.text = want, !.edit = want # doc,
                                       !.fresh = TRUE, !.atomic = TRUE]
    OBVIOUS
  <2>4. SaveTyped(s) /\ s.gen = host.save.gen /\ s.stage = "committing" /\ s.text = want
    BY <1>0, <2>1, <2>3 DEF SaveTyped, SaveFields
  <2>5. h = [host EXCEPT !.save = s]
    BY <1>3, <2>3
  <2>6. HostHolds(h, Live) /\ h.save = s
    BY <1>0, <2>4, <2>5, SaveHolds
  <2>7. HostHolds(Expect(h, want), Live) /\ Expect(h, want).save = s
    BY <2>6, ExpectHolds
  <2> QED
    BY <2>1, <2>2, <2>4, <2>6, <2>7 DEF Committing
<1>4. PICK want : want = Overlay(m.state, host.entry)
  OBVIOUS
<1>5. PICK h : h = [host EXCEPT !.save.stage = "committing", !.save.text = want,
                                !.save.edit = want # doc, !.save.fresh = TRUE,
                                !.save.atomic = TRUE]
  OBVIOUS
<1>6. \/ FinalSnapshot(m) = host
      \/ FinalSnapshot(m) = FailClosed(host)
      \/ FinalSnapshot(m) = WithoutLease(Refused(host))
      \/ /\ host.save.stage = "flushing" /\ SaveOwnerIsCurrent
         /\ FinalSnapshot(m) = h \/ FinalSnapshot(m) = Expect(h, want)
  BY <1>4, <1>5 DEF FinalSnapshot
<1> QED
  BY <1>0, <1>1, <1>2, <1>3, <1>4, <1>5, <1>6

LEMMA FinalSnapshotTimesOutKeeps == ASSUME KeptInv, FinalSnapshotTimesOut PROVE KeptInv'
<1>1. HostHolds(host', Live) /\ Committing(host', doc)
  BY HostFacts, FailClosedHolds DEF FinalSnapshotTimesOut
<1>2. UNCHANGED <<SaveSide, doc, saved, toView, saves>>
  BY DEF FinalSnapshotTimesOut
<1> QED
  BY <1>1, <1>2, HostFacts, SaveSideFacts, HostStep

LEMMA StoredHolds ==
    ASSUME NEW h, NEW S, HostHolds(h, S), NEW d
    PROVE  HostHolds(Stored(h), S) /\ Committing(Stored(h), d)
<1>1. PICK s : s = [h.save EXCEPT !.stage = "stored"]
  OBVIOUS
<1>2. SaveTyped(s) /\ s.gen <= h.activeGen /\ s.stage = "stored"
  BY <1>1, SaveFacts DEF SaveTyped, SaveFields
<1>3. PICK g : g = [h EXCEPT !.save = s]
  OBVIOUS
<1>4. HostHolds(g, S) /\ g.save = s
  BY <1>2, <1>3, SaveHolds
<1>5. Stored(h) = g
  BY <1>1, <1>3 DEF Stored
<1> QED
  BY <1>2, <1>4, <1>5 DEF Committing

LEMMA StoreDocumentKeeps == ASSUME KeptInv, StoreDocument PROVE KeptInv'
<1>0. /\ HostHolds(host, Live) /\ Committing(host, doc) /\ doc \in Texts /\ Holds(doc, Live)
      /\ host.save.stage = "committing" /\ UNCHANGED <<SaveSide, toView, saves>> /\ saved' = doc'
      /\ saves \in Nat
  BY HostFacts DEF StoreDocument
<1>1. CASE /\ host.save.edit /\ host.save.fresh /\ doc' = host.save.text
           /\ host' = Stored(Changed(Outdate(host), host.save.text))
  <2>1. PICK text : text = host.save.text
    OBVIOUS
  <2>2. text \in Texts /\ text.owned = doc.owned
    BY <1>0, <1>1, <2>1 DEF Committing
  <2>3. Holds(text, Live)
    BY <1>0, <2>2 DEF Holds
  <2>4. PICK h : h = Changed(Outdate(host), text)
    OBVIOUS
  <2>5. HostHolds(h, Live)
    BY <1>0, <2>2, <2>3, <2>4, ChangeHolds
  <2>6. HostHolds(host', Live) /\ Committing(host', doc')
    BY <1>1, <2>1, <2>4, <2>5, StoredHolds
  <2> QED
    BY <1>0, <1>1, <2>1, <2>2, <2>3, <2>6, SaveSideFacts, HostStep
<1>2. CASE host' = Stored(host) /\ UNCHANGED doc
  <2>1. HostHolds(host', Live) /\ Committing(host', doc')
    BY <1>0, <1>2, StoredHolds
  <2> QED
    BY <1>0, <1>2, <2>1, SaveSideFacts, HostStep
<1> QED
  BY <1>1, <1>2 DEF StoreDocument

LEMMA DidSaveKeeps == ASSUME KeptInv, DidSave PROVE KeptInv'
<1>0. /\ HostHolds(host, Live) /\ doc \in Texts /\ Holds(doc, Live)
      /\ UNCHANGED <<SaveSide, doc, saved, toView, saves>>
  BY HostFacts DEF DidSave
<1>1. PICK h : h = Refused(host)
  OBVIOUS
<1>2. HostHolds(h, Live) /\ h.save = NoSave /\ NoSave.stage = "none"
  BY <1>0, <1>1, RefusedHolds DEF NoSave
<1>3. PICK c : c = Commit(h, doc)
  OBVIOUS
<1>4. HostHolds(c, Live) /\ c.save = NoSave
  BY <1>0, <1>2, <1>3, CommitHolds
<1>5. PICK g : g = [c EXCEPT !.entry.text = doc]
  OBVIOUS
<1>6. HostHolds(g, Live) /\ g.save = NoSave
  BY <1>0, <1>4, <1>5, RebaseHolds
<1>7. host' = h \/ host' = WithoutLease(g) \/ host' = WithoutLease(h)
  BY <1>1, <1>3, <1>5 DEF DidSave
<1>8. HostHolds(host', Live) /\ host'.save = NoSave
  BY <1>2, <1>6, <1>7, WithoutLeaseHolds
<1>9. Committing(host', doc)
  BY <1>2, <1>8 DEF Committing
<1> QED
  BY <1>0, <1>8, <1>9, HostFacts, SaveSideFacts, HostStep

LEMMA LeaseTimesOutKeeps == ASSUME KeptInv, LeaseTimesOut PROVE KeptInv'
<1>0. HostHolds(host, Live) /\ Committing(host, doc) /\ UNCHANGED <<SaveSide, doc, saved, toView, saves>>
  BY HostFacts DEF LeaseTimesOut
<1>1. HostHolds(host', Live) /\ host'.save = host.save
  BY <1>0, WithoutLeaseHolds DEF LeaseTimesOut
<1>2. Committing(host', doc)
  BY <1>0, <1>1 DEF Committing
<1> QED
  BY <1>0, <1>1, <1>2, HostFacts, SaveSideFacts, HostStep

-----------------------------------------------------------------------------
(* The projections. *)

LEMMA PostedHolds ==
    ASSUME NEW h, NEW S, HostHolds(h, S), NEW p \in h.posts, NEW q, PostTyped(q), q.gen = p.gen,
           NEW g, g = [h EXCEPT !.posts = (@ \ {p}) \cup {q}]
    PROVE  HostHolds(g, S) /\ g.save = h.save
<1>0. HostTyped(h) /\ Generations(h) /\ PostTyped(p)
  BY DEF HostHolds, Sound, HostTyped
<1>3. /\ Fields \subseteq DOMAIN g /\ g.queue = h.queue /\ g.entry = h.entry
      /\ g.authority = h.authority /\ g.postGen = h.postGen /\ g.activeGen = h.activeGen
      /\ g.activeToken = h.activeToken /\ g.save = h.save
      /\ g.posts = (h.posts \ {p}) \cup {q}
  BY <1>0 DEF HostTyped, Fields
<1>4. HostTyped(g)
  BY <1>0, <1>3 DEF HostTyped
<1>5. Generations(g)
  <2>1. \A r \in g.posts : r = q \/ (r \in h.posts /\ r # p)
    BY <1>3
  <2>2. \A r \in g.posts : r.gen <= g.postGen /\ r.gen # g.activeGen
    BY <1>0, <1>3, <2>1 DEF Generations
  <2>3. \A r, s \in g.posts : r.gen = s.gen => r = s
    BY <1>0, <2>1 DEF Generations
  <2> QED
    BY <1>0, <1>3, <2>2, <2>3 DEF Generations
<1>6. Holds(g.authority.text, S) /\ QueueHolds(g, S) /\ Flushing(g)
  BY <1>3 DEF HostHolds, Sound, QueueHolds, Flushing, HasLease
<1>7. Revoked(g)
  BY <1>3 DEF HostHolds, Revoked, Kept, CurrentIn
<1> QED
  BY <1>3, <1>4, <1>5, <1>6, <1>7 DEF HostHolds, Sound

LEMMA PostKeeps == ASSUME KeptInv, NEW p \in host.posts, Post(p) PROVE KeptInv'
<1>0. /\ HostHolds(host, Live) /\ Committing(host, doc) /\ doc \in Texts /\ Holds(doc, Live)
      /\ host.entry \in Entries /\ PostTyped(p) /\ saves \in Nat /\ saved \in Texts
  BY HostFacts DEF HostTyped
<1>1. /\ UNCHANGED <<webVars, toHost, issued, edits, externals, kept, replaced>>
      /\ saves' \in Nat /\ saved' \in Texts /\ UNCHANGED doc
  BY <1>0 DEF Post, boundVars
<1>2. CASE host' = Return(host, p, FALSE) /\ UNCHANGED toView
  <2>1. Moves(host, host', Live)
    BY <1>0, <1>2, ReturnHolds
  <2>2. HostHolds(host', Live) /\ (host'.save = host.save \/ host'.save = NoSave)
    BY <2>1 DEF Moves, Follows
  <2>3. Committing(host', doc)
    BY <1>0, <2>2 DEF Committing, NoSave
  <2> QED
    BY <1>0, <1>1, <1>2, <2>2, <2>3, HostStep
<1>3. CASE LET made == Materialize(host.entry, p.text) IN
           /\ host' = [host EXCEPT !.posts = (@ \ {p}) \cup
                          {[p EXCEPT !.stage = "posted", !.made = made]}]
           /\ toView' = Append(toView, [type |-> "data", gen |-> p.gen, force |-> p.force,
                                        rev |-> made.rev, owned |-> made.owned,
                                        rest |-> p.text.rest])
  <2>1. PICK made : made = Materialize(host.entry, p.text)
    OBVIOUS
  <2>2. made \in Entries /\ made.owned \in Owned /\ p.text.rest \in Nat
    BY <1>0, <2>1 DEF Materialize, Entries, PostTyped, Texts
  <2>3. PICK m : m = [type |-> "data", gen |-> p.gen, force |-> p.force, rev |-> made.rev,
                      owned |-> made.owned, rest |-> p.text.rest]
    OBVIOUS
  <2>4. toView' = Append(toView, m) /\ ToViewTyped(m) /\ ~IsOk(m)
    BY <1>3, <2>1, <2>2, <2>3 DEF ToViewTyped, IsOk
  <2>5. PICK q : q = [p EXCEPT !.stage = "posted", !.made = made]
    OBVIOUS
  <2>6. HostHolds(host', Live) /\ host'.save = host.save
    <3>1. host' = [host EXCEPT !.posts = (@ \ {p}) \cup {q}]
      BY <1>3, <2>1, <2>5
    <3>2. PostTyped(q) /\ q.gen = p.gen
      BY <1>0, <2>2, <2>5 DEF PostTyped, PostFields
    <3> QED
      BY <1>0, <3>1, <3>2, PostedHolds
  <2>7. Committing(host', doc)
    BY <1>0, <2>6 DEF Committing
  <2> QED
    BY <1>0, <1>1, <2>4, <2>6, <2>7, HostStep
<1> QED
  BY <1>2, <1>3 DEF Post

LEMMA ReloadTimesOutKeeps == ASSUME KeptInv, NEW p \in host.posts, ReloadTimesOut(p) PROVE KeptInv'
<1>0. /\ HostHolds(host, Live) /\ Committing(host, doc) /\ doc \in Texts /\ Holds(doc, Live)
      /\ PostTyped(p) /\ saves \in Nat /\ saved \in Texts
  BY HostFacts DEF HostTyped
<1>1. /\ UNCHANGED <<webVars, toHost, issued, edits, externals, kept, replaced>>
      /\ saves' \in Nat /\ saved' \in Texts /\ UNCHANGED <<doc, toView>>
  BY <1>0 DEF ReloadTimesOut, historyVars, channelVars
<1>2. Moves(host, host', Live)
  BY <1>0, EndReloadHolds DEF ReloadTimesOut
<1>3. HostHolds(host', Live) /\ (host'.save = host.save \/ host'.save = NoSave)
  BY <1>2 DEF Moves, Follows
<1>4. Committing(host', doc)
  BY <1>0, <1>3 DEF Committing, NoSave
<1> QED
  BY <1>0, <1>1, <1>3, <1>4, HostStep

-----------------------------------------------------------------------------
(* The messages to the host. *)

LEMMA NewJobTyped ==
    ASSUME NEW h, NEW kind \in {"command", "snapshot"}, NEW id, NEW ask,
           kind = "command" => id \in Nat, kind = "snapshot" => ask \in Texts,
           NEW j, j = NewJob(kind, id, ask, h)
    PROVE  JobTyped(j) /\ Waits(j) /\ j.gen = h.activeGen /\ j.token = h.activeToken
BY DEF NewJob, JobTyped, JobFields, Waits

LEMMA AdmittedHolds ==
    ASSUME KeptInv, NEW kind \in {"command", "snapshot"}, NEW id, NEW ask,
           kind = "command" => id \in Nat, kind = "snapshot" => ask \in Texts,
           NEW j, j = NewJob(kind, id, ask, host), IsCurrent(j),
           NEW g, g = [host EXCEPT !.queue = Append(@, j)]
    PROVE  HostHolds(g, Live) /\ Committing(g, doc)
<1>1. HostHolds(host, Live) /\ Committing(host, doc)
  BY HostFacts
<1>2. JobTyped(j) /\ Waits(j) /\ j.gen = host.activeGen /\ j.token = host.activeToken
  BY NewJobTyped
<1>3. Kept(host, j)
  BY <1>2 DEF Kept, CurrentIn, IsCurrent
<1>4. HostHolds(g, Live) /\ g.save = host.save
  BY <1>1, <1>2, <1>3, AdmitHolds
<1> QED
  BY <1>1, <1>4 DEF Committing

LEMMA ReceiveHostKeeps == ASSUME KeptInv, ReceiveHost PROVE KeptInv'
<1>0. /\ HostHolds(host, Live) /\ Committing(host, doc) /\ doc \in Texts /\ Holds(doc, Live)
      /\ saves \in Nat /\ saved \in Texts /\ HostTyped(host)
  BY HostFacts
<1>1. /\ UNCHANGED <<webVars, issued, edits, externals, kept, replaced>>
      /\ saves' \in Nat /\ saved' \in Texts /\ UNCHANGED doc
      /\ toHost # <<>> /\ toHost' = Tail(toHost)
  BY <1>0 DEF ReceiveHost, historyVars, boundVars
<1>2. PICK m : m = Head(toHost)
  OBVIOUS
<1>3. IsSeq(toHost') /\ Elements(toHost') \subseteq Elements(toHost) /\ ToHostTyped(m)
  BY <1>1, <1>2, SeqFacts, TailFacts DEF KeptInv, MailTyped
<1>4. CASE m.type = "command"
  <2>1. AdmitCommand(m)
    BY <1>2, <1>4 DEF ReceiveHost
  <2>2. CASE Answer(m.id, FALSE, host) /\ UNCHANGED host
    <3>1. PICK r : r = Result(m.id, FALSE, host)
      OBVIOUS
    <3>2. toView' = Append(toView, r)
      BY <2>2, <3>1 DEF Answer
    <3>3. ToViewTyped(r) /\ ~IsOk(r)
      BY <1>0, <3>1 DEF ToViewTyped, Result, IsOk, HostTyped, Entries
    <3> QED
      BY <1>0, <1>1, <1>3, <2>2, <3>2, <3>3, HostReceives
  <2>3. CASE /\ IsCurrent(NewJob("command", m.id, m.rev, host)) /\ UNCHANGED toView
             /\ host' = [host EXCEPT !.queue = Append(@, NewJob("command", m.id, m.rev, host))]
    <3>1. PICK j : j = NewJob("command", m.id, m.rev, host)
      OBVIOUS
    <3>2. IsCurrent(j) /\ host' = [host EXCEPT !.queue = Append(@, j)]
      BY <2>3, <3>1
    <3>3. HostHolds(host', Live) /\ Committing(host', doc)
      BY <1>3, <1>4, <3>1, <3>2, AdmittedHolds DEF ToHostTyped
    <3> QED
      BY <1>0, <1>1, <1>3, <2>3, <3>3, HostReceives
  <2> QED
    BY <2>1, <2>2, <2>3 DEF AdmitCommand
<1>5. CASE m.type = "snapshot"
  <2>1. AdmitSnapshot(m) /\ UNCHANGED toView
    BY <1>2, <1>5 DEF ReceiveHost
  <2>2. CASE host' = host
    BY <1>0, <1>1, <1>3, <2>1, <2>2, HostReceives
  <2>3. CASE /\ IsCurrent(NewJob("snapshot", m.id, m.state, host))
             /\ host' = [host EXCEPT !.queue = Append(@, NewJob("snapshot", m.id, m.state, host))]
    <3>1. PICK j : j = NewJob("snapshot", m.id, m.state, host)
      OBVIOUS
    <3>2. IsCurrent(j) /\ host' = [host EXCEPT !.queue = Append(@, j)]
      BY <2>3, <3>1
    <3>3. HostHolds(host', Live) /\ Committing(host', doc)
      BY <1>3, <1>5, <3>1, <3>2, AdmittedHolds DEF ToHostTyped
    <3> QED
      BY <1>0, <1>1, <1>3, <2>1, <3>3, HostReceives
  <2> QED
    BY <2>1, <2>2, <2>3 DEF AdmitSnapshot
<1>6. CASE m.type = "reload"
  <2>1. host' = ReloadResult(m) /\ UNCHANGED toView
    BY <1>2, <1>6 DEF ReceiveHost
  <2>2. Moves(host, host', Live)
    BY <1>0, <2>1, ReloadResultHolds
  <2>3. HostHolds(host', Live) /\ (host'.save = host.save \/ host'.save = NoSave)
    BY <2>2 DEF Moves, Follows
  <2>4. Committing(host', doc)
    BY <1>0, <2>3 DEF Committing, NoSave
  <2> QED
    BY <1>0, <1>1, <1>3, <2>1, <2>3, <2>4, HostReceives
<1>7. CASE m.type = "barrier"
  <2>1. host' = BarrierResult(m) /\ UNCHANGED toView
    BY <1>2, <1>7 DEF ReceiveHost
  <2>2. HostHolds(host', Live) /\ Committing(host', doc)
    BY <2>1, BarrierResultHolds
  <2> QED
    BY <1>0, <1>1, <1>3, <2>1, <2>2, HostReceives
<1>8. CASE m.type = "flush"
  <2>1. host' = FinalSnapshot(m) /\ UNCHANGED toView
    BY <1>2, <1>8 DEF ReceiveHost
  <2>2. HostHolds(host', Live) /\ Committing(host', doc)
    BY <1>3, <1>8, <2>1, FinalSnapshotHolds DEF ToHostTyped
  <2> QED
    BY <1>0, <1>1, <1>3, <2>1, <2>2, HostReceives
<1>9. CASE m.type = "request"
  <2>1. /\ UNCHANGED toView
        /\ \/ host' = StartPost(host, doc, TRUE, "request", FALSE)
           \/ host' = EnsureInitial(host, doc)
    BY <1>2, <1>9 DEF ReceiveHost
  <2>2. Moves(host, host', Live)
    BY <1>0, <2>1, StartPostHolds, EnsureInitialHolds
  <2>3. HostHolds(host', Live) /\ (host'.save = host.save \/ host'.save = NoSave)
    BY <2>2 DEF Moves, Follows
  <2>4. Committing(host', doc)
    BY <1>0, <2>3 DEF Committing, NoSave
  <2> QED
    BY <1>0, <1>1, <1>3, <2>1, <2>3, <2>4, HostReceives
<1> QED
  BY <1>3, <1>4, <1>5, <1>6, <1>7, <1>8, <1>9 DEF ToHostTyped

-----------------------------------------------------------------------------
(* The webview. *)

(* The webview counts no command as accepted that it was not told of. *)
LEMMA WebStep ==
    ASSUME KeptInv, UNCHANGED <<doc, saved, host, replaced>>, ViewTyped',
           IsSeq(toHost'), \A m \in Elements(toHost') : ToHostTyped(m),
           IsSeq(toView'), Elements(toView') \subseteq Elements(toView),
           kept' \subseteq kept \cup Told
    PROVE  KeptInv'
<1>1. Told' \subseteq Told
  BY DEF Told
<1>2. Live' \subseteq Live
  BY <1>1 DEF Live
<1>3. HostHolds(host, Live') /\ Holds(doc, Live')
  BY <1>2, HostFacts, Less DEF Holds
<1>4. HostHolds(host', Live') /\ Holds(doc', Live')
  BY <1>3
<1>5. MailTyped'
  BY DEF KeptInv, MailTyped
<1>6. Committing(host', doc')
  BY HostFacts
<1> QED
  BY <1>4, <1>5, <1>6, HostFacts DEF KeptInv

LEMMA SentTyped ==
    ASSUME NEW q, IsSeq(q), \A m \in Elements(q) : ToHostTyped(m), NEW x, ToHostTyped(x)
    PROVE  IsSeq(Append(q, x)) /\ \A m \in Elements(Append(q, x)) : ToHostTyped(m)
BY AppendFacts

LEMMA SingleFacts == ASSUME NEW x PROVE IsSeq(<<x>>) /\ Elements(<<x>>) = {x}
<1>1. <<x>> \in Seq({x}) /\ DOMAIN <<x>> = {1} /\ <<x>>[1] = x
  OBVIOUS
<1> QED
  BY <1>1 DEF IsSeq, Elements

LEMMA EmptyFacts == IsSeq(<<>>) /\ Elements(<<>>) = {}
<1>1. <<>> \in Seq({}) /\ DOMAIN <<>> = {}
  OBVIOUS
<1> QED
  BY <1>1 DEF IsSeq, Elements

LEMMA SettleTyped ==
    ASSUME KeptInv, NEW left, NEW isBlocked, NEW failed, NEW v, NEW sent,
           IsSeq(sent), \A m \in Elements(sent) : ToHostTyped(m),
           Settle(left, isBlocked, failed, v, sent)
    PROVE  /\ view' = v /\ IsSeq(toHost') /\ \A m \in Elements(toHost') : ToHostTyped(m)
<1>1. IsSeq(toHost) /\ \A m \in Elements(toHost) : ToHostTyped(m)
  BY DEF KeptInv, MailTyped
<1>2. PICK q : q = toHost \o sent
  OBVIOUS
<1>3. IsSeq(q) /\ \A m \in Elements(q) : ToHostTyped(m)
  BY <1>1, <1>2, ConcatFacts
<1>4. CASE toHost' = q
  BY <1>3, <1>4 DEF Settle
<1>5. CASE \E ok : toHost' = q \o <<BarrierReply(waiting.id, ok, v)>>
  <2>1. PICK ok : toHost' = q \o <<BarrierReply(waiting.id, ok, v)>>
    BY <1>5
  <2>2. PICK x : x = BarrierReply(waiting.id, ok, v)
    OBVIOUS
  <2>3. ToHostTyped(x)
    BY <2>2 DEF ToHostTyped, BarrierReply
  <2>4. IsSeq(<<x>>) /\ Elements(<<x>>) = {x}
    BY SingleFacts
  <2>5. toHost' = q \o <<x>>
    BY <2>1, <2>2
  <2>6. IsSeq(toHost') /\ Elements(toHost') \subseteq Elements(q) \cup {x}
    BY <1>3, <2>4, <2>5, ConcatFacts
  <2> QED
    BY <1>3, <2>3, <2>6 DEF Settle
<1> QED
  BY <1>2, <1>4, <1>5 DEF Settle

LEMMA BlockTyped ==
    ASSUME KeptInv, BlockQueueAndReload
    PROVE  /\ view' = view /\ IsSeq(toHost') /\ \A m \in Elements(toHost') : ToHostTyped(m)
<1>1. PICK x : x = [type |-> "request"]
  OBVIOUS
<1>2. ToHostTyped(x)
  BY <1>1 DEF ToHostTyped
<1>3. IsSeq(<<x>>) /\ \A m \in Elements(<<x>>) : ToHostTyped(m)
  BY <1>2, SingleFacts
<1>4. Settle(<<>>, TRUE, TRUE, view, <<x>>)
  BY <1>1 DEF BlockQueueAndReload
<1> QED
  BY <1>3, <1>4, SettleTyped

(* What the webview keeps of itself, with another projection. *)
LEMMA AdoptTyped ==
    ASSUME KeptInv, UNCHANGED <<restVars, issued, edits, externals, saves>>,
           {"gen", "rev", "owned"} \subseteq DOMAIN view', view'.owned \in Owned
    PROVE  ViewTyped'
BY DEF KeptInv, ViewTyped, restVars

LEMMA DispatchCommandKeeps == ASSUME KeptInv, DispatchCommand PROVE KeptInv'
<1>0. ViewTyped /\ MailTyped
  BY DEF KeptInv
<1>1. PICK m : m = [type |-> "command", id |-> issued + 1, gen |-> view.gen, rev |-> optimistic.rev]
  OBVIOUS
<1>2. toHost' = Append(toHost, m)
  BY <1>1 DEF DispatchCommand
<1>3. ToHostTyped(m)
  BY <1>0, <1>1 DEF ToHostTyped, ViewTyped
<1>4. IsSeq(toHost') /\ \A x \in Elements(toHost') : ToHostTyped(x)
  BY <1>0, <1>2, <1>3, SentTyped DEF MailTyped
<1>5. ViewTyped'
  BY <1>0 DEF ViewTyped, DispatchCommand, restVars
<1>6. UNCHANGED <<doc, saved, host, replaced, toView, kept>>
  BY DEF DispatchCommand, historyVars
<1> QED
  BY <1>0, <1>4, <1>5, <1>6, WebStep DEF MailTyped

LEMMA CommandTimesOutKeeps == ASSUME KeptInv, CommandTimesOut PROVE KeptInv'
<1>0. ViewTyped /\ MailTyped
  BY DEF KeptInv
<1>1. view' = view /\ IsSeq(toHost') /\ \A x \in Elements(toHost') : ToHostTyped(x)
  BY BlockTyped DEF CommandTimesOut
<1>2. UNCHANGED <<doc, saved, host, replaced, toView, kept, restVars, issued, edits, externals, saves>>
  BY DEF CommandTimesOut, historyVars
<1>3. ViewTyped'
  BY <1>0, <1>1, <1>2 DEF ViewTyped, restVars
<1> QED
  BY <1>0, <1>1, <1>2, <1>3, WebStep DEF MailTyped

LEMMA EditRestKeeps == ASSUME KeptInv, EditRest PROVE KeptInv'
<1>0. ViewTyped /\ MailTyped
  BY DEF KeptInv
<1>1. UNCHANGED <<doc, saved, host, replaced, toView, toHost, kept, view, clean, unacked,
                  issued, externals, saves>>
  BY DEF EditRest, historyVars, channelVars, commandVars
<1>2. rest' \in Nat /\ edits' \in Nat
  BY <1>0, NotebookAssumption DEF EditRest, ViewTyped
<1>3. ViewTyped'
  BY <1>0, <1>1, <1>2 DEF ViewTyped
<1> QED
  BY <1>0, <1>1, <1>3, WebStep DEF MailTyped

LEMMA StateTyped == ASSUME ViewTyped PROVE State \in Texts
BY DEF State, ViewTyped, Texts

LEMMA SendSnapshotKeeps == ASSUME KeptInv, SendSnapshot PROVE KeptInv'
<1>0. ViewTyped /\ MailTyped
  BY DEF KeptInv
<1>1. UNCHANGED <<doc, saved, host, replaced, toView, kept, view, rest, clean,
                  issued, edits, externals, saves>>
  BY DEF SendSnapshot, commandVars, boundVars
<1>2. PICK m : m = [type |-> "snapshot", id |-> edits, gen |-> view.gen, state |-> State]
  OBVIOUS
<1>3. ToHostTyped(m)
  BY <1>0, <1>2, StateTyped DEF ToHostTyped
<1>4. toHost' = toHost \/ toHost' = Append(toHost, m)
  BY <1>2 DEF SendSnapshot
<1>5. IsSeq(toHost') /\ \A x \in Elements(toHost') : ToHostTyped(x)
  BY <1>0, <1>3, <1>4, SentTyped DEF MailTyped
<1>6. \A s \in unacked' : s.rest \in Nat
  BY <1>0 DEF SendSnapshot, ViewTyped
<1>7. ViewTyped'
  BY <1>0, <1>1, <1>6 DEF ViewTyped
<1> QED
  BY <1>0, <1>1, <1>5, <1>7, WebStep DEF MailTyped

LEMMA ResultKeeps ==
    ASSUME KeptInv, NEW m \in Elements(toView), m.type = "result", ReceiveResult(m),
           UNCHANGED <<restVars, issued, edits, externals, saves>>
    PROVE  /\ ViewTyped' /\ kept' \subseteq kept \cup Told
           /\ IsSeq(toHost') /\ \A x \in Elements(toHost') : ToHostTyped(x)
<1>0. /\ ViewTyped /\ IsSeq(toHost) /\ \A x \in Elements(toHost) : ToHostTyped(x)
      /\ m.owned \in Owned
  BY DEF KeptInv, MailTyped, ToViewTyped
<1>1. PICK adopted : adopted = [view EXCEPT !.rev = m.rev, !.owned = m.owned]
  OBVIOUS
<1>2. {"gen", "rev", "owned"} \subseteq DOMAIN adopted /\ adopted.owned \in Owned
  BY <1>0, <1>1 DEF ViewTyped
<1>3. CASE UNCHANGED <<commandVars, toHost, kept>>
  <2>1. ViewTyped'
    BY <1>0, <1>3, AdoptTyped DEF ViewTyped, commandVars
  <2> QED
    BY <1>0, <1>3, <2>1
<1>4. CASE /\ m.ok /\ kept' = kept \cup {m.id}
           /\ \E left : Settle(left, blocked, FALSE, adopted, <<>>)
  <2>1. view' = adopted /\ IsSeq(toHost') /\ \A x \in Elements(toHost') : ToHostTyped(x)
    BY <1>4, EmptyFacts, SettleTyped
  <2>2. ViewTyped'
    BY <1>2, <2>1, AdoptTyped
  <2>3. m.id \in Told
    BY <1>4 DEF Told, IsOk
  <2> QED
    BY <1>4, <2>1, <2>2, <2>3
<1>5. CASE Settle(<<>>, FALSE, TRUE, adopted, <<>>) /\ UNCHANGED kept
  <2>1. view' = adopted /\ IsSeq(toHost') /\ \A x \in Elements(toHost') : ToHostTyped(x)
    BY <1>5, EmptyFacts, SettleTyped
  <2>2. ViewTyped'
    BY <1>2, <2>1, AdoptTyped
  <2> QED
    BY <1>5, <2>1, <2>2
<1>6. CASE BlockQueueAndReload /\ UNCHANGED kept
  <2>1. view' = view /\ IsSeq(toHost') /\ \A x \in Elements(toHost') : ToHostTyped(x)
    BY <1>6, BlockTyped
  <2>2. ViewTyped'
    BY <1>0, <2>1, AdoptTyped DEF ViewTyped
  <2> QED
    BY <1>6, <2>1, <2>2
<1> QED
  BY <1>1, <1>3, <1>4, <1>5, <1>6 DEF ReceiveResult

LEMMA BarrierKeeps ==
    ASSUME KeptInv, NEW m, ReceiveBarrier(m)
    PROVE  /\ view' = view /\ IsSeq(toHost') /\ \A x \in Elements(toHost') : ToHostTyped(x)
<1>0. IsSeq(toHost) /\ \A x \in Elements(toHost) : ToHostTyped(x)
  BY DEF KeptInv, MailTyped
<1>1. CASE toHost' = toHost
  BY <1>0, <1>1 DEF ReceiveBarrier
<1>2. CASE \E ok : toHost' = Append(toHost, BarrierReply(m.id, ok, view))
  <2>1. PICK ok : toHost' = Append(toHost, BarrierReply(m.id, ok, view))
    BY <1>2
  <2>2. PICK x : x = BarrierReply(m.id, ok, view)
    OBVIOUS
  <2>3. ToHostTyped(x) /\ toHost' = Append(toHost, x)
    BY <2>1, <2>2 DEF ToHostTyped, BarrierReply
  <2> QED
    BY <1>0, <2>3, SentTyped DEF ReceiveBarrier
<1> QED
  BY <1>1, <1>2 DEF ReceiveBarrier

LEMMA AckKeeps ==
    ASSUME ViewTyped, NEW m, ReceiveAck(m), UNCHANGED <<view, issued, edits, externals, saves>>
    PROVE  ViewTyped'
<1>1. PICK found : found = {s \in unacked : s.id = m.id}
  OBVIOUS
<1>2. CASE found = {}
  BY <1>1, <1>2 DEF ReceiveAck, ViewTyped
<1>3. CASE found # {}
  <2>1. PICK s : s = CHOOSE t \in found : TRUE
    OBVIOUS
  <2>2. s \in unacked
    BY <1>1, <1>3, <2>1
  <2>3. clean' = s.rest /\ unacked' \subseteq unacked /\ rest' = rest
    BY <1>1, <1>3, <2>1 DEF ReceiveAck
  <2> QED
    BY <2>2, <2>3 DEF ViewTyped
<1> QED
  BY <1>2, <1>3

LEMMA DataKeeps ==
    ASSUME KeptInv, NEW m, ToViewTyped(m), m.type = "data", ReceiveData(m),
           UNCHANGED <<issued, edits, externals, saves>>
    PROVE  ViewTyped' /\ IsSeq(toHost') /\ \A x \in Elements(toHost') : ToHostTyped(x)
<1>0. /\ ViewTyped /\ IsSeq(toHost) /\ \A x \in Elements(toHost) : ToHostTyped(x)
      /\ m.owned \in Owned /\ m.rest \in Nat
  BY DEF KeptInv, MailTyped, ToViewTyped
<1>1. CASE ~m.force
  <2>1. PICK x : x = [type |-> "reload", gen |-> m.gen, applied |-> m.gen = view.gen]
    OBVIOUS
  <2>2. ToHostTyped(x) /\ IsSeq(<<x>>) /\ Elements(<<x>>) = {x}
    BY <2>1, SingleFacts DEF ToHostTyped
  <2>3. toHost' = toHost \o <<x>> /\ UNCHANGED webVars
    BY <1>1, <2>1 DEF ReceiveData
  <2>4. IsSeq(toHost') /\ Elements(toHost') \subseteq Elements(toHost) \cup {x}
    BY <1>0, <2>2, <2>3, ConcatFacts
  <2>5. ViewTyped'
    BY <1>0, <2>3 DEF ViewTyped, webVars, commandVars, restVars
  <2> QED
    BY <1>0, <2>2, <2>4, <2>5
<1>2. CASE m.force
  <2>1. PICK x : x = [type |-> "reload", gen |-> m.gen, applied |-> TRUE]
    OBVIOUS
  <2>2. ToHostTyped(x) /\ IsSeq(<<x>>) /\ Elements(<<x>>) = {x}
    BY <2>1, SingleFacts DEF ToHostTyped
  <2>3. PICK v : v = [gen |-> m.gen, rev |-> m.rev, owned |-> m.owned]
    OBVIOUS
  <2>4. PICK failed : failed = (pending # <<>>)
    OBVIOUS
  <2>5. Settle(<<>>, FALSE, failed, v, <<x>>)
    BY <1>2, <2>1, <2>3, <2>4 DEF ReceiveData
  <2>6. view' = v /\ IsSeq(toHost') /\ \A y \in Elements(toHost') : ToHostTyped(y)
    BY <2>2, <2>5, SettleTyped
  <2>7. rest' = m.rest /\ clean' = m.rest /\ unacked' = {}
    BY <1>2 DEF ReceiveData
  <2>8. ViewTyped'
    BY <1>0, <2>3, <2>6, <2>7 DEF ViewTyped
  <2> QED
    BY <2>6, <2>8
<1> QED
  BY <1>1, <1>2

LEMMA ReceiveViewKeeps == ASSUME KeptInv, ReceiveView PROVE KeptInv'
<1>0. ViewTyped /\ MailTyped
  BY DEF KeptInv
<1>1. /\ UNCHANGED <<doc, saved, host, replaced, issued, edits, externals, saves>>
      /\ toView # <<>> /\ toView' = Tail(toView)
  BY DEF ReceiveView, boundVars
<1>2. PICK m : m = Head(toView)
  OBVIOUS
<1>3. /\ IsSeq(toView') /\ Elements(toView') \subseteq Elements(toView)
      /\ m \in Elements(toView) /\ ToViewTyped(m)
  BY <1>0, <1>1, <1>2, SeqFacts, TailFacts DEF MailTyped
<1>4. /\ ViewTyped' /\ kept' \subseteq kept \cup Told
      /\ IsSeq(toHost') /\ \A x \in Elements(toHost') : ToHostTyped(x)
  <2>1. CASE m.type = "data"
    <3>1. ReceiveData(m) /\ kept' = kept
      BY <1>2, <2>1 DEF ReceiveView
    <3> QED
      BY <1>1, <1>3, <2>1, <3>1, DataKeeps
  <2>2. CASE m.type = "result"
    <3>1. ReceiveResult(m) /\ UNCHANGED restVars
      BY <1>2, <2>2 DEF ReceiveView
    <3> QED
      BY <1>1, <1>3, <2>2, <3>1, ResultKeeps
  <2>3. CASE m.type = "barrier"
    <3>1. ReceiveBarrier(m) /\ UNCHANGED <<restVars, kept>>
      BY <1>2, <2>3 DEF ReceiveView
    <3>2. view' = view /\ IsSeq(toHost') /\ \A x \in Elements(toHost') : ToHostTyped(x)
      BY <3>1, BarrierKeeps
    <3>3. ViewTyped'
      BY <1>0, <1>1, <3>1, <3>2 DEF ViewTyped, restVars
    <3> QED
      BY <3>1, <3>2, <3>3
  <2>4. CASE m.type = "ack"
    <3>1. ReceiveAck(m) /\ UNCHANGED <<view, toHost, kept>>
      BY <1>2, <2>4 DEF ReceiveView, commandVars
    <3>2. ViewTyped'
      BY <1>0, <1>1, <3>1, AckKeeps
    <3> QED
      BY <1>0, <3>1, <3>2 DEF MailTyped
  <2>5. CASE m.type = "flush"
    <3>1. PICK x : x = [type |-> "flush", id |-> m.id, gen |-> view.gen, state |-> State]
      OBVIOUS
    <3>2. ToHostTyped(x)
      BY <1>0, <3>1, StateTyped DEF ToHostTyped
    <3>3. toHost' = Append(toHost, x) /\ UNCHANGED <<view, rest, clean, unacked, kept>>
      BY <1>2, <2>5, <3>1 DEF ReceiveView, commandVars
    <3>4. IsSeq(toHost') /\ \A y \in Elements(toHost') : ToHostTyped(y)
      BY <1>0, <3>2, <3>3, SentTyped DEF MailTyped
    <3>5. ViewTyped'
      BY <1>0, <1>1, <3>3 DEF ViewTyped
    <3> QED
      BY <3>3, <3>4, <3>5
  <2> QED
    BY <1>3, <2>1, <2>2, <2>3, <2>4, <2>5 DEF ToViewTyped
<1> QED
  BY <1>1, <1>3, <1>4, WebStep

-----------------------------------------------------------------------------
(* Edits made elsewhere, and the whole. *)

LEMMA ExternalText ==
    ASSUME KeptInv, NEW text \in ExternalTexts
    PROVE  text \in Texts
<1>0. doc \in Texts /\ saved \in Texts /\ externals + 1 \in Nat /\ <<>> \in Seq(Nat)
  BY HostFacts DEF KeptInv, ViewTyped
<1>1. PICK o : o = [base |-> externals + 1, cmds |-> <<>>]
  OBVIOUS
<1>2. o \in Owned
  BY <1>0, <1>1 DEF Owned
<1>3. text = [doc EXCEPT !.owned = o] \/ text = [doc EXCEPT !.rest = externals + 1] \/ text = saved
  BY <1>1 DEF ExternalTexts
<1> QED
  BY <1>0, <1>2, <1>3 DEF Texts

LEMMA ExternalEditKeeps ==
    ASSUME KeptInv, NEW text \in ExternalTexts, ExternalEdit(text)
    PROVE  KeptInv'
<1>0. /\ ViewTyped /\ MailTyped /\ HostHolds(host, Live) /\ doc \in Texts /\ saved \in Texts
      /\ Holds(doc, Live)
  BY HostFacts DEF KeptInv
<1>1. /\ UNCHANGED <<saved, view, rest, clean, unacked, toHost, toView, issued, edits, saves, kept>>
      /\ doc' = text /\ host' = Changed(Outdate(host), text) /\ externals' = externals + 1
      /\ replaced' = replaced \cup (Elements(doc.owned.cmds) \ Elements(text.owned.cmds))
  BY DEF ExternalEdit, webVars, commandVars, restVars, channelVars
<1>2. text \in Texts
  BY ExternalText
<1>3. PICK L : L = Live'
  OBVIOUS
<1>4. L \subseteq Live /\ Holds(text, L)
  BY <1>0, <1>1, <1>3 DEF Live, Told, Holds
<1>5. HostHolds(host, L)
  BY <1>0, <1>4, Less
<1>6. HostHolds(host', L) /\ Committing(host', text)
  BY <1>1, <1>2, <1>4, <1>5, ChangeHolds
<1>7. ViewTyped' /\ MailTyped'
  BY <1>0, <1>1 DEF ViewTyped, MailTyped
<1> QED
  BY <1>0, <1>1, <1>2, <1>3, <1>4, <1>6, <1>7 DEF KeptInv

LEMMA InitKept == ASSUME Init PROVE KeptInv
<1>1. FirstText \in Texts /\ FirstText.owned \in Owned /\ FirstText.owned.cmds = <<>> /\ FirstText.rest = 0
  <2>1. <<>> \in Seq(Nat)
    OBVIOUS
  <2> QED
    BY <2>1 DEF FirstText, Texts, Owned
<1>2. MailTyped
  BY EmptyFacts DEF Init, MailTyped
<1>3. ViewTyped
  BY <1>1 DEF Init, ViewTyped
<1>4. Live = {}
  BY EmptyFacts DEF Init, Live, Told
<1>5. HostTyped(host)
  <2>1. /\ Fields \subseteq DOMAIN host
        /\ host.authority = [token |-> 1, text |-> FirstText]
        /\ host.postGen = 1 /\ host.activeGen = 1 /\ host.activeToken = 1
        /\ host.entry = [rev |-> 0, owned |-> FirstText.owned, text |-> FirstText]
        /\ host.posts = {} /\ host.queue = <<>> /\ host.save = NoSave
    BY DEF Init, Fields
  <2>2. SaveTyped(NoSave)
    BY DEF SaveTyped, SaveFields, NoSave
  <2> QED
    BY <1>1, <2>1, <2>2, EmptyFacts DEF HostTyped, Entries
<1>6. /\ host.authority = [token |-> 1, text |-> FirstText]
      /\ host.postGen = 1 /\ host.activeGen = 1 /\ host.activeToken = 1
      /\ host.posts = {} /\ host.queue = <<>> /\ host.save.gen = 0 /\ host.save.stage = "none"
  BY DEF Init, NoSave
<1>7. DOMAIN host.queue = {}
  BY <1>6
<1>8. HostHolds(host, Live) /\ Committing(host, doc)
  BY <1>4, <1>5, <1>6, <1>7 DEF HostHolds, Sound, Generations, Holds, QueueHolds, Flushing, Revoked,
     Committing
<1> QED
  BY <1>1, <1>2, <1>3, <1>4, <1>8 DEF KeptInv, Init, Holds

LEMMA StutterKeeps == ASSUME KeptInv, UNCHANGED vars PROVE KeptInv'
<1>1. UNCHANGED <<doc, saved, host, replaced, kept, toHost, toView, webVars, issued, edits, externals, saves>>
  BY DEF vars, channelVars, boundVars, historyVars
<1>2. ViewTyped'
  BY <1>1 DEF KeptInv, ViewTyped, webVars, commandVars, restVars
<1> QED
  BY <1>1, <1>2, WebStep DEF KeptInv, MailTyped

LEMMA NextKeeps == ASSUME KeptInv, Next PROVE KeptInv'
BY ReceiveViewKeeps, ReceiveHostKeeps, SendSnapshotKeeps, PostKeeps, RunCommandKeeps,
   RunSnapshotKeeps, PrepareSnapshotKeeps, ApplyKeeps, ResumeCommandKeeps, ResumeSnapshotKeeps,
   ApplyRollbackKeeps, ResumeCommandRollbackKeeps, ResumeSnapshotRollbackKeeps, SaveDrainedKeeps,
   StoreDocumentKeeps, DidSaveKeeps, LeaseTimesOutKeeps, CommandTimesOutKeeps, BarrierTimesOutKeeps,
   FinalSnapshotTimesOutKeeps, ReloadTimesOutKeeps, DispatchCommandKeeps, EditRestKeeps,
   WillSaveKeeps, ExternalEditKeeps
   DEF Next, Work, Timers

(* A command the webview saw accepted stays in the document until an edit  *)
(* made elsewhere removes it: no snapshot, rollback or save of the panel   *)
(* takes it out, however many commands, edits, saves and faults there are. *)
THEOREM AcceptedStays == Spec => []AcknowledgedIsKept
<1>1. Init => KeptInv
  BY InitKept
<1>2. KeptInv /\ [Next]_vars => KeptInv'
  BY NextKeeps, StutterKeeps
<1>3. KeptInv => AcknowledgedIsKept
  BY DEF KeptInv, Holds, Live, AcknowledgedIsKept
<1> QED
  BY <1>1, <1>2, <1>3, PTL DEF Spec

-----------------------------------------------------------------------------
(* What another editor wrote is shown before it is replaced.  The           *)
(* invariant is stated of a host h, a document d and the marks O that are   *)
(* owed; S is any set of commands, as what the host's functions keep of     *)
(* those is known.                                                          *)

(* The webview has applied this projection, as the host is to hear. *)
Answered(p) ==
    \/ view.gen = p.gen
    \/ \E m \in Elements(toHost) : m.type = "reload" /\ m.applied /\ m.gen = p.gen

(* What has been applied against the current authority shows all of it. *)
PostOwes(h, p, O) ==
    /\ p.token \in Nat /\ p.token <= h.authority.token
    /\ Answered(p) => p.stage = "posted"
    /\ \A m \in Elements(toView) :
         m.type = "data" /\ m.gen = p.gen => p.stage = "posted" /\ Marks(m) = Marks(p.text)
    /\ p.token = h.authority.token /\ Answered(p) => O \cap Marks(p.text) = {}

(* No message is of a generation still to come. *)
MailBehind(n) ==
    /\ view.gen \in Nat /\ view.gen <= n
    /\ \A m \in Elements(toView) : m.type = "data" => m.gen \in Nat /\ m.gen <= n
    /\ \A m \in Elements(toHost) : m.type = "reload" => m.gen \in Nat /\ m.gen <= n

(* What the job under way may write over has been shown, or is written by  *)
(* it too.                                                                 *)
HeadOwes(j, d, O) ==
    /\ j.kind = "command" /\ j.stage # "queued" => Marks(j.want) = Marks(j.base)
    /\ j.kind = "command" /\ j.stage = "applying" /\ j.fresh => d = j.base
    /\ j.kind = "command" /\ j.stage = "restoring" /\ j.fresh => O \subseteq Marks(j.to)
    /\ j.kind = "snapshot" /\ j.stage = "applying" /\ j.fresh => O = {}
    /\ j.kind = "snapshot" /\ j.stage = "restoring" /\ j.fresh => d = j.want
    /\ j.kind = "snapshot" /\ j.stage \in {"restoring", "restored"} /\ d = j.want =>
          O \subseteq Marks(j.to)

(* A revoked snapshot goes back to a text that has it. *)
LossOwes(j, O) == j.kind = "snapshot" /\ j.lost # None => O \subseteq Marks(j.lost)

QueueOwes(h, d, O) ==
    /\ h.queue # <<>> => HeadOwes(h.queue[1], d, O)
    /\ \A i \in DOMAIN h.queue : LossOwes(h.queue[i], O)

(* A save makes its edit only while all has been shown. *)
SaveOwes(s, O) ==
    s.edit => s.stage \in {"committing", "stored"} /\ (s.fresh => O = {})

(* The authority has what is owed, and is not the active projection. *)
AuthorityOwes(h, O) ==
    /\ O \subseteq Marks(h.authority.text)
    /\ h.authority.token = h.activeToken => O = {}

OwedBy(h, d, O) ==
    /\ O \subseteq Marks(d) /\ AuthorityOwes(h, O)
    /\ \A p \in h.posts : PostOwes(h, p, O)
    /\ MailBehind(h.postGen)
    /\ QueueOwes(h, d, O) /\ SaveOwes(h.save, O)

OwedInv == OwedBy(host, doc, owed)

-----------------------------------------------------------------------------
(* What the host's functions keep of it. *)

(* What the invariant looks at. *)
SameOwing(h, g) ==
    /\ g.authority = h.authority /\ g.activeToken = h.activeToken /\ g.postGen = h.postGen
    /\ g.posts = h.posts /\ g.queue = h.queue /\ g.save = h.save

LEMMA SameOwes ==
    ASSUME NEW h, NEW g, NEW d, NEW O, OwedBy(h, d, O), SameOwing(h, g)
    PROVE  OwedBy(g, d, O)
BY DEF OwedBy, SameOwing, AuthorityOwes, PostOwes, QueueOwes

LEMMA UnseenOwes ==
    ASSUME NEW h, NEW S, HostHolds(h, S), NEW d, NEW O, OwedBy(h, d, O), NEW x
    PROVE  /\ OwedBy([h EXCEPT !.recovery = x], d, O)
           /\ OwedBy([h EXCEPT !.recovery.restart = x], d, O)
           /\ OwedBy([h EXCEPT !.recovery.attempt = @ + 1], d, O)
           /\ OwedBy([h EXCEPT !.initialized = TRUE, !.recovery = None], d, O)
           /\ OwedBy([h EXCEPT !.initialized = x], d, O)
           /\ OwedBy([h EXCEPT !.expected = x], d, O)
           /\ OwedBy([h EXCEPT !.unrestored = x], d, O)
           /\ OwedBy([h EXCEPT !.entry = x], d, O)
           /\ OwedBy([h EXCEPT !.entry.text = x], d, O)
<1>0. Fields \subseteq DOMAIN h
  BY DEF HostHolds, Sound, HostTyped
<1>1. SameOwing(h, [h EXCEPT !.recovery = x])
  BY <1>0 DEF SameOwing, Fields
<1>2. SameOwing(h, [h EXCEPT !.recovery.restart = x])
  BY <1>0 DEF SameOwing, Fields
<1>3. SameOwing(h, [h EXCEPT !.recovery.attempt = @ + 1])
  BY <1>0 DEF SameOwing, Fields
<1>4. SameOwing(h, [h EXCEPT !.initialized = TRUE, !.recovery = None])
  BY <1>0 DEF SameOwing, Fields
<1>5. SameOwing(h, [h EXCEPT !.initialized = x])
  BY <1>0 DEF SameOwing, Fields
<1>6. SameOwing(h, [h EXCEPT !.expected = x])
  BY <1>0 DEF SameOwing, Fields
<1>7. SameOwing(h, [h EXCEPT !.unrestored = x])
  BY <1>0 DEF SameOwing, Fields
<1>8. SameOwing(h, [h EXCEPT !.entry = x])
  BY <1>0 DEF SameOwing, Fields
<1>9. SameOwing(h, [h EXCEPT !.entry.text = x])
  BY <1>0 DEF SameOwing, Fields
<1> QED
  BY <1>1, <1>2, <1>3, <1>4, <1>5, <1>6, <1>7, <1>8, <1>9, SameOwes

LEMMA RevokedOwes ==
    ASSUME NEW j, JobTyped(j), NEW text, NEW d, NEW O, O \subseteq Marks(text)
    PROVE  LET r == RevokedJob(j, text) IN
           /\ LossOwes(j, O) => LossOwes(r, O)
           /\ j.kind = "snapshot" => LossOwes(r, O)
           /\ HeadOwes(j, d, O) => HeadOwes(r, d, O)
BY DEF RevokedJob, JobTyped, JobFields, LossOwes, HeadOwes

(* Everything in the queue is revoked: it goes back to the authority. *)
LEMMA RetireOwes ==
    ASSUME NEW h, HostTyped(h), NEW d, NEW O, O \subseteq Marks(h.authority.text),
           h.queue # <<>> => HeadOwes(h.queue[1], d, O), SaveOwes(h.save, O)
    PROVE  LET g == Retire(h) IN
           /\ QueueOwes(g, d, O) /\ SaveOwes(g.save, O)
           /\ g.authority = h.authority /\ g.activeToken = h.activeToken
           /\ g.postGen = h.postGen /\ g.posts = h.posts
<1> DEFINE g == Retire(h)
           text == h.authority.text
<1>1. /\ g.authority = h.authority /\ g.activeToken = h.activeToken
      /\ g.postGen = h.postGen /\ g.posts = h.posts
      /\ g.save = h.save \/ g.save = NoSave
      /\ g.queue = [i \in DOMAIN h.queue |-> RevokedJob(h.queue[i], text)]
  BY DEF Retire, HostTyped, Fields, RevokedJob
<1> HIDE DEF g
<1>2. SaveOwes(g.save, O)
  BY <1>1 DEF SaveOwes, NoSave
<1>3. \A i \in DOMAIN g.queue : LossOwes(g.queue[i], O)
  <2> SUFFICES ASSUME NEW i \in DOMAIN h.queue PROVE LossOwes(RevokedJob(h.queue[i], text), O)
    BY <1>1
  <2>1. JobTyped(h.queue[i])
    BY DEF HostTyped
  <2>2. h.queue[i].kind = "snapshot" => LossOwes(RevokedJob(h.queue[i], text), O)
    BY <2>1, RevokedOwes
  <2>3. h.queue[i].kind # "snapshot" => LossOwes(RevokedJob(h.queue[i], text), O)
    BY DEF LossOwes, RevokedJob
  <2> QED
    BY <2>2, <2>3
<1>4. g.queue # <<>> => HeadOwes(g.queue[1], d, O)
  <2> SUFFICES ASSUME g.queue # <<>> PROVE HeadOwes(g.queue[1], d, O)
    OBVIOUS
  <2>1. h.queue # <<>>
    BY <1>1
  <2>2. 1 \in DOMAIN h.queue
    BY <2>1, SeqFacts DEF HostTyped
  <2>3. JobTyped(h.queue[1]) /\ g.queue[1] = RevokedJob(h.queue[1], text)
    BY <1>1, <2>2 DEF HostTyped
  <2> QED
    BY <2>1, <2>3, RevokedOwes
<1> QED
  BY <1>1, <1>2, <1>3, <1>4 DEF QueueOwes, g

(* What the host knows before it looks at a new text. *)
Unfenced(h, d, O) ==
    /\ O \subseteq Marks(d)
    /\ \A p \in h.posts :
         /\ p.token \in Nat /\ p.token <= h.authority.token
         /\ Answered(p) => p.stage = "posted"
         /\ \A m \in Elements(toView) :
              m.type = "data" /\ m.gen = p.gen => p.stage = "posted" /\ Marks(m) = Marks(p.text)
    /\ MailBehind(h.postGen)
    /\ h.queue # <<>> => HeadOwes(h.queue[1], d, O)
    /\ SaveOwes(h.save, O)

LEMMA OwedUnfenced ==
    ASSUME NEW h, NEW d, NEW O, OwedBy(h, d, O)
    PROVE  Unfenced(h, d, O)
BY DEF OwedBy, Unfenced, PostOwes, QueueOwes

(* Another text becomes the authority: whatever is owed, nothing that is    *)
(* under way knows of it.                                                   *)
LEMMA NewAuthorityOwes ==
    ASSUME NEW h, NEW S, HostHolds(h, S), NEW d \in Texts, NEW O, Unfenced(h, d, O),
           h.authority.text # d
    PROVE  OwedBy(Fence(h, d), d, O)
<1>0. HostTyped(h) /\ Generations(h)
  BY DEF HostHolds, Sound
<1>1. PICK f : f = [h EXCEPT !.authority = [token |-> @.token + 1, text |-> d]]
  OBVIOUS
<1>2. /\ Fields \subseteq DOMAIN f
      /\ f.authority = [token |-> h.authority.token + 1, text |-> d]
      /\ f.postGen = h.postGen /\ f.activeGen = h.activeGen
      /\ f.activeToken = h.activeToken /\ f.entry = h.entry /\ f.posts = h.posts
      /\ f.queue = h.queue /\ f.save = h.save
  BY <1>0, <1>1 DEF HostTyped, Fields
<1>3. HostTyped(f)
  BY <1>0, <1>2 DEF HostTyped
<1>4. f.authority.token # f.activeToken
  BY <1>0, <1>2 DEF Generations, HostTyped
<1>5. PICK g : g = Retire(f)
  OBVIOUS
<1>6. Fence(h, d) = g
  BY <1>1, <1>4, <1>5 DEF Fence
<1>7. /\ QueueOwes(g, d, O) /\ SaveOwes(g.save, O)
      /\ g.authority = f.authority /\ g.activeToken = f.activeToken
      /\ g.postGen = f.postGen /\ g.posts = f.posts
  <2>1. f.authority.text = d
    BY <1>2
  <2>2. O \subseteq Marks(f.authority.text)
    BY <2>1 DEF Unfenced
  <2>3. (f.queue # <<>> => HeadOwes(f.queue[1], d, O)) /\ SaveOwes(f.save, O)
    BY <1>2 DEF Unfenced
  <2> QED
    BY <1>3, <1>5, <2>2, <2>3, RetireOwes
<1>8. AuthorityOwes(g, O)
  BY <1>2, <1>4, <1>7 DEF AuthorityOwes, Unfenced
<1>9. \A p \in g.posts : PostOwes(g, p, O)
  BY <1>0, <1>2, <1>7 DEF Unfenced, PostOwes, HostTyped
<1>10. O \subseteq Marks(d) /\ MailBehind(g.postGen)
  BY <1>2, <1>7 DEF Unfenced
<1> QED
  BY <1>6, <1>7, <1>8, <1>9, <1>10 DEF OwedBy

LEMMA FenceOwes ==
    ASSUME NEW h, NEW S, HostHolds(h, S), NEW d \in Texts, NEW O, OwedBy(h, d, O)
    PROVE  OwedBy(Fence(h, d), d, O)
<1>1. CASE h.authority.text # d
  BY <1>1, OwedUnfenced, NewAuthorityOwes
<1>2. CASE h.authority.text = d
  <2>1. HostTyped(h)
    BY DEF HostHolds, Sound
  <2>2. PICK g : g = Retire(h)
    OBVIOUS
  <2>3. /\ QueueOwes(g, d, O) /\ SaveOwes(g.save, O)
        /\ g.authority = h.authority /\ g.activeToken = h.activeToken
        /\ g.postGen = h.postGen /\ g.posts = h.posts
    BY <2>1, <2>2, RetireOwes DEF OwedBy, AuthorityOwes, QueueOwes
  <2>4. OwedBy(g, d, O)
    BY <2>3 DEF OwedBy, AuthorityOwes, PostOwes
  <2> QED
    BY <1>2, <2>2, <2>4 DEF Fence
<1> QED
  BY <1>1, <1>2

(* A projection under way that the webview has not heard of. *)
LEMMA PostsOwe ==
    ASSUME NEW h, NEW S, HostHolds(h, S), NEW d, NEW O, OwedBy(h, d, O),
           NEW p, PostTyped(p), p.gen = h.postGen + 1, p.token = h.authority.token
    PROVE  OwedBy([h EXCEPT !.postGen = @ + 1, !.posts = @ \cup {p}], d, O)
<1>0. HostTyped(h)
  BY DEF HostHolds, Sound
<1>1. PICK g : g = [h EXCEPT !.postGen = @ + 1, !.posts = @ \cup {p}]
  OBVIOUS
<1>2. /\ g.postGen = h.postGen + 1 /\ g.posts = h.posts \cup {p}
      /\ g.authority = h.authority /\ g.activeToken = h.activeToken
      /\ g.queue = h.queue /\ g.save = h.save
  BY <1>0, <1>1 DEF HostTyped, Fields
<1>3. h.postGen \in Nat /\ h.authority.token \in Nat
  BY <1>0 DEF HostTyped
<1>4. MailBehind(g.postGen)
  BY <1>2, <1>3 DEF OwedBy, MailBehind
<1>5. ~Answered(p) /\ \A m \in Elements(toView) : ~(m.type = "data" /\ m.gen = p.gen)
  BY <1>3 DEF OwedBy, MailBehind, Answered
<1>6. PostOwes(g, p, O)
  BY <1>2, <1>3, <1>5 DEF PostOwes
<1>7. \A q \in g.posts : PostOwes(g, q, O)
  BY <1>2, <1>6 DEF OwedBy, PostOwes
<1> QED
  BY <1>1, <1>2, <1>4, <1>7 DEF OwedBy, AuthorityOwes, QueueOwes

LEMMA StartPostOwes ==
    ASSUME NEW h, NEW S, HostHolds(h, S), NEW d \in Texts, Holds(d, S), NEW O, OwedBy(Fence(h, d), d, O),
           NEW force, NEW origin \in {"change", "request", "initial"}, NEW retry
    PROVE  OwedBy(StartPost(h, d, force, origin, retry), d, O)
<1>1. PICK f : f = Fence(h, d)
  OBVIOUS
<1>2. HostHolds(f, S) /\ OwedBy(f, d, O)
  BY <1>1, FenceHolds DEF Moves
<1>3. PICK p : p = [gen |-> f.postGen + 1, stage |-> "preparing", text |-> d,
                    token |-> f.authority.token, epoch |-> f.observed, force |-> force,
                    origin |-> origin, retry |-> retry, made |-> None]
  OBVIOUS
<1>4. PostTyped(p) /\ p.gen = f.postGen + 1 /\ p.token = f.authority.token
  <2>1. f.postGen \in Nat
    BY <1>2 DEF HostHolds, Sound, HostTyped
  <2> QED
    BY <1>3, <2>1 DEF PostTyped, PostFields
<1>5. StartPost(h, d, force, origin, retry) = [f EXCEPT !.postGen = @ + 1, !.posts = @ \cup {p}]
  BY <1>1, <1>3 DEF StartPost
<1>6. OwedBy([f EXCEPT !.postGen = @ + 1, !.posts = @ \cup {p}], d, O)
  BY <1>2, <1>4, PostsOwe
<1> QED
  BY <1>5, <1>6

LEMMA PostingOwes ==
    ASSUME NEW h, NEW S, HostHolds(h, S), NEW d \in Texts, Holds(d, S), NEW O, OwedBy(h, d, O),
           NEW force, NEW origin \in {"change", "request", "initial"}, NEW retry
    PROVE  OwedBy(StartPost(h, d, force, origin, retry), d, O)
BY FenceOwes, StartPostOwes

LEMMA StartRecoveryOwes ==
    ASSUME NEW h, NEW S, HostHolds(h, S), NEW d \in Texts, Holds(d, S), NEW O, OwedBy(h, d, O),
           NEW followUp
    PROVE  OwedBy(StartRecovery(h, d, followUp), d, O)
<1>1. PICK r : r = [attempt |-> 1, restart |-> FALSE, followUp |-> followUp]
  OBVIOUS
<1>2. PICK g : g = [h EXCEPT !.recovery = r]
  OBVIOUS
<1>3. HostHolds(g, S) /\ OwedBy(g, d, O)
  BY <1>2, Unseen, UnseenOwes DEF Moves
<1>4. StartRecovery(h, d, followUp) = StartPost(g, d, FALSE, "initial", FALSE)
  BY <1>1, <1>2 DEF StartRecovery
<1> QED
  BY <1>3, <1>4, PostingOwes

LEMMA EnsureInitialOwes ==
    ASSUME NEW h, NEW S, HostHolds(h, S), NEW d \in Texts, Holds(d, S), NEW O, OwedBy(h, d, O)
    PROVE  OwedBy(EnsureInitial(h, d), d, O)
BY UnseenOwes, StartRecoveryOwes DEF EnsureInitial

LEMMA EndAttemptOwes ==
    ASSUME NEW h, NEW S, HostHolds(h, S), doc \in Texts, Holds(doc, S), NEW O, OwedBy(h, doc, O),
           NEW delivered
    PROVE  OwedBy(EndAttempt(h, delivered), doc, O)
<1>1. CASE delivered
  BY <1>1, UnseenOwes DEF EndAttempt
<1>2. CASE ~delivered /\ h.recovery.attempt < InitialAttempts
  <2>1. PICK g : g = [h EXCEPT !.recovery.attempt = @ + 1]
    OBVIOUS
  <2>2. HostHolds(g, S) /\ OwedBy(g, doc, O)
    BY <2>1, Unseen, UnseenOwes DEF Moves
  <2>3. EndAttempt(h, delivered) = StartPost(g, doc, TRUE, "initial", FALSE)
    BY <1>2, <2>1 DEF EndAttempt
  <2> QED
    BY <2>2, <2>3, PostingOwes
<1>3. CASE ~delivered /\ ~(h.recovery.attempt < InitialAttempts)
  BY <1>3, UnseenOwes, StartRecoveryOwes DEF EndAttempt
<1> QED
  BY <1>1, <1>2, <1>3

LEMMA WithoutPostOwes ==
    ASSUME NEW h, NEW S, HostHolds(h, S), NEW d, NEW O, OwedBy(h, d, O), NEW p
    PROVE  OwedBy([h EXCEPT !.posts = @ \ {p}], d, O)
<1>1. PICK g : g = [h EXCEPT !.posts = @ \ {p}]
  OBVIOUS
<1>2. /\ g.posts = h.posts \ {p} /\ g.authority = h.authority /\ g.activeToken = h.activeToken
      /\ g.postGen = h.postGen /\ g.queue = h.queue /\ g.save = h.save
  BY <1>1 DEF HostHolds, Sound, HostTyped, Fields
<1> QED
  BY <1>1, <1>2 DEF OwedBy, AuthorityOwes, PostOwes, QueueOwes

LEMMA SettledOwes ==
    ASSUME NEW h, NEW S, HostHolds(h, S), doc \in Texts, Holds(doc, S), NEW O, OwedBy(h, doc, O),
           NEW p, PostTyped(p), NEW delivered
    PROVE  OwedBy(Settled(h, p, delivered), doc, O)
BY UnseenOwes, EndAttemptOwes DEF Settled, PostTyped

LEMMA ReturnOwes ==
    ASSUME NEW h, NEW S, HostHolds(h, S), doc \in Texts, Holds(doc, S), NEW O, OwedBy(h, doc, O),
           NEW p, PostTyped(p), NEW delivered
    PROVE  OwedBy(Return(h, p, delivered), doc, O)
<1>1. PICK g : g = [h EXCEPT !.posts = @ \ {p}]
  OBVIOUS
<1>2. HostHolds(g, S) /\ OwedBy(g, doc, O)
  BY <1>1, WithoutPost, WithoutPostOwes DEF Moves
<1>3. Return(h, p, delivered) = Settled(g, p, delivered)
  BY <1>1 DEF Return, Settled
<1> QED
  BY <1>2, <1>3, SettledOwes

LEMMA EndReloadOwes ==
    ASSUME NEW h, NEW S, HostHolds(h, S), doc \in Texts, Holds(doc, S), NEW O, OwedBy(h, doc, O),
           NEW p, PostTyped(p)
    PROVE  OwedBy(EndReload(h, p, FALSE), doc, O)
<1>1. CASE EndReload(h, p, FALSE) = Return(h, p, FALSE)
  BY <1>1, ReturnOwes
<1>2. CASE EndReload(h, p, FALSE) = StartPost([h EXCEPT !.posts = @ \ {p}], doc, TRUE, p.origin, TRUE)
  <2>1. PICK g : g = [h EXCEPT !.posts = @ \ {p}]
    OBVIOUS
  <2>2. HostHolds(g, S) /\ OwedBy(g, doc, O)
    BY <2>1, WithoutPost, WithoutPostOwes DEF Moves
  <2>3. OwedBy(StartPost(g, doc, TRUE, p.origin, TRUE), doc, O)
    BY <2>2, PostingOwes DEF PostTyped
  <2> QED
    BY <1>2, <2>1, <2>3
<1> QED
  BY <1>1, <1>2 DEF EndReload

(* The document has changed: the edits under way are not made in it. *)
LEMMA StaleOwes ==
    ASSUME NEW j, JobTyped(j), NEW r, r = [j EXCEPT !.fresh = FALSE], NEW d, NEW O, HeadOwes(j, d, O),
           NEW e, NEW P,
           j.kind = "snapshot" /\ j.stage \in {"restoring", "restored"} /\ e = j.want =>
               P \subseteq Marks(j.to)
    PROVE  HeadOwes(r, e, P)
<1>1. ~r.fresh
  BY DEF JobTyped, JobFields
<1>2. r.kind = j.kind /\ r.stage = j.stage /\ r.want = j.want /\ r.base = j.base /\ r.to = j.to
  BY StaleJob
<1> QED
  BY <1>1, <1>2 DEF HeadOwes

LEMMA OutdateOwes ==
    ASSUME NEW h, NEW S, HostHolds(h, S), NEW d, NEW O, OwedBy(h, d, O),
           NEW e, NEW P, P \subseteq Marks(e),
           h.queue # <<>> /\ h.queue[1].kind = "snapshot"
               /\ h.queue[1].stage \in {"restoring", "restored"} /\ e = h.queue[1].want =>
               P \subseteq Marks(h.queue[1].to)
    PROVE  LET g == Outdate(h) IN
           /\ Unfenced(g, e, P) /\ g.authority = h.authority /\ g.expected = h.expected
           /\ g.initialized = h.initialized
           /\ P \subseteq O => OwedBy(g, e, P)
<1>0. HostTyped(h)
  BY DEF HostHolds, Sound
<1>1. PICK g : g = Outdate(h)
  OBVIOUS
<1>2. /\ g.authority = h.authority /\ g.activeToken = h.activeToken /\ g.postGen = h.postGen
      /\ g.posts = h.posts /\ g.expected = h.expected /\ g.initialized = h.initialized
      /\ g.queue = [i \in DOMAIN h.queue |-> [h.queue[i] EXCEPT !.fresh = FALSE]]
      /\ g.save = [h.save EXCEPT !.fresh = FALSE]
  BY <1>0, <1>1 DEF HostTyped, Fields, Outdate
<1>3. SaveOwes(g.save, P)
  BY <1>0, <1>2 DEF HostTyped, SaveTyped, SaveFields, SaveOwes, OwedBy
<1>4. g.queue # <<>> => HeadOwes(g.queue[1], e, P)
  <2> SUFFICES ASSUME g.queue # <<>> PROVE HeadOwes(g.queue[1], e, P)
    OBVIOUS
  <2>1. h.queue # <<>>
    BY <1>2
  <2>2. 1 \in DOMAIN h.queue
    BY <1>0, <2>1, SeqFacts DEF HostTyped
  <2>3. /\ JobTyped(h.queue[1]) /\ g.queue[1] = [h.queue[1] EXCEPT !.fresh = FALSE]
        /\ HeadOwes(h.queue[1], d, O)
    BY <1>0, <1>2, <2>1, <2>2 DEF HostTyped, OwedBy, QueueOwes
  <2> QED
    BY <2>1, <2>3, StaleOwes
<1>5. Unfenced(g, e, P)
  BY <1>2, <1>3, <1>4 DEF OwedBy, Unfenced, PostOwes
<1>6. ASSUME P \subseteq O PROVE OwedBy(g, e, P)
  <2>1. \A i \in DOMAIN g.queue : LossOwes(g.queue[i], P)
    <3> SUFFICES ASSUME NEW i \in DOMAIN h.queue
                 PROVE  LossOwes([h.queue[i] EXCEPT !.fresh = FALSE], P)
      BY <1>2
    <3>1. JobTyped(h.queue[i]) /\ LossOwes(h.queue[i], O)
      BY <1>0 DEF HostTyped, OwedBy, QueueOwes
    <3> QED
      BY <1>6, <3>1, StaleJob DEF LossOwes
  <2>2. AuthorityOwes(g, P)
    BY <1>2, <1>6 DEF OwedBy, AuthorityOwes
  <2>3. \A p \in g.posts : PostOwes(g, p, P)
    BY <1>2, <1>6 DEF OwedBy, PostOwes
  <2> QED
    BY <1>3, <1>4, <1>5, <2>1, <2>2, <2>3 DEF OwedBy, QueueOwes, Unfenced
<1> QED
  BY <1>1, <1>2, <1>5, <1>6

LEMMA ChangedOwes ==
    ASSUME NEW h, NEW S, HostHolds(h, S), NEW d \in Texts, Holds(d, S), NEW O, OwedBy(h, d, O)
    PROVE  OwedBy(Changed(h, d), d, O)
<1>1. PICK x : x = h.expected (-) SetToBag({d})
  OBVIOUS
<1>2. PICK g : g = IF BagIn(d, h.expected) THEN [h EXCEPT !.expected = x] ELSE h
  OBVIOUS
<1>3. HostHolds(g, S) /\ OwedBy(g, d, O)
  BY <1>2, Unseen, UnseenOwes DEF Moves
<1>4. \/ Changed(h, d) = EnsureInitial(g, d)
      \/ Changed(h, d) = g
      \/ Changed(h, d) = Reload(g, d)
  BY <1>1, <1>2 DEF Changed
<1>5. OwedBy(EnsureInitial(g, d), d, O)
  BY <1>3, EnsureInitialOwes
<1>6. OwedBy(Reload(g, d), d, O)
  BY <1>3, PostingOwes DEF Reload
<1> QED
  BY <1>3, <1>4, <1>5, <1>6

(* The panel's own change of the document, to a text that has what is owed. *)
LEMMA ChangeOwes ==
    ASSUME NEW h, NEW S, HostHolds(h, S), NEW d, NEW O, OwedBy(h, d, O),
           NEW e \in Texts, Holds(e, S), O \subseteq Marks(e),
           h.queue # <<>> /\ h.queue[1].kind = "snapshot"
               /\ h.queue[1].stage \in {"restoring", "restored"} /\ e = h.queue[1].want =>
               O \subseteq Marks(h.queue[1].to)
    PROVE  OwedBy(Changed(Outdate(h), e), e, O)
<1>1. PICK f : f = Outdate(h)
  OBVIOUS
<1>2. HostHolds(f, S) /\ OwedBy(f, e, O)
  BY <1>1, OutdateHolds, OutdateOwes
<1> QED
  BY <1>1, <1>2, ChangedOwes

(* The reload has been applied: nothing is owed any more. *)
LEMMA ActivateOwes ==
    ASSUME NEW S, HostHolds(host, S), NEW O, OwedBy(host, doc, O), NEW p \in host.posts,
           host.authority.token = p.token, Answered(p), doc = p.text
    PROVE  OwedBy([Activate(p) EXCEPT !.posts = @ \ {p}], doc, O)
<1>0. HostTyped(host) /\ Sound(host, S)
  BY DEF HostHolds, Sound
<1>1. O = {}
  <2>1. O \cap Marks(p.text) = {} /\ O \subseteq Marks(doc)
    BY DEF OwedBy, PostOwes
  <2>2. O \subseteq Marks(p.text)
    BY <2>1
  <2> QED
    BY <2>1, <2>2
<1>2. PICK f : f = Retire(host)
  OBVIOUS
<1>3. /\ QueueOwes(f, doc, O) /\ SaveOwes(f.save, O)
      /\ f.authority = host.authority /\ f.postGen = host.postGen /\ f.posts = host.posts
      /\ Fields \subseteq DOMAIN f
  <2>1. HostTyped(f)
    BY <1>0, <1>2, RetireHolds DEF Moves, HostHolds, Sound
  <2> QED
    BY <1>0, <1>2, <2>1, RetireOwes DEF OwedBy, AuthorityOwes, QueueOwes, HostTyped
<1>4. PICK g : g = [Activate(p) EXCEPT !.posts = @ \ {p}]
  OBVIOUS
<1>5. /\ g.authority = host.authority /\ g.postGen = host.postGen /\ g.posts = host.posts \ {p}
      /\ g.queue = f.queue /\ g.save = f.save
  BY <1>2, <1>3, <1>4 DEF Activate, Fields
<1>6. AuthorityOwes(g, O)
  BY <1>1 DEF AuthorityOwes
<1>7. \A q \in g.posts : PostOwes(g, q, O)
  BY <1>5 DEF OwedBy, PostOwes
<1>8. QueueOwes(g, doc, O) /\ SaveOwes(g.save, O)
  BY <1>3, <1>5 DEF QueueOwes
<1> QED
  BY <1>4, <1>5, <1>6, <1>7, <1>8 DEF OwedBy

LEMMA ReloadResultOwes ==
    ASSUME NEW S, HostHolds(host, S), doc \in Texts, Holds(doc, S), NEW O, OwedBy(host, doc, O),
           NEW m \in Elements(toHost), m.type = "reload"
    PROVE  OwedBy(ReloadResult(m), doc, O)
<1>0. \A p \in host.posts : PostTyped(p)
  BY DEF HostHolds, Sound, HostTyped
<1>1. PICK found : found = {p \in host.posts : p.stage = "posted" /\ p.gen = m.gen}
  OBVIOUS
<1>2. CASE found = {}
  BY <1>1, <1>2 DEF ReloadResult
<1>3. CASE found # {}
  <2>1. PICK p : p = CHOOSE q \in found : TRUE
    OBVIOUS
  <2>2. p \in host.posts /\ p.stage = "posted" /\ PostTyped(p) /\ p.gen = m.gen
    BY <1>0, <1>1, <1>3, <2>1
  <2>3. \/ /\ p.gen = host.postGen /\ host.authority.token = p.token /\ m.applied /\ doc = p.text
           /\ ReloadResult(m) = EndReload(Activate(p), p, TRUE)
        \/ ReloadResult(m) = EndReload(Reload(host, doc), p, FALSE)
        \/ ReloadResult(m) = EndReload(host, p, FALSE)
    BY <1>1, <1>3, <2>1 DEF ReloadResult, SourceCurrent
  <2>4. CASE /\ p.gen = host.postGen /\ host.authority.token = p.token /\ m.applied /\ doc = p.text
             /\ ReloadResult(m) = EndReload(Activate(p), p, TRUE)
    <3>1. PICK g : g = [Activate(p) EXCEPT !.posts = @ \ {p}]
      OBVIOUS
    <3>2. Answered(p)
      BY <2>2, <2>4 DEF Answered
    <3>3. HostHolds(g, S) /\ OwedBy(g, doc, O)
      BY <2>2, <2>4, <3>1, <3>2, ActivateHolds, ActivateOwes DEF Moves
    <3>4. ReloadResult(m) = Settled(g, p, TRUE)
      BY <2>4, <3>1 DEF EndReload, Return, Settled
    <3> QED
      BY <2>2, <3>3, <3>4, SettledOwes
  <2>5. CASE ReloadResult(m) = EndReload(Reload(host, doc), p, FALSE)
    <3>1. PICK g : g = Reload(host, doc)
      OBVIOUS
    <3>2. HostHolds(g, S) /\ OwedBy(g, doc, O)
      BY <3>1, StartPostHolds, PostingOwes DEF Reload, Moves
    <3> QED
      BY <2>2, <2>5, <3>1, <3>2, EndReloadOwes
  <2>6. CASE ReloadResult(m) = EndReload(host, p, FALSE)
    BY <2>2, <2>6, EndReloadOwes
  <2> QED
    BY <2>3, <2>4, <2>5, <2>6
<1> QED
  BY <1>2, <1>3

-----------------------------------------------------------------------------
(* What the steps of a job and of a save do to it. *)

LEMMA LessOwes ==
    ASSUME NEW h, NEW d, NEW O, OwedBy(h, d, O), NEW P, P \subseteq O
    PROVE  OwedBy(h, d, P)
<1>1. P \subseteq Marks(d) /\ AuthorityOwes(h, P)
  BY DEF OwedBy, AuthorityOwes
<1>2. \A p \in h.posts : PostOwes(h, p, P)
  BY DEF OwedBy, PostOwes
<1>3. QueueOwes(h, d, P)
  BY DEF OwedBy, QueueOwes, HeadOwes, LossOwes
<1>4. SaveOwes(h.save, P) /\ MailBehind(h.postGen)
  BY DEF OwedBy, SaveOwes
<1> QED
  BY <1>1, <1>2, <1>3, <1>4 DEF OwedBy

LEMMA WaitsOwes ==
    ASSUME NEW j, Waits(j), NEW d, NEW O
    PROVE  HeadOwes(j, d, O)
BY DEF Waits, HeadOwes

(* Another queue: the jobs in it are as the invariant has them. *)
LEMMA QueuedOwes ==
    ASSUME NEW h, HostTyped(h), NEW d, NEW O, OwedBy(h, d, O), NEW q,
           q # <<>> => HeadOwes(q[1], d, O), \A i \in DOMAIN q : LossOwes(q[i], O)
    PROVE  OwedBy([h EXCEPT !.queue = q], d, O)
<1>1. PICK g : g = [h EXCEPT !.queue = q]
  OBVIOUS
<1>2. /\ g.authority = h.authority /\ g.activeToken = h.activeToken /\ g.postGen = h.postGen
      /\ g.posts = h.posts /\ g.save = h.save /\ g.queue = q
  BY <1>1 DEF HostTyped, Fields
<1>3. QueueOwes(g, d, O)
  BY <1>2 DEF QueueOwes
<1> QED
  BY <1>1, <1>2, <1>3 DEF OwedBy, AuthorityOwes, PostOwes

LEMMA DoneOwes ==
    ASSUME NEW h, NEW S, HostHolds(h, S), h.queue # <<>>, NEW d, NEW O, OwedBy(h, d, O)
    PROVE  OwedBy(Done(h), d, O)
<1>0. HostTyped(h)
  BY DEF HostHolds, Sound
<1>1. PICK q : q = Tail(h.queue)
  OBVIOUS
<1>2. /\ IsSeq(q)
      /\ \A i \in DOMAIN q : i + 1 \in DOMAIN h.queue /\ i + 1 # 1 /\ q[i] = h.queue[i + 1]
  BY <1>0, <1>1, TailFacts DEF HostTyped
<1>3. \A i \in DOMAIN q : Waits(q[i]) /\ LossOwes(q[i], O)
  BY <1>2 DEF HostHolds, Sound, QueueHolds, OwedBy, QueueOwes
<1>4. q # <<>> => HeadOwes(q[1], d, O)
  BY <1>2, <1>3, SeqFacts, WaitsOwes
<1>5. Done(h) = [h EXCEPT !.queue = q]
  BY <1>0, <1>1 DEF Done, HostTyped, Fields
<1> QED
  BY <1>0, <1>3, <1>4, <1>5, QueuedOwes

LEMMA NowOwes ==
    ASSUME NEW h, NEW S, HostHolds(h, S), h.queue # <<>>, NEW d, NEW O, OwedBy(h, d, O),
           NEW j, HeadOwes(j, d, O), LossOwes(j, O)
    PROVE  OwedBy(Now(h, j), d, O) /\ Fields \subseteq DOMAIN Now(h, j)
<1>0. HostTyped(h)
  BY DEF HostHolds, Sound
<1>1. PICK q : q = [h.queue EXCEPT ![1] = j]
  OBVIOUS
<1>2. 1 \in DOMAIN h.queue
  BY <1>0, SeqFacts DEF HostTyped
<1>3. /\ DOMAIN q = DOMAIN h.queue /\ q[1] = j
      /\ \A i \in DOMAIN h.queue : i # 1 => q[i] = h.queue[i]
  BY <1>1, <1>2
<1>4. \A i \in DOMAIN q : LossOwes(q[i], O)
  BY <1>3 DEF OwedBy, QueueOwes
<1>5. Now(h, j) = [h EXCEPT !.queue = q]
  BY <1>0, <1>1 DEF Now, HostTyped, Fields
<1>6. DOMAIN Now(h, j) = DOMAIN h
  BY DEF Now
<1> QED
  BY <1>0, <1>3, <1>4, <1>5, <1>6, QueuedOwes DEF HostTyped

LEMMA AdmitOwes ==
    ASSUME NEW h, NEW S, HostHolds(h, S), NEW d, NEW O, OwedBy(h, d, O),
           NEW j, Waits(j), LossOwes(j, O)
    PROVE  OwedBy([h EXCEPT !.queue = Append(@, j)], d, O)
<1>0. HostTyped(h)
  BY DEF HostHolds, Sound
<1>1. PICK q : q = Append(h.queue, j)
  OBVIOUS
<1>2. /\ DOMAIN q = DOMAIN h.queue \cup {Len(h.queue) + 1}
      /\ q[Len(h.queue) + 1] = j /\ \A i \in DOMAIN h.queue : q[i] = h.queue[i]
  BY <1>0, <1>1, AppendFacts DEF HostTyped
<1>3. \A i \in DOMAIN q : LossOwes(q[i], O)
  BY <1>2 DEF OwedBy, QueueOwes
<1>4. HeadOwes(q[1], d, O)
  <2>1. CASE h.queue # <<>>
    <3>1. 1 \in DOMAIN h.queue
      BY <1>0, <2>1, SeqFacts DEF HostTyped
    <3> QED
      BY <1>2, <2>1, <3>1 DEF OwedBy, QueueOwes
  <2>2. CASE h.queue = <<>>
    <3>1. q[1] = j
      BY <1>2, <2>2
    <3> QED
      BY <3>1, WaitsOwes
  <2> QED
    BY <2>1, <2>2
<1>5. OwedBy([h EXCEPT !.queue = q], d, O)
  BY <1>0, <1>3, <1>4, QueuedOwes
<1> QED
  BY <1>0, <1>1, <1>5 DEF HostTyped, Fields

LEMMA ExpectOwes ==
    ASSUME NEW h, Fields \subseteq DOMAIN h, NEW d, NEW O, OwedBy(h, d, O), NEW text
    PROVE  OwedBy(Expect(h, text), d, O) /\ OwedBy(Cancel(h, text), d, O)
<1>1. PICK x : x = h.expected (+) SetToBag({text})
  OBVIOUS
<1>2. PICK y : y = h.expected (-) SetToBag({text})
  OBVIOUS
<1>3. Expect(h, text) = [h EXCEPT !.expected = x] /\ Cancel(h, text) = [h EXCEPT !.expected = y]
  BY <1>1, <1>2 DEF Expect, Cancel
<1>4. SameOwing(h, [h EXCEPT !.expected = x]) /\ SameOwing(h, [h EXCEPT !.expected = y])
  BY DEF SameOwing, Fields
<1> QED
  BY <1>3, <1>4, SameOwes

(* The text in the document becomes the authority's. *)
LEMMA CommitOwes ==
    ASSUME NEW h, NEW S, HostHolds(h, S), NEW d, NEW O, OwedBy(h, d, O)
    PROVE  OwedBy(Commit(h, d), d, O)
<1>0. HostTyped(h)
  BY DEF HostHolds, Sound
<1>1. PICK g : g = Commit(h, d)
  OBVIOUS
<1>2. /\ g.queue = h.queue /\ g.authority = [h.authority EXCEPT !.text = d]
      /\ g.postGen = h.postGen /\ g.activeToken = h.activeToken /\ g.posts = h.posts
      /\ g.save = h.save
  BY <1>0, <1>1 DEF HostTyped, Fields, Commit
<1>3. g.authority.token = h.authority.token /\ g.authority.text = d
  BY <1>0, <1>2 DEF HostTyped
<1>4. AuthorityOwes(g, O)
  BY <1>2, <1>3 DEF OwedBy, AuthorityOwes
<1>5. \A p \in g.posts : PostOwes(g, p, O)
  BY <1>2, <1>3 DEF OwedBy, PostOwes
<1>6. QueueOwes(g, d, O)
  BY <1>2 DEF OwedBy, QueueOwes
<1> QED
  BY <1>1, <1>2, <1>4, <1>5, <1>6 DEF OwedBy

LEMMA SavingOwes ==
    ASSUME NEW h, NEW S, HostHolds(h, S), NEW d, NEW O, OwedBy(h, d, O), NEW s, SaveOwes(s, O)
    PROVE  OwedBy([h EXCEPT !.save = s], d, O)
<1>1. PICK g : g = [h EXCEPT !.save = s]
  OBVIOUS
<1>2. /\ g.authority = h.authority /\ g.activeToken = h.activeToken /\ g.postGen = h.postGen
      /\ g.posts = h.posts /\ g.queue = h.queue /\ g.save = s
  BY <1>1 DEF HostHolds, Sound, HostTyped, Fields
<1> QED
  BY <1>1, <1>2 DEF OwedBy, AuthorityOwes, PostOwes, QueueOwes

LEMMA RefusedOwes ==
    ASSUME NEW h, NEW S, HostHolds(h, S), NEW d, NEW O, OwedBy(h, d, O)
    PROVE  OwedBy(Refused(h), d, O)
<1>1. SaveOwes(NoSave, O)
  BY DEF SaveOwes, NoSave
<1> QED
  BY <1>1, SavingOwes DEF Refused

LEMMA WithoutLeaseOwes ==
    ASSUME NEW h, NEW S, HostHolds(h, S), NEW d, NEW O, OwedBy(h, d, O)
    PROVE  OwedBy(WithoutLease(h), d, O)
BY DoneOwes DEF WithoutLease, HasLease

(* No edit has been prepared for a save that has not come so far. *)
LEMMA FailClosedOwes ==
    ASSUME NEW h, NEW S, HostHolds(h, S), NEW d, NEW O, OwedBy(h, d, O),
           h.save.stage \notin {"committing", "stored"}
    PROVE  OwedBy(FailClosed(h), d, O)
<1>1. PICK s : s = [h.save EXCEPT !.stage = "committing", !.text = doc, !.fresh = TRUE]
  OBVIOUS
<1>2. ~h.save.edit
  BY DEF OwedBy, SaveOwes
<1>3. SaveTyped(h.save)
  BY SaveFacts
<1>4. SaveOwes(s, O)
  BY <1>1, <1>2, <1>3 DEF SaveOwes, SaveTyped, SaveFields
<1>5. FailClosed(h) = [h EXCEPT !.save = s]
  BY <1>1 DEF FailClosed
<1> QED
  BY <1>4, <1>5, SavingOwes

LEMMA StoredOwes ==
    ASSUME NEW h, NEW S, HostHolds(h, S), NEW d, NEW O, OwedBy(h, d, O)
    PROVE  OwedBy(Stored(h), d, O)
<1>1. PICK s : s = [h.save EXCEPT !.stage = "stored"]
  OBVIOUS
<1>2. SaveTyped(h.save)
  BY SaveFacts
<1>3. SaveOwes(s, O)
  BY <1>1, <1>2 DEF OwedBy, SaveOwes, SaveTyped, SaveFields
<1>4. Stored(h) = [h EXCEPT !.save = s]
  BY <1>1 DEF Stored
<1> QED
  BY <1>3, <1>4, SavingOwes

-----------------------------------------------------------------------------
(* What a step leaves owed. *)

(* A step that shows the webview nothing and answers no reload. *)
LEMMA MailOwes ==
    ASSUME OwedBy(host', doc', owed'), view'.gen = view.gen,
           \A m \in Elements(toHost') : m.type = "reload" => m \in Elements(toHost),
           \A m \in Elements(toView') : m.type = "data" => m \in Elements(toView)
    PROVE  OwedInv'
<1>1. \A p : Answered(p)' => Answered(p)
  BY DEF Answered
<1>2. \A p \in host'.posts : PostOwes(host, p, owed)'
  BY <1>1 DEF OwedBy, PostOwes
<1>3. MailBehind(host.postGen)'
  BY DEF OwedBy, MailBehind
<1> QED
  BY <1>2, <1>3 DEF OwedInv, OwedBy, AuthorityOwes, QueueOwes, HeadOwes, LossOwes, SaveOwes, Marks

-----------------------------------------------------------------------------
LEMMA HostOwes ==
    ASSUME KeptInv, UNCHANGED <<webVars, toHost>>,
           UNCHANGED toView \/ \E m : toView' = Append(toView, m) /\ m.type # "data",
           OwedBy(host', doc', owed')
    PROVE  OwedInv'
<1>1. view'.gen = view.gen
  BY DEF webVars, commandVars
<1>2. \A m \in Elements(toView') : m.type = "data" => m \in Elements(toView)
  <2>1. CASE UNCHANGED toView
    BY <2>1
  <2>2. CASE \E m : toView' = Append(toView, m) /\ m.type # "data"
    BY <2>2, AppendFacts DEF KeptInv, MailTyped
  <2> QED
    BY <2>1, <2>2
<1>3. toHost' = toHost
  OBVIOUS
<1> QED
  BY <1>1, <1>2, <1>3, MailOwes

LEMMA JobOwes ==
    ASSUME KeptInv, UNCHANGED <<JobSide, toView>>, OwedBy(host', doc', owed)
    PROVE  OwedInv'
<1>1. UNCHANGED <<webVars, toHost, owed>>
  BY DEF JobSide, historyVars
<1> QED
  BY <1>1, HostOwes

LEMMA AnsweredOwes ==
    ASSUME KeptInv, UNCHANGED <<JobSide, doc>>, NEW h, NEW S, HostHolds(h, S), h.queue # <<>>,
           OwedBy(h, doc, owed), host' = Done(h),
           \E m : toView' = Append(toView, m) /\ m.type # "data"
    PROVE  OwedInv'
<1>1. UNCHANGED <<webVars, toHost, owed>>
  BY DEF JobSide, historyVars
<1>2. OwedBy(host', doc', owed')
  BY <1>1, DoneOwes
<1> QED
  BY <1>1, <1>2, HostOwes

LEMMA FailOwes ==
    ASSUME KeptInv, UNCHANGED <<JobSide, doc>>, NEW h, NEW S, HostHolds(h, S), h.queue # <<>>,
           OwedBy(h, doc, owed), Fail(h)
    PROVE  OwedInv'
<1>1. PICK m : m = Result(Job.id, FALSE, h)
  OBVIOUS
<1>2. toView' = Append(toView, m) /\ m.type # "data" /\ host' = Done(h)
  BY <1>1 DEF Fail, Answer, Result
<1> QED
  BY <1>2, AnsweredOwes

LEMMA SaveSideOwes ==
    ASSUME KeptInv, UNCHANGED SaveSide,
           UNCHANGED toView \/ \E m : toView' = Append(toView, m) /\ m.type # "data",
           OwedBy(host', doc', owed)
    PROVE  OwedInv'
<1>1. UNCHANGED <<webVars, toHost, owed>>
  BY DEF SaveSide, historyVars
<1> QED
  BY <1>1, HostOwes

(* While the projection is current, nothing is owed. *)
LEMMA CurrentOwes ==
    ASSUME OwedInv, NEW j, IsCurrent(j)
    PROVE  owed = {}
BY DEF OwedInv, OwedBy, AuthorityOwes, IsCurrent

LEMMA OwedFacts ==
    ASSUME KeptInv, OwedInv
    PROVE  /\ OwedBy(host, doc, owed) /\ owed \subseteq Marks(doc)
           /\ owed \subseteq Marks(host.authority.text)
           /\ host.queue # <<>> => HeadOwes(Job, doc, owed) /\ LossOwes(Job, owed)
<1>1. OwedBy(host, doc, owed)
  BY DEF OwedInv
<1>2. ASSUME host.queue # <<>> PROVE HeadOwes(Job, doc, owed) /\ LossOwes(Job, owed)
  <2>1. 1 \in DOMAIN host.queue
    BY <1>2, HostFacts, SeqFacts
  <2> QED
    BY <1>1, <1>2, <2>1 DEF OwedBy, QueueOwes, Job
<1> QED
  BY <1>1, <1>2 DEF OwedBy, AuthorityOwes

-----------------------------------------------------------------------------
(* The jobs. *)

LEMMA CommandMarks ==
    ASSUME NEW d \in Texts, NEW id, NEW t, t = [d EXCEPT !.owned = WithCommand(@, id)]
    PROVE  Marks(t) = Marks(d)
<1>1. d.owned \in Owned
  BY DEF Texts
<1>2. t.owned = [d.owned EXCEPT !.cmds = Append(@, id)] /\ t.rest = d.rest
  BY DEF Texts, WithCommand
<1>3. t.owned.base = d.owned.base
  BY <1>1, <1>2 DEF Owned
<1> QED
  BY <1>2, <1>3 DEF Marks

LEMMA RunCommandOwes == ASSUME KeptInv, OwedInv, RunCommand PROVE OwedInv'
<1>0. /\ HostHolds(host, Live) /\ doc \in Texts /\ OwedBy(host, doc, owed)
      /\ host.queue # <<>> /\ Job.kind = "command" /\ JobTyped(Job)
      /\ UNCHANGED <<JobSide, doc>>
  BY HostFacts, JobFacts, OwedFacts DEF RunCommand
<1>1. PICK g : g = [host EXCEPT !.entry.text = doc]
  OBVIOUS
<1>2. HostHolds(g, Live) /\ g.queue = host.queue /\ OwedBy(g, doc, owed)
  BY <1>0, <1>1, RebaseHolds, UnseenOwes
<1>3. CASE Fail(host) \/ Fail(g)
  BY <1>0, <1>2, <1>3, FailOwes
<1>4. CASE host' = Begin([doc EXCEPT !.owned = WithCommand(@, Job.id)]) /\ UNCHANGED toView
  <2>1. PICK t : t = [doc EXCEPT !.owned = WithCommand(@, Job.id)]
    OBVIOUS
  <2>2. Marks(t) = Marks(doc)
    BY <1>0, <2>1, CommandMarks
  <2>3. PICK j : j = [Job EXCEPT !.stage = "applying", !.base = doc, !.want = t, !.fresh = TRUE]
    OBVIOUS
  <2>4. j.stage = "applying" /\ j.base = doc /\ j.want = t /\ j.kind = "command"
    BY <1>0, <2>3 DEF JobTyped, JobFields
  <2>5. HeadOwes(j, doc, owed) /\ LossOwes(j, owed)
    BY <2>2, <2>4 DEF HeadOwes, LossOwes
  <2>6. OwedBy(Now(g, j), doc, owed) /\ Fields \subseteq DOMAIN Now(g, j)
    BY <1>0, <1>2, <2>5, NowOwes
  <2>7. host' = Expect(Now(g, j), t)
    BY <1>1, <1>4, <2>1, <2>3 DEF Begin
  <2>8. OwedBy(host', doc', owed)
    BY <1>0, <2>6, <2>7, ExpectOwes
  <2> QED
    BY <1>0, <1>4, <2>8, JobOwes
<1> QED
  BY <1>1, <1>3, <1>4 DEF RunCommand

LEMMA RunSnapshotOwes == ASSUME KeptInv, OwedInv, RunSnapshot PROVE OwedInv'
<1>0. /\ HostHolds(host, Live) /\ doc \in Texts /\ OwedBy(host, doc, owed)
      /\ host.queue # <<>> /\ Job.kind = "snapshot" /\ JobTyped(Job) /\ LossOwes(Job, owed)
      /\ UNCHANGED <<JobSide, doc, toView>>
  BY HostFacts, JobFacts, OwedFacts DEF RunSnapshot
<1>1. CASE host' = Done(host)
  <2>1. OwedBy(host', doc', owed)
    BY <1>0, <1>1, DoneOwes
  <2> QED
    BY <1>0, <2>1, JobOwes
<1>2. CASE host' = Now([host EXCEPT !.entry.text = doc],
                       [Job EXCEPT !.stage = "preparing", !.base = doc,
                                   !.want = Overlay(Job.ask, host.entry)])
  <2>1. PICK g : g = [host EXCEPT !.entry.text = doc]
    OBVIOUS
  <2>2. HostHolds(g, Live) /\ g.queue = host.queue /\ OwedBy(g, doc, owed)
    BY <1>0, <2>1, RebaseHolds, UnseenOwes
  <2>3. PICK j : j = [Job EXCEPT !.stage = "preparing", !.base = doc,
                                 !.want = Overlay(Job.ask, host.entry)]
    OBVIOUS
  <2>4. j.stage = "preparing" /\ j.kind = "snapshot" /\ j.lost = Job.lost
    BY <1>0, <2>3 DEF JobTyped, JobFields
  <2>5. HeadOwes(j, doc, owed) /\ LossOwes(j, owed)
    BY <1>0, <2>4 DEF HeadOwes, LossOwes
  <2>6. OwedBy(Now(g, j), doc, owed)
    BY <1>0, <2>2, <2>5, NowOwes
  <2>7. OwedBy(host', doc', owed)
    BY <1>0, <1>2, <2>1, <2>3, <2>6
  <2> QED
    BY <1>0, <2>7, JobOwes
<1> QED
  BY <1>1, <1>2 DEF RunSnapshot

LEMMA AcknowledgeOwes ==
    ASSUME KeptInv, OwedInv, UNCHANGED <<JobSide, doc>>, host.queue # <<>>, Job.want = doc,
           Acknowledge
    PROVE  OwedInv'
<1>0. HostHolds(host, Live) /\ OwedBy(host, doc, owed) /\ doc \in Texts /\ Holds(doc, Live)
  BY HostFacts, OwedFacts
<1>1. PICK c : c = Commit(host, doc)
  OBVIOUS
<1>2. HostHolds(c, Live) /\ c.queue = host.queue /\ OwedBy(c, doc, owed)
  BY <1>0, <1>1, CommitHolds, CommitOwes
<1>3. PICK g : g = [c EXCEPT !.entry.text = doc]
  OBVIOUS
<1>4. HostHolds(g, Live) /\ g.queue = host.queue /\ OwedBy(g, doc, owed)
  <2>1. HostHolds(g, Live) /\ g.queue = c.queue
    BY <1>0, <1>2, <1>3, RebaseHolds
  <2>2. OwedBy(g, doc, owed)
    BY <1>2, <1>3, UnseenOwes
  <2> QED
    BY <1>2, <2>1, <2>2
<1>5. PICK m : m = [type |-> "ack", id |-> Job.id]
  OBVIOUS
<1>6. host' = Done(g) /\ toView' = Append(toView, m) /\ m.type # "data"
  BY <1>1, <1>3, <1>5 DEF Acknowledge
<1> QED
  BY <1>4, <1>6, AnsweredOwes

(* What is left of the panel is posted again. *)
LEMMA DroppedOwes ==
    ASSUME KeptInv, OwedInv, UNCHANGED <<JobSide, doc, toView>>, host.queue # <<>>,
           host.save.stage # "flushing", host' = Reload(Done(host), doc)
    PROVE  OwedInv'
<1>0. HostHolds(host, Live) /\ OwedBy(host, doc, owed) /\ doc \in Texts /\ Holds(doc, Live)
  BY HostFacts, OwedFacts
<1>1. PICK f : f = Done(host)
  OBVIOUS
<1>2. HostHolds(f, Live) /\ OwedBy(f, doc, owed)
  BY <1>0, <1>1, DoneHolds, DoneOwes
<1>3. OwedBy(Reload(f, doc), doc, owed)
  BY <1>0, <1>2, PostingOwes DEF Reload
<1>4. OwedBy(host', doc', owed)
  BY <1>1, <1>3
<1> QED
  BY <1>4, JobOwes

LEMMA PrepareSnapshotOwes == ASSUME KeptInv, OwedInv, PrepareSnapshot PROVE OwedInv'
<1>0. /\ HostHolds(host, Live) /\ OwedBy(host, doc, owed) /\ host.save.stage # "flushing"
      /\ host.queue # <<>> /\ Job.kind = "snapshot" /\ JobTyped(Job) /\ LossOwes(Job, owed)
      /\ UNCHANGED <<JobSide, doc>> /\ Fields \subseteq DOMAIN host
  BY HostFacts, SnapshotHead, OwedFacts DEF PrepareSnapshot
<1>1. CASE host' = Done(host) /\ UNCHANGED toView
  <2>1. OwedBy(host', doc', owed)
    BY <1>0, <1>1, DoneOwes
  <2> QED
    BY <1>0, <1>1, <2>1, JobOwes
<1>2. CASE Job.want = Job.base /\ doc = Job.base /\ Acknowledge
  BY <1>0, <1>2, AcknowledgeOwes
<1>3. CASE host' = Reload(Done(host), doc) /\ UNCHANGED toView
  BY <1>0, <1>3, DroppedOwes
<1>4. CASE host' = Now(host, [Job EXCEPT !.base = doc, !.tries = @ + 1]) /\ UNCHANGED toView
  <2>1. PICK r : r = [Job EXCEPT !.base = doc, !.tries = @ + 1]
    OBVIOUS
  <2>2. r.kind = "snapshot" /\ r.stage = "preparing" /\ r.lost = Job.lost
    BY <1>0, <2>1, SnapshotHead DEF JobTyped, JobFields, PrepareSnapshot
  <2>3. HeadOwes(r, doc, owed) /\ LossOwes(r, owed)
    BY <1>0, <2>2 DEF HeadOwes, LossOwes
  <2>4. OwedBy(Now(host, r), doc, owed)
    BY <1>0, <2>3, NowOwes
  <2>5. OwedBy(host', doc', owed)
    BY <1>0, <1>4, <2>1, <2>4
  <2> QED
    BY <1>0, <1>4, <2>5, JobOwes
<1>5. CASE /\ IsCurrent(Job) /\ UNCHANGED toView
           /\ host' = Expect(Now(host, [Job EXCEPT !.stage = "applying", !.fresh = TRUE]), Job.want)
  <2>1. PICK r : r = [Job EXCEPT !.stage = "applying", !.fresh = TRUE]
    OBVIOUS
  <2>2. r.kind = "snapshot" /\ r.stage = "applying" /\ r.lost = Job.lost
    BY <1>0, <2>1 DEF JobTyped, JobFields
  <2>3. owed = {}
    BY <1>5, CurrentOwes
  <2>4. HeadOwes(r, doc, owed) /\ LossOwes(r, owed)
    BY <2>2, <2>3 DEF HeadOwes, LossOwes
  <2>5. OwedBy(Now(host, r), doc, owed) /\ Fields \subseteq DOMAIN Now(host, r)
    BY <1>0, <2>4, NowOwes
  <2>6. OwedBy(host', doc', owed)
    BY <1>0, <1>5, <2>1, <2>5, ExpectOwes
  <2> QED
    BY <1>0, <1>5, <2>6, JobOwes
<1> QED
  BY <1>1, <1>2, <1>3, <1>4, <1>5 DEF PrepareSnapshot

(* The editor applies an edit of the job under way. *)
LEMMA EditOwes ==
    ASSUME KeptInv, OwedInv, UNCHANGED <<JobSide, toView>>, NEW kind \in {"command", "snapshot"},
           NEW from, NEW into, Running(kind, from),
           (from = "applying" /\ into = "applied") \/ (from = "restoring" /\ into = "restored"),
           NEW text \in Texts, Holds(text, Live), doc' = text, owed \subseteq Marks(text),
           from = "restoring" => text = Job.to,
           NEW h, h = Changed(Outdate(host), text),
           host' = [h EXCEPT !.queue[1].stage = into]
    PROVE  OwedInv'
<1>0. /\ HostHolds(host, Live) /\ 1 \in DOMAIN host.queue /\ Job = host.queue[1]
      /\ Job.kind = kind /\ Job.stage = from /\ OwedBy(host, doc, owed)
  BY HostFacts, JobFacts, OwedFacts
<1>1. /\ HostHolds(h, Live) /\ DOMAIN h.queue = DOMAIN host.queue
      /\ h.queue[1].kind = kind /\ h.queue[1].stage = from
  BY <1>0, ChangeHolds
<1>2. OwedBy(h, text, owed)
  BY <1>0, ChangeOwes
<1>3. /\ HostTyped(h) /\ h.queue # <<>> /\ JobTyped(h.queue[1])
      /\ HeadOwes(h.queue[1], text, owed) /\ LossOwes(h.queue[1], owed)
  <2>1. HostTyped(h) /\ h.queue # <<>>
    BY <1>0, <1>1 DEF HostHolds, Sound
  <2> QED
    BY <1>0, <1>1, <1>2, <2>1 DEF HostTyped, OwedBy, QueueOwes
<1>4. PICK j : j = h.queue[1]
  OBVIOUS
<1>5. PICK r : r = [j EXCEPT !.stage = into]
  OBVIOUS
<1>6. /\ r.kind = j.kind /\ r.want = j.want /\ r.lost = j.lost
      /\ r.base = j.base /\ r.to = j.to /\ r.stage = into
  BY <1>3, <1>4, <1>5 DEF JobTyped, JobFields
<1>7. HeadOwes(r, text, owed) /\ LossOwes(r, owed)
  BY <1>1, <1>3, <1>4, <1>6 DEF HeadOwes, LossOwes
<1>8. host' = Now(h, r)
  BY <1>4, <1>5 DEF Now
<1>9. OwedBy(host', doc', owed)
  BY <1>1, <1>2, <1>3, <1>7, <1>8, NowOwes
<1> QED
  BY <1>9, JobOwes

LEMMA ApplyOwes == ASSUME KeptInv, OwedInv, Apply PROVE OwedInv'
<1>0. PICK kind \in {"command", "snapshot"} : Running(kind, "applying")
  BY DEF Apply
<1>1. /\ HostHolds(host, Live) /\ OwedBy(host, doc, owed) /\ owed \subseteq Marks(doc)
      /\ host.queue # <<>> /\ Job.kind = kind /\ Job.stage = "applying"
      /\ JobTyped(Job) /\ HeadOwes(Job, doc, owed) /\ LossOwes(Job, owed)
      /\ Job.want \in Texts /\ Holds(Job.want, Live) /\ UNCHANGED JobSide
      /\ Fields \subseteq DOMAIN host
  BY <1>0, HostFacts, SnapshotHead, CommandHead, OwedFacts DEF Apply
<1>2. CASE /\ Job.fresh /\ doc' = Job.want /\ UNCHANGED toView
           /\ LET h == Changed(Outdate(host), Job.want)
              IN host' = [h EXCEPT !.queue[1].stage = "applied"]
  <2>1. PICK h : h = Changed(Outdate(host), Job.want)
    OBVIOUS
  <2>2. host' = [h EXCEPT !.queue[1].stage = "applied"]
    BY <1>2, <2>1
  <2>3. owed \subseteq Marks(Job.want)
    BY <1>1, <1>2 DEF HeadOwes
  <2>4. UNCHANGED <<JobSide, toView>> /\ doc' = Job.want
    BY <1>1, <1>2
  <2>5. Job.want \in Texts /\ Holds(Job.want, Live)
    BY <1>1
  <2> QED
    BY <1>0, <2>1, <2>2, <2>3, <2>4, <2>5, EditOwes
<1>3. PICK h : h = Cancel(host, Job.want)
  OBVIOUS
<1>4. HostHolds(h, Live) /\ h.queue = host.queue /\ OwedBy(h, doc, owed)
  BY <1>1, <1>3, ExpectHolds, ExpectOwes
<1>5. CASE Fail(h) /\ UNCHANGED doc
  BY <1>1, <1>4, <1>5, FailOwes
<1>6. CASE /\ Job.kind = "snapshot" /\ UNCHANGED <<toView, doc>>
           /\ host' = Now(h, [Job EXCEPT !.stage = "preparing", !.tries = @ + 1])
  <2>1. PICK r : r = [Job EXCEPT !.stage = "preparing", !.tries = @ + 1]
    OBVIOUS
  <2>2. r.kind = "snapshot" /\ r.stage = "preparing" /\ r.lost = Job.lost
    BY <1>1, <1>6, <2>1 DEF JobTyped, JobFields
  <2>3. HeadOwes(r, doc, owed) /\ LossOwes(r, owed)
    BY <1>1, <1>6, <2>2 DEF HeadOwes, LossOwes
  <2>4. OwedBy(Now(h, r), doc, owed)
    BY <1>1, <1>4, <2>3, NowOwes
  <2>5. OwedBy(host', doc', owed)
    BY <1>6, <2>1, <2>4
  <2> QED
    BY <1>1, <1>6, <2>5, JobOwes
<1> QED
  <2>1. Job.kind = "command" \/ Job.kind = "snapshot"
    BY <1>1
  <2> QED
    BY <1>1, <1>2, <1>3, <1>5, <1>6, <2>1 DEF Apply

(* A rollback to a text that has what is owed; a snapshot's only while the *)
(* snapshot is what is in the document.                                    *)
LEMMA RollbackOwes ==
    ASSUME KeptInv, OwedInv, UNCHANGED <<JobSide, doc, toView>>,
           NEW kind \in {"command", "snapshot"}, NEW stage, stage # "queued", Running(kind, stage),
           NEW h, HostHolds(h, Live), h.queue = host.queue, OwedBy(h, doc, owed),
           NEW to, owed \subseteq Marks(to), kind = "snapshot" => doc = Job.want,
           NEW tries, host' = StartRollback(h, Job, to, tries)
    PROVE  OwedInv'
<1>1. /\ host.queue # <<>> /\ Job.kind = kind /\ Job.stage = stage /\ JobTyped(Job)
      /\ HeadOwes(Job, doc, owed) /\ LossOwes(Job, owed)
  BY JobFacts, OwedFacts
<1>2. PICK r : r = [Job EXCEPT !.stage = "restoring", !.to = to, !.tries = tries,
                               !.fresh = TRUE, !.seen = host.authority.token]
  OBVIOUS
<1>3. /\ r.kind = Job.kind /\ r.want = Job.want /\ r.lost = Job.lost
      /\ r.base = Job.base /\ r.to = to /\ r.stage = "restoring"
  BY <1>1, <1>2 DEF JobTyped, JobFields
<1>4. HeadOwes(r, doc, owed) /\ LossOwes(r, owed)
  BY <1>1, <1>3 DEF HeadOwes, LossOwes
<1>5. OwedBy(Now(h, r), doc, owed) /\ Fields \subseteq DOMAIN Now(h, r)
  BY <1>1, <1>4, NowOwes
<1>6. host' = Expect(Now(h, r), to)
  BY <1>2 DEF StartRollback
<1>7. OwedBy(host', doc', owed)
  BY <1>5, <1>6, ExpectOwes
<1> QED
  BY <1>7, JobOwes

LEMMA ResumeCommandOwes == ASSUME KeptInv, OwedInv, ResumeCommand PROVE OwedInv'
<1>0. /\ HostHolds(host, Live) /\ Running("command", "applied") /\ UNCHANGED <<JobSide, doc>>
      /\ host.queue # <<>> /\ OwedBy(host, doc, owed) /\ HeadOwes(Job, doc, owed)
      /\ owed \subseteq Marks(doc) /\ owed \subseteq Marks(host.authority.text)
      /\ Job.kind = "command" /\ Job.stage = "applied" /\ doc \in Texts /\ Holds(doc, Live)
      /\ host.save.stage # "flushing" /\ host.entry \in Entries
  BY HostFacts, CommandHead, OwedFacts DEF ResumeCommand
<1>1. CASE Fail(host)
  BY <1>0, <1>1, FailOwes
<1>2. CASE /\ doc = Job.want
           /\ LET h == [Commit(host, Job.want) EXCEPT
                           !.entry = [rev |-> @.rev + 1, owned |-> Job.want.owned, text |-> Job.want]]
              IN host' = Done(h) /\ Answer(Job.id, TRUE, h)
  <2>1. PICK c : c = Commit(host, doc)
    OBVIOUS
  <2>2. /\ HostHolds(c, Live) /\ c.queue = host.queue /\ OwedBy(c, doc, owed)
        /\ c.entry = host.entry /\ c.save = host.save
    BY <1>0, <2>1, CommitHolds, CommitOwes
  <2>3. PICK e : e = [rev |-> c.entry.rev + 1, owned |-> doc.owned, text |-> doc]
    OBVIOUS
  <2>4. PICK h : h = [c EXCEPT !.entry = e]
    OBVIOUS
  <2>5. host' = Done(h) /\ Answer(Job.id, TRUE, h)
    BY <1>2, <2>1, <2>3, <2>4
  <2>6. e \in Entries
    BY <1>0, <2>2, <2>3 DEF Entries, Texts
  <2>7. HostHolds(h, Live) /\ h.queue = host.queue
    <3>1. c.save.stage = "flushing" => e.owned = c.entry.owned
      BY <1>0, <2>2
    <3> QED
      BY <2>2, <2>4, <2>6, <3>1, EntryHolds
  <2>8. OwedBy(h, doc, owed)
    BY <2>2, <2>4, UnseenOwes
  <2>9. \E m : toView' = Append(toView, m) /\ m.type # "data"
    BY <2>5 DEF Answer, Result
  <2> QED
    BY <1>0, <2>5, <2>7, <2>8, <2>9, AnsweredOwes
<1>3. CASE /\ doc = Job.want /\ UNCHANGED toView
           /\ host' = StartRollback(host, Job,
                          IF Superseding(Job) THEN host.authority.text ELSE Job.base, 1)
  <2>1. PICK to : to = IF Superseding(Job) THEN host.authority.text ELSE Job.base
    OBVIOUS
  <2>2. Marks(Job.want) = Marks(Job.base)
    BY <1>0 DEF HeadOwes
  <2>3. owed \subseteq Marks(to)
    BY <1>0, <1>3, <2>1, <2>2
  <2>4. host' = StartRollback(host, Job, to, 1)
    BY <1>3, <2>1
  <2> QED
    BY <1>0, <1>3, <2>3, <2>4, RollbackOwes
<1> QED
  BY <1>1, <1>2, <1>3 DEF ResumeCommand

LEMMA ResumeSnapshotOwes == ASSUME KeptInv, OwedInv, ResumeSnapshot PROVE OwedInv'
<1>0. /\ HostHolds(host, Live) /\ Running("snapshot", "applied") /\ UNCHANGED <<JobSide, doc>>
      /\ host.queue # <<>> /\ host.save.stage # "flushing" /\ OwedBy(host, doc, owed)
      /\ Job.kind = "snapshot" /\ Kept(host, Job) /\ LossOwes(Job, owed)
  BY HostFacts, SnapshotHead, OwedFacts DEF ResumeSnapshot
<1>1. CASE host' = Reload(Done(host), doc) /\ UNCHANGED toView
  BY <1>0, <1>1, DroppedOwes
<1>2. CASE doc = Job.want /\ Acknowledge
  BY <1>0, <1>2, AcknowledgeOwes
<1>3. CASE /\ ~IsCurrent(Job) /\ doc = Job.want /\ UNCHANGED toView
           /\ host' = StartRollback([host EXCEPT !.unrestored = Job.want], Job, Job.lost, 1)
  <2>1. owed \subseteq Marks(Job.lost)
    BY <1>0, <1>3 DEF Kept, CurrentIn, IsCurrent, LossOwes
  <2>2. PICK h : h = [host EXCEPT !.unrestored = Job.want]
    OBVIOUS
  <2>3. HostHolds(h, Live) /\ h.queue = host.queue
    BY <1>0, <2>2, UnrestoredHolds
  <2>4. OwedBy(h, doc, owed)
    BY <1>0, <2>2, UnseenOwes
  <2>5. host' = StartRollback(h, Job, Job.lost, 1)
    BY <1>3, <2>2
  <2> QED
    BY <1>0, <1>3, <2>1, <2>3, <2>4, <2>5, RollbackOwes
<1> QED
  BY <1>1, <1>2, <1>3 DEF ResumeSnapshot

LEMMA ApplyRollbackOwes == ASSUME KeptInv, OwedInv, ApplyRollback PROVE OwedInv'
<1>0. PICK kind \in {"command", "snapshot"} : Running(kind, "restoring")
  BY DEF ApplyRollback
<1>1. /\ HostHolds(host, Live) /\ OwedBy(host, doc, owed) /\ Fields \subseteq DOMAIN host
      /\ host.queue # <<>> /\ Job.kind = kind /\ Job.stage = "restoring"
      /\ JobTyped(Job) /\ HeadOwes(Job, doc, owed) /\ LossOwes(Job, owed)
      /\ Job.to \in Texts /\ Holds(Job.to, Live) /\ UNCHANGED <<JobSide, toView>>
  BY <1>0, HostFacts, SnapshotHead, CommandHead, OwedFacts DEF ApplyRollback, SnapshotHolds, CommandHolds
<1>2. CASE /\ Job.fresh /\ doc' = Job.to
           /\ LET h == Changed(Outdate(host), Job.to)
              IN host' = [h EXCEPT !.queue[1].stage = "restored"]
  <2>1. PICK h : h = Changed(Outdate(host), Job.to)
    OBVIOUS
  <2>2. host' = [h EXCEPT !.queue[1].stage = "restored"]
    BY <1>2, <2>1
  <2>3. owed \subseteq Marks(Job.to)
    BY <1>1, <1>2 DEF HeadOwes
  <2> QED
    BY <1>0, <1>1, <1>2, <2>1, <2>2, <2>3, EditOwes
<1>3. CASE /\ UNCHANGED doc
           /\ host' = Now(Cancel(host, Job.to), [Job EXCEPT !.stage = "restored"])
  <2>1. PICK h : h = Cancel(host, Job.to)
    OBVIOUS
  <2>2. HostHolds(h, Live) /\ h.queue = host.queue /\ OwedBy(h, doc, owed)
    BY <1>1, <2>1, ExpectHolds, ExpectOwes
  <2>3. PICK r : r = [Job EXCEPT !.stage = "restored"]
    OBVIOUS
  <2>4. /\ r.kind = Job.kind /\ r.want = Job.want /\ r.lost = Job.lost
        /\ r.base = Job.base /\ r.to = Job.to /\ r.stage = "restored"
    BY <1>1, <2>3 DEF JobTyped, JobFields
  <2>5. HeadOwes(r, doc, owed) /\ LossOwes(r, owed)
    BY <1>1, <2>4 DEF HeadOwes, LossOwes
  <2>6. OwedBy(Now(h, r), doc, owed)
    BY <1>1, <2>2, <2>5, NowOwes
  <2>7. OwedBy(host', doc', owed)
    BY <1>3, <2>1, <2>3, <2>6
  <2> QED
    BY <1>1, <2>7, JobOwes
<1> QED
  BY <1>2, <1>3 DEF ApplyRollback

LEMMA ResumeCommandRollbackOwes == ASSUME KeptInv, OwedInv, ResumeCommandRollback PROVE OwedInv'
<1>0. /\ HostHolds(host, Live) /\ Running("command", "restored") /\ UNCHANGED <<JobSide, doc>>
      /\ host.queue # <<>> /\ OwedBy(host, doc, owed) /\ owed \subseteq Marks(host.authority.text)
  BY HostFacts, CommandHead, OwedFacts DEF ResumeCommandRollback
<1>1. CASE /\ host' = StartRollback(host, Job, host.authority.text, Job.tries + 1)
           /\ UNCHANGED toView
  BY <1>0, <1>1, RollbackOwes
<1>2. CASE Fail(IF doc = host.authority.text THEN host ELSE [host EXCEPT !.unrestored = Job.want])
  <2>1. PICK h : h = IF doc = host.authority.text THEN host ELSE [host EXCEPT !.unrestored = Job.want]
    OBVIOUS
  <2>2. HostHolds(h, Live) /\ h.queue = host.queue
    BY <1>0, <2>1, UnrestoredHolds
  <2>3. OwedBy(h, doc, owed)
    BY <1>0, <2>1, UnseenOwes
  <2>4. Fail(h)
    BY <1>2, <2>1
  <2> QED
    BY <1>0, <2>2, <2>3, <2>4, FailOwes
<1> QED
  BY <1>1, <1>2 DEF ResumeCommandRollback

LEMMA ResumeSnapshotRollbackOwes == ASSUME KeptInv, OwedInv, ResumeSnapshotRollback PROVE OwedInv'
<1>0. /\ HostHolds(host, Live) /\ Running("snapshot", "restored")
      /\ UNCHANGED <<JobSide, doc, toView>> /\ OwedBy(host, doc, owed)
      /\ host.queue # <<>> /\ Job.kind = "snapshot" /\ Job.stage = "restored"
      /\ HeadOwes(Job, doc, owed)
  BY HostFacts, SnapshotHead, OwedFacts DEF ResumeSnapshotRollback
<1>1. CASE doc = Job.want /\ host' = StartRollback(host, Job, Job.to, Job.tries + 1)
  <2>1. owed \subseteq Marks(Job.to)
    BY <1>0, <1>1 DEF HeadOwes
  <2> QED
    BY <1>0, <1>1, <2>1, RollbackOwes
<1>2. CASE host' = Done([host EXCEPT !.unrestored = IF doc = Job.want THEN doc ELSE None])
  <2>1. PICK x : x = IF doc = Job.want THEN doc ELSE None
    OBVIOUS
  <2>2. PICK h : h = [host EXCEPT !.unrestored = x]
    OBVIOUS
  <2>3. HostHolds(h, Live) /\ h.queue = host.queue
    BY <1>0, <2>2, UnrestoredHolds
  <2>4. OwedBy(h, doc, owed)
    BY <1>0, <2>2, UnseenOwes
  <2>5. OwedBy(host', doc', owed)
    BY <1>0, <1>2, <2>1, <2>2, <2>3, <2>4, DoneOwes
  <2> QED
    BY <1>0, <2>5, JobOwes
<1> QED
  BY <1>1, <1>2 DEF ResumeSnapshotRollback

-----------------------------------------------------------------------------
(* Saving. *)

LEMMA WillSaveOwes == ASSUME KeptInv, OwedInv, WillSave PROVE OwedInv'
<1>1. PICK s : s = [NoSave EXCEPT !.stage = "barrier", !.id = saves + 1, !.gen = host.activeGen]
  OBVIOUS
<1>2. host' = [host EXCEPT !.save = s] /\ doc' = doc /\ UNCHANGED SaveSide
  BY <1>1 DEF WillSave
<1>3. SaveOwes(s, owed)
  BY <1>1 DEF NoSave, SaveOwes
<1>4. OwedBy(host', doc', owed)
  BY <1>2, <1>3, HostFacts, OwedFacts, SavingOwes
<1>5. \E m : toView' = Append(toView, m) /\ m.type # "data"
  BY DEF WillSave
<1> QED
  BY <1>2, <1>4, <1>5, SaveSideOwes

LEMMA BarrierTimesOutOwes == ASSUME KeptInv, OwedInv, BarrierTimesOut PROVE OwedInv'
<1>1. host' = Refused(host) /\ UNCHANGED <<SaveSide, doc, toView>>
  BY DEF BarrierTimesOut
<1>2. OwedBy(host', doc', owed)
  BY <1>1, HostFacts, OwedFacts, RefusedOwes
<1> QED
  BY <1>1, <1>2, SaveSideOwes

LEMMA BarrierResultOwes ==
    ASSUME KeptInv, OwedInv, NEW m
    PROVE  OwedBy(BarrierResult(m), doc, owed)
<1>0. HostHolds(host, Live) /\ OwedBy(host, doc, owed)
  BY HostFacts, OwedFacts
<1>1. PICK s : s = [host.save EXCEPT !.stage = "draining", !.rev = m.rev]
  OBVIOUS
<1>2. PICK g : g = [host EXCEPT !.save = s]
  OBVIOUS
<1>3. ASSUME host.save.stage = "barrier" PROVE OwedBy(g, doc, owed)
  <2>1. ~host.save.edit
    BY <1>0, <1>3 DEF OwedBy, SaveOwes
  <2>2. SaveOwes(s, owed)
    BY <1>0, <1>1, <2>1, SaveFacts DEF SaveOwes, SaveTyped, SaveFields
  <2> QED
    BY <1>0, <1>2, <2>2, SavingOwes
<1>4. \/ BarrierResult(m) = host \/ BarrierResult(m) = Refused(host)
      \/ host.save.stage = "barrier" /\ BarrierResult(m) = g
  BY <1>1, <1>2 DEF BarrierResult
<1>5. OwedBy(Refused(host), doc, owed)
  BY <1>0, RefusedOwes
<1> QED
  BY <1>0, <1>3, <1>4, <1>5

(* The lease takes the queue, and nothing with it. *)
LEMMA LeaseOwes ==
    ASSUME NEW h, HostTyped(h), NEW d, NEW O, OwedBy(h, d, O)
    PROVE  OwedBy([h EXCEPT !.queue = <<Lease>>], d, O)
<1>1. PICK j : j = Lease
  OBVIOUS
<1>2. j.kind = "lease"
  BY <1>1 DEF Lease, NewJob
<1>3. HeadOwes(j, d, O) /\ LossOwes(j, O)
  BY <1>2 DEF HeadOwes, LossOwes
<1>4. DOMAIN <<j>> = {1} /\ <<j>>[1] = j
  OBVIOUS
<1>5. OwedBy([h EXCEPT !.queue = <<j>>], d, O)
  BY <1>3, <1>4, QueuedOwes
<1> QED
  BY <1>1, <1>5

LEMMA SaveDrainedOwes == ASSUME KeptInv, OwedInv, SaveDrained PROVE OwedInv'
<1>0. /\ HostHolds(host, Live) /\ HostTyped(host) /\ OwedBy(host, doc, owed) /\ host.queue = <<>>
      /\ UNCHANGED <<SaveSide, doc>> /\ host.save.stage = "draining" /\ SaveTyped(host.save)
      /\ Fields \subseteq DOMAIN host
  BY HostFacts, OwedFacts DEF SaveDrained, HostTyped
<1>1. ~host.save.edit
  BY <1>0 DEF OwedBy, SaveOwes
<1>2. PICK g : g = [host EXCEPT !.queue = <<Lease>>]
  OBVIOUS
<1>3. /\ OwedBy(g, doc, owed) /\ g.save = host.save /\ g.entry = host.entry /\ Fields \subseteq DOMAIN g
      /\ g.queue = <<Lease>>
  BY <1>0, <1>2, LeaseOwes DEF Fields
<1>4. CASE host' = Refused(host) /\ UNCHANGED toView
  <2>1. OwedBy(host', doc', owed)
    BY <1>0, <1>4, RefusedOwes
  <2> QED
    BY <1>0, <1>4, <2>1, SaveSideOwes
<1>5. CASE /\ host' = [host EXCEPT !.queue = <<Lease>>, !.save.token = host.activeToken,
                                   !.entry.text = doc, !.save.stage = "flushing", !.save.text = doc]
           /\ toView' = Append(toView, [type |-> "flush", id |-> host.save.id])
  <2>1. PICK s : s = [host.save EXCEPT !.token = host.activeToken, !.stage = "flushing", !.text = doc]
    OBVIOUS
  <2>2. SaveOwes(s, owed)
    BY <1>0, <1>1, <2>1 DEF SaveOwes, SaveTyped, SaveFields
  <2>3. host'.save = s /\ SameOwing(g, [host' EXCEPT !.save = host.save])
    BY <1>0, <1>2, <1>3, <1>5, <2>1 DEF SameOwing, Fields
  <2>4. OwedBy(host', doc', owed)
    BY <1>0, <1>3, <2>2, <2>3
       DEF OwedBy, SameOwing, AuthorityOwes, PostOwes, QueueOwes, Fields
  <2>5. \E m : toView' = Append(toView, m) /\ m.type # "data"
    BY <1>5
  <2> QED
    BY <1>0, <2>4, <2>5, SaveSideOwes
<1>6. CASE /\ host' = FailClosed([host EXCEPT !.queue = <<Lease>>, !.save.token = host.activeToken])
           /\ UNCHANGED toView
  <2>1. PICK s : s = [host.save EXCEPT !.token = host.activeToken, !.stage = "committing",
                                       !.text = doc, !.fresh = TRUE]
    OBVIOUS
  <2>2. SaveOwes(s, owed)
    BY <1>0, <1>1, <2>1 DEF SaveOwes, SaveTyped, SaveFields
  <2>3. host'.save = s /\ SameOwing(g, [host' EXCEPT !.save = host.save])
    BY <1>0, <1>2, <1>3, <1>6, <2>1 DEF SameOwing, Fields, FailClosed
  <2>4. OwedBy(host', doc', owed)
    BY <1>0, <1>3, <2>2, <2>3
       DEF OwedBy, SameOwing, AuthorityOwes, PostOwes, QueueOwes, Fields
  <2> QED
    BY <1>0, <1>6, <2>4, SaveSideOwes
<1> QED
  BY <1>4, <1>5, <1>6 DEF SaveDrained

(* The last snapshot is only taken over the text the webview has been shown. *)
LEMMA FinalSnapshotOwes ==
    ASSUME KeptInv, OwedInv, NEW m
    PROVE  OwedBy(FinalSnapshot(m), doc, owed)
<1>0. /\ HostHolds(host, Live) /\ OwedBy(host, doc, owed) /\ SaveTyped(host.save)
      /\ Fields \subseteq DOMAIN host
  BY HostFacts, OwedFacts DEF HostTyped
<1>1. OwedBy(WithoutLease(Refused(host)), doc, owed)
  BY <1>0, RefusedHolds, RefusedOwes, WithoutLeaseOwes
<1>2. PICK want : want = Overlay(m.state, host.entry)
  OBVIOUS
<1>3. PICK s : s = [host.save EXCEPT !.stage = "committing", !.text = want, !.edit = want # doc,
                                     !.fresh = TRUE, !.atomic = TRUE]
  OBVIOUS
<1>4. PICK h : h = [host EXCEPT !.save = s]
  OBVIOUS
<1>5. \/ FinalSnapshot(m) = host
      \/ host.save.stage = "flushing" /\ FinalSnapshot(m) = FailClosed(host)
      \/ FinalSnapshot(m) = WithoutLease(Refused(host))
      \/ SaveOwnerIsCurrent /\ (FinalSnapshot(m) = h \/ FinalSnapshot(m) = Expect(h, want))
  BY <1>2, <1>3, <1>4 DEF FinalSnapshot
<1>6. host.save.stage = "flushing" => OwedBy(FailClosed(host), doc, owed)
  BY <1>0, FailClosedOwes
<1>7. ASSUME SaveOwnerIsCurrent PROVE OwedBy(h, doc, owed) /\ OwedBy(Expect(h, want), doc, owed)
  <2>1. owed = {}
    BY <1>0, <1>7 DEF SaveOwnerIsCurrent, OwedBy, AuthorityOwes
  <2>2. SaveOwes(s, owed)
    BY <1>0, <1>3, <2>1 DEF SaveOwes, SaveTyped, SaveFields
  <2>3. OwedBy(h, doc, owed) /\ Fields \subseteq DOMAIN h
    BY <1>0, <1>4, <2>2, SavingOwes
  <2> QED
    BY <2>3, ExpectOwes
<1> QED
  BY <1>0, <1>1, <1>5, <1>6, <1>7

LEMMA FinalSnapshotTimesOutOwes == ASSUME KeptInv, OwedInv, FinalSnapshotTimesOut PROVE OwedInv'
<1>1. host' = FailClosed(host) /\ host.save.stage = "flushing" /\ UNCHANGED <<SaveSide, doc, toView>>
  BY DEF FinalSnapshotTimesOut
<1>2. OwedBy(host', doc', owed)
  BY <1>1, HostFacts, OwedFacts, FailClosedOwes
<1> QED
  BY <1>1, <1>2, SaveSideOwes

LEMMA StoreDocumentOwes == ASSUME KeptInv, OwedInv, StoreDocument PROVE OwedInv'
<1>0. /\ HostHolds(host, Live) /\ OwedBy(host, doc, owed) /\ doc \in Texts /\ Holds(doc, Live)
      /\ Committing(host, doc) /\ host.save.stage = "committing" /\ UNCHANGED <<SaveSide, toView>>
  BY HostFacts, OwedFacts DEF StoreDocument
<1>1. CASE /\ host.save.edit /\ host.save.fresh /\ doc' = host.save.text
           /\ host' = Stored(Changed(Outdate(host), host.save.text))
  <2>1. PICK text : text = host.save.text
    OBVIOUS
  <2>2. text \in Texts /\ Holds(text, Live)
    BY <1>0, <1>1, <2>1 DEF Committing, Holds
  <2>3. owed = {}
    BY <1>0, <1>1 DEF OwedBy, SaveOwes
  <2>4. PICK h : h = Changed(Outdate(host), text)
    OBVIOUS
  <2>5. HostHolds(h, Live) /\ OwedBy(h, text, owed)
    BY <1>0, <2>2, <2>3, <2>4, ChangeHolds, ChangeOwes
  <2>6. OwedBy(Stored(h), text, owed)
    BY <2>5, StoredOwes
  <2>7. OwedBy(host', doc', owed)
    BY <1>1, <2>1, <2>4, <2>6
  <2> QED
    BY <1>0, <2>7, SaveSideOwes
<1>2. CASE host' = Stored(host) /\ UNCHANGED doc
  <2>1. OwedBy(host', doc', owed)
    BY <1>0, <1>2, StoredOwes
  <2> QED
    BY <1>0, <2>1, SaveSideOwes
<1> QED
  BY <1>1, <1>2 DEF StoreDocument

LEMMA DidSaveOwes == ASSUME KeptInv, OwedInv, DidSave PROVE OwedInv'
<1>0. /\ HostHolds(host, Live) /\ OwedBy(host, doc, owed) /\ doc \in Texts /\ Holds(doc, Live)
      /\ UNCHANGED <<SaveSide, doc, toView>>
  BY HostFacts, OwedFacts DEF DidSave
<1>1. PICK h : h = Refused(host)
  OBVIOUS
<1>2. HostHolds(h, Live) /\ OwedBy(h, doc, owed)
  BY <1>0, <1>1, RefusedHolds, RefusedOwes
<1>3. PICK c : c = Commit(h, doc)
  OBVIOUS
<1>4. HostHolds(c, Live) /\ OwedBy(c, doc, owed)
  BY <1>0, <1>2, <1>3, CommitHolds, CommitOwes
<1>5. PICK g : g = [c EXCEPT !.entry.text = doc]
  OBVIOUS
<1>6. HostHolds(g, Live)
  BY <1>0, <1>4, <1>5, RebaseHolds
<1>7. OwedBy(g, doc, owed)
  BY <1>4, <1>5, UnseenOwes
<1>8. host' = h \/ host' = WithoutLease(g) \/ host' = WithoutLease(h)
  BY <1>1, <1>3, <1>5 DEF DidSave
<1>9. OwedBy(WithoutLease(g), doc, owed) /\ OwedBy(WithoutLease(h), doc, owed)
  BY <1>2, <1>6, <1>7, WithoutLeaseOwes
<1>10. OwedBy(host', doc', owed)
  BY <1>0, <1>2, <1>8, <1>9
<1> QED
  BY <1>0, <1>10, SaveSideOwes

LEMMA LeaseTimesOutOwes == ASSUME KeptInv, OwedInv, LeaseTimesOut PROVE OwedInv'
<1>1. host' = WithoutLease(host) /\ UNCHANGED <<SaveSide, doc, toView>>
  BY DEF LeaseTimesOut
<1>2. OwedBy(host', doc', owed)
  BY <1>1, HostFacts, OwedFacts, WithoutLeaseOwes
<1> QED
  BY <1>1, <1>2, SaveSideOwes

-----------------------------------------------------------------------------
(* The projections. *)

(* A projection is posted: the webview has not applied it yet. *)
LEMMA PostOwesShown ==
    ASSUME KeptInv, OwedInv, NEW p \in host.posts, Post(p)
    PROVE  OwedInv'
<1>0. /\ HostHolds(host, Live) /\ HostTyped(host) /\ Generations(host)
      /\ OwedBy(host, doc, owed) /\ doc \in Texts /\ Holds(doc, Live)
      /\ PostTyped(p) /\ p.stage = "preparing" /\ PostOwes(host, p, owed)
      /\ UNCHANGED <<doc, webVars, toHost, owed>>
  BY HostFacts, OwedFacts DEF Post, HostTyped, HostHolds, Sound, OwedBy
<1>1. CASE host' = Return(host, p, FALSE) /\ UNCHANGED toView
  <2>1. OwedBy(host', doc', owed')
    BY <1>0, <1>1, ReturnOwes
  <2> QED
    BY <1>0, <1>1, <2>1, HostOwes
<1>2. CASE LET made == Materialize(host.entry, p.text) IN
           /\ host' = [host EXCEPT !.posts = (@ \ {p}) \cup
                          {[p EXCEPT !.stage = "posted", !.made = made]}]
           /\ toView' = Append(toView, [type |-> "data", gen |-> p.gen, force |-> p.force,
                                        rev |-> made.rev, owned |-> made.owned,
                                        rest |-> p.text.rest])
  <2>1. PICK made : made = Materialize(host.entry, p.text)
    OBVIOUS
  <2>2. PICK m : m = [type |-> "data", gen |-> p.gen, force |-> p.force, rev |-> made.rev,
                      owned |-> made.owned, rest |-> p.text.rest]
    OBVIOUS
  <2>3. made.owned = p.text.owned
    BY <2>1 DEF Materialize
  <2>4. m.type = "data" /\ m.gen = p.gen /\ Marks(m) = Marks(p.text)
    BY <2>2, <2>3 DEF Marks
  <2>5. PICK q : q = [p EXCEPT !.stage = "posted", !.made = made]
    OBVIOUS
  <2>6. /\ toView' = Append(toView, m)
        /\ host' = [host EXCEPT !.posts = (@ \ {p}) \cup {q}]
    BY <1>2, <2>1, <2>2, <2>5
  <2>7. Elements(toView') = Elements(toView) \cup {m}
    BY <2>6, AppendFacts DEF KeptInv, MailTyped
  <2>8. /\ q.gen = p.gen /\ q.text = p.text /\ q.token = p.token /\ q.stage = "posted"
    BY <1>0, <2>5 DEF PostTyped, PostFields
  <2>9. /\ host'.posts = (host.posts \ {p}) \cup {q} /\ host'.authority = host.authority
        /\ host'.activeToken = host.activeToken /\ host'.postGen = host.postGen
        /\ host'.queue = host.queue /\ host'.save = host.save
    BY <1>0, <2>6 DEF HostTyped, Fields
  <2>10. \A r : Answered(r)' <=> Answered(r)
    BY <1>0 DEF Answered, webVars, commandVars
  <2>11. PostOwes(host, q, owed)'
    <3>1. ~Answered(q)
      BY <1>0, <2>8 DEF PostOwes, Answered
    <3>2. \A x \in Elements(toView) : ~(x.type = "data" /\ x.gen = p.gen)
      BY <1>0 DEF PostOwes
    <3> QED
      BY <1>0, <2>4, <2>7, <2>8, <2>9, <2>10, <3>1, <3>2 DEF PostOwes, Marks
  <2>12. ASSUME NEW r \in host.posts, r # p PROVE PostOwes(host, r, owed)'
    <3>1. r.gen # p.gen
      BY <1>0, <2>12 DEF Generations
    <3>2. PostOwes(host, r, owed)
      BY <1>0 DEF OwedBy
    <3> QED
      BY <1>0, <2>4, <2>7, <2>9, <2>10, <3>1, <3>2 DEF PostOwes, Marks
  <2>13. \A r \in host'.posts : PostOwes(host, r, owed)'
    BY <2>9, <2>11, <2>12
  <2>14. MailBehind(host.postGen)'
    BY <1>0, <2>4, <2>7, <2>9 DEF OwedBy, MailBehind, webVars, commandVars, PostTyped, Generations
  <2> QED
    BY <1>0, <2>9, <2>13, <2>14
       DEF OwedInv, OwedBy, AuthorityOwes, QueueOwes, HeadOwes, LossOwes, SaveOwes, Marks
<1> QED
  BY <1>1, <1>2 DEF Post

LEMMA ReloadTimesOutOwes ==
    ASSUME KeptInv, OwedInv, NEW p \in host.posts, ReloadTimesOut(p)
    PROVE  OwedInv'
<1>0. /\ HostHolds(host, Live) /\ PostTyped(p) /\ OwedBy(host, doc, owed) /\ doc \in Texts
      /\ Holds(doc, Live)
  BY HostFacts, OwedFacts DEF HostTyped
<1>1. host' = EndReload(host, p, FALSE) /\ UNCHANGED <<doc, webVars, toHost, toView, owed>>
  BY DEF ReloadTimesOut, channelVars, historyVars
<1>2. OwedBy(host', doc', owed')
  BY <1>0, <1>1, EndReloadOwes
<1> QED
  BY <1>1, <1>2, HostOwes

-----------------------------------------------------------------------------
(* The messages to the host. *)

LEMMA AdmittedOwes ==
    ASSUME KeptInv, OwedInv, NEW kind \in {"command", "snapshot"}, NEW id, NEW ask,
           NEW j, j = NewJob(kind, id, ask, host),
           NEW g, g = [host EXCEPT !.queue = Append(@, j)]
    PROVE  OwedBy(g, doc, owed)
<1>1. Waits(j) /\ j.lost = None
  BY DEF NewJob, Waits
<1>2. LossOwes(j, owed)
  BY <1>1 DEF LossOwes
<1> QED
  BY <1>1, <1>2, HostFacts, OwedFacts, AdmitOwes

LEMMA ReceiveHostOwes == ASSUME KeptInv, OwedInv, ReceiveHost PROVE OwedInv'
<1>0. /\ HostHolds(host, Live) /\ OwedBy(host, doc, owed) /\ doc \in Texts /\ Holds(doc, Live)
  BY HostFacts, OwedFacts
<1>1. /\ UNCHANGED <<doc, webVars, owed>> /\ toHost # <<>> /\ toHost' = Tail(toHost)
  BY DEF ReceiveHost, historyVars
<1>2. PICK m : m = Head(toHost)
  OBVIOUS
<1>3. m \in Elements(toHost) /\ Elements(toHost') \subseteq Elements(toHost) /\ ToHostTyped(m)
  BY <1>1, <1>2, SeqFacts, TailFacts DEF KeptInv, MailTyped
<1>4. CASE m.type = "command"
  <2>1. AdmitCommand(m)
    BY <1>2, <1>4 DEF ReceiveHost
  <2>2. CASE Answer(m.id, FALSE, host) /\ UNCHANGED host
    <3>1. PICK r : r = Result(m.id, FALSE, host)
      OBVIOUS
    <3>2. toView' = Append(toView, r) /\ r.type # "data"
      BY <2>2, <3>1 DEF Answer, Result
    <3>3. \A x \in Elements(toView') : x.type = "data" => x \in Elements(toView)
      BY <3>2, AppendFacts DEF KeptInv, MailTyped
    <3>4. OwedBy(host', doc', owed') /\ view'.gen = view.gen
      BY <1>0, <1>1, <2>2 DEF webVars, commandVars
    <3> QED
      BY <1>3, <3>3, <3>4, MailOwes
  <2>3. CASE /\ UNCHANGED toView
             /\ host' = [host EXCEPT !.queue = Append(@, NewJob("command", m.id, m.rev, host))]
    <3>1. OwedBy(host', doc, owed)
      BY <2>3, AdmittedOwes
    <3>2. OwedBy(host', doc', owed') /\ view'.gen = view.gen
      BY <1>1, <3>1 DEF webVars, commandVars
    <3> QED
      BY <1>3, <2>3, <3>2, MailOwes
  <2> QED
    BY <2>1, <2>2, <2>3 DEF AdmitCommand
<1>5. CASE m.type # "command"
  <2>1. UNCHANGED toView
    BY <1>2, <1>3, <1>5 DEF ReceiveHost, ToHostTyped
  <2>2. OwedBy(host', doc, owed)
    <3>1. CASE m.type = "snapshot"
      <4>1. AdmitSnapshot(m)
        BY <1>2, <3>1 DEF ReceiveHost
      <4>2. PICK g : g = [host EXCEPT !.queue = Append(@, NewJob("snapshot", m.id, m.state, host))]
        OBVIOUS
      <4>3. OwedBy(g, doc, owed)
        BY <4>2, AdmittedOwes
      <4>4. host' = g \/ host' = host
        BY <4>1, <4>2 DEF AdmitSnapshot
      <4> QED
        BY <1>0, <4>3, <4>4
    <3>2. CASE m.type = "reload"
      <4>1. host' = ReloadResult(m)
        BY <1>2, <3>2 DEF ReceiveHost
      <4> QED
        BY <1>0, <1>3, <3>2, <4>1, ReloadResultOwes
    <3>3. CASE m.type = "barrier"
      <4>1. host' = BarrierResult(m)
        BY <1>2, <3>3 DEF ReceiveHost
      <4> QED
        BY <4>1, BarrierResultOwes
    <3>4. CASE m.type = "flush"
      <4>1. host' = FinalSnapshot(m)
        BY <1>2, <3>4 DEF ReceiveHost
      <4> QED
        BY <4>1, FinalSnapshotOwes
    <3>5. CASE m.type = "request"
      <4>1. \/ host' = StartPost(host, doc, TRUE, "request", FALSE)
            \/ host' = EnsureInitial(host, doc)
        BY <1>2, <3>5 DEF ReceiveHost
      <4> QED
        BY <1>0, <4>1, PostingOwes, EnsureInitialOwes
    <3> QED
      BY <1>3, <1>5, <3>1, <3>2, <3>3, <3>4, <3>5 DEF ToHostTyped
  <2>3. OwedBy(host', doc', owed') /\ view'.gen = view.gen
    BY <1>1, <2>2 DEF webVars, commandVars
  <2> QED
    BY <1>3, <2>1, <2>3, MailOwes
<1> QED
  BY <1>4, <1>5

-----------------------------------------------------------------------------
(* The webview. *)

(* Only a projection it applies shows the webview something else. *)
LEMMA WebOwes ==
    ASSUME OwedInv, UNCHANGED <<doc, host, owed>>, view'.gen = view.gen,
           \A m \in Elements(toHost') : m.type = "reload" => m \in Elements(toHost),
           Elements(toView') \subseteq Elements(toView)
    PROVE  OwedInv'
<1>1. OwedBy(host', doc', owed')
  BY DEF OwedInv
<1> QED
  BY <1>1, MailOwes

LEMMA SettleSends ==
    ASSUME KeptInv, NEW left, NEW isBlocked, NEW failed, NEW v, NEW sent, IsSeq(sent),
           Settle(left, isBlocked, failed, v, sent)
    PROVE  /\ view' = v
           /\ \A m \in Elements(toHost') :
                m.type = "reload" => m \in Elements(toHost) \cup Elements(sent)
<1>1. PICK q : q = toHost \o sent
  OBVIOUS
<1>2. IsSeq(q) /\ Elements(q) \subseteq Elements(toHost) \cup Elements(sent)
  BY <1>1, ConcatFacts DEF KeptInv, MailTyped
<1>3. CASE toHost' = q
  BY <1>2, <1>3 DEF Settle
<1>4. CASE \E ok : toHost' = q \o <<BarrierReply(waiting.id, ok, v)>>
  <2>1. PICK ok : toHost' = q \o <<BarrierReply(waiting.id, ok, v)>>
    BY <1>4
  <2>2. PICK x : x = BarrierReply(waiting.id, ok, v)
    OBVIOUS
  <2>3. x.type = "barrier"
    BY <2>2 DEF BarrierReply
  <2>4. IsSeq(<<x>>) /\ Elements(<<x>>) = {x}
    BY SingleFacts
  <2>5. Elements(toHost') \subseteq Elements(q) \cup {x}
    BY <1>2, <2>1, <2>2, <2>4, ConcatFacts
  <2> QED
    BY <1>2, <2>3, <2>5 DEF Settle
<1> QED
  BY <1>1, <1>3, <1>4 DEF Settle

LEMMA BlockSends ==
    ASSUME KeptInv, BlockQueueAndReload
    PROVE  /\ view' = view
           /\ \A m \in Elements(toHost') : m.type = "reload" => m \in Elements(toHost)
<1>1. PICK x : x = [type |-> "request"]
  OBVIOUS
<1>2. IsSeq(<<x>>) /\ Elements(<<x>>) = {x} /\ x.type # "reload"
  BY <1>1, SingleFacts
<1>3. Settle(<<>>, TRUE, TRUE, view, <<x>>)
  BY <1>1 DEF BlockQueueAndReload
<1> QED
  BY <1>2, <1>3, SettleSends

LEMMA DispatchCommandOwes == ASSUME KeptInv, OwedInv, DispatchCommand PROVE OwedInv'
<1>1. UNCHANGED <<doc, host, owed, view, toView>>
  BY DEF DispatchCommand, historyVars
<1>2. PICK m : toHost' = Append(toHost, m) /\ m.type = "command"
  BY DEF DispatchCommand
<1>3. Elements(toHost') = Elements(toHost) \cup {m}
  BY <1>2, AppendFacts DEF KeptInv, MailTyped
<1> QED
  BY <1>1, <1>2, <1>3, WebOwes

LEMMA CommandTimesOutOwes == ASSUME KeptInv, OwedInv, CommandTimesOut PROVE OwedInv'
<1>1. UNCHANGED <<doc, host, owed, toView>>
  BY DEF CommandTimesOut, historyVars
<1> QED
  BY <1>1, BlockSends, WebOwes DEF CommandTimesOut

LEMMA EditRestOwes == ASSUME KeptInv, OwedInv, EditRest PROVE OwedInv'
<1>1. UNCHANGED <<doc, host, owed, view, toHost, toView>>
  BY DEF EditRest, historyVars, channelVars, commandVars
<1> QED
  BY <1>1, WebOwes

LEMMA SendSnapshotOwes == ASSUME KeptInv, OwedInv, SendSnapshot PROVE OwedInv'
<1>1. UNCHANGED <<doc, host, owed, view, toView>>
  BY DEF SendSnapshot, commandVars
<1>2. PICK m : m = [type |-> "snapshot", id |-> edits, gen |-> view.gen, state |-> State]
  OBVIOUS
<1>3. m.type # "reload" /\ (toHost' = toHost \/ toHost' = Append(toHost, m))
  BY <1>2 DEF SendSnapshot
<1>4. CASE toHost' = toHost
  BY <1>1, <1>4, WebOwes
<1>5. CASE toHost' = Append(toHost, m)
  <2>1. Elements(toHost') = Elements(toHost) \cup {m}
    BY <1>5, AppendFacts DEF KeptInv, MailTyped
  <2> QED
    BY <1>1, <1>3, <2>1, WebOwes
<1> QED
  BY <1>3, <1>4, <1>5

LEMMA ResultSends ==
    ASSUME KeptInv, NEW m, ReceiveResult(m)
    PROVE  /\ view'.gen = view.gen
           /\ \A x \in Elements(toHost') : x.type = "reload" => x \in Elements(toHost)
<1>1. PICK adopted : adopted = [view EXCEPT !.rev = m.rev, !.owned = m.owned]
  OBVIOUS
<1>2. adopted.gen = view.gen
  BY <1>1 DEF KeptInv, ViewTyped
<1>3. CASE UNCHANGED <<commandVars, toHost>>
  BY <1>3 DEF commandVars
<1>4. CASE \E left, isBlocked, failed : Settle(left, isBlocked, failed, adopted, <<>>)
  BY <1>2, <1>4, EmptyFacts, SettleSends
<1>5. CASE BlockQueueAndReload
  BY <1>5, BlockSends
<1> QED
  BY <1>1, <1>3, <1>4, <1>5 DEF ReceiveResult

(* The webview applies a projection: what that shows is owed no longer. *)
LEMMA DataOwes ==
    ASSUME KeptInv, OwedInv, NEW m \in Elements(toView), m.type = "data", ReceiveData(m),
           UNCHANGED <<doc, host>>, Elements(toView') \subseteq Elements(toView)
    PROVE  OwedInv'
<1>0. /\ OwedBy(host, doc, owed) /\ MailBehind(host.postGen)
      /\ \A p \in host.posts : PostOwes(host, p, owed)
      /\ IsSeq(toHost) /\ m.gen \in Nat /\ m.gen <= host.postGen
  BY OwedFacts DEF OwedBy, MailBehind, KeptInv, MailTyped
<1>1. PICK x : x = [type |-> "reload", gen |-> m.gen, applied |-> m.force \/ m.gen = view.gen]
  OBVIOUS
<1>2. IsSeq(<<x>>) /\ Elements(<<x>>) = {x}
  BY SingleFacts
<1>3. /\ owed' \subseteq owed /\ view'.gen = (IF m.force THEN m.gen ELSE view.gen)
      /\ m.force => owed' \cap Marks(m) = {}
      /\ \A y \in Elements(toHost') : y.type = "reload" => y \in Elements(toHost) \cup {x}
  <2>1. CASE ~m.force
    <3>1. toHost' = toHost \o <<x>> /\ UNCHANGED <<webVars, owed>>
      BY <1>1, <2>1 DEF ReceiveData
    <3>2. Elements(toHost') \subseteq Elements(toHost) \cup {x}
      BY <1>0, <1>2, <3>1, ConcatFacts
    <3> QED
      BY <2>1, <3>1, <3>2 DEF webVars, commandVars
  <2>2. CASE m.force
    <3>1. PICK v : v = [gen |-> m.gen, rev |-> m.rev, owned |-> m.owned]
      OBVIOUS
    <3>2. /\ Settle(<<>>, FALSE, pending # <<>>, v, <<[type |-> "reload", gen |-> m.gen, applied |-> TRUE]>>)
          /\ owed' = owed \ Marks(m)
      BY <2>2, <3>1 DEF ReceiveData
    <3>3. Settle(<<>>, FALSE, pending # <<>>, v, <<x>>)
      BY <1>1, <2>2, <3>2
    <3>4. /\ view' = v
          /\ \A y \in Elements(toHost') : y.type = "reload" => y \in Elements(toHost) \cup Elements(<<x>>)
      BY <1>2, <3>3, SettleSends
    <3> QED
      BY <1>2, <2>2, <3>1, <3>2, <3>4
  <2> QED
    BY <2>1, <2>2
<1>4. OwedBy(host, doc, owed')
  BY <1>0, <1>3, LessOwes
<1>5. ASSUME NEW p \in host.posts PROVE PostOwes(host, p, owed)'
  <2>1. PostOwes(host, p, owed) /\ host' = host
    BY <1>0
  <2>2. m.gen = p.gen => p.stage = "posted" /\ Marks(m) = Marks(p.text)
    BY <2>1 DEF PostOwes
  <2>3. Answered(p)' => Answered(p) \/ (m.force /\ m.gen = p.gen)
    <3>1. x.gen = m.gen /\ (x.applied => m.force \/ m.gen = view.gen)
      BY <1>1
    <3>2. view'.gen = p.gen => Answered(p) \/ (m.force /\ m.gen = p.gen)
      BY <1>3 DEF Answered
    <3>3. ASSUME NEW y \in Elements(toHost'), y.type = "reload", y.applied, y.gen = p.gen
          PROVE  Answered(p) \/ (m.force /\ m.gen = p.gen)
      <4>1. CASE y = x
        BY <3>1, <3>3, <4>1 DEF Answered
      <4>2. CASE y \in Elements(toHost)
        BY <3>3, <4>2 DEF Answered
      <4> QED
        BY <1>3, <3>3, <4>1, <4>2
    <3> QED
      BY <3>2, <3>3 DEF Answered
  <2>4. Answered(p)' => p.stage = "posted"
    BY <2>1, <2>2, <2>3 DEF PostOwes
  <2>5. p.token = host.authority.token /\ Answered(p)' => owed' \cap Marks(p.text) = {}
    BY <1>3, <2>1, <2>2, <2>3 DEF PostOwes
  <2> QED
    BY <2>1, <2>4, <2>5 DEF PostOwes, Marks
<1>6. MailBehind(host.postGen)'
  BY <1>0, <1>1, <1>3 DEF MailBehind
<1> QED
  BY <1>4, <1>5, <1>6
     DEF OwedInv, OwedBy, AuthorityOwes, QueueOwes, HeadOwes, LossOwes, SaveOwes, Marks

LEMMA ReceiveViewOwes == ASSUME KeptInv, OwedInv, ReceiveView PROVE OwedInv'
<1>1. UNCHANGED <<doc, host>> /\ toView # <<>> /\ toView' = Tail(toView)
  BY DEF ReceiveView
<1>2. PICK m : m = Head(toView)
  OBVIOUS
<1>3. m \in Elements(toView) /\ Elements(toView') \subseteq Elements(toView) /\ ToViewTyped(m)
  BY <1>1, <1>2, SeqFacts, TailFacts DEF KeptInv, MailTyped
<1>4. CASE m.type = "data"
  <2>1. ReceiveData(m)
    BY <1>2, <1>4 DEF ReceiveView
  <2> QED
    BY <1>1, <1>3, <1>4, <2>1, DataOwes
<1>5. CASE m.type # "data"
  <2>1. /\ owed' = owed /\ view'.gen = view.gen
        /\ \A x \in Elements(toHost') : x.type = "reload" => x \in Elements(toHost)
    <3>1. CASE m.type = "result"
      <4>1. ReceiveResult(m) /\ owed' = owed
        BY <1>2, <3>1 DEF ReceiveView
      <4> QED
        BY <4>1, ResultSends
    <3>2. CASE m.type = "barrier"
      <4>1. ReceiveBarrier(m) /\ owed' = owed
        BY <1>2, <3>2 DEF ReceiveView
      <4>2. view' = view /\ (toHost' = toHost \/ \E x : toHost' = Append(toHost, x) /\ x.type = "barrier")
        BY <4>1 DEF ReceiveBarrier, BarrierReply
      <4>3. ASSUME NEW x, toHost' = Append(toHost, x), x.type = "barrier"
            PROVE  \A y \in Elements(toHost') : y.type = "reload" => y \in Elements(toHost)
        BY <4>3, AppendFacts DEF KeptInv, MailTyped
      <4> QED
        BY <4>1, <4>2, <4>3
    <3>3. CASE m.type = "ack"
      BY <1>2, <3>3 DEF ReceiveView, commandVars
    <3>4. CASE m.type = "flush"
      <4>1. PICK x : x = [type |-> "flush", id |-> m.id, gen |-> view.gen, state |-> State]
        OBVIOUS
      <4>2. owed' = owed /\ view' = view /\ toHost' = Append(toHost, x)
        BY <1>2, <3>4, <4>1 DEF ReceiveView, commandVars
      <4>3. x.type = "flush"
        BY <4>1
      <4>4. Elements(toHost') = Elements(toHost) \cup {x}
        BY <4>2, AppendFacts DEF KeptInv, MailTyped
      <4> QED
        BY <4>2, <4>3, <4>4
    <3> QED
      BY <1>3, <1>5, <3>1, <3>2, <3>3, <3>4 DEF ToViewTyped
  <2> QED
    BY <1>1, <1>3, <2>1, WebOwes
<1> QED
  BY <1>4, <1>5

-----------------------------------------------------------------------------
(* An edit made elsewhere, the initial state and the theorem. *)

(* The edit is made a new authority, unless it is the panel's own, the      *)
(* authority's text already or a part of the webview's first projection.    *)
LEMMA ExternalEditOwes ==
    ASSUME KeptInv, OwedInv, NEW text \in ExternalTexts, ExternalEdit(text)
    PROVE  OwedInv'
<1>0. /\ HostHolds(host, Live) /\ OwedBy(host, doc, owed) /\ Holds(doc, Live) /\ text \in Texts
  BY HostFacts, OwedFacts, ExternalText
<1>1. /\ UNCHANGED <<view, toHost, toView, kept>> /\ doc' = text
      /\ host' = Changed(Outdate(host), text) /\ owed' = Owes(text)
      /\ replaced' = replaced \cup (Elements(doc.owned.cmds) \ Elements(text.owned.cmds))
  BY DEF ExternalEdit, webVars, commandVars, channelVars
<1>2. PICK L : L = Live'
  OBVIOUS
<1>3. L \subseteq Live /\ Holds(text, L)
  BY <1>0, <1>1, <1>2 DEF Live, Told, Holds
<1>4. HostHolds(host, L)
  BY <1>0, <1>3, Less
<1>5. PICK P : P = Owes(text)
  OBVIOUS
<1>6. P \subseteq Marks(text)
  BY <1>5 DEF Owes
<1>7. host.queue # <<>> /\ host.queue[1].kind = "snapshot"
          /\ host.queue[1].stage \in {"restoring", "restored"} /\ text = host.queue[1].want =>
          P \subseteq Marks(host.queue[1].to)
  BY <1>5 DEF Owes, RolledBack, Running, Job
<1>8. PICK g : g = Outdate(host)
  OBVIOUS
<1>9. /\ Unfenced(g, text, P) /\ g.authority = host.authority /\ g.expected = host.expected
      /\ g.initialized = host.initialized /\ (P \subseteq owed => OwedBy(g, text, P))
      /\ HostHolds(g, L)
  BY <1>0, <1>4, <1>6, <1>7, <1>8, OutdateOwes, OutdateHolds
<1>10. OwedBy(Changed(g, text), text, P)
  <2>1. CASE BagIn(text, host.expected) \/ ~host.initialized \/ text = host.authority.text
    <3>1. P \subseteq owed
      BY <1>5, <2>1 DEF Owes
    <3> QED
      BY <1>0, <1>3, <1>9, <3>1, ChangedOwes
  <2>2. CASE ~(BagIn(text, host.expected) \/ ~host.initialized \/ text = host.authority.text)
    <3>1. Changed(g, text) = StartPost(g, text, TRUE, "change", FALSE)
      BY <1>9, <2>2 DEF Changed, Reload
    <3>2. OwedBy(Fence(g, text), text, P)
      BY <1>0, <1>9, <2>2, NewAuthorityOwes
    <3>3. OwedBy(StartPost(g, text, TRUE, "change", FALSE), text, P)
      BY <1>0, <1>3, <1>9, <3>2, StartPostOwes
    <3> QED
      BY <3>1, <3>3
  <2> QED
    BY <2>1, <2>2
<1>11. OwedBy(host', doc', owed')
  BY <1>1, <1>5, <1>8, <1>10
<1> QED
  BY <1>1, <1>11, MailOwes

LEMMA InitOwes == ASSUME Init PROVE OwedInv
<1>1. /\ owed = {} /\ host.posts = {} /\ host.queue = <<>> /\ host.postGen = 1
      /\ host.save = NoSave /\ view.gen = 1 /\ toHost = <<>> /\ toView = <<>>
  BY DEF Init
<1>2. DOMAIN host.queue = {}
  BY <1>1
<1>3. MailBehind(host.postGen)
  BY <1>1, EmptyFacts DEF MailBehind
<1> QED
  BY <1>1, <1>2, <1>3 DEF OwedInv, OwedBy, AuthorityOwes, QueueOwes, SaveOwes, NoSave

LEMMA StutterOwes == ASSUME OwedInv, UNCHANGED vars PROVE OwedInv'
<1>1. UNCHANGED <<doc, host, owed, view, toHost, toView>>
  BY DEF vars, channelVars, historyVars, webVars, commandVars
<1> QED
  BY <1>1, WebOwes

LEMMA NextOwes == ASSUME KeptInv, OwedInv, Next PROVE OwedInv'
BY ReceiveViewOwes, ReceiveHostOwes, SendSnapshotOwes, PostOwesShown, RunCommandOwes,
   RunSnapshotOwes, PrepareSnapshotOwes, ApplyOwes, ResumeCommandOwes, ResumeSnapshotOwes,
   ApplyRollbackOwes, ResumeCommandRollbackOwes, ResumeSnapshotRollbackOwes, SaveDrainedOwes,
   StoreDocumentOwes, DidSaveOwes, LeaseTimesOutOwes, CommandTimesOutOwes, BarrierTimesOutOwes,
   FinalSnapshotTimesOutOwes, ReloadTimesOutOwes, DispatchCommandOwes, EditRestOwes,
   WillSaveOwes, ExternalEditOwes
   DEF Next, Work, Timers

(* A step either leaves the document as it is or shows nothing, unless it   *)
(* is an edit made elsewhere.                                               *)
LEMMA ShowsOrWrites ==
    ASSUME KeptInv, Next, externals' = externals
    PROVE  doc' = doc \/ owed' = owed
<1>1. ASSUME NEW text, ExternalEdit(text) PROVE FALSE
  BY <1>1 DEF ExternalEdit, KeptInv, ViewTyped
<1>2. CASE \E text \in ExternalTexts : ExternalEdit(text)
  BY <1>1, <1>2
<1>3. CASE Timers
  BY <1>3 DEF Timers, CommandTimesOut, BarrierTimesOut, FinalSnapshotTimesOut, ReloadTimesOut
<1>4. CASE DispatchCommand \/ EditRest \/ WillSave
  BY <1>4 DEF DispatchCommand, EditRest, WillSave
<1>5. CASE Work
  <2>1. CASE ReceiveView \/ ReceiveHost \/ SendSnapshot \/ \E p \in host.posts : Post(p)
    BY <2>1 DEF ReceiveView, ReceiveHost, SendSnapshot, Post
  <2>2. CASE RunCommand \/ RunSnapshot \/ PrepareSnapshot \/ Apply
    BY <2>2 DEF RunCommand, RunSnapshot, PrepareSnapshot, Apply, JobSide, historyVars
  <2>3. CASE \/ ResumeCommand \/ ResumeSnapshot \/ ApplyRollback
             \/ ResumeCommandRollback \/ ResumeSnapshotRollback
    BY <2>3 DEF ResumeCommand, ResumeSnapshot, ApplyRollback, ResumeCommandRollback,
       ResumeSnapshotRollback, JobSide, historyVars
  <2>4. CASE SaveDrained \/ StoreDocument \/ DidSave \/ LeaseTimesOut
    BY <2>4 DEF SaveDrained, StoreDocument, DidSave, LeaseTimesOut, SaveSide, historyVars
  <2> QED
    BY <1>5, <2>1, <2>2, <2>3, <2>4 DEF Work
<1> QED
  BY <1>2, <1>3, <1>4, <1>5 DEF Next

(* What another editor wrote is shown in the webview before a command, a   *)
(* snapshot, a rollback or a save of this panel replaces it, but for what  *)
(* the comment of OutsideIsShown leaves out.                               *)
THEOREM OutsideStaysUntilShown == Spec => OutsideIsShown
<1>1. Init => KeptInv /\ OwedInv
  BY InitKept, InitOwes
<1>2. KeptInv /\ OwedInv /\ [Next]_vars => KeptInv' /\ OwedInv'
  BY NextKeeps, StutterKeeps, NextOwes, StutterOwes
<1>3. KeptInv /\ OwedInv /\ [Next]_vars =>
        [externals' = externals => (Marks(doc) \ Marks(doc')) \cap owed = {}]_vars
  <2> SUFFICES ASSUME KeptInv, OwedInv, Next, externals' = externals
               PROVE  (Marks(doc) \ Marks(doc')) \cap owed = {}
    OBVIOUS
  <2>1. CASE doc' = doc
    BY <2>1
  <2>2. CASE owed' = owed
    <3>1. owed \subseteq Marks(doc')
      BY <2>2, NextOwes DEF OwedInv, OwedBy, Marks
    <3> QED
      BY <3>1
  <2> QED
    BY <2>1, <2>2, ShowsOrWrites
<1> QED
  BY <1>1, <1>2, <1>3, PTL DEF Spec, OutsideIsShown
=============================================================================
