--------------------------- MODULE AgreementProofs ---------------------------
(***************************************************************************)
(* While client commands come in the first view only.  For every number of *)
(* replicas: all that is committed is on one chain, the only exception is  *)
(* for shares that do not reconstruct, a view is left with its proposal    *)
(* and its certificate, and OptRandCore implements BeaconChain.  For two   *)
(* replicas: no share is counted twice, nor sent before its block is       *)
(* committed, b_exec is the highest block committed, and nothing throws.   *)
(*                                                                         *)
(* From three replicas on CommitInv is inductive, as reconstruct() fails   *)
(* on two equal shares.  With two replicas one share makes the beacon and  *)
(* a repeated one would go unnoticed, so it takes the reason why there is  *)
(* none: each replica needs the other's vote, ack and share, a block has   *)
(* its acks exactly when the replica's own share is there (Matched), and   *)
(* that is before the view is left (Half).  PairInv says so, and is kept   *)
(* by every function, most of them because they touch none of this         *)
(* (Aside).                                                                *)
(***************************************************************************)
EXTENDS CommitProofs

-----------------------------------------------------------------------------
(* Two replicas.  Each needs the other's vote, ack and share.              *)

Origins(s, v) == {s.view_shares[v][i] : i \in DOMAIN s.view_shares[v]}
Different(shares) == \A i, j \in DOMAIN shares : i # j => shares[i] # shares[j]
Full(s, b) == Cardinality(s.acked[b]) >= NResponsive

\* Acks and shares of r are about a proposed block; a share about the block of its
\* view, which r has committed.
Meant(r, s, m) ==
  /\ m.type = "ack" => m.blk.view >= 1
  /\ m.type = "share" => /\ m.from = r /\ m.to # r
                         /\ m.blk \in s.decided /\ m.blk.view = m.view

\* All but the acks of the view's block.
Half(r, s) ==
  /\ \A b \in Block : s.acked[b] # {} => b \in Known /\ b.view >= 1
  /\ \A b \in Known : 1 <= b.view /\ b.view < s.view => Full(s, b)
  /\ \A v \in View : r \in Origins(s, v) => \E b \in Known : b.view = v
  /\ \A v \in View : Different(s.view_shares[v])
  /\ \A v \in View : \A q \in Origins(s, v) :
       q # r => \E m \in s.handled \cap Sent("share") :
                  m.from = q /\ m.to = r /\ m.view = v
  /\ \A b \in Certs(s.todo) : b.view >= 1
  /\ \A c \in s.decided : c.height <= s.b_exec.height
  /\ \A m \in s.out : Meant(r, s, m)

\* The replica's own share of a view's beacon is there when the block has its acks.
Matched(r, s) ==
  \A b \in Known : b.view >= 1 => (Full(s, b) <=> r \in Origins(s, b.view))

Paired(r, s) == Half(r, s) /\ Matched(r, s)

\* No ack, no share, no commit.
Voices(ms) == {m \in ms : m.type \in {"ack", "share"}}

Aside(s, t) ==
  /\ t \in ReplicaState /\ t.view = s.view /\ t.acked = s.acked
  /\ t.view_shares = s.view_shares /\ t.handled = s.handled
  /\ t.decided = s.decided /\ t.b_exec = s.b_exec
  /\ Certs(t.todo) \subseteq Certs(s.todo)
  /\ Voices(t.out) \subseteq Voices(s.out)

LEMMA AsideTransitive ==
  ASSUME NEW s, NEW t, NEW u, Aside(s, t), Aside(t, u)
  PROVE  Aside(s, u)
BY DEF Aside

LEMMA AsideReflexive ==
  ASSUME NEW s \in ReplicaState
  PROVE  Aside(s, s)
BY DEF Aside

LEMMA AsidePaired ==
  ASSUME NEW r, NEW s, NEW t, Aside(s, t), Paired(r, s)
  PROVE  Paired(r, t)
<1>1. \A v : Origins(t, v) = Origins(s, v)
  BY DEF Aside, Origins
<1>2. \A b : Full(t, b) <=> Full(s, b)
  BY DEF Aside, Full
<1>3. \A m \in t.out : Meant(r, t, m)
  <2> SUFFICES ASSUME NEW m \in t.out, m.type \in {"ack", "share"}
               PROVE  Meant(r, t, m)
    BY DEF Meant
  <2>1. m \in s.out
    BY DEF Aside, Voices
  <2> QED  BY <2>1 DEF Paired, Half, Meant, Aside
<1>4. \A b \in Certs(t.todo) : b.view >= 1
  BY DEF Paired, Half, Aside
<1>5. /\ t.view = s.view /\ t.acked = s.acked /\ t.view_shares = s.view_shares
      /\ t.handled = s.handled /\ t.decided = s.decided /\ t.b_exec = s.b_exec
  BY DEF Aside
<1>6. Half(r, t)
  BY <1>1, <1>2, <1>3, <1>4, <1>5 DEF Paired, Half
<1>7. Matched(r, t)
  BY <1>1, <1>2 DEF Paired, Matched
<1> QED  BY <1>6, <1>7 DEF Paired

LEMMA SendAside ==
  ASSUME NEW s \in ReplicaState, NEW ms \in SUBSET Message, Voices(ms) = {}
  PROVE  Aside(s, Send(s, ms))
<1> DEFINE t == Send(s, ms)
<1>1. /\ t \in ReplicaState /\ t.view = s.view /\ t.acked = s.acked
      /\ t.view_shares = s.view_shares /\ t.handled = s.handled
      /\ t.decided = s.decided /\ t.b_exec = s.b_exec /\ t.todo = s.todo
      /\ t.out = s.out \cup ms
  BY DEF Send, ReplicaState
<1> HIDE DEF t
<1>2. Voices(t.out) \subseteq Voices(s.out)
  BY <1>1 DEF Voices
<1> QED  BY <1>1, <1>2 DEF Aside, t

LEMMA PushAside ==
  ASSUME NEW s \in ReplicaState, NEW f \in Frame, f.at # "view_qc"
  PROVE  Aside(s, Push(s, f))
<1> DEFINE t == Push(s, f)
<1>1. t \in ReplicaState
  BY PushMoves DEF Moves
<1>2. /\ t.view = s.view /\ t.acked = s.acked
      /\ t.view_shares = s.view_shares /\ t.handled = s.handled
      /\ t.decided = s.decided /\ t.b_exec = s.b_exec /\ t.todo = <<f>> \o s.todo
      /\ t.out = s.out /\ s.todo \in Seq(Frame)
  BY DEF Push, ReplicaState
<1> HIDE DEF t
<1>3. Certs(t.todo) \subseteq Certs(s.todo)
  BY <1>2, CertsPush
<1> QED  BY <1>1, <1>2, <1>3 DEF Aside, t

LEMMA PoppedAside ==
  ASSUME NEW s \in ReplicaState, s.todo # <<>>
  PROVE  Aside(s, Popped(s))
<1> DEFINE t == Popped(s)
<1>1. t \in ReplicaState
  BY PoppedFollows DEF Follows
<1>2. /\ t.view = s.view /\ t.acked = s.acked
      /\ t.view_shares = s.view_shares /\ t.handled = s.handled
      /\ t.decided = s.decided /\ t.b_exec = s.b_exec /\ t.todo = Tail(s.todo)
      /\ t.out = s.out /\ s.todo \in Seq(Frame)
  BY DEF Popped, ReplicaState
<1> HIDE DEF t
<1>3. Certs(t.todo) \subseteq Certs(s.todo)
  BY <1>2, CertsTail
<1> QED  BY <1>1, <1>2, <1>3 DEF Aside, t

LEMMA UpdateHqcAside ==
  ASSUME NEW s \in ReplicaState, NEW b \in Block
  PROVE  Aside(s, UpdateHqc(s, b))
<1> DEFINE t == UpdateHqc(s, b)
<1>1. t \in ReplicaState
  BY UpdateHqcLeads DEF Leads, Moves
<1>2. /\ t.view = s.view /\ t.acked = s.acked
      /\ t.view_shares = s.view_shares /\ t.handled = s.handled
      /\ t.decided = s.decided /\ t.b_exec = s.b_exec /\ t.todo = s.todo
      /\ t.out = s.out
  BY DEF UpdateHqc, ReplicaState
<1> HIDE DEF t
<1> QED  BY <1>1, <1>2 DEF Aside, t

-----------------------------------------------------------------------------
(* Shares and acks.                                                        *)

LEMMA PairSizes ==
  ASSUME NReplicas = 2
  PROVE  /\ NFaulty = 0 /\ NMajority = 2 /\ NResponsive = 2 /\ Replica = {0, 1}
BY DEF NFaulty, NMajority, NResponsive, Replica

LEMMA PairReconstructs ==
  ASSUME NReplicas = 2, NEW shares
  PROVE  Reconstructs(shares)
BY PairSizes DEF Reconstructs

\* A certified block's view has been reached by both.
LEMMA PairReady ==
  ASSUME NReplicas = 2, TypeOK, ChainInv, NEW b \in Ready, NEW r \in Replica
  PROVE  b.view <= st[r].view
<1> DEFINE S == {q \in Replica : st[q].view >= b.view}
<1>1. Cardinality(S) >= NResponsive
  BY DEF Ready, Attended
<1>2. S \subseteq Replica
  OBVIOUS
<1> HIDE DEF S
<1>3. S = Replica
  <2>1. Cardinality(S) <= Cardinality(Replica) /\ Cardinality(S) \in Nat
    BY <1>2, ReplicaFinite, FS_Subset, FS_CardinalityType
  <2>2. Cardinality(S) = Cardinality(Replica)
    BY <1>1, <2>1, ReplicaFinite, PairSizes
  <2> QED  BY <1>2, <2>2, ReplicaFinite, FS_Subset
<1> QED
  <2>1. st[r].view >= b.view
    BY <1>3 DEF S
  <2>2. st[r].view \in Nat /\ b.view \in Nat
    BY BlocksInLine, ViewNat DEF TypeOK, ReplicaState, Ready
  <2> QED  BY <2>1, <2>2

LEMMA TryEnterViewPaired ==
  ASSUME NReplicas = 2, TypeOK, ChainInv, NEW r \in Replica, NEW s \in ReplicaState,
         Paired(r, s),
         s.last_view_shares_received = s.view \/ s.last_view_beacon_received = s.view
           => Len(s.view_shares[s.view]) >= NMajority
  PROVE  Paired(r, TryEnterView(s))
<1> DEFINE c == [s EXCEPT !.view = @ + 1]
           p == GetProposer(s.view + 1)
           w == [c EXCEPT !.pm_proposer = p]
           f == [at |-> "enter_view", view |-> s.view + 1, blk |-> Genesis,
                 vote |-> FALSE, proposer |-> p]
<1> USE DEF Origins
<1>1. s.view \in View /\ s.view \in Nat
  BY ViewNat DEF ReplicaState
<1>2. CASE TryEnterView(s) = s
  BY <1>2
<1>3. CASE TryEnterView(s) # s
  <2>1. /\ s.last_view_cert_received = s.view
        /\ Len(s.view_shares[s.view]) >= 2
        /\ TryEnterView(s) = Push(w, f)
    BY <1>3, PairSizes DEF TryEnterView, EnterView
  <2>2. s.view + 1 \in View /\ p \in Replica
    <3>1. s.view \in 0 .. MaxView
      BY <2>1 DEF ReplicaState
    <3>2. s.view + 1 \in View
      BY <3>1, BoundsAssumption, NReplicasAssumption DEF View
    <3> QED  BY <1>1, <3>2, ProposerType
  <2>3. f \in Frame /\ f.at = "enter_view"
    BY <2>2, GenesisType DEF Frame
  <2> HIDE DEF p
  <2>4. /\ w \in ReplicaState /\ w.view = s.view + 1 /\ w.acked = s.acked
        /\ w.view_shares = s.view_shares /\ w.handled = s.handled
        /\ w.decided = s.decided /\ w.b_exec = s.b_exec /\ w.todo = s.todo
        /\ w.out = s.out
    BY <1>1, <2>2 DEF ReplicaState
  <2> HIDE DEF w, f
  <2>5. \A b : Full(w, b) <=> Full(s, b)
    BY <2>4 DEF Full
  <2>6. r \in Origins(s, s.view)
    <3> DEFINE shares == s.view_shares[s.view]
    <3>1. shares \in Seq(Replica) /\ Different(shares)
      BY <1>1 DEF ReplicaState, Paired, Half
    <3> HIDE DEF shares
    <3>2. /\ 1 \in DOMAIN shares /\ 2 \in DOMAIN shares
          /\ shares[1] \in Replica /\ shares[2] \in Replica
      <4>1. Len(shares) \in Nat /\ Len(shares) >= 2
        BY <2>1, <3>1 DEF shares
      <4> QED  BY <3>1, <4>1
    <3>3. shares[1] # shares[2]
      BY <3>1, <3>2 DEF Different
    <3>4. r = shares[1] \/ r = shares[2]
      BY <3>2, <3>3, PairSizes
    <3> QED  BY <3>2, <3>4 DEF shares
  <2>7. ASSUME NEW b \in Known, 1 <= b.view, b.view < w.view PROVE Full(w, b)
    <3>1. b.view \in Nat
      BY BlocksInLine
    <3>2. CASE b.view < s.view
      BY <2>5, <2>7, <3>2 DEF Paired, Half
    <3>3. CASE b.view = s.view
      BY <2>5, <2>6, <2>7, <3>3 DEF Paired, Matched
    <3> QED  BY <1>1, <2>4, <2>7, <3>1, <3>2, <3>3
  <2>8. Half(r, w)
    BY <2>4, <2>7 DEF Paired, Half, Meant
  <2>9. Matched(r, w)
    BY <2>4, <2>5 DEF Paired, Matched
  <2>10. Aside(w, Push(w, f))
    BY <2>3, <2>4, PushAside
  <2> QED  BY <2>1, <2>8, <2>9, <2>10, AsidePaired DEF Paired
<1> QED  BY <1>2, <1>3

\* on_receive_share appends the share's origin.
Appended(s, origin) == [s EXCEPT !.view_shares[s.view] = Append(@, origin)]

LEMMA AppendedPaired ==
  ASSUME NReplicas = 2, TypeOK, ChainInv, NEW r \in Replica, NEW s \in ReplicaState,
         NEW origin \in Replica, Len(s.view_shares[s.view]) < NMajority,
         Paired(r, Appended(s, origin))
  PROVE  Paired(r, OnReceiveShare(s, r, origin, s.view))
<1> DEFINE t == Appended(s, origin)
           v == s.view
           beacon == [type |-> "beacon", from |-> r, view |-> t.view]
           sent == Send(t, {beacon})
           u == [sent EXCEPT !.last_view_shares_received = t.view,
                             !.last_view_beacon_received = t.view]
<1>1. v \in View /\ v \in Nat /\ s.view_shares[v] \in Seq(Replica)
  BY ViewNat DEF ReplicaState
<1>2. Len(s.view_shares[v]) \in Nat
  BY <1>1
<1>3. \/ OnReceiveShare(s, r, origin, v) = t
      \/ /\ Len(t.view_shares[v]) = NMajority
         /\ OnReceiveShare(s, r, origin, v) = TryEnterView(u)
  <2>1. ~ (v < s.view \/ Len(s.view_shares[v]) >= NMajority)
    BY <1>1, <1>2, PairSizes
  <2>2. Reconstructs(t.view_shares[v])
    BY PairReconstructs
  <2> QED  BY <2>1, <2>2 DEF OnReceiveShare, Appended
<1>4. t \in ReplicaState /\ t.view = v
  <2>1. Append(s.view_shares[v], origin) \in Seq(Replica)
    BY <1>1
  <2>2. [s.view_shares EXCEPT ![v] = Append(@, origin)] \in [View -> Seq(Replica)]
    BY <1>1, <2>1 DEF ReplicaState
  <2> QED  BY <2>2 DEF ReplicaState, Appended
<1> HIDE DEF t
<1>5. CASE OnReceiveShare(s, r, origin, v) = t
  BY <1>5 DEF t
<1>6. CASE /\ Len(t.view_shares[v]) = NMajority
           /\ OnReceiveShare(s, r, origin, v) = TryEnterView(u)
  <2>1. {beacon} \in SUBSET Message /\ Voices({beacon}) = {}
    BY <1>1, <1>4 DEF Message, Beacons, Voices
  <2> HIDE DEF beacon
  <2>2. Aside(t, sent) /\ sent \in ReplicaState
    BY <1>4, <2>1, SendAside DEF Aside
  <2> HIDE DEF sent
  <2>3. /\ u \in ReplicaState /\ u.view = sent.view /\ u.acked = sent.acked
        /\ u.view_shares = sent.view_shares /\ u.handled = sent.handled
        /\ u.decided = sent.decided /\ u.b_exec = sent.b_exec /\ u.todo = sent.todo
        /\ u.out = sent.out
    BY <1>1, <1>4, <2>2 DEF ReplicaState
  <2> HIDE DEF u
  <2>4. Aside(sent, u)
    BY <2>3 DEF Aside
  <2>5. Paired(r, u)
    BY <2>2, <2>4, AsidePaired DEF t
  <2>6. Len(u.view_shares[u.view]) >= NMajority
    <3>1. u.view_shares = t.view_shares /\ u.view = v
      BY <1>4, <2>2, <2>3 DEF Aside
    <3>2. Len(t.view_shares[v]) = 2
      BY <1>6, PairSizes
    <3> QED  BY <3>1, <3>2, PairSizes
  <2> QED  BY <1>6, <2>3, <2>5, <2>6, TryEnterViewPaired
<1> QED  BY <1>3, <1>5, <1>6

\* What an appended share changes.
LEMMA AppendedOrigins ==
  ASSUME NEW s \in ReplicaState, NEW origin \in Replica
  PROVE  LET t == Appended(s, origin)
         IN /\ t.view = s.view /\ t.acked = s.acked /\ t.handled = s.handled
            /\ t.decided = s.decided /\ t.b_exec = s.b_exec /\ t.todo = s.todo
            /\ t.out = s.out
            /\ Origins(t, s.view) = Origins(s, s.view) \cup {origin}
            /\ \A v \in View : v # s.view => /\ Origins(t, v) = Origins(s, v)
                                             /\ t.view_shares[v] = s.view_shares[v]
            /\ \A b : Full(t, b) <=> Full(s, b)
            /\ Different(s.view_shares[s.view]) /\ origin \notin Origins(s, s.view)
                 => Different(t.view_shares[s.view])
<1> DEFINE t == Appended(s, origin)
           old == s.view_shares[s.view]
           new == t.view_shares[s.view]
<1>1. s.view \in View /\ old \in Seq(Replica)
  BY DEF ReplicaState
<1>2. /\ t.view = s.view /\ t.acked = s.acked /\ t.handled = s.handled
      /\ t.decided = s.decided /\ t.b_exec = s.b_exec /\ t.todo = s.todo
      /\ t.out = s.out
      /\ new = Append(old, origin)
      /\ \A v \in View : v # s.view => t.view_shares[v] = s.view_shares[v]
  BY <1>1 DEF ReplicaState, Appended
<1> HIDE DEF t, old, new
<1>3. /\ DOMAIN new = DOMAIN old \cup {Len(old) + 1} /\ new[Len(old) + 1] = origin
      /\ \A i \in DOMAIN old : new[i] = old[i] /\ i # Len(old) + 1
  BY <1>1, <1>2
<1>4. Origins(t, s.view) = Origins(s, s.view) \cup {origin}
  BY <1>3 DEF Origins, old, new
<1>5. ASSUME Different(old), origin \notin Origins(s, s.view)
      PROVE  Different(new)
  <2>1. \A i \in DOMAIN old : old[i] # origin
    BY <1>5 DEF Origins, old
  <2> QED  BY <1>3, <1>5, <2>1 DEF Different
<1>6. \A b : Full(t, b) <=> Full(s, b)
  BY <1>2 DEF Full
<1>7. \A v \in View : v # s.view => Origins(t, v) = Origins(s, v)
  BY <1>2 DEF Origins
<1> QED  BY <1>2, <1>4, <1>5, <1>6, <1>7 DEF t, old, new

\* A share of the other replica's that is not there yet.
LEMMA ForeignSharePaired ==
  ASSUME NReplicas = 2, TypeOK, ChainInv, NEW r \in Replica, NEW s \in ReplicaState,
         Paired(r, s), NEW origin \in Replica, origin # r,
         NEW v \in View, v <= s.view, origin \notin Origins(s, v),
         \E m \in s.handled \cap Sent("share") :
           m.from = origin /\ m.to = r /\ m.view = v
  PROVE  Paired(r, OnReceiveShare(s, r, origin, v))
<1> DEFINE t == Appended(s, origin)
<1>1. s.view \in View /\ s.view \in Nat /\ v \in Nat
  BY ViewNat DEF ReplicaState
<1>2. CASE OnReceiveShare(s, r, origin, v) = s
  BY <1>2
<1>3. CASE OnReceiveShare(s, r, origin, v) # s
  <2>1. v = s.view /\ Len(s.view_shares[v]) < NMajority
    <3>1. v >= s.view /\ ~ (Len(s.view_shares[v]) >= NMajority)
      BY <1>1, <1>3 DEF OnReceiveShare
    <3>2. Len(s.view_shares[v]) \in Nat
      BY <1>1 DEF ReplicaState
    <3> QED  BY <1>1, <3>1, <3>2, PairSizes
  <2>2. /\ t.view = s.view /\ t.acked = s.acked /\ t.handled = s.handled
        /\ t.decided = s.decided /\ t.b_exec = s.b_exec /\ t.todo = s.todo
        /\ t.out = s.out
        /\ Origins(t, s.view) = Origins(s, s.view) \cup {origin}
        /\ \A w \in View : w # s.view => /\ Origins(t, w) = Origins(s, w)
                                         /\ t.view_shares[w] = s.view_shares[w]
        /\ \A b : Full(t, b) <=> Full(s, b)
        /\ Different(s.view_shares[s.view]) /\ origin \notin Origins(s, s.view)
             => Different(t.view_shares[s.view])
    BY AppendedOrigins
  <2> HIDE DEF t
  <2>3. \A w \in View : r \in Origins(t, w) <=> r \in Origins(s, w)
    BY <2>2
  <2>4. \A w \in View : Different(t.view_shares[w])
    BY <1>1, <2>1, <2>2 DEF Paired, Half
  <2>5. ASSUME NEW w \in View, NEW q \in Origins(t, w), q # r
        PROVE  \E m \in t.handled \cap Sent("share") : m.from = q /\ m.to = r /\ m.view = w
    <3>1. CASE q \in Origins(s, w)
      BY <2>2, <2>5, <3>1 DEF Paired, Half
    <3>2. CASE q \notin Origins(s, w)
      BY <2>1, <2>2, <2>5, <3>2
    <3> QED  BY <3>1, <3>2
  <2>6. Half(r, t)
    BY <2>2, <2>3, <2>4, <2>5 DEF Paired, Half, Meant
  <2>7. Matched(r, t)
    <3>1. \A b \in Known : b.view \in View
      BY BlocksInLine, ViewNat DEF Block
    <3> QED  BY <2>2, <2>3, <3>1 DEF Paired, Matched
  <2>8. Paired(r, t)
    BY <2>6, <2>7 DEF Paired
  <2> QED  BY <2>1, <2>8, AppendedPaired DEF t
<1> QED  BY <1>2, <1>3

LEMMA SendPaired ==
  ASSUME NEW r, NEW s \in ReplicaState, NEW ms \in SUBSET Message, Paired(r, s),
         \A m \in ms : Meant(r, s, m)
  PROVE  Paired(r, Send(s, ms))
<1> DEFINE t == Send(s, ms)
<1>1. /\ t \in ReplicaState /\ t.view = s.view /\ t.acked = s.acked
      /\ t.view_shares = s.view_shares /\ t.handled = s.handled
      /\ t.decided = s.decided /\ t.b_exec = s.b_exec /\ t.todo = s.todo
      /\ t.out = s.out \cup ms
  BY DEF Send, ReplicaState
<1> HIDE DEF t
<1>2. \A m \in t.out : Meant(r, t, m)
  BY <1>1 DEF Paired, Half, Meant
<1>3. (\A v : Origins(t, v) = Origins(s, v)) /\ (\A b : Full(t, b) <=> Full(s, b))
  BY <1>1 DEF Origins, Full
<1>4. Half(r, t)
  BY <1>1, <1>2, <1>3 DEF Paired, Half
<1>5. Matched(r, t)
  BY <1>3 DEF Paired, Matched
<1> QED  BY <1>4, <1>5 DEF Paired, t

\* The block of the view has just got its acks.
Unshared(r, s, b) ==
  /\ Half(r, s) /\ b \in Known /\ b.view >= 1 /\ b.view = s.view
  /\ b \in s.decided /\ Full(s, b) /\ r \notin Origins(s, s.view)
  /\ \A c \in Known : c.view >= 1 /\ c # b => (Full(s, c) <=> r \in Origins(s, c.view))

LEMMA BroadcastSharePaired ==
  ASSUME NReplicas = 2, TypeOK, ChainInv, NEW r \in Replica, NEW s \in ReplicaState,
         Fit(r, s), NEW b \in Known, Unshared(r, s, b)
  PROVE  Paired(r, BroadcastShare(s, r, b))
<1> DEFINE a == Appended(s, r)
           t == OnReceiveShare(s, r, r, s.view)
           shares == {[type |-> "share", from |-> r, to |-> q,
                       view |-> s.view, blk |-> b] : q \in Replica \ {r}}
<1>1. s.view \in View /\ s.view \in Nat /\ b \in Block /\ b.view = s.view
  BY BlocksInLine, ViewNat DEF ReplicaState, Unshared
<1>2. Len(s.view_shares[s.view]) < NMajority
  <2> DEFINE old == s.view_shares[s.view]
  <2>1. old \in Seq(Replica) /\ Different(old)
    BY <1>1 DEF ReplicaState, Unshared, Half
  <2>2. \A i \in DOMAIN old : old[i] # r
    BY DEF Unshared, Origins
  <2> HIDE DEF old
  <2>3. ASSUME Len(old) >= 2 PROVE FALSE
    <3>1. 1 \in DOMAIN old /\ 2 \in DOMAIN old /\ old[1] \in Replica /\ old[2] \in Replica
      BY <2>1, <2>3
    <3>2. old[1] # old[2] /\ old[1] # r /\ old[2] # r
      BY <2>1, <2>2, <3>1 DEF Different
    <3> QED  BY <3>1, <3>2, PairSizes
  <2>4. Len(old) \in Nat
    BY <2>1
  <2> QED  BY <2>3, <2>4, PairSizes DEF old
<1>3. /\ a.view = s.view /\ a.acked = s.acked /\ a.handled = s.handled
      /\ a.decided = s.decided /\ a.b_exec = s.b_exec /\ a.todo = s.todo
      /\ a.out = s.out
      /\ Origins(a, s.view) = Origins(s, s.view) \cup {r}
      /\ \A w \in View : w # s.view => /\ Origins(a, w) = Origins(s, w)
                                       /\ a.view_shares[w] = s.view_shares[w]
      /\ \A c : Full(a, c) <=> Full(s, c)
      /\ Different(s.view_shares[s.view]) /\ r \notin Origins(s, s.view)
           => Different(a.view_shares[s.view])
  BY AppendedOrigins
<1> HIDE DEF a
<1>4. Half(r, a)
  <2>1. \A w \in View : Different(a.view_shares[w])
    BY <1>1, <1>3 DEF Unshared, Half
  <2>2. \A w \in View : r \in Origins(a, w) => \E c \in Known : c.view = w
    BY <1>1, <1>3 DEF Unshared, Half
  <2>3. \A w \in View : \A q \in Origins(a, w) : q # r => q \in Origins(s, w)
    BY <1>3
  <2> QED  BY <1>3, <2>1, <2>2, <2>3 DEF Unshared, Half, Meant
<1>5. Matched(r, a)
  <2> SUFFICES ASSUME NEW c \in Known, c.view >= 1
               PROVE  Full(a, c) <=> r \in Origins(a, c.view)
    BY DEF Matched
  <2>1. c.view \in View /\ (c.view = b.view => c = b)
    BY BlocksInLine, ViewNat DEF Block
  <2>2. CASE c = b
    BY <1>1, <1>3, <2>2 DEF Unshared
  <2>3. CASE c # b
    BY <1>1, <1>3, <2>1, <2>3 DEF Unshared
  <2> QED  BY <2>2, <2>3
<1>6. Paired(r, t)
  BY <1>2, <1>4, <1>5, AppendedPaired DEF Paired, a
<1>7. Commits(r, s, t)
  BY <1>1, OnReceiveShareCommits DEF Due
<1>8. BroadcastShare(s, r, b) = t \/ BroadcastShare(s, r, b) = Send(t, shares)
  BY DEF BroadcastShare
<1>9. shares \in SUBSET Message /\ \A m \in shares : Meant(r, t, m)
  <2>1. b \in t.decided
    BY <1>7 DEF Commits, Unshared
  <2> HIDE DEF t
  <2> QED  BY <1>1, <2>1 DEF Message, Shares, Meant
<1> HIDE DEF t, shares
<1>10. Paired(r, Send(t, shares))
  BY <1>6, <1>7, <1>9, SendPaired DEF Commits
<1> QED  BY <1>6, <1>8, <1>10

\* An ack of a view's block is the block's, and of an earlier block nothing is left
\* to count.
LEMMA OnReceiveAckPaired ==
  ASSUME NReplicas = 2, TypeOK, ChainInv, NEW r \in Replica, NEW s \in ReplicaState,
         Fit(r, s), Paired(r, s), s.view >= st[r].view,
         NEW b \in Ready, b.view >= 1, NEW voter \in Replica, NEW v \in View, v <= s.view
  PROVE  Paired(r, OnReceiveAck(s, r, b, voter, v))
<1> DEFINE t == [s EXCEPT !.acked[b] = @ \cup {voter}]
           u == CheckCommit(t, b)
<1>1. /\ b \in Known /\ b \in Block /\ b.view \in Nat /\ s.view \in Nat /\ st[r].view \in Nat
      /\ s.view \in View /\ v \in Nat /\ b.height = b.view
  BY BlocksInLine, ViewNat DEF Ready, ReplicaState, TypeOK
<1>2. CASE OnReceiveAck(s, r, b, voter, v) = s
  BY <1>2
<1>3. CASE OnReceiveAck(s, r, b, voter, v) # s
  <2>1. ~ (Cardinality(s.acked[b]) >= NResponsive)
    BY <1>3 DEF OnReceiveAck
  <2>2. OnReceiveAck(s, r, b, voter, v) =
          IF Cardinality(t.acked[b]) # NResponsive THEN t
          ELSE IF u.halted THEN u ELSE BroadcastShare(u, r, b)
    BY <1>3 DEF OnReceiveAck
  <2>3. b.view = s.view
    <3>1. b.view <= s.view
      BY <1>1, PairReady
    <3>2. ~ (b.view < s.view)
      BY <1>1, <2>1 DEF Paired, Half, Full
    <3> QED  BY <1>1, <3>1, <3>2
  <2>4. r \notin Origins(s, s.view)
    BY <1>1, <2>1, <2>3 DEF Paired, Matched, Full
  <2>5. /\ t \in ReplicaState /\ t.view = s.view
        /\ t.view_shares = s.view_shares /\ t.handled = s.handled
        /\ t.decided = s.decided /\ t.b_exec = s.b_exec /\ t.todo = s.todo
        /\ t.out = s.out /\ t.halted = s.halted
        /\ t.acked[b] = s.acked[b] \cup {voter}
        /\ \A c \in Block : c # b => t.acked[c] = s.acked[c]
    BY <1>1 DEF ReplicaState
  <2>13. /\ t.hqc = s.hqc /\ t.finished_propose = s.finished_propose
         /\ t.vheight = s.vheight
         /\ t.last_view_cert_received = s.last_view_cert_received
         /\ t.last_view_proposal_received = s.last_view_proposal_received
         /\ t.last_view_shares_received = s.last_view_shares_received
         /\ t.last_view_beacon_received = s.last_view_beacon_received
    BY DEF ReplicaState
  <2> HIDE DEF t
  <2>6. Fit(r, t)
    <3>1. Certs(t.todo) \subseteq Ready /\ \A m \in t.out : Proper(m)
      BY <2>5 DEF Fit, Settled
    <3>2. Commits(r, s, t)
      BY <2>5, <2>13, <3>1, SameCommits
    <3> QED  BY <3>2 DEF Commits
  <2>7. \A c \in Block : c # b => (Full(t, c) <=> Full(s, c))
    BY <2>5 DEF Full
  <2>8. \A w : Origins(t, w) = Origins(s, w)
    BY <2>5 DEF Origins
  <2>9. \A c \in Known : c \in Block /\ c.view \in Nat /\ c.height = c.view
    BY BlocksInLine
  <2>10. Half(r, t)
    <3>1. \A c \in Block : t.acked[c] # {} => c \in Known /\ c.view >= 1
      BY <1>1, <2>5 DEF Paired, Half
    <3>2. \A c \in Known : 1 <= c.view /\ c.view < t.view => Full(t, c)
      BY <2>3, <2>5, <2>7, <2>9 DEF Paired, Half
    <3> QED  BY <2>5, <2>8, <3>1, <3>2 DEF Paired, Half, Meant
  <2>11. CASE Cardinality(t.acked[b]) # NResponsive
    <3>1. ~ Full(t, b)
      <4>1. /\ IsFiniteSet(s.acked[b]) /\ Cardinality(s.acked[b]) \in Nat
        <5>1. s.acked[b] \subseteq Replica
          BY <1>1 DEF ReplicaState
        <5> QED  BY <5>1, ReplicaFinite, FS_Subset, FS_CardinalityType
      <4>2. Cardinality(t.acked[b]) \in {Cardinality(s.acked[b]), Cardinality(s.acked[b]) + 1}
        <5>1. t.acked[b] = s.acked[b] \cup {voter}
          BY <2>5
        <5>2. CASE voter \in s.acked[b]
          BY <5>1, <5>2
        <5>3. CASE voter \notin s.acked[b]
          BY <4>1, <5>1, <5>3, FS_AddElement
        <5> QED  BY <5>2, <5>3
      <4> QED  BY <2>1, <2>11, <4>1, <4>2, PairSizes DEF Full
    <3>2. Matched(r, t)
      BY <2>1, <2>7, <2>8, <2>9, <3>1 DEF Paired, Matched, Full
    <3> QED  BY <2>2, <2>10, <2>11, <3>2 DEF Paired
  <2>12. CASE Cardinality(t.acked[b]) = NResponsive
    <3>1. PICK queue \in SUBSET {c \in Known : c.view <= b.view} :
            u = Committed(t, b, queue)
      BY <2>5, <2>6, CheckCommitCommits
    <3>2. Commits(r, t, u)
      BY <2>5, <2>6, CheckCommitCommits
    <3>3. /\ u \in ReplicaState /\ u.view = t.view /\ u.acked = t.acked
          /\ u.view_shares = t.view_shares /\ u.handled = t.handled
          /\ u.decided = t.decided \cup queue /\ u.b_exec = b /\ u.todo = t.todo
          /\ u.out = t.out /\ u.halted = t.halted
      BY <2>5, <3>1, <3>2 DEF ReplicaState, Commits, Committed
    <3> HIDE DEF u
    <3>4. b \in u.decided /\ Fit(r, u)
      BY <3>2, <3>3 DEF Commits, Fit, Settled
    <3>5. \A c \in u.decided : c.height <= u.b_exec.height
      <4>1. ASSUME NEW c \in t.decided PROVE c.height <= b.height
        <5>1. c \in Ready
          BY <2>6 DEF Fit, Settled
        <5>2. c \in Known
          BY <5>1 DEF Ready
        <5>3. c.view <= st[r].view
          BY <5>1, PairReady
        <5> QED  BY <1>1, <2>3, <2>9, <5>2, <5>3
      <4>2. ASSUME NEW c \in queue PROVE c.height <= b.height
        BY <1>1, <2>9
      <4> QED  BY <3>3, <4>1, <4>2
    <3>6. (\A c : Full(u, c) <=> Full(t, c)) /\ \A w : Origins(u, w) = Origins(t, w)
      BY <3>3 DEF Full, Origins
    <3>7. Half(r, u)
      BY <2>10, <3>3, <3>5, <3>6 DEF Half, Meant
    <3>8. Full(u, b)
      BY <2>12, <3>3, PairSizes DEF Full
    <3>9. \A c \in Known : c.view >= 1 /\ c # b => (Full(u, c) <=> r \in Origins(u, c.view))
      BY <2>7, <2>8, <2>9, <3>6 DEF Paired, Matched
    <3>10. Unshared(r, u, b)
      BY <1>1, <2>3, <2>4, <2>5, <2>8, <3>3, <3>4, <3>6, <3>7, <3>8, <3>9 DEF Unshared
    <3>11. ~ u.halted
      BY <3>4, PairReconstructs DEF Fit, Spoiled
    <3> QED  BY <1>1, <2>2, <2>12, <3>3, <3>4, <3>10, <3>11, BroadcastSharePaired
  <2> QED  BY <2>11, <2>12
<1> QED  BY <1>2, <1>3

LEMMA AckPaired ==
  ASSUME NReplicas = 2, TypeOK, ChainInv, NEW r \in Replica, NEW s \in ReplicaState,
         Fit(r, s), Paired(r, s), s.view >= st[r].view, NEW b \in Ready, b.view >= 1
  PROVE  Paired(r, Ack(s, r, b))
<1> DEFINE t == OnReceiveAck(s, r, b, r, s.view)
           ack == [type |-> "ack", from |-> r, blk |-> b, view |-> s.view]
<1>1. s.view \in View /\ s.view \in Nat /\ b \in Block
  BY BlocksInLine, ViewNat DEF Ready, ReplicaState
<1>2. Paired(r, t)
  BY <1>1, OnReceiveAckPaired
<1>3. t \in ReplicaState
  BY <1>1, OnReceiveAckCommits DEF Commits
<1>4. {ack} \in SUBSET Message /\ \A m \in {ack} : Meant(r, t, m)
  BY <1>1 DEF Message, Acks, Meant
<1>5. Ack(s, r, b) = t \/ Ack(s, r, b) = Send(t, {ack})
  BY DEF Ack
<1> HIDE DEF t, ack
<1>6. Paired(r, Send(t, {ack}))
  BY <1>2, <1>3, <1>4, SendPaired
<1> QED  BY <1>2, <1>5, <1>6

-----------------------------------------------------------------------------
(* The other functions.                                                    *)

LEMMA OnReceiveVotePaired ==
  ASSUME NReplicas = 2, TypeOK, ChainInv, NEW r \in Replica, NEW s \in ReplicaState,
         Fit(r, s), Paired(r, s), s.view >= st[r].view, ProposalsIn(s.out) = {},
         NEW b \in Known, b.view <= s.view, NEW voter \in Replica, NEW v \in View,
         Cardinality(s.voted[b] \cup {voter}) >= NResponsive => b \in Ready,
         b = Genesis => s.voted[b] = Replica
  PROVE  Paired(r, OnReceiveVote(s, r, b, voter, v))
<1> DEFINE a == [s EXCEPT !.voted[b] = @ \cup {voter}]
           u == UpdateHqc(a, b)
           qc == [type |-> "qc", from |-> r, blk |-> b]
           w == Send(u, {qc})
           t == OnReceiveVote(s, r, b, voter, v)
<1> SUFFICES Paired(r, t)
  OBVIOUS
<1>1. b \in Block /\ b.view \in Nat
  BY BlocksInLine
<1>2. CASE t = s
  BY <1>2
<1>3. CASE t # s
  <2>1. t = a \/ (t = Ack(w, r, b) /\ Cardinality(s.voted[b] \cup {voter}) >= NResponsive)
    <3>1. a.voted[b] = s.voted[b] \cup {voter}
      BY <1>1 DEF ReplicaState
    <3> QED  BY <1>3, <3>1, QuorumSizes DEF OnReceiveVote
  <2>2. b.view >= 1
    <3>1. ~ (Cardinality(s.voted[b]) >= NResponsive)
      BY <1>3 DEF OnReceiveVote
    <3>2. b # Genesis
      BY <3>1, ReplicaFinite, PairSizes
    <3>3. b.view # 0
      BY <3>2, BlocksInLine
    <3> QED  BY <1>1, <3>3
  <2>3. /\ a \in ReplicaState /\ a.view = s.view /\ a.acked = s.acked
        /\ a.view_shares = s.view_shares /\ a.handled = s.handled
        /\ a.decided = s.decided /\ a.b_exec = s.b_exec /\ a.todo = s.todo
        /\ a.out = s.out /\ a.hqc = s.hqc /\ a.finished_propose = s.finished_propose
        /\ a.vheight = s.vheight /\ a.halted = s.halted
        /\ a.last_view_cert_received = s.last_view_cert_received
        /\ a.last_view_proposal_received = s.last_view_proposal_received
        /\ a.last_view_shares_received = s.last_view_shares_received
        /\ a.last_view_beacon_received = s.last_view_beacon_received
    BY <1>1 DEF ReplicaState
  <2> HIDE DEF a, t
  <2>4. Aside(s, a)
    BY <2>3 DEF Aside
  <2>5. Fit(r, a)
    <3>1. Commits(r, s, a)
      BY <2>3, SameCommits DEF Fit, Settled
    <3> QED  BY <3>1 DEF Commits
  <2>6. CASE t = Ack(w, r, b) /\ Cardinality(s.voted[b] \cup {voter}) >= NResponsive
    <3>1. b \in Ready
      BY <2>6
    <3>2. Before(r, a, u) /\ Aside(a, u)
      BY <1>1, <2>3, <2>5, UpdateHqcBefore, UpdateHqcAside
    <3> HIDE DEF u
    <3>3. u \in ReplicaState /\ Fit(r, u)
      BY <3>2 DEF Before
    <3>4. /\ {qc} \in SUBSET Message /\ ProposalsIn({qc}) = {} /\ Voices({qc}) = {}
          /\ \A m \in {qc} : Proper(m)
      BY <1>1 DEF Message, Certificates, ProposalsIn, Voices, Proper
    <3> HIDE DEF qc
    <3>5. Commits(r, u, w) /\ Aside(u, w)
      BY <3>3, <3>4, SendCommits, SendAside
    <3> HIDE DEF w
    <3>6. Paired(r, w)
      BY <2>4, <3>2, <3>5, AsidePaired
    <3>7. w \in ReplicaState /\ Fit(r, w) /\ w.view = s.view
      BY <2>4, <3>2, <3>5 DEF Commits, Aside
    <3> QED  BY <2>2, <2>6, <3>1, <3>6, <3>7, AckPaired
  <2> QED  BY <2>1, <2>4, <2>6, AsidePaired
<1> QED  BY <1>2, <1>3

LEMMA VotePaired ==
  ASSUME NReplicas = 2, TypeOK, ChainInv, NEW r \in Replica, NEW s \in ReplicaState,
         Fit(r, s), Paired(r, s), s.view >= st[r].view, ProposalsIn(s.out) = {},
         NEW b \in Known, b.view <= s.view, NEW proposer \in Replica,
         Cardinality(s.voted[b] \cup {r}) >= NResponsive => b \in Ready,
         b = Genesis => s.voted[b] = Replica
  PROVE  Paired(r, Vote(s, r, b, proposer))
<1> DEFINE vote == [type |-> "vote", from |-> r, to |-> proposer, blk |-> b,
                    view |-> s.view]
<1>1. s.view \in View /\ b \in Block
  BY BlocksInLine DEF ReplicaState
<1>2. CASE proposer = r
  <2>1. Vote(s, r, b, proposer) = OnReceiveVote(s, r, b, r, s.view)
    BY <1>2 DEF Vote
  <2> QED  BY <1>1, <2>1, OnReceiveVotePaired
<1>3. CASE proposer # r
  <2>1. {vote} \in SUBSET Message /\ Voices({vote}) = {}
    BY <1>1 DEF Message, Votes, Voices
  <2>2. Vote(s, r, b, proposer) = Send(s, {vote})
    BY <1>3 DEF Vote
  <2> HIDE DEF vote
  <2> QED  BY <2>1, <2>2, SendAside, AsidePaired
<1> QED  BY <1>2, <1>3

LEMMA OnReceiveProposalAside ==
  ASSUME TypeOK, NEW s \in ReplicaState, NEW r \in Replica,
         NEW m \in Sent("propose"), OnReceiveProposal(s, r, m) # s
  PROVE  Aside(s, OnReceiveProposal(s, r, m))
<1> DEFINE t == OnReceiveProposal(s, r, m)
           u == UpdateHqc(s, m.qc_ref)
           f == [at |-> "view_proposal", view |-> s.view, blk |-> m.blk,
                 vote |-> /\ ~ \E b \in s.proposals : b.height = m.blk.height /\ b # m.blk
                          /\ u.hqc \in Ancestors[m.blk],
                 proposer |-> m.from]
<1>1. m.blk \in Block /\ m.qc_ref \in Block /\ m.from \in Replica
  BY SentTypes DEF TypeOK, Proposals
<1>2. t \in ReplicaState
  BY OnReceiveProposalMoves DEF TypeOK, Moves
<1>3. Aside(s, u) /\ u.todo = s.todo /\ u.out = s.out /\ u \in ReplicaState
  <2>1. u.todo = s.todo /\ u.out = s.out
    BY DEF UpdateHqc, ReplicaState
  <2>2. Aside(s, u)
    BY <1>1, UpdateHqcAside
  <2> QED  BY <2>1, <2>2 DEF Aside
<1>4. /\ t.view = u.view /\ t.acked = u.acked /\ t.view_shares = u.view_shares
      /\ t.handled = u.handled /\ t.decided = u.decided /\ t.b_exec = u.b_exec
      /\ t.todo = <<f>> \o u.todo /\ t.out = u.out
  <2>1. m.blk \notin s.finished_propose
    BY DEF OnReceiveProposal
  <2> HIDE DEF u
  <2> QED  BY <1>3, <2>1 DEF OnReceiveProposal, Push, ReplicaState, u
<1>5. f \in Frame /\ f.at = "view_proposal"
  BY <1>1 DEF Frame, ReplicaState
<1> HIDE DEF f, t, u
<1>6. Certs(t.todo) \subseteq Certs(u.todo)
  BY <1>3, <1>4, <1>5, CertsPush DEF ReplicaState
<1>7. Aside(u, t)
  BY <1>2, <1>4, <1>6 DEF Aside
<1> QED  BY <1>3, <1>7, AsideTransitive DEF t

\* The certificates taken are of views from 1 on.
LEMMA OnReceiveQCPaired ==
  ASSUME NEW r \in Replica, NEW s \in ReplicaState, Paired(r, s), s.view >= 1,
         NEW b \in Block
  PROVE  Paired(r, OnReceiveQC(s, r, b, TRUE))
<1> DEFINE c == [s EXCEPT !.last_view_cert_received = b.view]
           u == UpdateHqc(c, b)
           echo == [type |-> "echo2", from |-> r, blk |-> b]
           w == Send(u, {echo})
           f == [at |-> "view_qc", view |-> s.view, blk |-> b, vote |-> FALSE,
                 proposer |-> r]
           t == OnReceiveQC(s, r, b, TRUE)
<1> SUFFICES Paired(r, t)
  OBVIOUS
<1>1. /\ b.view \in 0 .. MaxView /\ b.view \in Nat /\ s.view \in View /\ s.view \in Nat
  BY ViewNat DEF Block, ReplicaState
<1>2. CASE t = s
  BY <1>2
<1>3. CASE t # s
  <2>1. t = Push(w, f) /\ b.view >= s.view
    BY <1>1, <1>3 DEF OnReceiveQC
  <2>2. f \in Frame /\ f.blk = b
    BY <1>1 DEF Frame
  <2>3. Aside(s, c) /\ c \in ReplicaState
    <3>1. /\ c \in ReplicaState /\ c.view = s.view /\ c.acked = s.acked
          /\ c.view_shares = s.view_shares /\ c.handled = s.handled
          /\ c.decided = s.decided /\ c.b_exec = s.b_exec /\ c.todo = s.todo
          /\ c.out = s.out
      BY <1>1, ZenonT(40) DEF ReplicaState
    <3> HIDE DEF c
    <3> QED  BY <3>1 DEF Aside
  <2> HIDE DEF c, f, t
  <2>4. Aside(c, u) /\ u \in ReplicaState
    BY <2>3, UpdateHqcAside DEF Aside
  <2> HIDE DEF u
  <2>5. Aside(u, w)
    <3>1. {echo} \in SUBSET Message /\ Voices({echo}) = {}
      BY DEF Message, CertEchoes, Voices
    <3> HIDE DEF echo
    <3> QED  BY <2>4, <3>1, SendAside
  <2> HIDE DEF w
  <2>6. Paired(r, w) /\ w \in ReplicaState
    BY <2>3, <2>4, <2>5, AsidePaired DEF Aside
  <2> DEFINE x == Push(w, f)
  <2>7. /\ x.view = w.view /\ x.acked = w.acked
        /\ x.view_shares = w.view_shares /\ x.handled = w.handled
        /\ x.decided = w.decided /\ x.b_exec = w.b_exec /\ x.todo = <<f>> \o w.todo
        /\ x.out = w.out /\ w.todo \in Seq(Frame)
    BY <2>6 DEF Push, ReplicaState
  <2> HIDE DEF x
  <2>8. Certs(x.todo) \subseteq Certs(w.todo) \cup {b}
    BY <2>2, <2>7, CertsPush
  <2>9. \A d \in Certs(x.todo) : d.view >= 1
    BY <1>1, <2>1, <2>6, <2>8 DEF Paired, Half
  <2>10. (\A v : Origins(x, v) = Origins(w, v)) /\ (\A d : Full(x, d) <=> Full(w, d))
    BY <2>7 DEF Origins, Full
  <2>11. Half(r, x)
    BY <2>6, <2>7, <2>9, <2>10 DEF Paired, Half, Meant
  <2>12. Matched(r, x)
    BY <2>6, <2>10 DEF Paired, Matched
  <2> QED  BY <2>1, <2>11, <2>12 DEF Paired, x
<1> QED  BY <1>2, <1>3

LEMMA OnReceiveCertEchoPaired ==
  ASSUME NEW r \in Replica, NEW s \in ReplicaState, Paired(r, s), s.view >= 1,
         NEW idx \in Replica, NEW b \in Block
  PROVE  Paired(r, OnReceiveCertEcho(s, r, idx, b, TRUE))
<1> DEFINE t == [s EXCEPT !.qc_chunks[b.view] = @ \cup {idx}]
           u == [t EXCEPT !.last_cert_decoded_view = s.view, !.qc_chunks[b.view] = {}]
<1>1. b.view \in View /\ s.view \in View
  BY ViewNat DEF Block, ReplicaState
<1>2. OnReceiveCertEcho(s, r, idx, b, TRUE) \in {s, t, OnReceiveQC(u, r, b, TRUE)}
  BY DEF OnReceiveCertEcho
<1>3. t \in ReplicaState
  <2>1. s.qc_chunks[b.view] \cup {idx} \in SUBSET Replica
    BY <1>1 DEF ReplicaState
  <2>2. [s.qc_chunks EXCEPT ![b.view] = @ \cup {idx}] \in [View -> SUBSET Replica]
    BY <1>1, <2>1 DEF ReplicaState
  <2> QED  BY <2>2 DEF ReplicaState
<1>4. Aside(s, t)
  BY <1>3 DEF Aside, ReplicaState
<1> HIDE DEF t
<1>5. u \in ReplicaState
  BY <1>1, <1>3 DEF ReplicaState
<1>6. Aside(t, u)
  BY <1>3, <1>5 DEF Aside, ReplicaState
<1> HIDE DEF u
<1>7. Paired(r, t) /\ Paired(r, u) /\ u.view = s.view
  BY <1>4, <1>6, AsidePaired DEF Aside
<1>8. Paired(r, OnReceiveQC(u, r, b, TRUE))
  BY <1>5, <1>7, OnReceiveQCPaired
<1> QED  BY <1>2, <1>7, <1>8

\* No one has voted for a block of the view when it is the replica's turn.
Unvoted(r, s) ==
  s.pm_proposer = r /\ s.last_proposed_view < s.view
    => \A b \in Block : b.view = s.view => s.voted[b] = {}

LEMMA OnProposeAside ==
  ASSUME NEW r \in Replica, NEW s \in ReplicaState, MayPropose(s, r), Unvoted(r, s)
  PROVE  Aside(s, OnPropose(s, r))
<1> DEFINE b == [view |-> s.view, height |-> s.hqc_tail.height + 1]
           voting == [s EXCEPT !.vheight = b.height,
                               !.finished_propose = @ \cup {b}]
           t == Vote(voting, r, b, r)
           prop == [type |-> "propose", from |-> r, blk |-> b,
                    parent |-> s.hqc_tail, qc_ref |-> s.hqc]
           sent == Send(t, {prop})
           u == [sent EXCEPT !.hqc_tail = b, !.last_proposed_view = s.view,
                             !.last_view_proposal_received = s.view]
           f == [at |-> "view_proposal", view |-> s.view, blk |-> b, vote |-> FALSE,
                 proposer |-> r]
           w == Push(u, f)
<1>1. /\ s.view \in View /\ s.view \in Nat /\ s.hqc_tail \in Block /\ s.hqc \in Block
  BY ViewNat DEF ReplicaState
<1>2. b \in Block /\ b.view = s.view /\ b.height \in Nat
  <2>1. s.view \in 0 .. MaxView /\ s.hqc_tail.height < MaxHeight
    BY <1>1, BoundsAssumption DEF View, MayPropose
  <2>2. s.hqc_tail.height + 1 \in 0 .. MaxHeight /\ s.hqc_tail.height + 1 \in Nat
    BY <1>1, <2>1, HeightNat, BoundsAssumption DEF MaxHeight
  <2> QED  BY <2>1, <2>2 DEF Block
<1>3. s.voted[b] = {}
  BY <1>2 DEF Unvoted, MayPropose
<1>4. OnPropose(s, r) = Throw(s) \/ OnPropose(s, r) = w
  BY DEF OnPropose
<1>5. Aside(s, Throw(s))
  <2>1. Throw(s) \in ReplicaState
    BY ThrowLeads DEF Leads, Moves
  <2>2. Certs(<<>>) = {}
    BY DEF Certs
  <2> QED  BY <2>1, <2>2 DEF Throw, Aside, ReplicaState
<1>6. {prop} \in SUBSET Message /\ Voices({prop}) = {}
  BY <1>1, <1>2 DEF Proposals, Message, Voices
<1>7. f \in Frame /\ f.at = "view_proposal"
  BY <1>1, <1>2 DEF Frame
<1> HIDE DEF b, prop, f
<1>8. voting \in ReplicaState /\ voting.voted[b] = {} /\ Aside(s, voting)
  <2>1. /\ voting \in ReplicaState /\ voting.voted[b] = {}
        /\ voting.view = s.view /\ voting.acked = s.acked
        /\ voting.view_shares = s.view_shares /\ voting.handled = s.handled
        /\ voting.decided = s.decided /\ voting.b_exec = s.b_exec
        /\ voting.todo = s.todo /\ voting.out = s.out
    BY <1>2, <1>3 DEF ReplicaState
  <2> HIDE DEF voting
  <2> QED  BY <2>1 DEF Aside
<1> HIDE DEF voting
<1>9. t = [voting EXCEPT !.voted[b] = @ \cup {r}]
  BY <1>2, <1>8, FirstVoteCounts
<1> HIDE DEF t
<1>10. t \in ReplicaState /\ Aside(voting, t)
  <2>1. /\ t \in ReplicaState /\ t.view = voting.view /\ t.acked = voting.acked
        /\ t.view_shares = voting.view_shares /\ t.handled = voting.handled
        /\ t.decided = voting.decided /\ t.b_exec = voting.b_exec
        /\ t.todo = voting.todo /\ t.out = voting.out
    <3>1. voting.voted \in [Block -> SUBSET Replica]
      BY <1>8 DEF ReplicaState
    <3>2. [voting.voted EXCEPT ![b] = @ \cup {r}] \in [Block -> SUBSET Replica]
      BY <1>2, <3>1
    <3>3. t \in ReplicaState
      BY <1>8, <1>9, <3>2 DEF ReplicaState
    <3> QED  BY <1>8, <1>9, <3>3 DEF ReplicaState
  <2> QED  BY <2>1 DEF Aside
<1>11. Aside(t, sent) /\ sent \in ReplicaState
  BY <1>6, <1>10, SendAside DEF Aside
<1> HIDE DEF sent
<1>12. u \in ReplicaState /\ Aside(sent, u)
  <2>1. /\ u \in ReplicaState /\ u.view = sent.view /\ u.acked = sent.acked
        /\ u.view_shares = sent.view_shares /\ u.handled = sent.handled
        /\ u.decided = sent.decided /\ u.b_exec = sent.b_exec
        /\ u.todo = sent.todo /\ u.out = sent.out
    BY <1>1, <1>2, <1>11 DEF ReplicaState
  <2> HIDE DEF u
  <2> QED  BY <2>1 DEF Aside
<1> HIDE DEF u
<1>13. Aside(u, w)
  BY <1>7, <1>12, PushAside
<1>14. Aside(s, t) /\ Aside(t, u)
  BY <1>8, <1>10, <1>11, <1>12, AsideTransitive
<1>15. Aside(s, w)
  BY <1>13, <1>14, AsideTransitive
<1> QED  BY <1>4, <1>5, <1>15

LEMMA DoProposeAside ==
  ASSUME NEW r \in Replica, NEW s \in ReplicaState, Unvoted(r, s)
  PROVE  Aside(s, DoPropose(s, r))
<1> DEFINE t == [s EXCEPT !.propose_timer = FALSE]
<1>1. CASE ~ MayPropose(s, r)
  BY <1>1, AsideReflexive DEF DoPropose
<1>2. CASE MayPropose(s, r)
  <2>1. /\ t \in ReplicaState /\ t.view = s.view /\ t.acked = s.acked
        /\ t.view_shares = s.view_shares /\ t.handled = s.handled
        /\ t.decided = s.decided /\ t.b_exec = s.b_exec /\ t.todo = s.todo
        /\ t.out = s.out /\ t.voted = s.voted /\ t.pm_proposer = s.pm_proposer
        /\ t.last_proposed_view = s.last_proposed_view /\ t.hqc_tail = s.hqc_tail
    BY DEF ReplicaState
  <2>2. DoPropose(s, r) = OnPropose(t, r)
    BY <1>2 DEF DoPropose
  <2> HIDE DEF t
  <2>3. MayPropose(t, r) /\ Unvoted(r, t)
    BY <1>2, <2>1 DEF MayPropose, Unvoted
  <2>4. Aside(t, OnPropose(t, r))
    BY <2>1, <2>3, OnProposeAside
  <2>5. Aside(s, t)
    BY <2>1 DEF Aside
  <2> QED  BY <2>2, <2>4, <2>5, AsideTransitive
<1> QED  BY <1>1, <1>2

LEMMA OnReceiveStatusAside ==
  ASSUME NEW r \in Replica, NEW s \in ReplicaState, Unvoted(r, s),
         NEW from \in Replica, NEW v \in View, NEW qc \in Block
  PROVE  Aside(s, OnReceiveStatus(s, r, from, v, qc, TRUE))
<1> DEFINE t == UpdateHqc(s, qc)
           u == [t EXCEPT !.status_received[v] = @ \cup {from}]
<1>1. OnReceiveStatus(s, r, from, v, qc, TRUE) \in {s, t, u, DoPropose(u, r)}
  BY DEF OnReceiveStatus
<1>2. Aside(s, t) /\ t \in ReplicaState
  BY UpdateHqcAside DEF Aside
<1>3. /\ t.voted = s.voted /\ t.pm_proposer = s.pm_proposer
      /\ t.last_proposed_view = s.last_proposed_view
  BY DEF UpdateHqc, ReplicaState
<1> HIDE DEF t
<1>4. u \in ReplicaState
  <2>1. t.status_received[v] \cup {from} \in SUBSET Replica
    BY <1>2 DEF ReplicaState
  <2>2. [t.status_received EXCEPT ![v] = @ \cup {from}] \in [View -> SUBSET Replica]
    BY <1>2, <2>1 DEF ReplicaState
  <2> QED  BY <1>2, <2>2 DEF ReplicaState
<1>5. /\ u.view = t.view /\ u.acked = t.acked
      /\ u.view_shares = t.view_shares /\ u.handled = t.handled
      /\ u.decided = t.decided /\ u.b_exec = t.b_exec /\ u.todo = t.todo
      /\ u.out = t.out /\ u.voted = t.voted /\ u.pm_proposer = t.pm_proposer
      /\ u.last_proposed_view = t.last_proposed_view
  BY <1>2 DEF ReplicaState
<1> HIDE DEF u
<1>6. Aside(t, u)
  BY <1>4, <1>5 DEF Aside
<1>7. Aside(s, u)
  BY <1>2, <1>6, AsideTransitive
<1>8. Unvoted(r, u)
  BY <1>3, <1>5, <1>7 DEF Unvoted, Aside
<1>9. Aside(s, DoPropose(u, r))
  BY <1>4, <1>7, <1>8, DoProposeAside, AsideTransitive
<1> QED  BY <1>1, <1>2, <1>7, <1>9, AsideReflexive

LEMMA AfterEnterViewAside ==
  ASSUME NEW r \in Replica, NEW s \in ReplicaState, Unvoted(r, s)
  PROVE  Aside(s, AfterEnterView(s, r))
<1> DEFINE t == OnReceiveStatus(s, r, r, s.view, s.hqc, TRUE)
           u == [t EXCEPT !.propose_timer = TRUE]
           status == [type |-> "status", from |-> r, to |-> s.pm_proposer,
                      view |-> s.view, qc |-> s.hqc]
<1>1. s.view \in View /\ s.hqc \in Block /\ s.pm_proposer \in Replica
  BY DEF ReplicaState
<1>2. AfterEnterView(s, r) \in {t, u, Send(s, {status})}
  BY DEF AfterEnterView
<1>3. {status} \in SUBSET Message /\ Voices({status}) = {}
  BY <1>1 DEF Message, Statuses, Voices
<1> HIDE DEF status
<1>4. Aside(s, Send(s, {status}))
  BY <1>3, SendAside
<1>5. Aside(s, t)
  BY <1>1, OnReceiveStatusAside
<1> HIDE DEF t
<1>6. t \in ReplicaState
  BY <1>5 DEF Aside
<1>7. /\ u \in ReplicaState /\ u.view = t.view /\ u.acked = t.acked
      /\ u.view_shares = t.view_shares /\ u.handled = t.handled
      /\ u.decided = t.decided /\ u.b_exec = t.b_exec /\ u.todo = t.todo
      /\ u.out = t.out
  BY <1>6 DEF ReplicaState
<1> HIDE DEF u
<1>8. Aside(t, u)
  BY <1>7 DEF Aside
<1>9. Aside(s, u)
  BY <1>5, <1>8, AsideTransitive
<1> QED  BY <1>2, <1>4, <1>5, <1>9

-----------------------------------------------------------------------------
(* Every step keeps two replicas paired.                                   *)

PairInv ==
  /\ \A r \in Replica : Paired(r, st[r])
  /\ \A m \in msgs : Meant(m.from, st[m.from], m)

\* What a step of r leads to before what it sends has left.
Pairs(r, s) ==
  /\ st' = [st EXCEPT ![r] = [s EXCEPT !.out = {}]]
  /\ msgs' = msgs \cup s.out
  /\ Paired(r, s)

LEMMA StepPairs ==
  ASSUME NReplicas = 2, CommandsInTime, TypeOK, BeaconsIgnored, CertInv, ChainInv,
         CommitInv, PairInv, NEW r \in Replica, Step(r)
  PROVE  UNCHANGED vars \/ \E s : Pairs(r, s)
<1>1. /\ st[r] \in ReplicaState /\ msgs \subseteq Message /\ Fit(r, st[r])
      /\ st[r].view \in Nat /\ st[r].view >= 1 /\ Paired(r, st[r])
  BY ViewNat DEF TypeOK, CommitInv, PairInv, ReplicaState, CertInv, Backing, Backed
<1>2. ProposalsIn(st[r].out) = {}
  BY DEF CertInv, Quiet, ProposalsIn
<1>3. ASSUME NEW s, Become(r, s), Paired(r, s)
      PROVE  \E t : Pairs(r, t)
  BY <1>3 DEF Become, Pairs
<1>4. ASSUME NEW s, Become(r, s), Aside(st[r], s)
      PROVE  \E t : Pairs(r, t)
  BY <1>1, <1>3, <1>4, AsidePaired
<1>5. Unvoted(r, st[r])
  BY ProposerIsFirst, BlocksInLine DEF Unvoted, ChainInv, Sound
<1>6. ASSUME NEW b \in Known
      PROVE  b = Genesis => st[r].voted[b] = Replica
  BY GenesisType DEF CertInv, Counted
<1>7. CASE ReceiveProposal(r)
  <2>1. PICK m \in Sent("propose") : Become(r, OnReceiveProposal(st[r], r, m))
    BY <1>7 DEF ReceiveProposal
  <2>2. OnReceiveProposal(st[r], r, m) # st[r]
    BY <2>1 DEF Become
  <2> QED  BY <1>1, <1>4, <2>1, <2>2, OnReceiveProposalAside
<1>8. CASE ReceiveVote(r)
  <2>1. PICK m \in Sent("vote") :
          m.view <= st[r].view /\ Become(r, OnReceiveVote(st[r], r, m.blk, m.from, m.view))
    BY <1>8 DEF ReceiveVote, Handles
  <2>2. m.blk \in Block /\ m.from \in Replica /\ m.view \in View /\ m.blk \in Known
    BY <1>1, SentTypes, HandledIsKnown DEF Votes
  <2>3. m.blk.view <= st[r].view
    <3>1. m.blk.view <= m.view
      BY DEF CommitInv, Proper, Sent
    <3>2. m.blk.view \in Nat /\ m.view \in Nat
      BY <2>2, BlocksInLine, ViewNat
    <3> QED  BY <1>1, <2>1, <3>1, <3>2
  <2>4. Cardinality(st[r].voted[m.blk] \cup {m.from}) >= NResponsive => m.blk \in Ready
    BY <2>2, QuorumIsReady DEF Supports
  <2>5. m.blk = Genesis => st[r].voted[m.blk] = Replica
    BY <1>6, <2>2
  <2>6. st[r].view >= st[r].view
    BY <1>1
  <2>7. Paired(r, OnReceiveVote(st[r], r, m.blk, m.from, m.view))
    BY <1>1, <1>2, <2>2, <2>3, <2>4, <2>5, <2>6, OnReceiveVotePaired
  <2> QED  BY <1>3, <2>1, <2>7
<1>9. CASE ReceiveAck(r)
  <2>1. PICK m \in Sent("ack") :
          m.view <= st[r].view /\ Become(r, OnReceiveAck(st[r], r, m.blk, m.from, m.view))
    BY <1>9 DEF ReceiveAck, Handles
  <2>2. m.from \in Replica /\ m.view \in View
    BY <1>1, SentTypes DEF Acks
  <2>3. m.blk \in Ready /\ m.blk.view >= 1
    BY DEF CommitInv, Proper, PairInv, Meant, Sent
  <2>4. Paired(r, OnReceiveAck(st[r], r, m.blk, m.from, m.view))
    BY <1>1, <2>1, <2>2, <2>3, OnReceiveAckPaired
  <2> QED  BY <1>3, <2>1, <2>4
<1>10. CASE ReceiveStatus(r)
  <2>1. PICK m \in Sent("status") :
          Become(r, OnReceiveStatus(st[r], r, m.from, m.view, m.qc, TRUE))
    BY <1>10, StatusIsFound
  <2>2. m.from \in Replica /\ m.view \in View /\ m.qc \in Block
    BY <1>1, SentTypes DEF Statuses
  <2> QED  BY <1>1, <1>4, <1>5, <2>1, <2>2, OnReceiveStatusAside
<1>11. CASE ReceiveQC(r)
  <2>1. PICK m \in Sent("qc") : Become(r, OnReceiveQC(st[r], r, m.blk, TRUE))
    BY <1>11 DEF ReceiveQC
  <2>2. m.blk \in Block
    BY <1>1, SentTypes DEF Certificates
  <2> QED  BY <1>1, <1>3, <2>1, <2>2, OnReceiveQCPaired
<1>12. CASE ReceiveCertEcho(r)
  <2>1. PICK m \in Sent("echo2") : \E idx \in {r, m.from} :
          Become(r, OnReceiveCertEcho(st[r], r, idx, m.blk, TRUE))
    BY <1>12, EchoIsFound
  <2>2. m.blk \in Block /\ m.from \in Replica
    BY <1>1, SentTypes DEF CertEchoes
  <2>3. PICK idx \in {r, m.from} :
          Become(r, OnReceiveCertEcho(st[r], r, idx, m.blk, TRUE))
    BY <2>1
  <2>4. idx \in Replica
    BY <2>2
  <2> QED  BY <1>1, <1>3, <2>2, <2>3, <2>4, OnReceiveCertEchoPaired
<1>13. CASE ReceiveShare(r)
  <2>1. PICK m \in Sent("share") :
          /\ m.to = r /\ m \notin st[r].handled /\ m.view <= st[r].view
          /\ Become(r, OnReceiveShare([st[r] EXCEPT !.handled = @ \cup {m}],
                                      r, m.from, m.view))
    BY <1>13 DEF ReceiveShare, Handles
  <2> DEFINE s == [st[r] EXCEPT !.handled = @ \cup {m}]
  <2>2. /\ m \in msgs /\ m.type = "share" /\ m \in Shares
        /\ m.from \in Replica /\ m.view \in View
    BY <1>1, SentTypes DEF Shares, Sent
  <2>3. /\ s \in ReplicaState /\ s.view = st[r].view /\ s.acked = st[r].acked
        /\ s.view_shares = st[r].view_shares /\ s.handled = st[r].handled \cup {m}
        /\ s.decided = st[r].decided /\ s.b_exec = st[r].b_exec /\ s.todo = st[r].todo
        /\ s.out = st[r].out
    <3>1. st[r] \in ReplicaState /\ m \in Message
      BY <1>1, <2>2 DEF Message
    <3> QED  BY <3>1 DEF ReplicaState
  <2> HIDE DEF s
  <2>4. (\A v : Origins(s, v) = Origins(st[r], v)) /\ (\A b : Full(s, b) <=> Full(st[r], b))
    BY <2>3 DEF Origins, Full
  <2>5. Paired(r, s)
    <3>1. ASSUME NEW v \in View, NEW q \in Origins(s, v), q # r
          PROVE  \E n \in s.handled \cap Sent("share") : n.from = q /\ n.to = r /\ n.view = v
      BY <1>1, <2>3, <2>4, <3>1 DEF Paired, Half
    <3>2. Half(r, s)
      BY <1>1, <2>3, <2>4, <3>1 DEF Paired, Half, Meant
    <3>3. Matched(r, s)
      BY <1>1, <2>4 DEF Paired, Matched
    <3> QED  BY <3>2, <3>3 DEF Paired
  <2>6. ASSUME NEW n \in Sent("share")
        PROVE  /\ n \in Shares /\ n.from \in Replica /\ n.to # n.from
               /\ n.blk \in Known /\ n.blk.view = n.view
    <3>1. n \in Shares /\ n.from \in Replica /\ n \in msgs /\ n.type = "share"
      BY <1>1, SentTypes DEF Shares, Sent
    <3>2. n.to # n.from /\ n.blk \in st[n.from].decided /\ n.blk.view = n.view
      BY <3>1 DEF PairInv, Meant
    <3>3. n.blk \in Known
      BY <3>1, <3>2 DEF CommitInv, Fit, Settled, Ready
    <3> QED  BY <3>1, <3>2, <3>3
  <2>7. m.from # r
    BY <2>1, <2>6
  <2>8. m.from \notin Origins(st[r], m.view)
    <3> SUFFICES ASSUME m.from \in Origins(st[r], m.view) PROVE FALSE
      OBVIOUS
    <3>1. PICK n \in st[r].handled \cap Sent("share") :
            n.from = m.from /\ n.to = r /\ n.view = m.view
      BY <1>1, <2>2, <2>7 DEF Paired, Half
    <3>2. n.blk = m.blk
      BY <2>6, <3>1, BlocksInLine
    <3>3. n = m
      BY <2>1, <2>6, <3>1, <3>2 DEF Shares
    <3> QED  BY <2>1, <3>1, <3>3
  <2>9. \E n \in s.handled \cap Sent("share") : n.from = m.from /\ n.to = r /\ n.view = m.view
    BY <2>1, <2>3
  <2>10. Paired(r, OnReceiveShare(s, r, m.from, m.view))
    BY <2>1, <2>2, <2>3, <2>4, <2>5, <2>7, <2>8, <2>9, ForeignSharePaired
  <2> QED  BY <1>3, <2>1, <2>10 DEF s
<1>14. CASE ReceiveBeacon(r)
  <2>1. PICK m \in Sent("beacon") :
          /\ st' = [st EXCEPT ![r] = OnReceiveBeacon(st[r], m.view)]
          /\ msgs' = msgs
    BY <1>1, <1>14 DEF ReceiveBeacon, TypeOK
  <2>2. OnReceiveBeacon(st[r], m.view) = st[r]
    BY DEF BeaconsIgnored
  <2> QED  BY <2>1, <2>2 DEF TypeOK, vars
<1>15. CASE ShareArrivesEarly(r)
  <2>1. PICK m \in Sent("share") :
          Become(r, [st[r] EXCEPT !.past_qc_gate = @ \cup {m}])
    BY <1>15 DEF ShareArrivesEarly
  <2> DEFINE s == [st[r] EXCEPT !.past_qc_gate = @ \cup {m}]
  <2>2. m \in Message
    BY <1>1 DEF Sent
  <2>3. s \in ReplicaState
    BY <1>1, <2>2 DEF ReplicaState
  <2>4. Aside(st[r], s)
    BY <1>1, <2>3 DEF Aside, ReplicaState
  <2> QED  BY <1>4, <2>1, <2>4
<1>16. CASE ProposeTimeout(r)
  <2> DEFINE s == [st[r] EXCEPT !.propose_timer = FALSE]
  <2>1. Become(r, DoPropose(s, r))
    BY <1>16 DEF ProposeTimeout
  <2>2. s \in ReplicaState
    BY <1>1 DEF ReplicaState
  <2>3. Aside(st[r], s) /\ Unvoted(r, s)
    BY <1>1, <1>5, <2>2 DEF Aside, Unvoted, ReplicaState
  <2> HIDE DEF s
  <2>4. Aside(st[r], DoPropose(s, r))
    BY <2>2, <2>3, DoProposeAside, AsideTransitive
  <2> QED  BY <1>4, <2>1, <2>4
<1>17. CASE ClientCommand(r)
  <2> DEFINE p == GetProposer(1)
             s == [st[r] EXCEPT !.commands = @ \cup {st[r].view}, !.pm_proposer = p]
             f == [at |-> "enter_view", view |-> 1, blk |-> Genesis, vote |-> FALSE,
                   proposer |-> p]
  <2>1. Become(r, Push(s, f))
    BY <1>17 DEF ClientCommand, EnterView
  <2>2. 1 \in View /\ p \in Replica
    BY BoundsAssumption, ProposerType DEF View
  <2>3. f \in Frame /\ f.at = "enter_view"
    BY <2>2, GenesisType DEF Frame
  <2> HIDE DEF p
  <2>4. s \in ReplicaState
    <3>1. st[r].view \in View
      BY <1>1 DEF ReplicaState
    <3> QED  BY <1>1, <2>2, <3>1 DEF ReplicaState
  <2>5. Aside(st[r], s)
    BY <1>1, <2>4 DEF Aside, ReplicaState
  <2> HIDE DEF s, f
  <2>6. Aside(st[r], Push(s, f))
    BY <2>3, <2>4, <2>5, PushAside, AsideTransitive
  <2> QED  BY <1>4, <2>1, <2>6
<1>18. ASSUME st[r].todo # <<>>
       PROVE  /\ Popped(st[r]) \in ReplicaState /\ Fit(r, Popped(st[r]))
              /\ Aside(st[r], Popped(st[r])) /\ Paired(r, Popped(st[r]))
              /\ Popped(st[r]).view = st[r].view
              /\ Popped(st[r]).voted = st[r].voted
              /\ ProposalsIn(Popped(st[r]).out) = {}
              /\ Unvoted(r, Popped(st[r]))
  <2>1. Popped(st[r]) \in ReplicaState /\ Fit(r, Popped(st[r]))
    BY <1>1, <1>18, PoppedCommits DEF Commits
  <2>2. Aside(st[r], Popped(st[r])) /\ Paired(r, Popped(st[r]))
    BY <1>1, <1>18, PoppedAside, AsidePaired
  <2>3. /\ Popped(st[r]).view = st[r].view /\ Popped(st[r]).out = st[r].out
        /\ Popped(st[r]).voted = st[r].voted
        /\ Popped(st[r]).pm_proposer = st[r].pm_proposer
        /\ Popped(st[r]).last_proposed_view = st[r].last_proposed_view
    BY <1>1 DEF Popped, ReplicaState
  <2> QED  BY <1>2, <1>5, <2>1, <2>2, <2>3 DEF Unvoted
<1>19. CASE ResumeEnterView(r)
  <2>1. st[r].todo # <<>> /\ Become(r, AfterEnterView(Popped(st[r]), r))
    BY <1>19 DEF ResumeEnterView, Resumes
  <2>2. Aside(st[r], AfterEnterView(Popped(st[r]), r))
    BY <1>18, <2>1, AfterEnterViewAside, AsideTransitive
  <2> QED  BY <1>4, <2>1, <2>2
<1>20. CASE ResumeProposal(r)
  <2> DEFINE f == Head(st[r].todo)
             popped == Popped(st[r])
  <2>1. /\ st[r].todo # <<>>
        /\ (f.vote /\ Become(r, Vote(popped, r, f.blk, f.proposer))) \/ Become(r, popped)
    BY <1>20 DEF ResumeProposal, Resumes
  <2>2. /\ popped \in ReplicaState /\ Fit(r, popped) /\ Paired(r, popped)
        /\ popped.view = st[r].view /\ popped.voted = st[r].voted
        /\ ProposalsIn(popped.out) = {}
    BY <1>18, <2>1
  <2>3. CASE Become(r, popped)
    BY <1>3, <2>2, <2>3
  <2>4. CASE f.vote /\ Become(r, Vote(popped, r, f.blk, f.proposer))
    <3>1. f.proposer \in Replica
      BY <1>1, <2>1, PoppedLeads DEF Frame
    <3>2. f.blk \in Known /\ f.blk.view <= st[r].view
      <4>1. f.blk \in PendingIn(st[r].todo)
        BY <1>1, <2>1, <2>4, PendingHead DEF ReplicaState
      <4> QED  BY <4>1 DEF ChainInv, Supported, CertInv, Timely
    <3>3. Cardinality(popped.voted[f.blk] \cup {r}) >= NResponsive => f.blk \in Ready
      BY <2>2, <3>2, QuorumIsReady DEF Supports
    <3>4. f.blk = Genesis => popped.voted[f.blk] = Replica
      BY <1>6, <2>2, <3>2
    <3> HIDE DEF f, popped
    <3>5. f.blk.view <= popped.view /\ popped.view >= st[r].view
      BY <1>1, <2>2, <3>2
    <3>6. Paired(r, Vote(popped, r, f.blk, f.proposer))
      BY <1>1, <2>2, <3>1, <3>2, <3>3, <3>4, <3>5, VotePaired
    <3> QED  BY <1>3, <2>4, <3>6
  <2> QED  BY <2>1, <2>3, <2>4
<1>21. CASE ResumeQC(r)
  <2> DEFINE f == [Head(st[r].todo) EXCEPT !.at = "try_enter_view"]
             popped == Popped(st[r])
             s == Push(popped, f)
             b == Head(st[r].todo).blk
  <2>1. /\ st[r].todo # <<>> /\ Become(r, Ack(s, r, b))
        /\ Head(st[r].todo).at = "view_qc"
    BY <1>21 DEF ResumeQC, Resumes
  <2>2. /\ popped \in ReplicaState /\ Fit(r, popped) /\ Paired(r, popped)
        /\ popped.view = st[r].view
    BY <1>18, <2>1
  <2>3. Head(st[r].todo) \in Frame
    BY <1>1, <2>1, PoppedLeads
  <2>4. f \in Frame /\ f.at = "try_enter_view"
    BY <2>3 DEF Frame
  <2>5. b \in Certs(st[r].todo)
    BY <1>1, <2>1, CertsTail DEF ReplicaState
  <2>6. b \in Ready /\ b.view >= 1
    BY <1>1, <2>5 DEF Fit, Settled, Paired, Half
  <2> HIDE DEF f, popped, b
  <2>7. Fit(r, s)
    BY <2>2, <2>4, PushCommits DEF Commits
  <2>8. Aside(popped, s)
    BY <2>2, <2>4, PushAside
  <2> HIDE DEF s
  <2>9. Paired(r, s) /\ s \in ReplicaState /\ s.view = st[r].view
    BY <2>2, <2>8, AsidePaired DEF Aside
  <2>10. Paired(r, Ack(s, r, b))
    BY <1>1, <2>6, <2>7, <2>9, AckPaired
  <2> QED  BY <1>3, <2>1, <2>10
<1>22. CASE ResumeTryEnterView(r)
  <2> DEFINE popped == Popped(st[r])
  <2>1. st[r].todo # <<>> /\ Become(r, TryEnterView(popped))
    BY <1>22 DEF ResumeTryEnterView, Resumes
  <2>2. popped \in ReplicaState /\ Fit(r, popped) /\ Paired(r, popped)
    BY <1>18, <2>1
  <2> HIDE DEF popped
  <2>3. popped.last_view_shares_received = popped.view
          \/ popped.last_view_beacon_received = popped.view
            => Len(popped.view_shares[popped.view]) >= NMajority
    BY <2>2 DEF Fit, Timed, Gathered
  <2>4. Paired(r, TryEnterView(popped))
    BY <2>2, <2>3, TryEnterViewPaired
  <2> QED  BY <1>3, <2>1, <2>4
<1> QED
  BY <1>7, <1>8, <1>9, <1>10, <1>11, <1>12, <1>13, <1>14, <1>15, <1>16, <1>17,
     <1>19, <1>20, <1>21, <1>22 DEF Step

LEMMA PairInvInit ==
  ASSUME Init
  PROVE  PairInv
<1>1. \A r \in Replica : st[r] = InitState
  BY DEF Init
<1>2. Known = {Genesis} /\ Sent("share") = {} /\ msgs = {}
  BY DEF Init, Known, Sent
<1>3. Genesis.view = 0 /\ Genesis.height = 0
  BY DEF Genesis
<1>4. /\ \A b \in Block : InitState.acked[b] = {}
      /\ \A v \in View : Origins(InitState, v) = {} /\ Different(InitState.view_shares[v])
      /\ InitState.view = 1 /\ InitState.decided = {Genesis}
      /\ InitState.b_exec = Genesis /\ InitState.out = {} /\ Certs(InitState.todo) = {}
  BY DEF InitState, Origins, Different, Certs
<1>5. \A r \in Replica : Half(r, InitState)
  BY <1>2, <1>3, <1>4 DEF Half
<1>6. \A r \in Replica : Matched(r, InitState)
  BY <1>2, <1>3 DEF Matched
<1> QED  BY <1>1, <1>2, <1>5, <1>6 DEF PairInv, Paired

LEMMA PairInvStutters ==
  ASSUME PairInv, UNCHANGED vars
  PROVE  PairInv'
<1>1. st' = st /\ msgs' = msgs /\ Known' = Known /\ Sent("share")' = Sent("share")
  BY DEF vars, Known, Sent
<1>2. ASSUME NEW r \in Replica PROVE Paired(r, st[r])'
  <2>1. Half(r, st[r]) /\ Matched(r, st[r])
    BY DEF PairInv, Paired
  <2>2. Half(r, st[r])'
    BY <1>1, <2>1 DEF Half, Full, Origins, Different, Certs, Meant
  <2>3. Matched(r, st[r])'
    BY <1>1, <2>1 DEF Matched, Full, Origins
  <2> QED  BY <2>2, <2>3 DEF Paired
<1>3. \A m \in msgs' : Meant(m.from, st[m.from], m)'
  BY <1>1 DEF PairInv, Meant
<1> QED  BY <1>2, <1>3 DEF PairInv

\* A new block has no acks and no share yet.
LEMMA PairedRemains ==
  ASSUME NReplicas = 2, NEW q \in Replica, NEW s, Paired(q, s),
         st'[q].view = s.view, st'[q].acked = s.acked,
         st'[q].view_shares = s.view_shares, st'[q].handled = s.handled,
         st'[q].decided = s.decided, st'[q].b_exec = s.b_exec,
         st'[q].todo = s.todo, st'[q].out = {},
         msgs \subseteq msgs', Known \subseteq Known', Known' \subseteq Block,
         s.view \in Nat,
         \A b \in Known : b.view \in Nat,
         \A b \in Known' : b \notin Known =>
           /\ b.view \in View /\ b.view \in Nat /\ s.view <= b.view
           /\ \A c \in Known : c.view < b.view
  PROVE  Paired(q, st[q])'
<1>1. \A v : Origins(st'[q], v) = Origins(s, v)
  BY DEF Origins
<1>2. \A b : Full(st'[q], b) <=> Full(s, b)
  BY DEF Full
<1>3. ASSUME NEW b \in Known', b \notin Known
      PROVE  /\ ~ Full(s, b) /\ q \notin Origins(s, b.view)
             /\ ~ (1 <= b.view /\ b.view < s.view)
  <2>1. s.acked[b] = {}
    BY <1>3 DEF Paired, Half
  <2>2. ~ Full(s, b)
    BY <2>1, FS_EmptySet, PairSizes DEF Full
  <2>3. ASSUME q \in Origins(s, b.view) PROVE FALSE
    <3>1. PICK c \in Known : c.view = b.view
      BY <1>3, <2>3 DEF Paired, Half
    <3> QED  BY <1>3, <3>1
  <2> QED  BY <1>3, <2>2, <2>3
<1>4. ASSUME NEW v \in View, NEW p \in Origins(s, v), p # q
      PROVE  \E m \in s.handled \cap Sent("share")' : m.from = p /\ m.to = q /\ m.view = v
  <2>1. PICK m \in s.handled \cap Sent("share") : m.from = p /\ m.to = q /\ m.view = v
    BY <1>4 DEF Paired, Half
  <2> QED  BY <2>1 DEF Sent
<1>5. Half(q, st[q])'
  <2>1. \A b \in Block : s.acked[b] # {} => b \in Known' /\ b.view >= 1
    BY DEF Paired, Half
  <2>2. \A b \in Known' : 1 <= b.view /\ b.view < s.view => Full(s, b)
    BY <1>3 DEF Paired, Half
  <2>3. \A v \in View : q \in Origins(s, v) => \E b \in Known' : b.view = v
    BY DEF Paired, Half
  <2>4. /\ \A v \in View : Different(s.view_shares[v])
        /\ \A b \in Certs(s.todo) : b.view >= 1
        /\ \A c \in s.decided : c.height <= s.b_exec.height
    BY DEF Paired, Half
  <2> QED  BY <1>1, <1>2, <1>4, <2>1, <2>2, <2>3, <2>4 DEF Half, Full, Origins, Certs, Different
<1>6. Matched(q, st[q])'
  <2>1. \A b \in Known' : b.view >= 1 => (Full(s, b) <=> q \in Origins(s, b.view))
    BY <1>3 DEF Paired, Matched
  <2> QED  BY <1>1, <1>2, <2>1 DEF Matched, Full, Origins
<1> QED  BY <1>5, <1>6 DEF Paired

LEMMA PairInvStep ==
  ASSUME NReplicas = 2, CommandsInTime, TypeOK, BeaconsIgnored, CertInv, ChainInv,
         CommitInv, PairInv, TypeOK', ChainInv', NEW r \in Replica, Step(r)
  PROVE  PairInv'
<1>1. CASE UNCHANGED vars
  BY <1>1, PairInvStutters
<1>2. CASE ~ UNCHANGED vars
  <2>1. PICK s : Pairs(r, s)
    BY <1>2, StepPairs
  <2>2. PICK d : Does(r, d)
    BY <1>2, StepActs
  <2>3. /\ Known' = Known \cup {m.blk : m \in ProposalsIn(d.out)}
        /\ \A b \in Known' : b \notin Known =>
             /\ ProposalsIn(d.out) # {} /\ b.view = st[r].view /\ b.view \in Nat
             /\ \A c \in Known : c.view < b.view
    BY <2>2, NewBlocksLead
  <2>4. /\ st' = [st EXCEPT ![r] = [s EXCEPT !.out = {}]]
        /\ msgs' = msgs \cup s.out /\ Paired(r, s)
    BY <2>1 DEF Pairs
  <2>5. /\ st' = [st EXCEPT ![r] = [d EXCEPT !.out = {}]]
        /\ d \in ReplicaState /\ st[r].decided \subseteq d.decided
        /\ ProposalsIn(d.out) # {} => d.view = st[r].view
    BY <2>2 DEF Does, Acts
  <2>6. /\ Known \subseteq Known' /\ msgs \subseteq msgs'
        /\ \A b \in Known : b.view \in Nat
    BY <2>3, <2>4, BlocksInLine
  <2>7. Known' \subseteq Block
    <3> Lined'
      BY BlocksLined, PTL
    <3> QED  BY DEF Lined
  <2>8. /\ st[r].decided \subseteq st'[r].decided
        /\ \A q \in Replica : q # r => st'[q] = st[q]
        /\ st'[r].view = d.view
    <3>1. st'[r] = [d EXCEPT !.out = {}] /\ \A q \in Replica : q # r => st'[q] = st[q]
      BY <2>5 DEF TypeOK
    <3>2. st'[r].decided = d.decided /\ st'[r].view = d.view
      BY <2>5, <3>1 DEF ReplicaState
    <3> QED  BY <2>5, <3>1, <3>2
  <2>9. \A q \in Replica : st[q].view \in Nat /\ st'[q].view \in Nat
    BY ViewNat DEF TypeOK, ReplicaState
  <2>10. ASSUME NEW q \in Replica PROVE Paired(q, st[q])'
    <3>1. CASE q = r
      <4>1. /\ st'[q].view = s.view /\ st'[q].acked = s.acked
            /\ st'[q].view_shares = s.view_shares /\ st'[q].handled = s.handled
            /\ st'[q].decided = s.decided /\ st'[q].b_exec = s.b_exec
            /\ st'[q].todo = s.todo /\ st'[q].out = {}
        BY <2>4, <3>1 DEF TypeOK
      <4>2. \A b \in Known' : b \notin Known =>
              /\ b.view \in View /\ b.view \in Nat /\ s.view <= b.view
              /\ \A c \in Known : c.view < b.view
        <5>1. st[r].view \in View
          BY DEF TypeOK, ReplicaState
        <5>2. s.view = d.view
          BY <2>8, <3>1, <4>1
        <5>3. ProposalsIn(d.out) # {} => s.view = st[r].view
          BY <2>5, <5>2
        <5> QED  BY <2>3, <2>9, <5>1, <5>3
      <4> QED  BY <2>4, <2>6, <2>7, <2>9, <3>1, <4>1, <4>2, PairedRemains
    <3>2. CASE q # r
      <4>1. st'[q] = st[q] /\ st[q].out = {} /\ Paired(q, st[q])
        BY <2>8, <3>2 DEF CertInv, Quiet, PairInv
      <4>2. ASSUME NEW b \in Known', b \notin Known
            PROVE  b.view \in View /\ st[q].view <= b.view
        <5>1. b.view \in View /\ b.view \in Nat /\ b.view = st[r].view
          BY <2>3, <4>2 DEF TypeOK, ReplicaState
        <5>2. ASSUME b.view < st[q].view PROVE FALSE
          <6>1. b.view \in 0 .. st[q].view - 1
            BY <2>9, <5>1, <5>2
          <6>2. b.view \in Certified
            BY <6>1 DEF CertInv, Backing, Backed
          <6>3. PICK c \in Known : c.view = b.view
            BY <6>2, CertifiedIsReady
          <6> QED  BY <2>3, <2>6, <4>2, <6>3
        <5> QED  BY <2>9, <5>1, <5>2
      <4>3. \A b \in Known' : b \notin Known =>
              /\ b.view \in View /\ b.view \in Nat /\ st[q].view <= b.view
              /\ \A c \in Known : c.view < b.view
        BY <2>3, <4>2
      <4> QED  BY <2>6, <2>7, <2>9, <4>1, <4>3, PairedRemains
    <3> QED  BY <3>1, <3>2
  <2>11. ASSUME NEW m \in msgs' PROVE Meant(m.from, st[m.from], m)'
    <3>1. CASE m \in msgs
      <4>1. Meant(m.from, st[m.from], m) /\ m.from \in Replica
        BY <3>1, SentTypes DEF PairInv, TypeOK, Message, Proposals, Votes, Certificates,
           Acks, CertEchoes, Statuses, Shares, Beacons
      <4>2. st[m.from].decided \subseteq st'[m.from].decided
        BY <2>8, <4>1
      <4> QED  BY <4>1, <4>2 DEF Meant
    <3>2. CASE m \in s.out
      <4>1. Meant(r, s, m)
        BY <2>4, <3>2 DEF Paired, Half
      <4>2. st'[r].decided = s.decided
        BY <2>4 DEF TypeOK
      <4> QED  BY <4>1, <4>2 DEF Meant
    <3> QED  BY <2>4, <3>1, <3>2
  <2> QED  BY <2>10, <2>11 DEF PairInv
<1> QED  BY <1>1, <1>2

-----------------------------------------------------------------------------
(* The invariant of any number of replicas.                                *)

Joined == CommitInv /\ (NReplicas = 2 => PairInv)

LEMMA JoinedInvariance ==
  ASSUME CommandsInTime
  PROVE  Spec => []Joined
<1>1. Init => Joined
  BY CommitInvInit, PairInvInit DEF Joined
<1>2. TypeOK /\ BeaconsIgnored /\ CertInv /\ ChainInv /\ Joined /\ [Next]_vars
        /\ TypeOK' /\ ChainInv' => Joined'
  <2> SUFFICES ASSUME TypeOK, BeaconsIgnored, CertInv, ChainInv, Joined, [Next]_vars,
                      TypeOK', ChainInv'
               PROVE  Joined'
    OBVIOUS
  <2>1. CASE UNCHANGED vars
    BY <2>1, CommitInvStutters, PairInvStutters DEF Joined
  <2>2. CASE Next
    <3>1. PICK r \in Replica : Step(r)
      BY <2>2 DEF Next
    <3>2. NReplicas = 2 => PairInv'
      BY <3>1, PairInvStep DEF Joined
    <3>3. NReplicas >= 3 \/ SharesDistinct'
      <4>1. PairInv' => SharesDistinct'
        BY DEF PairInv, Paired, Half, Different, SharesDistinct
      <4> QED  BY <3>2, <4>1, NReplicasAssumption
    <3>4. CommitInv'
      BY <3>1, <3>3, CommitInvStep DEF Joined
    <3> QED  BY <3>2, <3>4 DEF Joined
  <2> QED  BY <2>1, <2>2
<1> QED
  BY <1>1, <1>2, TypeCorrect, BeaconsNeverCount, CertInvariance, ChainInvariance, PTL
  DEF Spec

-----------------------------------------------------------------------------
(* The theorems.                                                           *)

\* All that replicas have committed (check_commit) is on one chain, and each has
\* committed the chain from its root: whatever the number of replicas, the order
\* the messages arrive in and the replicas that are behind.
THEOREM CommitsAgree ==
  ASSUME CommandsInTime
  PROVE  Spec => []Agreement
<1>1. TypeOK /\ ChainInv /\ Joined => Agreement
  <2> SUFFICES ASSUME TypeOK, ChainInv, CommitInv,
                      NEW q \in Replica, NEW c \in st[q].decided
               PROVE  /\ Ancestors[c] \subseteq st[q].decided
                      /\ \A r \in Replica :
                           {b \in st[r].decided : b.height <= c.height} \subseteq Ancestors[c]
    BY DEF Joined, Agreement
  <2>1. \A r \in Replica : st[r].decided \subseteq Known
    BY DEF CommitInv, Fit, Settled, Ready
  <2>2. c \in Known /\ Ancestors[c] = {b \in Known : b.view <= c.view}
    BY <2>1, ChainIsLinear DEF Linear
  <2>3. Ancestors[c] \subseteq st[q].decided
    BY <2>2 DEF CommitInv, Fit, Settled
  <2>4. \A b \in Known : b.height = b.view
    BY BlocksInLine
  <2>5. ASSUME NEW r \in Replica, NEW b \in st[r].decided, b.height <= c.height
        PROVE  b \in Ancestors[c]
    BY <2>1, <2>2, <2>4, <2>5
  <2> QED  BY <2>3, <2>5
<1> QED  BY <1>1, TypeCorrect, ChainInvariance, JoinedInvariance, PTL

\* Nobody votes for two blocks of one height, the votes a proposer gives its own
\* blocks included ("opinion = false if equivocating"): a proposer needs a late
\* command to do so.
THEOREM VotesAreUnique ==
  ASSUME CommandsInTime
  PROVE  Spec => []OneVotePerHeight
<1>1. TypeOK /\ ChainInv => OneVotePerHeight
  <2> SUFFICES ASSUME TypeOK, ChainInv, NEW m \in Sent("vote"), NEW b \in Block,
                      m.from \in st[m.from].voted[b], b.height = m.blk.height
               PROVE  b = m.blk
    BY DEF OneVotePerHeight
  <2>1. m.blk \in Known
    BY DEF ChainInv, Supported
  <2>2. m.from \in Replica
    BY SentTypes DEF TypeOK, Votes
  <2>3. b \in Known
    BY <2>2 DEF ChainInv, Sound
  <2> QED  BY <2>1, <2>3, BlocksInLine
<1> QED  BY <1>1, TypeCorrect, ChainInvariance, PTL

\* No exception leaves a handler but that of on_receive_share: the block on_propose
\* makes is above vheight, check_commit finds the last block it executed below the
\* one to commit, and get_delivered_blk finds the block of a status message, and of
\* a certificate that was decoded.
THEOREM SharesAloneThrow ==
  ASSUME CommandsInTime
  PROVE  Spec => []OnlySharesThrow
<1>1. Joined => OnlySharesThrow
  BY DEF Joined, CommitInv, Fit, OnlySharesThrow
<1> QED  BY <1>1, JoinedInvariance, PTL

\* And it takes two shares of one replica, counted for reconstruct().
LEMMA DifferentSharesReconstruct ==
  ASSUME TypeOK, SharesDistinct, NEW r \in Replica
  PROVE  ~ Spoiled(st[r])
<1> SUFFICES ASSUME Spoiled(st[r]) PROVE FALSE
  OBVIOUS
<1>1. PICK v \in View :
        Len(st[r].view_shares[v]) = NMajority /\ ~ Reconstructs(st[r].view_shares[v])
  BY DEF Spoiled
<1>2. PICK i \in 1 .. NFaulty + 1, j \in 1 .. NFaulty + 1 :
        i # j /\ st[r].view_shares[v][i] = st[r].view_shares[v][j]
  BY <1>1 DEF Reconstructs
<1>3. st[r].view_shares[v] \in Seq(Replica)
  BY DEF TypeOK, ReplicaState
<1>4. NFaulty + 1 <= NMajority /\ NFaulty \in Nat /\ NMajority \in Nat
  BY NReplicasAssumption DEF NMajority, NFaulty
<1>5. DOMAIN st[r].view_shares[v] = 1 .. NMajority
  BY <1>1, <1>3
<1>6. i \in DOMAIN st[r].view_shares[v] /\ j \in DOMAIN st[r].view_shares[v]
  BY <1>4, <1>5
<1> QED  BY <1>2, <1>6 DEF SharesDistinct

\* A replica leaves a view for the next one only, with a proposal of the view handled
\* and the certificate of the view's block in hand (_try_enter_view).
THEOREM ViewsAreLeftComplete ==
  ASSUME CommandsInTime
  PROVE  Spec => LeavesCompleteView
<1> DEFINE Complete ==
             \A r \in Replica :
               st'[r].view # st[r].view =>
                 /\ st'[r].view = st[r].view + 1
                 /\ st[r].last_view_proposal_received = st[r].view
                 /\ st'[r].hqc.view = st[r].view
                 /\ st'[r].hqc \in st'[r].finished_propose
<1>1. TypeOK /\ BeaconsIgnored /\ CertInv /\ ChainInv /\ Joined /\ [Next]_vars
        /\ TypeOK' /\ ChainInv' /\ Joined' => [Complete]_vars
  <2> SUFFICES ASSUME TypeOK, BeaconsIgnored, CertInv, ChainInv, Joined, Next,
                      TypeOK', ChainInv', Joined', ~ UNCHANGED vars,
                      NEW q \in Replica, st'[q].view # st[q].view
               PROVE  /\ st'[q].view = st[q].view + 1
                      /\ st[q].last_view_proposal_received = st[q].view
                      /\ st'[q].hqc.view = st[q].view
                      /\ st'[q].hqc \in st'[q].finished_propose
    OBVIOUS
  <2>1. PICK r \in Replica : Step(r)
    BY DEF Next
  <2>2. PICK s : Does(r, s)
    BY <2>1, StepActs DEF Joined
  <2>3. /\ st' = [st EXCEPT ![r] = [s EXCEPT !.out = {}]]
        /\ s \in ReplicaState /\ Leaves(r, st[r], s)
        /\ s.view # st[r].view => s.hqc.view <= st[r].view
    BY <2>2 DEF Does, Acts
  <2>4. q = r
    BY <2>3 DEF TypeOK
  <2>5. st'[q].view = s.view /\ st'[q].hqc = s.hqc
    BY <2>3, <2>4 DEF TypeOK, ReplicaState
  <2>6. s.view = st[q].view + 1 /\ s.hqc.view <= st[q].view
    BY <2>3, <2>4, <2>5 DEF Leaves
  <2>7. NReplicas >= 3 \/ SharesDistinct'
    BY NReplicasAssumption DEF Joined, PairInv, Paired, Half, Different, SharesDistinct
  <2>8. st[q].last_view_proposal_received = st[q].view
    BY <2>2, <2>4, <2>5, <2>7, LeavesWithProposal
  <2>9. st[q].view \in Nat /\ st[q].view >= 1 /\ s.hqc.view \in Nat
    BY <2>3, ViewNat DEF CertInv, Backing, Backed, TypeOK, ReplicaState, Block
  <2>10. st'[q].view - 1 <= st'[q].hqc.view /\ st'[q].hqc \in Known'
    BY DEF ChainInv, Sound
  <2>11. st'[q].hqc.view = st[q].view
    BY <2>5, <2>6, <2>9, <2>10
  <2>12. PICK v \in Nat : v = st[q].view
    BY <2>9
  <2>13. st'[q].hqc \in st'[q].finished_propose
    <3>1. HadProposalOf(q, v)'
      BY <2>5, <2>6, <2>9, <2>12 DEF HadProposalOf
    <3>2. Placed(q)'
      BY DEF Joined, CommitInv
    <3> QED  BY <2>10, <2>11, <2>12, <3>1, <3>2 DEF Placed, HadProposalOf
  <2> QED  BY <2>5, <2>6, <2>8, <2>11, <2>13
<1> QED
  BY <1>1, TypeCorrect, BeaconsNeverCount, CertInvariance, ChainInvariance,
     JoinedInvariance, PTL DEF Spec, LeavesCompleteView

\* Of two replicas none counts a share twice: reconstruct() gets one of each.
THEOREM PairSharesDiffer ==
  ASSUME CommandsInTime, NReplicas = 2
  PROVE  Spec => []SharesDistinct
<1>1. Joined => SharesDistinct
  BY DEF Joined, PairInv, Paired, Half, Different, SharesDistinct
<1> QED  BY <1>1, JoinedInvariance, PTL

\* Of two replicas, b_exec is the highest block committed.
THEOREM PairExecutesLast ==
  ASSUME CommandsInTime, NReplicas = 2
  PROVE  Spec => []LastExecuted
<1>1. Joined => LastExecuted
  BY DEF Joined, PairInv, Paired, Half, LastExecuted
<1> QED  BY <1>1, JoinedInvariance, PTL

\* Of two replicas, one that reveals its share of a view's beacon has committed the
\* view's block.
THEOREM PairSharesAfterCommit ==
  ASSUME CommandsInTime, NReplicas = 2
  PROVE  Spec => []ShareAfterCommit
<1>1. Joined => ShareAfterCommit
  BY DEF Joined, PairInv, Meant, Sent, ShareAfterCommit
<1> QED  BY <1>1, JoinedInvariance, PTL

\* Two replicas never throw.
THEOREM PairNeverThrows ==
  ASSUME CommandsInTime, NReplicas = 2
  PROVE  Spec => []NoException
<1>1. TypeOK /\ SharesDistinct /\ OnlySharesThrow => NoException
  BY DifferentSharesReconstruct DEF OnlySharesThrow, NoException
<1> QED  BY <1>1, TypeCorrect, SharesAloneThrow, PairSharesDiffer, PTL

-----------------------------------------------------------------------------
(* OptRandCore implements BeaconChain.                                     *)

LEMMA HighestOf ==
  ASSUME NEW S \in SUBSET Nat, S # {}, NEW n \in Nat, \A k \in S : k <= n
  PROVE  Highest(S) \in S /\ \A k \in S : k <= Highest(S)
<1> DEFINE U == {x \in Nat : \A k \in S : k <= x}
<1>1. PICK x \in U : \A y \in U : x <= y
  <2>1. U \in SUBSET Nat /\ U # {}
    OBVIOUS
  <2> HIDE DEF U
  <2> QED  BY <2>1, NatMin
<1>2. x \in S
  <2> SUFFICES ASSUME x \notin S PROVE FALSE
    OBVIOUS
  <2>1. PICK k \in S : TRUE
    OBVIOUS
  <2>2. k < x
    BY <2>1
  <2>3. x - 1 \in Nat /\ \A y \in S : y <= x - 1
    BY <2>1, <2>2
  <2>4. x - 1 \in U
    BY <2>3
  <2> QED  BY <1>1, <2>4
<1> HIDE DEF U
<1>3. \E h \in S : \A k \in S : k <= h
  BY <1>1, <1>2 DEF U
<1> QED  BY <1>3 DEF Highest

Heights(S) == {b.height : b \in S}

\* A set of blocks has a highest one.
LEMMA HighestBlock ==
  ASSUME NEW S \in SUBSET Block, S # {}
  PROVE  /\ Highest(Heights(S)) \in Nat
         /\ \E b \in S : b.height = Highest(Heights(S))
         /\ \A b \in S : b.height <= Highest(Heights(S))
<1>1. \A b \in Block : b.height \in 0 .. MaxHeight
  BY DEF Block
<1>2. MaxHeight \in Nat
  BY BoundsAssumption, NReplicasAssumption DEF MaxHeight
<1>3. Heights(S) \in SUBSET Nat /\ Heights(S) # {} /\ \A k \in Heights(S) : k <= MaxHeight
  BY <1>1, <1>2 DEF Heights
<1>4. /\ Highest(Heights(S)) \in Heights(S)
      /\ \A k \in Heights(S) : k <= Highest(Heights(S))
  BY <1>2, <1>3, HighestOf
<1> QED  BY <1>3, <1>4 DEF Heights

LEMMA SameThresholds ==
  /\ Abstract!Replica = Replica /\ Abstract!NResponsive = NResponsive
  /\ \A S : Abstract!Cardinality(S) = Cardinality(S)
<1>1. Abstract!Replica = Replica /\ Abstract!NResponsive = NResponsive
  BY DEF Abstract!Replica, Replica, Abstract!NResponsive, NResponsive
<1>2. ASSUME NEW S PROVE Abstract!Cardinality(S) = Cardinality(S)
  BY DEF Abstract!Cardinality, Cardinality
<1> QED  BY <1>1, <1>2

\* What is in BeaconChain's variables.
Chain == Highest(Heights(Known))
Views == [r \in Replica |-> st[r].view]
Decided == [r \in Replica |-> Highest(Heights(st[r].decided))]

Mapping ==
  /\ Highest({0} \cup {m.blk.height : m \in Sent("propose")}) = Chain
  /\ [r \in Replica |-> Highest({b.height : b \in st[r].decided})] = Decided

LEMMA AbstractState == Mapping
<1>1. {0} \cup {m.blk.height : m \in Sent("propose")} \subseteq Heights(Known)
  <2>1. 0 \in Heights(Known)
    <3>1. Genesis \in Known /\ Genesis.height = 0
      BY DEF Known, Genesis
    <3> QED  BY <3>1 DEF Heights
  <2>2. \A m \in Sent("propose") : m.blk \in Known
    BY DEF Known
  <2> QED  BY <2>1, <2>2 DEF Heights
<1>2. Heights(Known) \subseteq {0} \cup {m.blk.height : m \in Sent("propose")}
  BY DEF Heights, Known, Genesis
<1>3. {0} \cup {m.blk.height : m \in Sent("propose")} = Heights(Known)
  BY <1>1, <1>2
<1>4. Highest({0} \cup {m.blk.height : m \in Sent("propose")}) = Highest(Heights(Known))
  BY <1>3
<1> QED  BY <1>4 DEF Mapping, Chain, Decided, Heights

LEMMA InitAbstract ==
  ASSUME Init
  PROVE  Abstract!Init
<1>1. Known = {Genesis} /\ Genesis \in Block /\ Genesis.height = 0
  BY GenesisType DEF Init, Known, Sent, Genesis
<1>2. \A r \in Replica : st[r].decided = {Genesis} /\ st[r].view = 1
  BY DEF Init, InitState
<1>3. Highest(Heights({Genesis})) = 0
  BY <1>1, HighestBlock
<1>4. Chain = 0 /\ Decided = [r \in Replica |-> 0]
  BY <1>1, <1>2, <1>3 DEF Chain, Decided
<1> QED  BY <1>2, <1>4, AbstractState, SameThresholds DEF Mapping, Abstract!Init

LEMMA DecidedHighest ==
  ASSUME TypeOK, ChainInv, CommitInv, NEW r \in Replica, NEW s, Fit(r, s)
  PROVE  /\ Highest(Heights(s.decided)) \in Nat
         /\ \E b \in s.decided : b.height = Highest(Heights(s.decided))
         /\ \A b \in s.decided : b.height <= Highest(Heights(s.decided))
<1>1. s.decided \subseteq Known /\ s.decided # {}
  BY DEF Fit, Settled, Ready
<1>2. s.decided \in SUBSET Block
  BY <1>1, BlocksInLine
<1> QED  BY <1>1, <1>2, HighestBlock

LEMMA KnownHighest ==
  ASSUME TypeOK, ChainInv
  PROVE  /\ Chain \in Nat /\ \E b \in Known : b.height = Chain
         /\ \A b \in Known : b.height <= Chain
<1>1. Known \in SUBSET Block /\ Known # {}
  BY BlocksInLine
<1> QED  BY <1>1, HighestBlock DEF Chain

LEMMA ReadyIsCertified ==
  ASSUME TypeOK, ChainInv, NEW b \in Ready
  PROVE  Abstract!Certified(b.height)
<1>1. b \in Known /\ Attended(b.view) /\ b.height = b.view
  BY BlocksInLine DEF Ready
<1>2. b.height <= Chain
  BY <1>1, KnownHighest
<1>3. {q \in Replica : [p \in Replica |-> st[p].view][q] >= b.height}
        = {q \in Replica : st[q].view >= b.view}
  BY <1>1
<1> QED
  BY <1>1, <1>2, <1>3, AbstractState, SameThresholds
  DEF Mapping, Attended, Abstract!Certified

\* A step that proposes is Extend: its block is the view's, on top of the last.
LEMMA ProposingExtends ==
  ASSUME CommandsInTime, TypeOK, BeaconsIgnored, CertInv, ChainInv, CommitInv,
         TypeOK', ChainInv', NEW r \in Replica, Step(r), NEW s, Does(r, s),
         NEW b \in Known', b \notin Known
  PROVE  Abstract!Extend(r)
<1> Lined' /\ Mapping'
  BY BlocksLined, AbstractState, PTL
<1>1. /\ Known' = Known \cup {m.blk : m \in ProposalsIn(s.out)}
      /\ \A c \in Known' : c \notin Known =>
           /\ ProposalsIn(s.out) # {} /\ c.view = st[r].view /\ c.view \in Nat
           /\ \A d \in Known : d.view < c.view
  BY NewBlocksLead
<1>2. PICK m \in Sent("propose")' : m.blk = b
  <2>1. b # Genesis
    BY BlocksInLine
  <2> QED  BY <2>1 DEF Known
<1>3. /\ b.height = b.view /\ m.parent \in Known' /\ m.parent.view = b.view - 1
  BY <1>2 DEF ChainInv, Regular
<1>4. m.parent \in Known
  BY <1>1, <1>3
<1>5. Chain = b.view - 1
  <2>1. PICK c \in Known : c.height = Chain
    BY KnownHighest
  <2>2. c.height = c.view /\ c.view < b.view /\ c.view \in Nat
    BY <1>1, <2>1, BlocksInLine
  <2>3. m.parent.height = b.view - 1 /\ m.parent.height <= Chain
    BY <1>3, <1>4, BlocksInLine, KnownHighest
  <2> QED  BY <1>1, <2>1, <2>2, <2>3
<1>6. Chain' = b.view
  <2>1. Known' \in SUBSET Block /\ Known' # {}
    BY DEF Lined
  <2>2. /\ \E c \in Known' : c.height = Chain'
        /\ \A c \in Known' : c.height <= Chain' /\ Chain' \in Nat
    BY <2>1, HighestBlock DEF Chain
  <2>3. ASSUME NEW c \in Known' PROVE c.height <= b.view
    <3>1. CASE c \in Known
      BY <1>1, <3>1, BlocksInLine
    <3>2. CASE c \notin Known
      <4>1. c.view = b.view
        BY <1>1, <3>2
      <4>2. c = b
        BY <4>1 DEF Lined
      <4> QED  BY <1>1, <1>3, <4>2
    <3> QED  BY <3>1, <3>2
  <2> QED  BY <1>1, <1>3, <2>2, <2>3
<1>7. Views' = Views /\ Decided' = Decided /\ st[r].view = b.view
  <2>1. /\ st' = [st EXCEPT ![r] = [s EXCEPT !.out = {}]] /\ s \in ReplicaState
        /\ s.view = st[r].view /\ s.decided = st[r].decided /\ st[r].view = b.view
    BY <1>1 DEF Does, Acts
  <2>2. st'[r].view = s.view /\ st'[r].decided = s.decided
    BY <2>1 DEF TypeOK, ReplicaState
  <2>3. \A q \in Replica : q # r => st'[q] = st[q]
    BY <2>1 DEF TypeOK
  <2>4. \A q \in Replica : st'[q].view = st[q].view /\ st'[q].decided = st[q].decided
    BY <2>1, <2>2, <2>3
  <2> QED  BY <2>1, <2>4 DEF Views, Decided
<1>8. Views[r] = Chain + 1 /\ Chain' = Chain + 1
  BY <1>1, <1>5, <1>6, <1>7 DEF Views
<1> QED  BY <1>7, <1>8, AbstractState DEF Mapping, Views, Abstract!Extend

\* Every other step is CommitAdvance, or changes nothing of BeaconChain.
LEMMA OthersAdvance ==
  ASSUME CommandsInTime, TypeOK, BeaconsIgnored, CertInv, ChainInv, CommitInv,
         TypeOK', ChainInv', NEW r \in Replica, Step(r), NEW s, Does(r, s),
         Known' = Known
  PROVE  Abstract!CommitAdvance(r)
<1> Mapping'
  BY AbstractState, PTL
<1>1. /\ st' = [st EXCEPT ![r] = [s EXCEPT !.out = {}]] /\ s \in ReplicaState
      /\ st[r].decided \subseteq s.decided /\ Fit(r, s) /\ Leaves(r, st[r], s)
      /\ Fit(r, st[r])
  BY DEF Does, Acts, CommitInv
<1>2. /\ st'[r].view = s.view /\ st'[r].decided = s.decided
      /\ \A q \in Replica : q # r => st'[q] = st[q]
  BY <1>1 DEF TypeOK, ReplicaState
<1> DEFINE h == Highest(Heights(s.decided))
<1>3. Chain' = Chain
  BY DEF Chain
<1>4. Decided' = [Decided EXCEPT ![r] = h] /\ Decided[r] = Highest(Heights(st[r].decided))
  BY <1>2 DEF Decided
<1>5. /\ h \in Nat /\ Decided[r] \in Nat /\ Chain \in Nat
      /\ Decided[r] <= h /\ h <= Chain
  <2>1. PICK b \in s.decided : b.height = h
    BY <1>1, DecidedHighest
  <2>2. PICK c \in st[r].decided : c.height = Decided[r]
    BY <1>1, <1>4, DecidedHighest
  <2>3. b \in Known /\ c \in s.decided
    BY <1>1, <2>1, <2>2 DEF Fit, Settled, Ready
  <2> QED  BY <1>1, <1>4, <2>1, <2>2, <2>3, DecidedHighest, KnownHighest
<1>6. Abstract!Certified(h)
  <2>1. PICK b \in s.decided : b.height = h
    BY <1>1, DecidedHighest
  <2>2. b \in Ready
    BY <1>1 DEF Fit, Settled
  <2> QED  BY <2>1, <2>2, ReadyIsCertified
<1> HIDE DEF h
<1>7. \/ Views' = Views
      \/ Abstract!Certified(st[r].view) /\ Views' = [Views EXCEPT ![r] = @ + 1]
  <2>1. CASE s.view = st[r].view
    BY <1>2, <2>1 DEF Views
  <2>2. CASE s.view # st[r].view
    <3>1. s.view = st[r].view + 1 /\ st[r].last_view_cert_received = st[r].view
      BY <1>1, <2>2 DEF Leaves
    <3>2. st[r].view \in Certified
      BY <3>1 DEF CertInv, Backing, Backed
    <3>3. PICK b \in Ready : b.view = st[r].view
      BY <3>2, CertifiedIsReady
    <3>4. b.height = b.view
      BY BlocksInLine DEF Ready
    <3>5. Abstract!Certified(st[r].view)
      BY <3>3, <3>4, ReadyIsCertified
    <3>6. Views' = [Views EXCEPT ![r] = @ + 1]
      BY <1>2, <3>1 DEF Views
    <3> QED  BY <3>5, <3>6
  <2> QED  BY <2>1, <2>2
<1>8. h \in Decided[r] .. Chain
  BY <1>5
<1>9. Views[r] = st[r].view
  BY DEF Views
<1> QED
  BY <1>3, <1>4, <1>6, <1>7, <1>8, <1>9, AbstractState
  DEF Mapping, Views, Abstract!CommitAdvance

LEMMA StutterAbstract ==
  ASSUME UNCHANGED vars
  PROVE  UNCHANGED Abstract!vars
BY DEF vars, Abstract!vars, Sent

LEMMA StepAbstract ==
  ASSUME CommandsInTime, TypeOK, BeaconsIgnored, CertInv, ChainInv, CommitInv,
         TypeOK', ChainInv', [Next]_vars
  PROVE  [Abstract!Next]_(Abstract!vars)
<1>1. CASE UNCHANGED vars
  BY <1>1, StutterAbstract
<1>2. CASE Next /\ ~ UNCHANGED vars
  <2>1. PICK r \in Replica : Step(r)
    BY <1>2 DEF Next
  <2>2. PICK s : Does(r, s)
    BY <1>2, <2>1, StepActs
  <2>3. CASE Known' = Known
    <3>1. Abstract!CommitAdvance(r)
      BY <2>1, <2>2, <2>3, OthersAdvance
    <3> QED  BY <3>1, SameThresholds DEF Abstract!Next
  <2>4. CASE Known' # Known
    <3>1. Known \subseteq Known'
      BY <2>1, <2>2, NewBlocksLead
    <3>2. PICK b \in Known' : b \notin Known
      BY <2>4, <3>1
    <3>3. Abstract!Extend(r)
      BY <2>1, <2>2, <3>2, ProposingExtends
    <3> QED  BY <3>3, SameThresholds DEF Abstract!Next
  <2> QED  BY <2>3, <2>4
<1> QED  BY <1>1, <1>2

\* Every behaviour is one of BeaconChain: one block a view and on top of the last,
\* and a block committed, or its view left, only once nresponsive replicas are in
\* its view (on_propose, check_commit, _try_enter_view).
THEOREM ImplementsBeaconChain ==
  ASSUME CommandsInTime
  PROVE  Spec => ChainSpec
<1>1. Init => Abstract!Init
  BY InitAbstract
<1>2. TypeOK /\ BeaconsIgnored /\ CertInv /\ ChainInv /\ Joined /\ [Next]_vars
        /\ TypeOK' /\ ChainInv' => [Abstract!Next]_(Abstract!vars)
  BY StepAbstract DEF Joined
<1> QED
  BY <1>1, <1>2, TypeCorrect, BeaconsNeverCount, CertInvariance, ChainInvariance,
     JoinedInvariance, PTL DEF Spec, ChainSpec, Abstract!Spec

=============================================================================
