----------------------------- MODULE ChainProofs -----------------------------
(***************************************************************************)
(* For every number of replicas, while client commands come in the first   *)
(* view only: one block is proposed in a view, by the view's proposer, on  *)
(* top of the block of the view before and certifying it.                  *)
(*                                                                         *)
(* What makes it so is the tail and the highest certificate a proposer     *)
(* goes by.  Both are blocks that have been proposed (Sound).  They are no *)
(* older than the view before, as a view is left with its certificate; and *)
(* they are no newer, as a block of a later view stands for certificates   *)
(* of all views before that, the proposer's own view among them, in which  *)
(* nobody else proposes.                                                   *)
(***************************************************************************)
EXTENDS OptRandCoreProofs

-----------------------------------------------------------------------------
(* What every function does.                                               *)

ProposalsIn(ms) == {m \in ms : m.type = "propose"}

\* Messages that hand on a block.
Naming(ms) == {m \in ms : m.type \in {"propose", "status", "qc", "echo2"}}

\* The blocks proposed, and the genesis block.
Known == {Genesis} \cup {m.blk : m \in Sent("propose")}

\* All blocks the replica goes by are in K; its tail is no lower than its highest
\* certificate, which is no older than the last one it has taken and has the
\* view before its own.
Sound(K, s) ==
  /\ s.hqc \in K /\ s.hqc_tail \in K
  /\ s.hqc.height <= s.hqc_tail.height
  /\ s.last_view_cert_received <= s.hqc.view
  /\ s.view - 1 <= s.hqc.view
  /\ s.last_proposed_view <= s.view
  /\ \A b \in Block : s.voted[b] # {} => b \in K
  /\ \A m \in Naming(s.out) :
       /\ m.type = "status" => m.qc \in K
       /\ m.type \in {"qc", "echo2"} => m.blk \in K

\* No block changes hands; a view may be left with its certificate.
Apart(s, t) ==
  /\ t \in ReplicaState
  /\ t.hqc = s.hqc /\ t.hqc_tail = s.hqc_tail /\ t.voted = s.voted
  /\ t.last_view_cert_received = s.last_view_cert_received
  /\ t.last_proposed_view = s.last_proposed_view
  /\ t.view >= s.view
  /\ t.view # s.view => t.view = s.last_view_cert_received + 1
  /\ Naming(t.out) \subseteq Naming(s.out)

\* Nothing is proposed.
Plain(K, s, t) ==
  /\ t \in ReplicaState /\ Sound(K, t) /\ t.view >= s.view
  /\ t.last_proposed_view = s.last_proposed_view
  /\ ProposalsIn(t.out) \subseteq ProposalsIn(s.out)

\* r proposes m for the first time in the view, on its tail.
Extends(r, s, t, m) ==
  /\ m \in Proposals /\ m.from = r /\ s.pm_proposer = r
  /\ m.blk.view = s.view /\ s.last_proposed_view < s.view
  /\ t.last_proposed_view >= s.view
  /\ m.parent \in Known /\ m.qc_ref \in Known
  /\ m.blk.height = m.parent.height + 1
  /\ m.qc_ref.height <= m.parent.height
  /\ m.blk.view - 1 <= m.qc_ref.view

\* At most one block is proposed.
Chains(r, s, t) ==
  /\ t \in ReplicaState /\ t.view >= s.view
  /\ t.last_proposed_view >= s.last_proposed_view
  /\ Sound(Known \cup {m.blk : m \in ProposalsIn(t.out)}, t)
  /\ \A m \in ProposalsIn(t.out) : Extends(r, s, t, m)
  /\ \A m, n \in ProposalsIn(t.out) : m = n

LEMMA ApartTransitive ==
  ASSUME NEW s \in ReplicaState, NEW t, NEW u, Apart(s, t), Apart(t, u)
  PROVE  Apart(s, u)
<1>1. s.view \in Nat /\ t.view \in Nat /\ u.view \in Nat
  BY ViewNat DEF Apart, ReplicaState
<1> QED  BY <1>1 DEF Apart

LEMMA ApartReflexive ==
  ASSUME NEW s \in ReplicaState PROVE Apart(s, s)
<1>1. s.view \in Nat
  BY ViewNat DEF ReplicaState
<1> QED  BY <1>1 DEF Apart

LEMMA ApartPlain ==
  ASSUME NEW s \in ReplicaState, NEW t, NEW K, Sound(K, s), Apart(s, t)
  PROVE  Plain(K, s, t)
<1>1. /\ s.view \in Nat /\ t.view \in Nat /\ s.last_view_cert_received \in Nat
      /\ s.hqc.view \in Nat /\ s.last_proposed_view \in Nat
  BY ViewNat DEF Apart, Block, ReplicaState
<1>2. t.view - 1 <= t.hqc.view /\ t.last_proposed_view <= t.view
  BY <1>1 DEF Apart, Sound
<1>3. Sound(K, t)
  BY <1>2 DEF Apart, Sound
<1>4. ProposalsIn(t.out) \subseteq ProposalsIn(s.out)
  BY DEF Apart, ProposalsIn, Naming
<1> QED  BY <1>3, <1>4 DEF Apart, Plain

LEMMA PlainApart ==
  ASSUME NEW s \in ReplicaState, NEW t, NEW u, NEW K, Plain(K, s, t), Apart(t, u)
  PROVE  Plain(K, s, u)
<1>1. Plain(K, t, u)
  BY ApartPlain DEF Plain
<1>2. s.view \in Nat /\ t.view \in Nat /\ u.view \in Nat
  BY <1>1, ViewNat DEF Plain, ReplicaState
<1> QED  BY <1>1, <1>2 DEF Plain

LEMMA ApartThenPlain ==
  ASSUME NEW s \in ReplicaState, NEW t, NEW u, NEW K, Apart(s, t), Plain(K, t, u)
  PROVE  Plain(K, s, u)
<1>1. s.view \in Nat /\ t.view \in Nat /\ u.view \in Nat
  BY ViewNat DEF Apart, Plain, ReplicaState
<1>2. ProposalsIn(t.out) \subseteq ProposalsIn(s.out)
  BY DEF Apart, ProposalsIn, Naming
<1> QED  BY <1>1, <1>2 DEF Apart, Plain

LEMMA SoundGrows ==
  ASSUME NEW s, NEW K, NEW L, K \subseteq L, Sound(K, s)
  PROVE  Sound(L, s)
BY DEF Sound

LEMMA PlainChains ==
  ASSUME NEW s \in ReplicaState, NEW t, NEW r, ProposalsIn(s.out) = {},
         Plain(Known, s, t)
  PROVE  Chains(r, s, t)
<1>1. ProposalsIn(t.out) = {}
  BY DEF Plain
<1>2. Sound(Known \cup {m.blk : m \in ProposalsIn(t.out)}, t)
  BY SoundGrows DEF Plain
<1>3. s.last_proposed_view \in Nat
  BY ViewNat DEF ReplicaState
<1> QED  BY <1>1, <1>2, <1>3 DEF Plain, Chains

-----------------------------------------------------------------------------
(* The functions that hand on no block, s being the state of replica r.    *)

LEMMA SameApart ==
  ASSUME NEW s \in ReplicaState, NEW t \in ReplicaState,
         t.hqc = s.hqc, t.hqc_tail = s.hqc_tail, t.voted = s.voted,
         t.last_view_cert_received = s.last_view_cert_received,
         t.last_proposed_view = s.last_proposed_view,
         t.view = s.view, Naming(t.out) \subseteq Naming(s.out)
  PROVE  Apart(s, t)
<1>1. s.view \in Nat
  BY ViewNat DEF ReplicaState
<1> QED  BY <1>1 DEF Apart

LEMMA SendApart ==
  ASSUME NEW s \in ReplicaState, NEW ms \in SUBSET Message, Naming(ms) = {}
  PROVE  Apart(s, Send(s, ms))
<1> DEFINE t == Send(s, ms)
<1>1. /\ t \in ReplicaState /\ t.hqc = s.hqc /\ t.hqc_tail = s.hqc_tail
      /\ t.voted = s.voted /\ t.last_view_cert_received = s.last_view_cert_received
      /\ t.last_proposed_view = s.last_proposed_view
      /\ t.view = s.view /\ t.out = s.out \cup ms
  BY DEF Send, ReplicaState
<1> HIDE DEF t
<1>2. Naming(t.out) \subseteq Naming(s.out)
  BY <1>1 DEF Naming
<1> QED  BY <1>1, <1>2, SameApart DEF t

LEMMA PushApart ==
  ASSUME NEW s \in ReplicaState, NEW f \in Frame
  PROVE  Apart(s, Push(s, f))
<1>1. Push(s, f) \in ReplicaState
  BY PushMoves DEF Moves
<1> QED  BY <1>1, SameApart DEF Push, ReplicaState

LEMMA ThrowApart ==
  ASSUME NEW s \in ReplicaState
  PROVE  Apart(s, Throw(s))
<1>1. Throw(s) \in ReplicaState
  BY ThrowLeads DEF Leads, Moves
<1> QED  BY <1>1, SameApart DEF Throw, ReplicaState

LEMMA CheckCommitApart ==
  ASSUME NEW s \in ReplicaState, NEW b \in Block
  PROVE  Apart(s, CheckCommit(s, b))
<1> DEFINE queue == {a \in Ancestors[b] \cap Block : a.height > s.b_exec.height}
           done == [s EXCEPT !.decided = @ \cup queue, !.b_exec = b]
<1>1. queue \in SUBSET Block
  OBVIOUS
<1>2. Apart(s, done)
  <2> HIDE DEF queue
  <2>1. done \in ReplicaState
    BY <1>1 DEF ReplicaState
  <2> QED  BY <2>1, SameApart DEF ReplicaState
<1>3. CheckCommit(s, b) = Throw(s) \/ CheckCommit(s, b) = done
  BY DEF CheckCommit
<1> QED  BY <1>2, <1>3, ThrowApart

LEMMA TryEnterViewApart ==
  ASSUME NEW s \in ReplicaState
  PROVE  Apart(s, TryEnterView(s))
<1> DEFINE p == GetProposer(s.view + 1)
           t == [s EXCEPT !.view = s.view + 1, !.pm_proposer = p]
           f == [at |-> "enter_view", view |-> s.view + 1, blk |-> Genesis,
                 vote |-> FALSE, proposer |-> p]
<1>1. CASE TryEnterView(s) = s
  BY <1>1, ApartReflexive
<1>2. CASE TryEnterView(s) # s
  <2>1. s.last_view_cert_received = s.view /\ TryEnterView(s) = Push(t, f)
    BY <1>2 DEF TryEnterView, EnterView, ReplicaState
  <2>2. s.view \in Nat /\ s.view + 1 \in View
    <3>1. s.view \in 0 .. MaxView
      BY <2>1 DEF ReplicaState
    <3> HIDE DEF p, t, f
    <3>2. MaxView \in Nat
      BY NReplicasAssumption, BoundsAssumption
    <3> QED  BY <3>1, <3>2 DEF View
  <2>3. p \in Replica
    BY <2>2, ProposerType
  <2> HIDE DEF p
  <2>4. /\ t \in ReplicaState /\ t.view = s.view + 1 /\ t.out = s.out
        /\ t.hqc = s.hqc /\ t.hqc_tail = s.hqc_tail /\ t.voted = s.voted
        /\ t.last_view_cert_received = s.last_view_cert_received
        /\ t.last_proposed_view = s.last_proposed_view
    BY <2>2, <2>3 DEF ReplicaState
  <2>5. f \in Frame
    BY <2>2, <2>3, GenesisType DEF Frame
  <2> HIDE DEF t, f
  <2>6. Apart(s, t)
    BY <2>1, <2>2, <2>4 DEF Apart
  <2>7. Apart(t, Push(t, f))
    BY <2>4, <2>5, PushApart
  <2> QED  BY <2>1, <2>6, <2>7, ApartTransitive
<1> QED  BY <1>1, <1>2

LEMMA OnReceiveShareApart ==
  ASSUME NEW s \in ReplicaState, NEW r \in Replica, NEW origin \in Replica, NEW v \in View
  PROVE  Apart(s, OnReceiveShare(s, r, origin, v))
<1> DEFINE t == [s EXCEPT !.view_shares[v] = Append(@, origin)]
           beacon == [type |-> "beacon", from |-> r, view |-> t.view]
           sent == Send(t, {beacon})
           u == [sent EXCEPT !.last_view_shares_received = t.view,
                             !.last_view_beacon_received = t.view]
<1>1. t \in ReplicaState /\ Apart(s, t)
  <2>1. Append(s.view_shares[v], origin) \in Seq(Replica)
    BY DEF ReplicaState
  <2>2. t \in ReplicaState
    BY <2>1 DEF ReplicaState
  <2> QED  BY <2>2, SameApart DEF ReplicaState
<1>2. OnReceiveShare(s, r, origin, v) \in {s, t, Throw(t), TryEnterView(u)}
  BY DEF OnReceiveShare
<1>3. t.view \in View
  BY <1>1 DEF ReplicaState
<1> HIDE DEF t
<1>4. sent \in ReplicaState /\ Apart(t, sent)
  <2>1. {beacon} \in SUBSET Message /\ Naming({beacon}) = {}
    BY <1>3 DEF Message, Beacons, Naming
  <2> QED  BY <1>1, <2>1, SendApart DEF Apart
<1> HIDE DEF sent
<1>5. u \in ReplicaState
  BY <1>3, <1>4 DEF ReplicaState
<1>6. Apart(sent, u)
  BY <1>4, <1>5, SameApart DEF ReplicaState
<1> HIDE DEF u
<1>7. Apart(u, TryEnterView(u))
  BY <1>5, TryEnterViewApart
<1>8. Apart(t, Throw(t))
  BY <1>1, ThrowApart
<1>9. Apart(s, TryEnterView(u))
  BY <1>1, <1>4, <1>5, <1>6, <1>7, ApartTransitive
<1>10. Apart(s, Throw(t))
  BY <1>1, <1>8, ApartTransitive
<1> QED  BY <1>1, <1>2, <1>9, <1>10, ApartReflexive

LEMMA BroadcastShareApart ==
  ASSUME NEW s \in ReplicaState, NEW r \in Replica, NEW b \in Block
  PROVE  Apart(s, BroadcastShare(s, r, b))
<1> DEFINE t == OnReceiveShare(s, r, r, s.view)
           shares == {[type |-> "share", from |-> r, to |-> q,
                       view |-> s.view, blk |-> b] : q \in Replica \ {r}}
<1>1. s.view \in View
  BY DEF ReplicaState
<1>2. Apart(s, t)
  BY <1>1, OnReceiveShareApart
<1>3. shares \in SUBSET Message /\ Naming(shares) = {}
  BY <1>1 DEF Message, Shares, Naming
<1>4. BroadcastShare(s, r, b) = t \/ BroadcastShare(s, r, b) = Send(t, shares)
  BY DEF BroadcastShare
<1> HIDE DEF t, shares
<1>5. Apart(t, Send(t, shares))
  BY <1>2, <1>3, SendApart DEF Apart
<1> QED  BY <1>2, <1>4, <1>5, ApartTransitive

LEMMA OnReceiveAckApart ==
  ASSUME NEW s \in ReplicaState, NEW r \in Replica, NEW b \in Block,
         NEW voter \in Replica, NEW v \in View
  PROVE  Apart(s, OnReceiveAck(s, r, b, voter, v))
<1> DEFINE t == [s EXCEPT !.acked[b] = @ \cup {voter}]
           u == CheckCommit(t, b)
<1>1. t \in ReplicaState
  BY DEF ReplicaState
<1>2. Apart(s, t)
  BY <1>1, SameApart DEF ReplicaState
<1>3. OnReceiveAck(s, r, b, voter, v) \in {s, t, u, BroadcastShare(u, r, b)}
  BY DEF OnReceiveAck
<1> HIDE DEF t
<1>4. Apart(t, u)
  BY <1>1, CheckCommitApart
<1> HIDE DEF u
<1>5. Apart(u, BroadcastShare(u, r, b))
  BY <1>4, BroadcastShareApart DEF Apart
<1> QED  BY <1>2, <1>3, <1>4, <1>5, ApartReflexive, ApartTransitive

LEMMA AckApart ==
  ASSUME NEW s \in ReplicaState, NEW r \in Replica, NEW b \in Block
  PROVE  Apart(s, Ack(s, r, b))
<1> DEFINE t == OnReceiveAck(s, r, b, r, s.view)
           ack == [type |-> "ack", from |-> r, blk |-> b, view |-> s.view]
<1>1. s.view \in View
  BY DEF ReplicaState
<1>2. Apart(s, t)
  BY <1>1, OnReceiveAckApart
<1>3. {ack} \in SUBSET Message /\ Naming({ack}) = {}
  BY <1>1 DEF Message, Acks, Naming
<1>4. Ack(s, r, b) = t \/ Ack(s, r, b) = Send(t, {ack})
  BY DEF Ack
<1> HIDE DEF t, ack
<1>5. Apart(t, Send(t, {ack}))
  BY <1>2, <1>3, SendApart DEF Apart
<1> QED  BY <1>2, <1>4, <1>5, ApartTransitive

-----------------------------------------------------------------------------
(* The functions that take a block from elsewhere.                         *)

LEMMA UpdateHqcPlain ==
  ASSUME NEW s \in ReplicaState, NEW K, Sound(K, s), NEW b \in Block, b \in K,
         NEW t, t = UpdateHqc(s, b)
  PROVE  /\ Plain(K, s, t) /\ t.hqc_tail \in {s.hqc_tail, b}
         /\ t.view = s.view /\ t.pm_proposer = s.pm_proposer /\ t.out = s.out
         /\ t.voted = s.voted
         /\ t.last_view_cert_received = s.last_view_cert_received
         /\ b.view <= t.hqc.view
<1>1. t \in ReplicaState
  BY UpdateHqcLeads DEF Leads, Moves
<1>2. /\ t.view = s.view /\ t.pm_proposer = s.pm_proposer /\ t.out = s.out
      /\ t.voted = s.voted
      /\ t.last_view_cert_received = s.last_view_cert_received
      /\ t.last_proposed_view = s.last_proposed_view
      /\ \/ b.view <= s.hqc.view /\ t.hqc = s.hqc /\ t.hqc_tail = s.hqc_tail
         \/ /\ b.view > s.hqc.view /\ t.hqc = b
            /\ t.hqc_tail = IF b.height > s.hqc_tail.height THEN b ELSE s.hqc_tail
  BY DEF UpdateHqc, Block, ReplicaState
<1>3. /\ s.hqc.view \in Nat /\ b.view \in Nat /\ s.view \in Nat
      /\ s.hqc.height \in Nat /\ s.hqc_tail.height \in Nat /\ b.height \in Nat
      /\ s.last_view_cert_received \in Nat
  BY ViewNat, HeightNat DEF Block, ReplicaState
<1>4. /\ t.hqc \in K /\ t.hqc_tail \in K /\ t.hqc_tail \in {s.hqc_tail, b}
      /\ t.hqc.height <= t.hqc_tail.height
      /\ t.last_view_cert_received <= t.hqc.view
      /\ t.view - 1 <= t.hqc.view /\ b.view <= t.hqc.view
  BY <1>2, <1>3 DEF Sound
<1>5. Sound(K, t)
  BY <1>2, <1>4 DEF Sound
<1> QED  BY <1>1, <1>2, <1>3, <1>4, <1>5 DEF Plain

LEMMA OnReceiveVotePlain ==
  ASSUME NEW s \in ReplicaState, NEW K, Sound(K, s), NEW r \in Replica,
         NEW b \in Block, b \in K, NEW voter \in Replica, NEW v \in View,
         NEW t, t = OnReceiveVote(s, r, b, voter, v)
  PROVE  Plain(K, s, t) /\ t.hqc_tail \in {s.hqc_tail, b}
<1> DEFINE a == [s EXCEPT !.voted[b] = @ \cup {voter}]
           u == UpdateHqc(a, b)
           qc == [type |-> "qc", from |-> r, blk |-> b]
           w == Send(u, {qc})
<1>1. t \in {s, a, Ack(w, r, b)}
  BY DEF OnReceiveVote
<1>2. /\ a \in ReplicaState /\ a.hqc = s.hqc /\ a.hqc_tail = s.hqc_tail
      /\ a.last_view_cert_received = s.last_view_cert_received
      /\ a.last_proposed_view = s.last_proposed_view
      /\ a.view = s.view /\ a.out = s.out
      /\ \A c \in Block : c # b => a.voted[c] = s.voted[c]
  BY DEF ReplicaState
<1>3. s.view \in Nat
  BY ViewNat DEF ReplicaState
<1> HIDE DEF a
<1>4. Sound(K, a)
  BY <1>2 DEF Sound
<1>5. Plain(K, s, a)
  BY <1>2, <1>3, <1>4 DEF Plain
<1>6. /\ Plain(K, a, u) /\ u.hqc_tail \in {a.hqc_tail, b}
      /\ u.view = a.view /\ u.out = a.out
  BY <1>2, <1>4, UpdateHqcPlain
<1> HIDE DEF u
<1>7. u \in ReplicaState /\ {qc} \in SUBSET Message
  BY <1>6 DEF Plain, Message, Certificates
<1>8. /\ w \in ReplicaState /\ w.hqc = u.hqc /\ w.hqc_tail = u.hqc_tail
      /\ w.voted = u.voted /\ w.last_view_cert_received = u.last_view_cert_received
      /\ w.last_proposed_view = u.last_proposed_view
      /\ w.view = u.view /\ w.out = u.out \cup {qc}
  BY <1>7 DEF Send, ReplicaState
<1> HIDE DEF w
<1>9. Sound(K, w)
  <2>1. \A m \in Naming(w.out) : m \in Naming(u.out) \/ m = qc
    BY <1>8 DEF Naming
  <2>2. qc.type = "qc" /\ qc.blk \in K
    OBVIOUS
  <2> HIDE DEF qc
  <2> QED  BY <1>6, <1>8, <2>1, <2>2 DEF Plain, Sound
<1>10. ProposalsIn(w.out) \subseteq ProposalsIn(s.out)
  BY <1>2, <1>6, <1>8 DEF ProposalsIn
<1>11. Plain(K, s, w) /\ w.hqc_tail \in {s.hqc_tail, b}
  BY <1>2, <1>3, <1>6, <1>8, <1>9, <1>10 DEF Plain
<1>12. Apart(w, Ack(w, r, b))
  BY <1>8, AckApart
<1>13. Plain(K, s, Ack(w, r, b)) /\ Ack(w, r, b).hqc_tail = w.hqc_tail
  BY <1>11, <1>12, PlainApart DEF Apart
<1>14. Plain(K, s, s)
  BY <1>3 DEF Plain
<1> QED  BY <1>1, <1>2, <1>5, <1>11, <1>13, <1>14

LEMMA VotePlain ==
  ASSUME NEW s \in ReplicaState, NEW K, Sound(K, s), NEW r \in Replica,
         NEW b \in Block, b \in K, NEW proposer \in Replica
  PROVE  Plain(K, s, Vote(s, r, b, proposer))
<1> DEFINE vote == [type |-> "vote", from |-> r, to |-> proposer, blk |-> b,
                    view |-> s.view]
<1>1. s.view \in View
  BY DEF ReplicaState
<1>2. CASE proposer = r
  <2>1. Vote(s, r, b, proposer) = OnReceiveVote(s, r, b, r, s.view)
    BY <1>2 DEF Vote
  <2> QED  BY <1>1, <2>1, OnReceiveVotePlain
<1>3. CASE proposer # r
  <2>1. {vote} \in SUBSET Message /\ Naming({vote}) = {}
    BY <1>1 DEF Message, Votes, Naming
  <2>2. Vote(s, r, b, proposer) = Send(s, {vote})
    BY <1>3 DEF Vote
  <2> HIDE DEF vote
  <2>3. Apart(s, Send(s, {vote}))
    BY <2>1, SendApart
  <2> QED  BY <2>2, <2>3, ApartPlain
<1> QED  BY <1>2, <1>3

LEMMA OnReceiveProposalPlain ==
  ASSUME msgs \subseteq Message, NEW s \in ReplicaState, NEW r \in Replica,
         NEW m \in Sent("propose"), m.qc_ref \in Known, Sound(Known, s),
         OnReceiveProposal(s, r, m) # s
  PROVE  Plain(Known, s, OnReceiveProposal(s, r, m))
<1> DEFINE t == OnReceiveProposal(s, r, m)
           u == UpdateHqc(s, m.qc_ref)
<1>1. t \in ReplicaState
  BY OnReceiveProposalMoves DEF Moves
<1>2. m.qc_ref \in Block /\ m.blk \in Block /\ m.blk \in Known
  BY SentTypes DEF Proposals, Known
<1>3. Plain(Known, s, u)
  BY <1>2, UpdateHqcPlain
<1>4. u \in ReplicaState
  BY <1>3 DEF Plain
<1>5. /\ t.hqc = u.hqc /\ t.voted = u.voted
      /\ t.last_view_cert_received = u.last_view_cert_received
      /\ t.last_proposed_view = u.last_proposed_view
      /\ t.view = u.view /\ t.out = u.out
      /\ \/ t.hqc_tail = u.hqc_tail
         \/ t.hqc_tail = m.blk /\ m.blk.height > u.hqc_tail.height
  <2>1. m.blk \notin s.finished_propose
    BY DEF OnReceiveProposal
  <2> HIDE DEF u
  <2> QED  BY <1>4, <2>1 DEF OnReceiveProposal, Push, ReplicaState, u
<1>6. u.hqc.height \in Nat /\ u.hqc_tail.height \in Nat /\ m.blk.height \in Nat
  BY <1>2, <1>4, HeightNat DEF ReplicaState
<1> HIDE DEF t, u
<1>7. t.hqc.height <= t.hqc_tail.height /\ t.hqc_tail \in Known
  BY <1>2, <1>3, <1>5, <1>6 DEF Plain, Sound
<1>8. Sound(Known, t)
  BY <1>3, <1>5, <1>7 DEF Plain, Sound
<1> QED  BY <1>1, <1>3, <1>5, <1>8 DEF Plain, t

LEMMA OnReceiveQCPlain ==
  ASSUME NEW s \in ReplicaState, NEW K, Sound(K, s), NEW r \in Replica,
         NEW b \in Block, b \in K, NEW found
  PROVE  Plain(K, s, OnReceiveQC(s, r, b, found))
<1> DEFINE t == [s EXCEPT !.last_view_cert_received = b.view]
           u == UpdateHqc(t, b)
           echo == [type |-> "echo2", from |-> r, blk |-> b]
           w == Send(u, {echo})
           f == [at |-> "view_qc", view |-> s.view, blk |-> b, vote |-> FALSE,
                 proposer |-> r]
           c == UpdateHqc(s, b)
<1>1. OnReceiveQC(s, r, b, found) \in {s, Throw(s), Push(w, f)}
  BY DEF OnReceiveQC
<1>2. s.view \in Nat /\ f \in Frame /\ t \in ReplicaState
  BY ViewNat, ZenonT(40) DEF Frame, Block, ReplicaState
<1>3. u \in ReplicaState
  BY <1>2, UpdateHqcLeads DEF Leads, Moves
<1>4. /\ Plain(K, s, c) /\ c.view = s.view /\ c.out = s.out
      /\ b.view <= c.hqc.view
  BY UpdateHqcPlain
<1>5. /\ u.hqc = c.hqc /\ u.hqc_tail = c.hqc_tail /\ u.voted = c.voted
      /\ u.last_proposed_view = c.last_proposed_view
      /\ u.view = c.view /\ u.out = c.out
      /\ u.last_view_cert_received = b.view
  BY DEF UpdateHqc, ReplicaState
<1> HIDE DEF t, u, c, f
<1>6. Sound(K, u)
  BY <1>4, <1>5 DEF Plain, Sound
<1>7. {echo} \in SUBSET Message
  BY DEF Message, CertEchoes
<1>8. /\ w \in ReplicaState /\ w.hqc = u.hqc /\ w.hqc_tail = u.hqc_tail
      /\ w.voted = u.voted /\ w.last_view_cert_received = u.last_view_cert_received
      /\ w.last_proposed_view = u.last_proposed_view
      /\ w.view = u.view /\ w.out = u.out \cup {echo}
  BY <1>3, <1>7 DEF Send, ReplicaState
<1> HIDE DEF w
<1>9. Sound(K, w)
  <2>1. \A m \in Naming(w.out) : m \in Naming(u.out) \/ m = echo
    BY <1>8 DEF Naming
  <2>2. echo.type = "echo2" /\ echo.blk \in K
    OBVIOUS
  <2> HIDE DEF echo
  <2> QED  BY <1>6, <1>8, <2>1, <2>2 DEF Sound
<1>10. ProposalsIn(w.out) \subseteq ProposalsIn(s.out)
  BY <1>4, <1>5, <1>8 DEF ProposalsIn
<1>11. Plain(K, s, w)
  BY <1>2, <1>4, <1>5, <1>8, <1>9, <1>10 DEF Plain
<1>12. Apart(w, Push(w, f))
  BY <1>2, <1>8, PushApart
<1>13. Plain(K, s, Push(w, f))
  BY <1>11, <1>12, PlainApart
<1>14. Plain(K, s, s)
  BY <1>2 DEF Plain
<1>15. Plain(K, s, Throw(s))
  BY ThrowApart, ApartPlain
<1> QED  BY <1>1, <1>13, <1>14, <1>15

LEMMA OnReceiveCertEchoPlain ==
  ASSUME NEW s \in ReplicaState, NEW K, Sound(K, s), NEW r \in Replica,
         NEW idx \in Replica, NEW b \in Block, b \in K, NEW found
  PROVE  Plain(K, s, OnReceiveCertEcho(s, r, idx, b, found))
<1> DEFINE t == [s EXCEPT !.qc_chunks[b.view] = @ \cup {idx}]
           u == [t EXCEPT !.last_cert_decoded_view = s.view, !.qc_chunks[b.view] = {}]
<1>1. b.view \in View /\ s.view \in View
  BY ViewNat DEF Block, ReplicaState
<1>2. OnReceiveCertEcho(s, r, idx, b, found) \in {s, t, OnReceiveQC(u, r, b, found)}
  BY DEF OnReceiveCertEcho
<1>3. t \in ReplicaState
  BY <1>1 DEF ReplicaState
<1>4. Apart(s, t)
  BY <1>3, SameApart DEF ReplicaState
<1> HIDE DEF t
<1>5. u \in ReplicaState
  BY <1>1, <1>3 DEF ReplicaState
<1>6. Apart(t, u)
  <2>1. /\ u.hqc = t.hqc /\ u.hqc_tail = t.hqc_tail /\ u.voted = t.voted
        /\ u.last_view_cert_received = t.last_view_cert_received
        /\ u.last_proposed_view = t.last_proposed_view
        /\ u.view = t.view /\ u.out = t.out
    BY <1>3 DEF ReplicaState
  <2> HIDE DEF u
  <2> QED  BY <1>3, <1>5, <2>1, SameApart
<1> HIDE DEF u
<1>7. Apart(s, u)
  BY <1>3, <1>4, <1>6, ApartTransitive
<1>8. Plain(K, u, OnReceiveQC(u, r, b, found))
  BY <1>5, <1>7, ApartPlain, OnReceiveQCPlain DEF Plain
<1>9. Plain(K, s, OnReceiveQC(u, r, b, found))
  BY <1>5, <1>7, <1>8, ApartThenPlain
<1> QED  BY <1>2, <1>4, <1>9, ApartPlain, ApartReflexive

-----------------------------------------------------------------------------
(* The functions that may propose.                                         *)

LEMMA OnProposeChains ==
  ASSUME NEW s \in ReplicaState, NEW r \in Replica, MayPropose(s, r),
         Sound(Known, s), ProposalsIn(s.out) = {}
  PROVE  Chains(r, s, OnPropose(s, r))
<1> DEFINE b == [view |-> s.view, height |-> s.hqc_tail.height + 1]
           K == Known \cup {b}
           voting == [s EXCEPT !.vheight = b.height,
                               !.finished_propose = @ \cup {b}]
           t == Vote(voting, r, b, r)
           prop == [type |-> "propose", from |-> r, blk |-> b,
                    parent |-> s.hqc_tail, qc_ref |-> s.hqc]
           sent == Send(t, {prop})
           u == [sent EXCEPT !.hqc_tail = b, !.last_proposed_view = s.view,
                             !.last_view_proposal_received = s.view]
           f == [at |-> "view_proposal", view |-> s.view, blk |-> b, vote |-> FALSE,
                 proposer |-> r]
<1>1. /\ s.view \in View /\ s.view \in Nat /\ s.hqc_tail \in Block /\ s.hqc \in Block
      /\ s.last_proposed_view \in Nat
  BY ViewNat DEF ReplicaState
<1>2. b \in Block
  <2>1. s.view \in 0 .. MaxView /\ s.hqc_tail.height < MaxHeight
    BY <1>1, BoundsAssumption DEF View, MayPropose
  <2>2. s.hqc_tail.height + 1 \in 0 .. MaxHeight
    BY <1>1, <2>1, HeightNat, BoundsAssumption DEF MaxHeight
  <2> QED  BY <2>1, <2>2 DEF Block
<1>3. b.height \in Nat /\ b.height = s.hqc_tail.height + 1 /\ b.view = s.view
  BY <1>2, HeightNat
<1>4. OnPropose(s, r) = Throw(s) \/ OnPropose(s, r) = Push(u, f)
  BY DEF OnPropose
<1>5. prop \in Proposals
  BY <1>1, <1>2 DEF Proposals
<1>6. /\ prop.type = "propose" /\ prop.from = r /\ prop.blk = b
      /\ prop.parent = s.hqc_tail /\ prop.qc_ref = s.hqc
  OBVIOUS
<1> HIDE DEF b, prop
<1>7. voting \in ReplicaState
  BY <1>2, <1>3 DEF ReplicaState
<1>8. /\ Apart(s, voting) /\ voting.hqc_tail = s.hqc_tail /\ voting.view = s.view
      /\ voting.out = s.out
  BY <1>7, SameApart DEF ReplicaState
<1> HIDE DEF voting
<1>9. Sound(K, voting)
  <2>1. Sound(K, s)
    BY SoundGrows
  <2> QED  BY <1>8, <2>1, ApartPlain DEF Plain
<1>10. Plain(K, voting, t) /\ t.hqc_tail \in {s.hqc_tail, b}
  <2>1. t = OnReceiveVote(voting, r, b, r, voting.view)
    BY DEF Vote
  <2> HIDE DEF t
  <2>2. b \in K /\ voting.view \in View
    BY <1>1, <1>8
  <2> HIDE DEF K
  <2>3. Plain(K, voting, t) /\ t.hqc_tail \in {voting.hqc_tail, b}
    BY <1>2, <1>7, <1>9, <2>1, <2>2, OnReceiveVotePlain
  <2> QED  BY <1>8, <2>3
<1> HIDE DEF t
<1>11. t \in ReplicaState /\ {prop} \in SUBSET Message
  BY <1>5, <1>10 DEF Plain, Message
<1>12. /\ sent \in ReplicaState /\ sent.hqc = t.hqc /\ sent.hqc_tail = t.hqc_tail
       /\ sent.voted = t.voted
       /\ sent.last_view_cert_received = t.last_view_cert_received
       /\ sent.view = t.view /\ sent.out = t.out \cup {prop}
  BY <1>11 DEF Send, ReplicaState
<1> HIDE DEF sent
<1>13. /\ u \in ReplicaState /\ u.hqc = t.hqc /\ u.hqc_tail = b
       /\ u.voted = t.voted
       /\ u.last_view_cert_received = t.last_view_cert_received
       /\ u.last_proposed_view = s.view
       /\ u.view = t.view /\ u.out = t.out \cup {prop}
  BY <1>1, <1>2, <1>12 DEF ReplicaState
<1> HIDE DEF u
<1>14. t.view >= s.view /\ t.hqc.height <= b.height
  <2>1. t.hqc.height \in Nat /\ t.hqc_tail.height \in Nat /\ s.hqc_tail.height \in Nat
    BY <1>1, <1>11, HeightNat DEF ReplicaState
  <2>2. t.hqc.height <= t.hqc_tail.height /\ t.view >= voting.view
    BY <1>10 DEF Plain, Sound
  <2> QED  BY <1>3, <1>8, <1>10, <2>1, <2>2
<1>15. Sound(K, u)
  <2>1. \A m \in Naming(u.out) : m \in Naming(t.out) \/ m = prop
    BY <1>13 DEF Naming
  <2>2. Sound(K, t) /\ b \in K
    BY <1>10 DEF Plain
  <2> HIDE DEF K
  <2> QED  BY <1>6, <1>13, <1>14, <2>1, <2>2 DEF Sound
<1>16. f \in Frame
  BY <1>1, <1>2 DEF Frame
<1> HIDE DEF f
<1>17. Apart(u, Push(u, f)) /\ Push(u, f).out = u.out /\ Push(u, f).view = u.view
  BY <1>13, <1>16, PushApart DEF Push, ReplicaState
<1> DEFINE w == Push(u, f)
<1>18. Plain(K, u, w)
  BY <1>13, <1>15, <1>17, ApartPlain
<1>19. ProposalsIn(w.out) = {prop}
  <2>1. ProposalsIn(t.out) = {}
    BY <1>8, <1>10 DEF Plain
  <2> QED  BY <1>6, <1>13, <1>17, <2>1 DEF ProposalsIn
<1> HIDE DEF w
<1>20. Extends(r, s, w, prop)
  <2>1. w.last_proposed_view = s.view
    BY <1>13, <1>18 DEF Plain
  <2>2. /\ s.hqc \in Known /\ s.hqc_tail \in Known
        /\ s.hqc.height <= s.hqc_tail.height /\ s.view - 1 <= s.hqc.view
    BY DEF Sound
  <2>3. s.pm_proposer = r /\ s.last_proposed_view < s.view
    BY DEF MayPropose
  <2> QED  BY <1>1, <1>3, <1>5, <1>6, <2>1, <2>2, <2>3 DEF Extends
<1>21. Chains(r, s, w)
  <2>1. /\ w \in ReplicaState /\ w.view >= s.view
        /\ w.last_proposed_view >= s.last_proposed_view
    BY <1>1, <1>13, <1>14, <1>17, <1>18 DEF Plain, MayPropose, w
  <2>2. Known \cup {m.blk : m \in ProposalsIn(w.out)} = K
    BY <1>6, <1>19
  <2> QED  BY <1>18, <1>19, <1>20, <2>1, <2>2 DEF Chains, Plain
<1>22. Chains(r, s, Throw(s))
  BY ThrowApart, ApartPlain, PlainChains
<1> QED  BY <1>4, <1>21, <1>22 DEF w

LEMMA PlainThenChains ==
  ASSUME NEW s \in ReplicaState, NEW u, NEW t, NEW r, Plain(Known, s, u),
         u.view = s.view, u.pm_proposer = s.pm_proposer, Chains(r, u, t)
  PROVE  Chains(r, s, t)
BY DEF Plain, Chains, Extends

LEMMA DoProposeChains ==
  ASSUME NEW s \in ReplicaState, NEW r \in Replica, Sound(Known, s),
         ProposalsIn(s.out) = {}
  PROVE  Chains(r, s, DoPropose(s, r))
<1> DEFINE t == [s EXCEPT !.propose_timer = FALSE]
<1>1. t \in ReplicaState
  BY DEF ReplicaState
<1>2. Apart(s, t) /\ t.view = s.view /\ t.pm_proposer = s.pm_proposer /\ t.out = s.out
  BY <1>1, SameApart DEF ReplicaState
<1>3. CASE ~ MayPropose(s, r)
  BY <1>3, ApartReflexive, ApartPlain, PlainChains DEF DoPropose
<1>4. CASE MayPropose(s, r)
  <2>1. MayPropose(t, r)
    BY <1>4 DEF MayPropose, ReplicaState
  <2>2. DoPropose(s, r) = OnPropose(t, r)
    BY <1>4 DEF DoPropose
  <2> HIDE DEF t
  <2>3. Plain(Known, s, t)
    BY <1>2, ApartPlain
  <2>4. Chains(r, t, OnPropose(t, r))
    BY <1>1, <1>2, <2>1, <2>3, OnProposeChains DEF Plain
  <2> QED  BY <1>2, <2>2, <2>3, <2>4, PlainThenChains
<1> QED  BY <1>3, <1>4

LEMMA OnReceiveStatusChains ==
  ASSUME NEW s \in ReplicaState, NEW r \in Replica, Sound(Known, s),
         ProposalsIn(s.out) = {},
         NEW from \in Replica, NEW v \in View, NEW found,
         NEW qc \in Block, qc \in Known
  PROVE  Chains(r, s, OnReceiveStatus(s, r, from, v, qc, found))
<1> DEFINE t == UpdateHqc(s, qc)
           u == [t EXCEPT !.status_received[v] = @ \cup {from}]
<1>1. /\ t \in ReplicaState /\ Plain(Known, s, t) /\ t.view = s.view
      /\ t.pm_proposer = s.pm_proposer /\ t.out = s.out
  <2>1. t \in ReplicaState
    BY UpdateHqcLeads DEF Leads, Moves
  <2> QED  BY <2>1, UpdateHqcPlain
<1>2. OnReceiveStatus(s, r, from, v, qc, found) \in {s, Throw(s), t, u, DoPropose(u, r)}
  BY DEF OnReceiveStatus
<1> HIDE DEF t
<1>3. u \in ReplicaState
  <2>1. t.status_received[v] \cup {from} \in SUBSET Replica
    BY <1>1 DEF ReplicaState
  <2>2. [t.status_received EXCEPT ![v] = @ \cup {from}] \in [View -> SUBSET Replica]
    BY <1>1, <2>1 DEF ReplicaState
  <2> QED  BY <1>1, <2>2 DEF ReplicaState
<1>4. /\ u.hqc = t.hqc /\ u.hqc_tail = t.hqc_tail /\ u.voted = t.voted
      /\ u.last_view_cert_received = t.last_view_cert_received
      /\ u.last_proposed_view = t.last_proposed_view
      /\ u.view = t.view /\ u.pm_proposer = t.pm_proposer /\ u.out = t.out
  BY <1>1 DEF ReplicaState
<1> HIDE DEF u
<1>5. Plain(Known, s, u)
  BY <1>1, <1>3, <1>4, SameApart, PlainApart
<1>6. Chains(r, u, DoPropose(u, r))
  BY <1>1, <1>3, <1>4, <1>5, DoProposeChains DEF Plain
<1>7. Chains(r, s, DoPropose(u, r))
  BY <1>1, <1>4, <1>5, <1>6, PlainThenChains
<1>8. Plain(Known, s, s) /\ Plain(Known, s, Throw(s))
  BY ApartReflexive, ThrowApart, ApartPlain
<1> QED  BY <1>1, <1>2, <1>5, <1>7, <1>8, PlainChains

LEMMA AfterEnterViewChains ==
  ASSUME NEW s \in ReplicaState, NEW r \in Replica, Sound(Known, s),
         ProposalsIn(s.out) = {}
  PROVE  Chains(r, s, AfterEnterView(s, r))
<1> DEFINE t == OnReceiveStatus(s, r, r, s.view, s.hqc, TRUE)
           u == [t EXCEPT !.propose_timer = TRUE]
           status == [type |-> "status", from |-> r, to |-> s.pm_proposer,
                      view |-> s.view, qc |-> s.hqc]
           w == Send(s, {status})
<1>1. s.view \in View /\ s.hqc \in Block /\ s.pm_proposer \in Replica /\ s.view \in Nat
  BY ViewNat DEF ReplicaState
<1>2. s.hqc \in Known
  BY DEF Sound
<1>3. Chains(r, s, t)
  BY <1>1, <1>2, OnReceiveStatusChains
<1>4. {status} \in SUBSET Message
  BY <1>1 DEF Message, Statuses
<1>5. AfterEnterView(s, r) \in {t, u, w}
  BY DEF AfterEnterView
<1>6. status.type = "status" /\ status.qc = s.hqc
  OBVIOUS
<1> HIDE DEF t, status
<1>7. Chains(r, s, w)
  <2>1. /\ w \in ReplicaState /\ w.hqc = s.hqc /\ w.hqc_tail = s.hqc_tail
        /\ w.voted = s.voted /\ w.last_view_cert_received = s.last_view_cert_received
        /\ w.last_proposed_view = s.last_proposed_view
        /\ w.view = s.view /\ w.out = s.out \cup {status}
    BY <1>4 DEF Send, ReplicaState
  <2> HIDE DEF w
  <2>2. \A m \in Naming(w.out) : m \in Naming(s.out) \/ m = status
    BY <2>1 DEF Naming
  <2>3. Sound(Known, w)
    BY <1>2, <1>6, <2>1, <2>2 DEF Sound
  <2>4. ProposalsIn(w.out) \subseteq ProposalsIn(s.out)
    BY <1>6, <2>1 DEF ProposalsIn
  <2> QED  BY <1>1, <2>1, <2>3, <2>4, PlainChains DEF Plain
<1>8. Chains(r, s, u)
  <2>1. t \in ReplicaState
    BY <1>3 DEF Chains
  <2>2. /\ u \in ReplicaState /\ u.hqc = t.hqc /\ u.hqc_tail = t.hqc_tail
        /\ u.voted = t.voted /\ u.last_view_cert_received = t.last_view_cert_received
        /\ u.last_proposed_view = t.last_proposed_view
        /\ u.view = t.view /\ u.out = t.out
    BY <2>1 DEF ReplicaState
  <2> HIDE DEF u
  <2> QED  BY <1>3, <2>2 DEF Chains, Extends, Sound
<1> QED  BY <1>3, <1>5, <1>7, <1>8

-----------------------------------------------------------------------------
(* The invariant.                                                          *)

\* A proposal as it should be: by the proposer of its view, which has recorded it,
\* and on top of the block of the view before.
Regular(m) ==
  /\ m.from = GetProposer(m.blk.view)
  /\ m.blk.view <= st[m.from].last_proposed_view
  /\ m.blk.view >= 1 /\ m.blk.height = m.blk.view
  /\ m.parent \in Known /\ m.parent.view = m.blk.view - 1 /\ m.qc_ref = m.parent

\* Votes are for proposed blocks.
Supported ==
  /\ \A r \in Replica : PendingIn(st[r].todo) \subseteq Known
  /\ \A m \in Sent("vote") : m.blk \in Known

\* Blocks handed on have been proposed.
Named == \A m \in Naming(msgs) : /\ m.type = "status" => m.qc \in Known
                                 /\ m.type \in {"qc", "echo2"} => m.blk \in Known

OneEach == \A m, n \in Sent("propose") : m.blk.view = n.blk.view => m = n

ChainInv ==
  /\ \A r \in Replica : Sound(Known, st[r])
  /\ Supported /\ Named /\ OneEach
  /\ \A m \in Sent("propose") : Regular(m)

\* What a step of r leads to before what it sends has left.
Ends(r, s) ==
  /\ st' = [st EXCEPT ![r] = [s EXCEPT !.out = {}]]
  /\ msgs' = msgs \cup s.out
  /\ Chains(r, st[r], s)

LEMMA ChainInvInit == Init => ChainInv
<1> SUFFICES ASSUME Init PROVE ChainInv
  OBVIOUS
<1>1. /\ \A r \in Replica : st[r] = InitState
      /\ \A type : Sent(type) = {}
      /\ msgs = {} /\ Known = {Genesis}
  BY DEF Init, Sent, Known
<1>2. /\ InitState.out = {} /\ InitState.view = 1 /\ InitState.todo = <<>>
      /\ InitState.last_view_cert_received = 0 /\ InitState.last_proposed_view = 0
      /\ InitState.hqc = Genesis /\ InitState.hqc_tail = Genesis
      /\ \A b \in Block : InitState.voted[b] = IF b = Genesis THEN Replica ELSE {}
  BY DEF InitState
<1>3. Sound({Genesis}, InitState)
  <2>1. Naming(InitState.out) = {}
    BY <1>2 DEF Naming
  <2>2. Genesis.view = 0 /\ Genesis.height = 0
    BY DEF Genesis
  <2> QED  BY <1>2, <2>1, <2>2 DEF Sound
<1>4. Supported
  BY <1>1, <1>2 DEF Supported, PendingIn
<1>5. Named /\ OneEach
  BY <1>1 DEF Named, Naming, OneEach
<1> QED  BY <1>1, <1>3, <1>4, <1>5 DEF ChainInv

LEMMA ChainInvStutters == ChainInv /\ UNCHANGED vars => ChainInv'
<1> SUFFICES ASSUME ChainInv, UNCHANGED vars PROVE ChainInv'
  OBVIOUS
<1>1. st' = st /\ msgs' = msgs
  BY DEF vars
<1>2. Known' = Known
  BY <1>1 DEF Known, Sent
<1>3. Supported'
  BY <1>1, <1>2 DEF ChainInv, Supported, Sent
<1>4. Named'
  BY <1>1, <1>2 DEF ChainInv, Named
<1>5. OneEach'
  BY <1>1 DEF ChainInv, OneEach, Sent
<1>6. \A m \in Sent("propose")' : Regular(m)'
  BY <1>1, <1>2 DEF ChainInv, Regular, Sent
<1>7. \A r \in Replica : Sound(Known, st[r])'
  BY <1>1, <1>2 DEF ChainInv
<1> QED  BY <1>3, <1>4, <1>5, <1>6, <1>7 DEF ChainInv

\* What a replica handles is about a block in Known.
LEMMA HandledIsKnown ==
  ASSUME ChainInv
  PROVE  /\ \A m \in Sent("vote") : m.blk \in Known
         /\ \A m \in Sent("qc") : m.blk \in Known
         /\ \A m \in Sent("echo2") : m.blk \in Known
         /\ \A m \in Sent("status") : m.qc \in Known
         /\ \A m \in Sent("propose") : m.qc_ref \in Known
<1>1. \A m \in Sent("propose") : m.qc_ref \in Known
  BY DEF ChainInv, Regular
<1>2. /\ Sent("qc") \subseteq Naming(msgs) /\ Sent("echo2") \subseteq Naming(msgs)
      /\ Sent("status") \subseteq Naming(msgs)
      /\ \A m \in Sent("qc") : m.type = "qc"
      /\ \A m \in Sent("echo2") : m.type = "echo2"
      /\ \A m \in Sent("status") : m.type = "status"
  BY DEF Sent, Naming
<1> QED  BY <1>1, <1>2 DEF ChainInv, Named, Supported, Sent, Naming

LEMMA PoppedApart ==
  ASSUME NEW s \in ReplicaState, s.todo # <<>>
  PROVE  /\ Apart(s, Popped(s)) /\ Popped(s) \in ReplicaState
         /\ Popped(s).view = s.view /\ Popped(s).out = s.out
         /\ Popped(s).pm_proposer = s.pm_proposer
<1>1. Popped(s) \in ReplicaState
  BY PoppedFollows DEF Follows
<1> QED  BY <1>1, SameApart DEF Popped, ReplicaState

LEMMA StepChains ==
  ASSUME TypeOK, BeaconsIgnored, CertInv, ChainInv, NEW r \in Replica, Step(r)
  PROVE  UNCHANGED vars \/ \E s : Ends(r, s)
<1>1. st[r] \in ReplicaState /\ msgs \subseteq Message
  BY DEF TypeOK
<1>2. ProposalsIn(st[r].out) = {}
  BY DEF CertInv, Quiet, ProposalsIn
<1>3. Sound(Known, st[r])
  BY DEF ChainInv
<1>4. ASSUME NEW s, Become(r, s), Chains(r, st[r], s)
      PROVE  \E t : Ends(r, t)
  BY <1>4 DEF Become, Ends
<1>5. ASSUME NEW s, Become(r, s), Plain(Known, st[r], s)
      PROVE  \E t : Ends(r, t)
  BY <1>1, <1>2, <1>4, <1>5, PlainChains
<1>6. ASSUME NEW s, Become(r, s), Apart(st[r], s)
      PROVE  \E t : Ends(r, t)
  BY <1>1, <1>3, <1>5, <1>6, ApartPlain
<1>7. CASE ReceiveProposal(r)
  <2>1. PICK m \in Sent("propose") : Become(r, OnReceiveProposal(st[r], r, m))
    BY <1>7 DEF ReceiveProposal
  <2>2. OnReceiveProposal(st[r], r, m) # st[r]
    BY <2>1 DEF Become
  <2>3. m.qc_ref \in Known
    BY HandledIsKnown
  <2> QED  BY <1>1, <1>3, <1>5, <2>1, <2>2, <2>3, OnReceiveProposalPlain
<1>8. CASE ReceiveVote(r)
  <2>1. PICK m \in Sent("vote") :
          Become(r, OnReceiveVote(st[r], r, m.blk, m.from, m.view))
    BY <1>8 DEF ReceiveVote
  <2>2. m.blk \in Block /\ m.from \in Replica /\ m.view \in View /\ m.blk \in Known
    BY <1>1, SentTypes, HandledIsKnown DEF Votes
  <2> QED  BY <1>1, <1>3, <1>5, <2>1, <2>2, OnReceiveVotePlain
<1>9. CASE ReceiveAck(r)
  <2>1. PICK m \in Sent("ack") :
          Become(r, OnReceiveAck(st[r], r, m.blk, m.from, m.view))
    BY <1>9 DEF ReceiveAck
  <2>2. m.blk \in Block /\ m.from \in Replica /\ m.view \in View
    BY <1>1, SentTypes DEF Acks
  <2> QED  BY <1>1, <1>6, <2>1, <2>2, OnReceiveAckApart
<1>10. CASE ReceiveStatus(r)
  <2>1. PICK m \in Sent("status"), found \in BOOLEAN :
          Become(r, OnReceiveStatus(st[r], r, m.from, m.view, m.qc, found))
    BY <1>10 DEF ReceiveStatus, Delivered
  <2>2. m.qc \in Block /\ m.from \in Replica /\ m.view \in View /\ m.qc \in Known
    BY <1>1, SentTypes, HandledIsKnown DEF Statuses
  <2> QED  BY <1>1, <1>2, <1>3, <1>4, <2>1, <2>2, OnReceiveStatusChains
<1>11. CASE ReceiveQC(r)
  <2>1. PICK m \in Sent("qc") : Become(r, OnReceiveQC(st[r], r, m.blk, TRUE))
    BY <1>11 DEF ReceiveQC
  <2>2. m.blk \in Block /\ m.blk \in Known
    BY <1>1, SentTypes, HandledIsKnown DEF Certificates
  <2> QED  BY <1>1, <1>3, <1>5, <2>1, <2>2, OnReceiveQCPlain
<1>12. CASE ReceiveCertEcho(r)
  <2>1. PICK m \in Sent("echo2"), found \in BOOLEAN : \E idx \in {r, m.from} :
          Become(r, OnReceiveCertEcho(st[r], r, idx, m.blk, found))
    BY <1>12 DEF ReceiveCertEcho, Delivered
  <2>2. m.blk \in Block /\ m.from \in Replica /\ m.blk \in Known
    BY <1>1, SentTypes, HandledIsKnown DEF CertEchoes
  <2>3. PICK idx \in {r, m.from} :
          Become(r, OnReceiveCertEcho(st[r], r, idx, m.blk, found))
    BY <2>1
  <2>4. idx \in Replica
    BY <2>2
  <2> QED  BY <1>1, <1>3, <1>5, <2>2, <2>3, <2>4, OnReceiveCertEchoPlain
<1>13. CASE ReceiveShare(r)
  <2>1. PICK m \in Sent("share") :
          Become(r, OnReceiveShare([st[r] EXCEPT !.handled = @ \cup {m}],
                                   r, m.from, m.view))
    BY <1>13 DEF ReceiveShare
  <2> DEFINE s == [st[r] EXCEPT !.handled = @ \cup {m}]
  <2>2. m \in Message /\ m.from \in Replica /\ m.view \in View
    BY <1>1, SentTypes DEF Shares, Sent
  <2>3. s \in ReplicaState
    BY <1>1, <2>2 DEF ReplicaState
  <2>4. Apart(st[r], s)
    BY <1>1, <2>3, SameApart DEF ReplicaState
  <2> HIDE DEF s
  <2>5. Apart(s, OnReceiveShare(s, r, m.from, m.view))
    BY <2>2, <2>3, OnReceiveShareApart
  <2>6. Apart(st[r], OnReceiveShare(s, r, m.from, m.view))
    BY <1>1, <2>4, <2>5, ApartTransitive
  <2> QED  BY <1>6, <2>1, <2>6 DEF s
<1>14. CASE ReceiveBeacon(r)
  <2>1. PICK m \in Sent("beacon") :
          /\ st' = [st EXCEPT ![r] = OnReceiveBeacon(st[r], m.view)]
          /\ msgs' = msgs
    BY <1>1, <1>14 DEF ReceiveBeacon, TypeOK
  <2>2. OnReceiveBeacon(st[r], m.view) = st[r]
    BY DEF BeaconsIgnored
  <2> QED  BY <2>1, <2>2 DEF TypeOK, vars
<1>15. CASE ShareArrivesEarly(r)
  <2>1. PICK m \in Sent("share") :
          Become(r, [st[r] EXCEPT !.past_qc_gate = @ \cup {m}])
    BY <1>15 DEF ShareArrivesEarly
  <2> DEFINE s == [st[r] EXCEPT !.past_qc_gate = @ \cup {m}]
  <2>2. m \in Message
    BY <1>1 DEF Sent
  <2>3. s \in ReplicaState
    BY <1>1, <2>2 DEF ReplicaState
  <2>4. Apart(st[r], s)
    BY <1>1, <2>3, SameApart DEF ReplicaState
  <2> QED  BY <1>6, <2>1, <2>4
<1>16. CASE ProposeTimeout(r)
  <2> DEFINE s == [st[r] EXCEPT !.propose_timer = FALSE]
  <2>1. Become(r, DoPropose(s, r))
    BY <1>16 DEF ProposeTimeout
  <2>2. s \in ReplicaState
    BY <1>1 DEF ReplicaState
  <2>3. /\ Apart(st[r], s) /\ s.view = st[r].view /\ s.out = st[r].out
        /\ s.pm_proposer = st[r].pm_proposer
    BY <1>1, <2>2, SameApart DEF ReplicaState
  <2> HIDE DEF s
  <2>4. Plain(Known, st[r], s)
    BY <1>1, <1>3, <2>3, ApartPlain
  <2>5. Chains(r, s, DoPropose(s, r))
    BY <1>2, <2>2, <2>3, <2>4, DoProposeChains DEF Plain
  <2>6. Chains(r, st[r], DoPropose(s, r))
    BY <1>1, <2>3, <2>4, <2>5, PlainThenChains
  <2> QED  BY <1>4, <2>1, <2>6
<1>17. CASE ClientCommand(r)
  <2> DEFINE p == GetProposer(1)
             s == [st[r] EXCEPT !.commands = @ \cup {st[r].view}, !.pm_proposer = p]
             f == [at |-> "enter_view", view |-> 1, blk |-> Genesis, vote |-> FALSE,
                   proposer |-> p]
  <2>1. Become(r, Push(s, f))
    BY <1>17 DEF ClientCommand, EnterView
  <2>2. 1 \in View /\ p \in Replica
    BY BoundsAssumption, ProposerType DEF View
  <2>3. f \in Frame
    BY <2>2, GenesisType DEF Frame
  <2>4. s \in ReplicaState
    <3>1. st[r].view \in View
      BY <1>1 DEF ReplicaState
    <3> HIDE DEF p
    <3> QED  BY <1>1, <2>2, <3>1 DEF ReplicaState
  <2>5. Apart(st[r], s)
    BY <1>1, <2>4, SameApart DEF ReplicaState
  <2> HIDE DEF s, f
  <2>6. Apart(st[r], Push(s, f))
    BY <1>1, <2>3, <2>4, <2>5, PushApart, ApartTransitive
  <2> QED  BY <1>6, <2>1, <2>6
<1>18. CASE ResumeEnterView(r)
  <2> DEFINE popped == Popped(st[r])
  <2>1. st[r].todo # <<>> /\ Become(r, AfterEnterView(popped, r))
    BY <1>18 DEF ResumeEnterView, Resumes
  <2>2. /\ Apart(st[r], popped) /\ popped \in ReplicaState
        /\ popped.view = st[r].view /\ popped.out = st[r].out
        /\ popped.pm_proposer = st[r].pm_proposer
    BY <1>1, <2>1, PoppedApart
  <2> HIDE DEF popped
  <2>3. Plain(Known, st[r], popped)
    BY <1>1, <1>3, <2>2, ApartPlain
  <2>4. Chains(r, popped, AfterEnterView(popped, r))
    BY <1>2, <2>2, <2>3, AfterEnterViewChains DEF Plain
  <2>5. Chains(r, st[r], AfterEnterView(popped, r))
    BY <1>1, <2>2, <2>3, <2>4, PlainThenChains
  <2> QED  BY <1>4, <2>1, <2>5
<1>19. CASE ResumeProposal(r)
  <2> DEFINE f == Head(st[r].todo)
             popped == Popped(st[r])
  <2>1. /\ st[r].todo # <<>>
        /\ (f.vote /\ Become(r, Vote(popped, r, f.blk, f.proposer))) \/ Become(r, popped)
    BY <1>19 DEF ResumeProposal, Resumes
  <2>2. popped \in ReplicaState /\ Apart(st[r], popped)
    BY <1>1, <2>1, PoppedApart
  <2>3. CASE Become(r, popped)
    BY <1>6, <2>2, <2>3
  <2>4. CASE f.vote /\ Become(r, Vote(popped, r, f.blk, f.proposer))
    <3>1. f.blk \in Block /\ f.proposer \in Replica
      BY <1>1, <2>1, PoppedLeads DEF Frame
    <3>2. f.blk \in Known
      <4>1. f.blk \in PendingIn(st[r].todo)
        BY <1>1, <2>1, <2>4, PendingHead DEF ReplicaState
      <4> QED  BY <4>1 DEF ChainInv, Supported
    <3> HIDE DEF f, popped
    <3>3. Sound(Known, popped)
      BY <1>1, <1>3, <2>2, ApartPlain DEF Plain
    <3>4. Plain(Known, popped, Vote(popped, r, f.blk, f.proposer))
      BY <2>2, <3>1, <3>2, <3>3, VotePlain
    <3>5. Plain(Known, st[r], Vote(popped, r, f.blk, f.proposer))
      BY <1>1, <2>2, <3>4, ApartThenPlain
    <3> QED  BY <1>5, <2>4, <3>5
  <2> QED  BY <2>1, <2>3, <2>4
<1>20. CASE ResumeQC(r)
  <2> DEFINE f == [Head(st[r].todo) EXCEPT !.at = "try_enter_view"]
             popped == Popped(st[r])
             s == Push(popped, f)
             b == Head(st[r].todo).blk
  <2>1. st[r].todo # <<>> /\ Become(r, Ack(s, r, b))
    BY <1>20 DEF ResumeQC, Resumes
  <2>2. popped \in ReplicaState /\ Apart(st[r], popped)
    BY <1>1, <2>1, PoppedApart
  <2>3. f \in Frame /\ b \in Block
    BY <1>1, <2>1, PoppedLeads DEF Frame
  <2> HIDE DEF f, popped, b
  <2>4. s \in ReplicaState /\ Apart(popped, s)
    BY <2>2, <2>3, PushApart DEF Apart
  <2> HIDE DEF s
  <2>5. Apart(s, Ack(s, r, b))
    BY <2>3, <2>4, AckApart
  <2>6. Apart(st[r], Ack(s, r, b))
    BY <1>1, <2>2, <2>4, <2>5, ApartTransitive
  <2> QED  BY <1>6, <2>1, <2>6
<1>21. CASE ResumeTryEnterView(r)
  <2>1. st[r].todo # <<>> /\ Become(r, TryEnterView(Popped(st[r])))
    BY <1>21 DEF ResumeTryEnterView, Resumes
  <2>2. Popped(st[r]) \in ReplicaState /\ Apart(st[r], Popped(st[r]))
    BY <1>1, <2>1, PoppedApart
  <2>3. Apart(st[r], TryEnterView(Popped(st[r])))
    BY <1>1, <2>2, TryEnterViewApart, ApartTransitive
  <2> QED  BY <1>6, <2>1, <2>3
<1> QED
  BY <1>7, <1>8, <1>9, <1>10, <1>11, <1>12, <1>13, <1>14, <1>15, <1>16, <1>17,
     <1>18, <1>19, <1>20, <1>21 DEF Step

-----------------------------------------------------------------------------
(* The chain.                                                              *)

\* The first proposal of its view, by the view's proposer, goes on with the chain.
Continues(m) ==
  /\ m.from = GetProposer(m.blk.view)
  /\ m.blk.view >= 1 /\ m.blk.height = m.blk.view
  /\ m.parent \in Known /\ m.parent.view = m.blk.view - 1 /\ m.qc_ref = m.parent
  /\ \A n \in Sent("propose") : n.blk.view # m.blk.view

\* The heart of it: nobody has proposed in the view of a proposer that has yet to
\* propose, or later.
LEMMA ProposerIsFirst ==
  ASSUME CommandsInTime, TypeOK, CertInv, ChainInv, NEW r \in Replica,
         st[r].pm_proposer = r, st[r].last_proposed_view < st[r].view
  PROVE  \A b \in Known : b.view \in Nat /\ b.view < st[r].view /\ b.height = b.view
<1> DEFINE v == st[r].view
<1>1. st[r] \in ReplicaState /\ msgs \subseteq Message
  BY DEF TypeOK
<1>2. v \in Nat /\ v >= 1 /\ st[r].last_proposed_view \in Nat
  BY <1>1, ViewNat DEF CertInv, Backing, Backed, ReplicaState
<1>3. r = GetProposer(v)
  BY DEF CertInv, Rotated
<1>4. ASSUME NEW n \in Sent("propose") PROVE n.blk.view \in Nat /\ n.from \in Replica
  BY <1>1, SentTypes, ViewNat DEF Proposals, Block
<1>5. ASSUME NEW n \in Sent("propose") PROVE n.blk.view # v
  <2>1. SUFFICES ASSUME n.blk.view = v PROVE FALSE
    OBVIOUS
  <2>2. n.from = r /\ n.blk.view <= st[r].last_proposed_view
    BY <1>3, <2>1 DEF ChainInv, Regular
  <2> QED  BY <1>2, <2>1, <2>2
<1>6. ASSUME NEW n \in Sent("propose") PROVE n.blk.view < v
  <2>1. SUFFICES ASSUME v < n.blk.view PROVE FALSE
    BY <1>2, <1>4, <1>5
  <2>2. /\ st[n.from].last_proposed_view <= st[n.from].view
        /\ n.blk.view <= st[n.from].last_proposed_view
        /\ st[n.from].last_proposed_view \in Nat /\ st[n.from].view \in Nat
    BY <1>4, ViewNat DEF TypeOK, ReplicaState, ChainInv, Regular, Sound
  <2>3. v \in 0 .. st[n.from].view - 1
    BY <1>2, <1>4, <2>1, <2>2
  <2>4. v \in Certified
    BY <1>4, <2>3 DEF CertInv, Backing, Backed
  <2>5. PICK q \in Sent("qc") : q.blk.view = v
    BY <1>2, <2>4 DEF Certified
  <2>6. q.blk \in Known
    BY HandledIsKnown
  <2>7. \E p \in Sent("propose") : p.blk = q.blk
    BY <1>2, <2>5, <2>6 DEF Known, Genesis
  <2> QED  BY <1>5, <2>5, <2>7
<1> SUFFICES ASSUME NEW b \in Known
             PROVE  b.view \in Nat /\ b.view < v /\ b.height = b.view
  OBVIOUS
<1>7. CASE b = Genesis
  BY <1>2, <1>7 DEF Genesis
<1>8. CASE b # Genesis
  <2>1. PICK n \in Sent("propose") : b = n.blk
    BY <1>8 DEF Known
  <2>2. n.blk.height = n.blk.view
    BY DEF ChainInv, Regular
  <2> QED  BY <1>4, <1>6, <2>1, <2>2
<1> QED  BY <1>7, <1>8

\* What r proposes is new, and on top of the block of the view before.
LEMMA NewProposalIsRegular ==
  ASSUME CommandsInTime, TypeOK, CertInv, ChainInv, NEW r \in Replica, NEW t, NEW m,
         Extends(r, st[r], t, m)
  PROVE  Continues(m)
<1> DEFINE v == st[r].view
<1>1. v \in Nat /\ v >= 1
  BY ViewNat DEF TypeOK, CertInv, Backing, Backed, ReplicaState
<1>2. m.blk.view = v /\ m.from = r /\ r = GetProposer(v)
  BY DEF Extends, CertInv, Rotated
<1>3. \A b \in Known : b.view \in Nat /\ b.view < v /\ b.height = b.view
  BY ProposerIsFirst DEF Extends
<1>4. ASSUME NEW n \in Sent("propose") PROVE n.blk.view # v
  <2>1. n.blk \in Known
    BY DEF Known
  <2> QED  BY <1>1, <1>3, <2>1
<1>5. /\ m.parent \in Known /\ m.qc_ref \in Known
      /\ m.parent \in Block /\ m.qc_ref \in Block
      /\ m.blk.height = m.parent.height + 1
      /\ m.qc_ref.height <= m.parent.height /\ v - 1 <= m.qc_ref.view
  BY <1>2 DEF Extends, Proposals
<1>6. /\ m.qc_ref.view = v - 1 /\ m.qc_ref.height = v - 1
      /\ m.parent.view = v - 1 /\ m.parent.height = v - 1
  <2>1. /\ m.qc_ref.view \in Nat /\ m.qc_ref.view <= v - 1
        /\ m.qc_ref.height = m.qc_ref.view
        /\ m.parent.view \in Nat /\ m.parent.view <= v - 1
        /\ m.parent.height = m.parent.view
    BY <1>1, <1>3, <1>5
  <2> QED  BY <1>1, <1>5, <2>1
<1>7. m.qc_ref = m.parent
  BY <1>5, <1>6 DEF Block
<1> QED  BY <1>1, <1>2, <1>4, <1>5, <1>6, <1>7 DEF Continues

LEMMA ChainInvStep ==
  ASSUME CommandsInTime, TypeOK, OneOpinionEach, BeaconsIgnored, CertInv, ChainInv,
         NEW r \in Replica, Step(r)
  PROVE  ChainInv'
<1>1. CASE UNCHANGED vars
  BY <1>1, ChainInvStutters
<1>2. ASSUME NEW s, Ends(r, s) PROVE ChainInv'
  <2> DEFINE t == [s EXCEPT !.out = {}]
             new == ProposalsIn(s.out)
             K == Known \cup {m.blk : m \in new}
  <2>1. st[r] \in ReplicaState /\ s \in ReplicaState /\ Chains(r, st[r], s)
    BY <1>2 DEF TypeOK, Ends, Chains
  <2>2. /\ t.hqc = s.hqc /\ t.hqc_tail = s.hqc_tail /\ t.voted = s.voted
        /\ t.last_view_cert_received = s.last_view_cert_received
        /\ t.last_proposed_view = s.last_proposed_view
        /\ t.view = s.view /\ t.out = {}
    BY <2>1 DEF ReplicaState
  <2>3. /\ st' = [st EXCEPT ![r] = t] /\ msgs' = msgs \cup s.out
        /\ \A q \in Replica : st'[q] = IF q = r THEN t ELSE st[q]
    BY <1>2 DEF Ends, TypeOK
  <2> HIDE DEF t
  <2>4. Sent("propose")' = Sent("propose") \cup new
    BY <2>3 DEF Sent, ProposalsIn
  <2>5. Known' = K
    BY <2>4 DEF Known
  <2>6. Sound(K, s)
    BY <2>1 DEF Chains
  <2>7. ASSUME NEW m \in new PROVE Extends(r, st[r], s, m) /\ Continues(m)
    <3>1. Extends(r, st[r], s, m)
      BY <2>1 DEF Chains
    <3> QED  BY <3>1, NewProposalIsRegular
  <2>8. \A q \in Replica : Sound(Known, st[q])'
    <3> SUFFICES ASSUME NEW q \in Replica PROVE Sound(Known', st'[q])
      OBVIOUS
    <3>1. Sound(K, t)
      BY <2>2, <2>6 DEF Sound, Naming
    <3>2. Sound(K, st[q])
      BY SoundGrows DEF ChainInv
    <3> QED  BY <2>3, <2>5, <3>1, <3>2
  <2>9. Supported'
    <3>1. PICK u, ms : Outcome(r, u, ms) /\ (Speaks(r, u, ms) \/ Hears(r, u, ms))
      BY StepResults DEF StepResult
    <3>2. VotesIn(st[r].out) = {}
      BY DEF CertInv, Quiet, VotesIn
    <3>3. PendingIn(u.todo) \subseteq PendingIn(st[r].todo) \cup Known
      BY <3>1 DEF Speaks, Hears, Proposed, Known
    <3>4. \A q \in Replica : st'[q] = IF q = r THEN u ELSE st[q]
      BY <3>1 DEF Outcome, TypeOK
    <3>5. \A m \in VotesIn(ms) : m.blk \in Known
      BY <3>1, <3>2 DEF Speaks, Hears, ChainInv, Supported
    <3>6. Sent("vote")' = Sent("vote") \cup VotesIn(ms)
      BY <3>1 DEF Outcome, Sent, VotesIn
    <3> QED  BY <2>5, <3>3, <3>4, <3>5, <3>6 DEF ChainInv, Supported
  <2>10. Named'
    <3> SUFFICES ASSUME NEW m \in Naming(msgs')
                 PROVE  /\ m.type = "status" => m.qc \in K
                        /\ m.type \in {"qc", "echo2"} => m.blk \in K
      BY <2>5 DEF Named
    <3>1. m \in Naming(msgs) \/ m \in Naming(s.out)
      BY <2>3 DEF Naming
    <3> QED  BY <2>6, <3>1 DEF ChainInv, Named, Sound
  <2>11. OneEach'
    <3>1. \A m, n \in new : m = n
      BY <2>1 DEF Chains
    <3> QED  BY <2>4, <2>7, <3>1 DEF ChainInv, OneEach, Continues
  <2>12. ASSUME NEW m \in Sent("propose")' PROVE Regular(m)'
    <3>1. CASE m \in Sent("propose")
      <4>1. Regular(m)
        BY <3>1 DEF ChainInv
      <4>2. m.from \in Replica /\ m.blk.view \in Nat
        BY <3>1, SentTypes, ViewNat DEF TypeOK, Proposals, Block
      <4>3. /\ st[m.from].last_proposed_view \in Nat
            /\ st'[m.from].last_proposed_view \in Nat
            /\ st'[m.from].last_proposed_view >= st[m.from].last_proposed_view
        <5>1. s.last_proposed_view >= st[r].last_proposed_view
          BY <2>1 DEF Chains
        <5>2. /\ s.last_proposed_view \in Nat
              /\ \A q \in Replica : st[q].last_proposed_view \in Nat
          BY <2>1, ViewNat DEF TypeOK, ReplicaState
        <5> QED  BY <2>2, <2>3, <4>2, <5>1, <5>2
      <4>4. m.blk.view <= st'[m.from].last_proposed_view
        BY <4>1, <4>2, <4>3 DEF Regular
      <4> QED  BY <2>5, <4>1, <4>4 DEF Regular
    <3>2. CASE m \in new
      <4>1. Extends(r, st[r], s, m)
        BY <2>7, <3>2
      <4>2. m.from = r /\ m.blk.view = st[r].view /\ s.last_proposed_view >= st[r].view
        BY <4>1 DEF Extends
      <4>3. s.last_proposed_view \in Nat /\ st[r].view \in Nat
        BY <2>1, ViewNat DEF ReplicaState
      <4>4. m.blk.view <= st'[m.from].last_proposed_view
        BY <2>2, <2>3, <4>2, <4>3
      <4> QED  BY <2>5, <2>7, <3>2, <4>4 DEF Regular, Continues
    <3> QED  BY <2>4, <3>1, <3>2
  <2> QED  BY <2>8, <2>9, <2>10, <2>11, <2>12 DEF ChainInv
<1> QED  BY <1>1, <1>2, StepChains

LEMMA ChainInvariance ==
  ASSUME CommandsInTime
  PROVE  Spec => []ChainInv
<1>1. TypeOK /\ OneOpinionEach /\ BeaconsIgnored /\ CertInv /\ ChainInv /\ [Next]_vars
        => ChainInv'
  <2> SUFFICES ASSUME TypeOK, OneOpinionEach, BeaconsIgnored, CertInv, ChainInv,
                      [Next]_vars
               PROVE  ChainInv'
    OBVIOUS
  <2>1. CASE Next
    <3>1. PICK r \in Replica : Step(r)
      BY <2>1 DEF Next
    <3> QED  BY <3>1, ChainInvStep
  <2>2. CASE UNCHANGED vars
    BY <2>2, ChainInvStutters
  <2> QED  BY <2>1, <2>2
<1> QED
  BY <1>1, ChainInvInit, TypeCorrect, OneOpinionAlways, BeaconsNeverCount,
     CertInvariance, PTL DEF Spec

\* While client commands come in the first view only, the chain has one block per
\* view, on top of the block of the view before and certifying it: on_propose and
\* PMHighTail extend the last view whatever order certificates and status
\* messages arrive in.
THEOREM OneBlockPerView ==
  ASSUME CommandsInTime
  PROVE  Spec => []OneChain
<1>1. ChainInv => OneChain
  BY DEF ChainInv, Regular, OneEach, OneChain
<1> QED  BY <1>1, ChainInvariance, PTL

=============================================================================
