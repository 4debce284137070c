------------------------- MODULE OptRandCoreProofs -------------------------
(***************************************************************************)
(* For every number of replicas and every bound on the views: the type     *)
(* invariant of OptRandCore, two consequences of the guards that the       *)
(* handlers share, and that a replica's votes do not conflict; then that   *)
(* no two blocks of one height are certified (from three replicas on),     *)
(* that nobody runs away from a quorum, and that the pacemaker names the   *)
(* proposer of the view.                                                   *)
(*                                                                         *)
(* Each function of the code is an operator on a replica's state, so the   *)
(* proof has one lemma per function: from a well-typed state it leads to a *)
(* well-typed state, and the two are related by Keeps and, unless the      *)
(* function votes or takes a proposal, by Silent.  The proof of a handler  *)
(* only cites the lemmas of the functions it calls.                        *)
(*                                                                         *)
(* The second half is about what the quorums stand for, which the          *)
(* invariant CertInv says: behind each vote that counts is a vote message, *)
(* or the replica's own vote; behind a certificate a quorum of votes;      *)
(* behind a view a certificate of the view before.  Again there is a lemma *)
(* per function: it Follows when it counts no vote and sends no            *)
(* certificate, and Tallies when it may.                                   *)
(***************************************************************************)
EXTENDS OptRandCore, TLAPS, FiniteSetTheorems

-----------------------------------------------------------------------------
(* What every function does.                                               *)

\* A recorded certificate of a later view pins the replica to its view, and
\* no beacon is recorded for a later view than the replica's.
Keeps(s, t) ==
  /\ s.last_view_cert_received > s.view =>
       /\ t.view = s.view
       /\ t.last_view_cert_received = s.last_view_cert_received
  /\ s.last_view_beacon_received <= s.view =>
       t.last_view_beacon_received <= t.view

Moves(s, t) == t \in ReplicaState /\ Keeps(s, t)

\* The blocks that suspended calls of on_receive_proposal are going to vote for.
PendingIn(todo) == {todo[i].blk : i \in {j \in DOMAIN todo : todo[j].vote}}

VotesIn(ms) == {m \in ms : m.type = "vote"}

\* Nothing is received in a slot, and no vote is cast or decided on.
Silent(s, t) ==
  /\ t.proposals = s.proposals
  /\ PendingIn(t.todo) \subseteq PendingIn(s.todo)
  /\ VotesIn(t.out) \subseteq VotesIn(s.out)

Leads(s, t) == Moves(s, t) /\ Silent(s, t)

LEMMA MovesTransitive ==
  ASSUME NEW s, NEW t, NEW u, Moves(s, t), Moves(t, u)
  PROVE  Moves(s, u)
BY DEF Moves, Keeps

LEMMA PendingPush ==
  ASSUME NEW todo \in Seq(Frame), NEW f \in Frame
  PROVE  PendingIn(<<f>> \o todo) \subseteq
           PendingIn(todo) \cup (IF f.vote THEN {f.blk} ELSE {})
<1> DEFINE longer == <<f>> \o todo
<1> SUFFICES ASSUME NEW i \in DOMAIN longer, longer[i].vote
             PROVE  longer[i].blk \in
                      PendingIn(todo) \cup (IF f.vote THEN {f.blk} ELSE {})
  BY DEF PendingIn
<1>1. i \in 1 .. Len(todo) + 1 /\ longer[i] = IF i = 1 THEN f ELSE todo[i - 1]
  OBVIOUS
<1>2. CASE i = 1
  BY <1>1, <1>2
<1>3. CASE i # 1
  <2>1. i - 1 \in DOMAIN todo /\ longer[i] = todo[i - 1]
    BY <1>1, <1>3
  <2> HIDE DEF longer
  <2>2. todo[i - 1].vote
    BY <2>1
  <2> QED  BY <2>1, <2>2 DEF PendingIn
<1> QED  BY <1>2, <1>3

LEMMA PendingTail ==
  ASSUME NEW todo \in Seq(Frame), todo # <<>>
  PROVE  PendingIn(Tail(todo)) \subseteq PendingIn(todo)
<1> SUFFICES ASSUME NEW i \in DOMAIN Tail(todo), Tail(todo)[i].vote
             PROVE  Tail(todo)[i].blk \in PendingIn(todo)
  BY DEF PendingIn
<1>1. i + 1 \in DOMAIN todo /\ Tail(todo)[i] = todo[i + 1]
  OBVIOUS
<1>2. todo[i + 1].vote
  BY <1>1
<1> QED  BY <1>1, <1>2 DEF PendingIn

LEMMA PendingHead ==
  ASSUME NEW todo \in Seq(Frame), todo # <<>>, Head(todo).vote
  PROVE  Head(todo).blk \in PendingIn(todo)
<1>1. 1 \in DOMAIN todo /\ Head(todo) = todo[1]
  OBVIOUS
<1> QED  BY <1>1 DEF PendingIn

LEMMA LeadsTransitive ==
  ASSUME NEW s, NEW t, NEW u, Leads(s, t), Leads(t, u)
  PROVE  Leads(s, u)
BY DEF Leads, Moves, Keeps, Silent

LEMMA LeadsReflexive ==
  ASSUME NEW s \in ReplicaState PROVE Leads(s, s)
BY DEF Leads, Moves, Keeps, Silent

LEMMA ViewNat == View \subseteq Nat /\ 0 .. MaxView \subseteq View
BY BoundsAssumption DEF View

LEMMA GenesisType == Genesis \in Block
BY BoundsAssumption DEF Genesis, Block, MaxHeight

LEMMA HeightNat ==
  ASSUME NEW b \in Block PROVE b.height \in 0 .. MaxHeight /\ b.height \in Nat
BY BoundsAssumption DEF Block, MaxHeight

LEMMA ProposerType ==
  ASSUME NEW v \in Nat PROVE GetProposer(v) \in Replica
BY NReplicasAssumption DEF GetProposer, Replica

LEMMA SentTypes ==
  ASSUME msgs \subseteq Message
  PROVE  /\ Sent("propose") \subseteq Proposals
         /\ Sent("vote") \subseteq Votes
         /\ Sent("qc") \subseteq Certificates
         /\ Sent("ack") \subseteq Acks
         /\ Sent("echo2") \subseteq CertEchoes
         /\ Sent("status") \subseteq Statuses
         /\ Sent("share") \subseteq Shares
         /\ Sent("beacon") \subseteq Beacons
BY DEF Sent, Message, Proposals, Votes, Certificates, Acks, CertEchoes, Statuses,
       Shares, Beacons

LEMMA SendLeads ==
  ASSUME NEW s \in ReplicaState, NEW ms \in SUBSET Message, VotesIn(ms) = {}
  PROVE  Leads(s, Send(s, ms))
<1>1. VotesIn(s.out \cup ms) \subseteq VotesIn(s.out)
  BY DEF VotesIn
<1> QED  BY <1>1 DEF Leads, Moves, Keeps, Silent, Send, ReplicaState

LEMMA PushMoves ==
  ASSUME NEW s \in ReplicaState, NEW f \in Frame
  PROVE  Moves(s, Push(s, f))
<1>1. s.todo \in Seq(Frame)
  BY DEF ReplicaState
<1>2. <<f>> \o s.todo \in Seq(Frame)
  BY <1>1
<1> QED  BY <1>2 DEF Moves, Keeps, Push, ReplicaState

LEMMA PushLeads ==
  ASSUME NEW s \in ReplicaState, NEW f \in Frame, ~ f.vote
  PROVE  Leads(s, Push(s, f))
<1>1. s.todo \in Seq(Frame)
  BY DEF ReplicaState
<1>2. PendingIn(<<f>> \o s.todo) \subseteq PendingIn(s.todo)
  BY <1>1, PendingPush
<1>3. Silent(s, Push(s, f))
  BY <1>2 DEF Silent, Push, ReplicaState
<1> QED  BY <1>3, PushMoves DEF Leads

LEMMA ThrowLeads ==
  ASSUME NEW s \in ReplicaState
  PROVE  Leads(s, Throw(s))
<1>1. <<>> \in Seq(Frame) /\ PendingIn(<<>>) = {}
  BY DEF PendingIn
<1> QED  BY <1>1 DEF Leads, Moves, Keeps, Silent, Throw, ReplicaState

LEMMA UpdateHqcLeads ==
  ASSUME NEW s \in ReplicaState, NEW b \in Block
  PROVE Leads(s, UpdateHqc(s, b))
BY ZenonT(40) DEF Leads, Moves, Keeps, Silent, UpdateHqc, ReplicaState

LEMMA CheckCommitLeads ==
  ASSUME NEW s \in ReplicaState, NEW b \in Block
  PROVE  Leads(s, CheckCommit(s, b))
<1> DEFINE queue == {a \in Ancestors[b] \cap Block : a.height > s.b_exec.height}
           done == [s EXCEPT !.decided = @ \cup queue, !.b_exec = b]
<1>1. queue \in SUBSET Block
  OBVIOUS
<1>2. Leads(s, done)
  <2> HIDE DEF queue
  <2> QED  BY <1>1 DEF Leads, Moves, Keeps, Silent, ReplicaState
<1>3. CheckCommit(s, b) = Throw(s) \/ CheckCommit(s, b) = done
  BY DEF CheckCommit
<1> QED  BY <1>2, <1>3, ThrowLeads

LEMMA EnterViewLeads ==
  ASSUME NEW s \in ReplicaState, NEW v \in View
  PROVE  Leads(s, EnterView(s, v))
<1> DEFINE t == [s EXCEPT !.pm_proposer = GetProposer(v)]
           f == [at |-> "enter_view", view |-> v, blk |-> Genesis, vote |-> FALSE,
                 proposer |-> GetProposer(v)]
<1>1. GetProposer(v) \in Replica
  BY ProposerType, ViewNat
<1>2. Leads(s, t)
  BY <1>1 DEF Leads, Moves, Keeps, Silent, ReplicaState
<1>3. f \in Frame
  BY <1>1, GenesisType DEF Frame
<1>4. Leads(t, Push(t, f))
  BY <1>2, <1>3, PushLeads DEF Leads, Moves
<1>5. EnterView(s, v) = Push(t, f)
  BY DEF EnterView
<1> QED  BY <1>2, <1>4, <1>5, LeadsTransitive

LEMMA TryEnterViewLeads ==
  ASSUME NEW s \in ReplicaState
  PROVE  Leads(s, TryEnterView(s))
<1> DEFINE t == [s EXCEPT !.view = @ + 1]
<1>1. CASE TryEnterView(s) = s
  BY <1>1, LeadsReflexive
<1>2. CASE TryEnterView(s) # s
  <2>1. /\ s.last_view_cert_received = s.view
        /\ TryEnterView(s) = EnterView(t, s.view + 1)
    BY <1>2 DEF TryEnterView
  <2>2. s.view \in 0 .. MaxView
    BY <2>1 DEF ReplicaState
  <2>3. s.view + 1 \in View
    BY <2>2, BoundsAssumption DEF View
  <2>4. Leads(s, t)
    <3>1. t \in ReplicaState
      BY <2>3 DEF ReplicaState
    <3>2. /\ t.view = s.view + 1
          /\ t.last_view_beacon_received = s.last_view_beacon_received
          /\ s.view \in Nat /\ s.last_view_beacon_received \in Nat
      BY ViewNat DEF ReplicaState
    <3> QED  BY <2>1, <3>1, <3>2 DEF Leads, Moves, Keeps, Silent
  <2>5. Leads(t, EnterView(t, s.view + 1))
    BY <2>3, <2>4, EnterViewLeads DEF Leads, Moves
  <2> QED  BY <2>1, <2>4, <2>5, LeadsTransitive
<1> QED  BY <1>1, <1>2

LEMMA OnReceiveShareLeads ==
  ASSUME NEW s \in ReplicaState, NEW r \in Replica, NEW origin \in Replica, NEW v \in View
  PROVE  Leads(s, OnReceiveShare(s, r, origin, v))
<1> DEFINE t == [s EXCEPT !.view_shares[v] = Append(@, origin)]
           beacon == [type |-> "beacon", from |-> r, view |-> t.view]
           sent == Send(t, {beacon})
           u == [sent EXCEPT !.last_view_shares_received = t.view,
                             !.last_view_beacon_received = t.view]
<1>1. Leads(s, t)
  <2>1. Append(s.view_shares[v], origin) \in Seq(Replica)
    BY DEF ReplicaState
  <2> QED  BY <2>1 DEF Leads, Moves, Keeps, Silent, ReplicaState
<1>2. Leads(t, sent)
  <2>1. t.view \in View
    BY <1>1 DEF Leads, Moves, ReplicaState
  <2> HIDE DEF t
  <2>2. {beacon} \in SUBSET Message /\ VotesIn({beacon}) = {}
    BY <2>1 DEF Message, Beacons, VotesIn
  <2> QED  BY <1>1, <2>2, SendLeads DEF Leads, Moves
<1>3. Leads(sent, u)
  <2>1. sent.view = t.view /\ t.view \in View /\ sent \in ReplicaState
    BY <1>1, <1>2 DEF Leads, Moves, Send, ReplicaState
  <2> HIDE DEF sent, t
  <2>2. u \in ReplicaState
    BY <2>1 DEF ReplicaState
  <2>3. /\ u.view = sent.view /\ u.last_view_beacon_received = t.view
        /\ u.last_view_cert_received = sent.last_view_cert_received
    BY <2>1 DEF ReplicaState
  <2> QED  BY <2>1, <2>2, <2>3, ViewNat DEF Leads, Moves, Keeps, Silent
<1>4. Leads(u, TryEnterView(u))
  BY <1>3, TryEnterViewLeads DEF Leads, Moves
<1>5. Leads(s, TryEnterView(u))
  BY <1>1, <1>2, <1>3, <1>4, LeadsTransitive
<1>6. Leads(s, Throw(t))
  BY <1>1, ThrowLeads, LeadsTransitive DEF Leads, Moves
<1>7. OnReceiveShare(s, r, origin, v) \in {s, t, Throw(t), TryEnterView(u)}
  BY DEF OnReceiveShare
<1> HIDE DEF t, u
<1> QED  BY <1>1, <1>5, <1>6, <1>7, LeadsReflexive

LEMMA BroadcastShareLeads ==
  ASSUME NEW s \in ReplicaState, NEW r \in Replica, NEW b \in Block
  PROVE  Leads(s, BroadcastShare(s, r, b))
<1> DEFINE t == OnReceiveShare(s, r, r, s.view)
           shares == {[type |-> "share", from |-> r, to |-> q,
                       view |-> s.view, blk |-> b] : q \in Replica \ {r}}
<1>1. s.view \in View
  BY DEF ReplicaState
<1>2. Leads(s, t)
  BY <1>1, OnReceiveShareLeads
<1>3. shares \in SUBSET Message /\ VotesIn(shares) = {}
  BY <1>1 DEF Message, Shares, VotesIn
<1>4. Leads(t, Send(t, shares))
  BY <1>2, <1>3, SendLeads DEF Leads, Moves
<1>5. BroadcastShare(s, r, b) = t \/ BroadcastShare(s, r, b) = Send(t, shares)
  BY DEF BroadcastShare
<1> QED  BY <1>2, <1>4, <1>5, LeadsTransitive

LEMMA OnReceiveAckLeads ==
  ASSUME NEW s \in ReplicaState, NEW r \in Replica, NEW b \in Block,
         NEW voter \in Replica, NEW v \in View
  PROVE  Leads(s, OnReceiveAck(s, r, b, voter, v))
<1> DEFINE t == [s EXCEPT !.acked[b] = @ \cup {voter}]
           u == CheckCommit(t, b)
<1>1. Leads(s, t)
  BY DEF Leads, Moves, Keeps, Silent, ReplicaState
<1>2. Leads(t, u)
  BY <1>1, CheckCommitLeads DEF Leads, Moves
<1>3. Leads(u, BroadcastShare(u, r, b))
  BY <1>2, BroadcastShareLeads DEF Leads, Moves
<1>4. OnReceiveAck(s, r, b, voter, v) \in {s, t, u, BroadcastShare(u, r, b)}
  BY DEF OnReceiveAck
<1> HIDE DEF t, u
<1> QED  BY <1>1, <1>2, <1>3, <1>4, LeadsReflexive, LeadsTransitive

LEMMA AckLeads ==
  ASSUME NEW s \in ReplicaState, NEW r \in Replica, NEW b \in Block
  PROVE  Leads(s, Ack(s, r, b))
<1> DEFINE t == OnReceiveAck(s, r, b, r, s.view)
           ack == [type |-> "ack", from |-> r, blk |-> b, view |-> s.view]
<1>1. s.view \in View
  BY DEF ReplicaState
<1>2. Leads(s, t)
  BY <1>1, OnReceiveAckLeads
<1>3. {ack} \in SUBSET Message /\ VotesIn({ack}) = {}
  BY <1>1 DEF Message, Acks, VotesIn
<1>4. Leads(t, Send(t, {ack}))
  BY <1>2, <1>3, SendLeads DEF Leads, Moves
<1>5. Ack(s, r, b) = t \/ Ack(s, r, b) = Send(t, {ack})
  BY DEF Ack
<1> QED  BY <1>2, <1>4, <1>5, LeadsTransitive

LEMMA OnReceiveVoteLeads ==
  ASSUME NEW s \in ReplicaState, NEW r \in Replica, NEW b \in Block,
         NEW voter \in Replica, NEW v \in View
  PROVE  Leads(s, OnReceiveVote(s, r, b, voter, v))
<1> DEFINE t == [s EXCEPT !.voted[b] = @ \cup {voter}]
           u == UpdateHqc(t, b)
           qc == [type |-> "qc", from |-> r, blk |-> b]
           w == Send(u, {qc})
<1>1. Leads(s, t)
  BY DEF Leads, Moves, Keeps, Silent, ReplicaState
<1>2. Leads(t, u)
  BY <1>1, UpdateHqcLeads DEF Leads, Moves
<1>3. {qc} \in SUBSET Message /\ VotesIn({qc}) = {}
  BY DEF Message, Certificates, VotesIn
<1>4. Leads(u, w)
  BY <1>2, <1>3, SendLeads DEF Leads, Moves
<1>5. Leads(w, Ack(w, r, b))
  BY <1>4, AckLeads DEF Leads, Moves
<1>6. OnReceiveVote(s, r, b, voter, v) \in {s, t, Ack(w, r, b)}
  BY DEF OnReceiveVote
<1> HIDE DEF t, u, w
<1> QED  BY <1>1, <1>2, <1>4, <1>5, <1>6, LeadsReflexive, LeadsTransitive

\* A vote for another replica's block leaves the replica.
LEMMA VoteMoves ==
  ASSUME NEW s \in ReplicaState, NEW r \in Replica, NEW b \in Block,
         NEW proposer \in Replica, NEW t, t = Vote(s, r, b, proposer)
  PROVE  /\ Moves(s, t)
         /\ t.proposals = s.proposals
         /\ PendingIn(t.todo) \subseteq PendingIn(s.todo)
         /\ \A m \in VotesIn(t.out) \ VotesIn(s.out) : m.from = r /\ m.blk = b
<1> DEFINE vote == [type |-> "vote", from |-> r, to |-> proposer, blk |-> b,
                    view |-> s.view]
<1>1. s.view \in View
  BY DEF ReplicaState
<1>2. CASE proposer = r
  <2>1. Leads(s, OnReceiveVote(s, r, b, r, s.view))
    BY <1>1, OnReceiveVoteLeads
  <2>2. t = OnReceiveVote(s, r, b, r, s.view)
    BY <1>2 DEF Vote
  <2> QED  BY <2>1, <2>2 DEF Leads, Silent
<1>3. CASE proposer # r
  <2>1. vote \in Message
    BY <1>1 DEF Message, Votes
  <2>2. s.out \cup {vote} \in SUBSET Message
    BY <2>1 DEF ReplicaState
  <2>3. t = [s EXCEPT !.out = @ \cup {vote}]
    BY <1>3 DEF Vote, Send
  <2>4. \A m \in VotesIn(s.out \cup {vote}) \ VotesIn(s.out) : m.from = r /\ m.blk = b
    BY DEF VotesIn
  <2> HIDE DEF vote
  <2> QED  BY <2>2, <2>3, <2>4, ZenonT(40) DEF Moves, Keeps, ReplicaState
<1> QED  BY <1>2, <1>3

LEMMA OnProposeLeads ==
  ASSUME NEW s \in ReplicaState, NEW r \in Replica,
         s.view <= MaxView, s.hqc_tail.height < MaxHeight
  PROVE  Leads(s, OnPropose(s, r))
<1> DEFINE b == [view |-> s.view, height |-> s.hqc_tail.height + 1]
           voting == [s EXCEPT !.vheight = b.height,
                               !.finished_propose = @ \cup {b}]
           t == Vote(voting, r, b, r)
           prop == [type |-> "propose", from |-> r, blk |-> b,
                    parent |-> s.hqc_tail, qc_ref |-> s.hqc]
           sent == Send(t, {prop})
           u == [sent EXCEPT !.hqc_tail = b, !.last_proposed_view = s.view,
                             !.last_view_proposal_received = s.view]
           f == [at |-> "view_proposal", view |-> s.view, blk |-> b, vote |-> FALSE,
                 proposer |-> r]
<1>1. s.view \in View /\ s.hqc_tail \in Block /\ s.hqc \in Block
  BY DEF ReplicaState
<1>2. b \in Block
  <2>1. s.view \in 0 .. MaxView
    BY <1>1, BoundsAssumption DEF View
  <2>2. s.hqc_tail.height + 1 \in 0 .. MaxHeight
    BY <1>1, HeightNat, BoundsAssumption DEF MaxHeight
  <2> QED  BY <2>1, <2>2 DEF Block
<1>3. b.height \in Nat
  BY <1>2, HeightNat
<1> HIDE DEF b
<1>4. Leads(s, voting)
  BY <1>2, <1>3 DEF Leads, Moves, Keeps, Silent, ReplicaState
<1>5. Leads(voting, t)
  <2>1. voting \in ReplicaState /\ voting.view \in View
    BY <1>4 DEF Leads, Moves, ReplicaState
  <2>2. t = OnReceiveVote(voting, r, b, r, voting.view)
    BY DEF Vote
  <2> HIDE DEF voting, t
  <2> QED  BY <1>2, <2>1, <2>2, OnReceiveVoteLeads
<1>6. {prop} \in SUBSET Message /\ VotesIn({prop}) = {}
  BY <1>1, <1>2 DEF Message, Proposals, VotesIn
<1>7. Leads(t, sent)
  BY <1>5, <1>6, SendLeads DEF Leads, Moves
<1> HIDE DEF sent
<1>8. Leads(sent, u)
  BY <1>1, <1>2, <1>7 DEF Leads, Moves, Keeps, Silent, ReplicaState
<1>9. f \in Frame
  BY <1>1, <1>2 DEF Frame
<1>10. Leads(u, Push(u, f))
  BY <1>8, <1>9, PushLeads DEF Leads, Moves
<1>11. Leads(s, Push(u, f))
  <2> HIDE DEF voting, t, u, f
  <2> QED  BY <1>4, <1>5, <1>7, <1>8, <1>10, LeadsTransitive
<1>12. OnPropose(s, r) = Throw(s) \/ OnPropose(s, r) = Push(u, f)
  BY DEF OnPropose, sent, b
<1> QED  BY <1>11, <1>12, ThrowLeads

LEMMA DoProposeLeads ==
  ASSUME NEW s \in ReplicaState, NEW r \in Replica
  PROVE  Leads(s, DoPropose(s, r))
<1> DEFINE t == [s EXCEPT !.propose_timer = FALSE]
<1>1. Leads(s, t) /\ t.view = s.view /\ t.hqc_tail = s.hqc_tail
  BY DEF Leads, Moves, Keeps, Silent, ReplicaState
<1>2. CASE DoPropose(s, r) = s
  BY <1>2, LeadsReflexive
<1>3. CASE DoPropose(s, r) # s
  <2>1. /\ s.view <= MaxView /\ s.hqc_tail.height < MaxHeight
        /\ DoPropose(s, r) = OnPropose(t, r)
    BY <1>3 DEF DoPropose, MayPropose
  <2>2. Leads(t, OnPropose(t, r))
    BY <1>1, <2>1, OnProposeLeads DEF Leads, Moves
  <2> QED  BY <1>1, <2>1, <2>2, LeadsTransitive
<1> QED  BY <1>2, <1>3

\* A proposal goes into its slot, and is voted for if it is alone there.
LEMMA OnReceiveProposalMoves ==
  ASSUME msgs \subseteq Message, NEW s \in ReplicaState, NEW r \in Replica,
         NEW m \in Sent("propose"), OnReceiveProposal(s, r, m) # s
  PROVE  LET t == OnReceiveProposal(s, r, m)
         IN /\ Moves(s, t)
            /\ t.proposals = s.proposals \cup {m.blk}
            /\ VotesIn(t.out) \subseteq VotesIn(s.out)
            /\ \/ PendingIn(t.todo) \subseteq PendingIn(s.todo)
               \/ /\ PendingIn(t.todo) \subseteq PendingIn(s.todo) \cup {m.blk}
                  /\ \A b \in s.proposals : b.height = m.blk.height => b = m.blk
<1> DEFINE t == UpdateHqc(s, m.qc_ref)
           conflicting == \E b \in s.proposals : b.height = m.blk.height /\ b # m.blk
           onBranch == t.hqc \in Ancestors[m.blk]
           opinion == ~ conflicting /\ onBranch
           vh == IF opinion THEN m.blk.height ELSE t.vheight
           tail == IF onBranch /\ m.blk.height > t.hqc_tail.height
                   THEN m.blk ELSE t.hqc_tail
           u == [t EXCEPT !.proposals = @ \cup {m.blk},
                          !.vheight = vh,
                          !.finished_propose = @ \cup {m.blk},
                          !.hqc_tail = tail,
                          !.last_view_proposal_received = s.view]
           f == [at |-> "view_proposal", view |-> s.view, blk |-> m.blk,
                 vote |-> opinion, proposer |-> m.from]
<1>1. m.qc_ref \in Block /\ m.blk \in Block /\ m.from \in Replica
  BY SentTypes DEF Proposals
<1>2. s.view \in View
  BY DEF ReplicaState
<1>3. Leads(s, t)
  BY <1>1, UpdateHqcLeads
<1>4. f \in Frame
  BY <1>1, <1>2 DEF Frame
<1>5. t \in ReplicaState
  BY <1>3 DEF Leads, Moves
<1>6. OnReceiveProposal(s, r, m) = Push(u, f)
  BY <1>5 DEF OnReceiveProposal, ReplicaState
<1>7. vh \in Nat /\ tail \in Block
  <2>1. t.vheight \in Nat /\ t.hqc_tail \in Block /\ m.blk.height \in Nat
    BY <1>1, <1>5, HeightNat DEF ReplicaState
  <2> QED  BY <1>1, <2>1
<1>8. opinion => \A b \in s.proposals : b.height = m.blk.height => b = m.blk
  OBVIOUS
<1>9. f.vote = opinion /\ f.blk = m.blk
  OBVIOUS
<1> HIDE DEF t, vh, tail, f, opinion
<1>10. /\ Moves(t, u) /\ u.proposals = t.proposals \cup {m.blk}
       /\ u.todo = t.todo /\ u.out = t.out
  BY <1>1, <1>2, <1>5, <1>7 DEF Moves, Keeps, ReplicaState
<1> HIDE DEF u
<1>11. Moves(u, Push(u, f))
  BY <1>4, <1>10, PushMoves DEF Moves
<1>12. Moves(s, Push(u, f))
  BY <1>3, <1>10, <1>11, MovesTransitive DEF Leads
<1>13. /\ Push(u, f).proposals = u.proposals
       /\ Push(u, f).todo = <<f>> \o u.todo
       /\ Push(u, f).out = u.out
  BY <1>10 DEF Push, Moves, ReplicaState
<1>14. PendingIn(<<f>> \o u.todo) \subseteq
         PendingIn(s.todo) \cup (IF opinion THEN {m.blk} ELSE {})
  <2>1. u.todo \in Seq(Frame)
    BY <1>10 DEF Moves, ReplicaState
  <2>2. PendingIn(u.todo) \subseteq PendingIn(s.todo)
    BY <1>3, <1>10 DEF Leads, Silent
  <2> QED  BY <1>4, <1>9, <2>1, <2>2, PendingPush
<1> QED  BY <1>3, <1>6, <1>8, <1>10, <1>12, <1>13, <1>14 DEF Leads, Silent

LEMMA OnReceiveStatusLeads ==
  ASSUME NEW s \in ReplicaState, NEW r \in Replica,
         NEW from \in Replica, NEW v \in View, NEW found,
         NEW qc \in Block
  PROVE  Leads(s, OnReceiveStatus(s, r, from, v, qc, found))
<1> DEFINE t == UpdateHqc(s, qc)
           u == [t EXCEPT !.status_received[v] = @ \cup {from}]
<1>1. Leads(s, t)
  BY UpdateHqcLeads
<1> HIDE DEF t
<1>2. Leads(t, u)
  BY <1>1, ZenonT(40) DEF Leads, Moves, Keeps, Silent, ReplicaState
<1>3. Leads(u, DoPropose(u, r))
  BY <1>2, DoProposeLeads DEF Leads, Moves
<1>4. OnReceiveStatus(s, r, from, v, qc, found) \in {s, Throw(s), t, u, DoPropose(u, r)}
  BY DEF OnReceiveStatus, t
<1> HIDE DEF u
<1> QED  BY <1>1, <1>2, <1>3, <1>4, LeadsReflexive, LeadsTransitive, ThrowLeads

LEMMA OnReceiveQCLeads ==
  ASSUME NEW s \in ReplicaState, NEW r \in Replica, NEW b \in Block, NEW found
  PROVE  Leads(s, OnReceiveQC(s, r, b, found))
<1> DEFINE t == [s EXCEPT !.last_view_cert_received = b.view]
           u == UpdateHqc(t, b)
           echo == [type |-> "echo2", from |-> r, blk |-> b]
           w == Send(u, {echo})
           f == [at |-> "view_qc", view |-> s.view, blk |-> b, vote |-> FALSE,
                 proposer |-> r]
<1>1. CASE OnReceiveQC(s, r, b, found) \in {s, Throw(s)}
  BY <1>1, LeadsReflexive, ThrowLeads
<1>2. CASE OnReceiveQC(s, r, b, found) \notin {s, Throw(s)}
  <2>1. ~ s.last_view_cert_received >= s.view /\ OnReceiveQC(s, r, b, found) = Push(w, f)
    BY <1>2 DEF OnReceiveQC
  <2>2. Leads(s, t)
    <3>1. t \in ReplicaState
      BY ZenonT(40) DEF Block, ReplicaState
    <3>2. t.view = s.view /\ t.last_view_beacon_received = s.last_view_beacon_received
      BY DEF ReplicaState
    <3>3. s.view \in Nat /\ s.last_view_cert_received \in Nat
      BY ViewNat DEF ReplicaState
    <3> QED  BY <2>1, <3>1, <3>2, <3>3 DEF Leads, Moves, Keeps, Silent
  <2>3. Leads(t, u)
    BY <2>2, UpdateHqcLeads DEF Leads, Moves
  <2>4. {echo} \in SUBSET Message /\ VotesIn({echo}) = {}
    BY DEF Message, CertEchoes, VotesIn
  <2>5. Leads(u, w)
    BY <2>3, <2>4, SendLeads DEF Leads, Moves
  <2>6. f \in Frame
    BY DEF Frame, ReplicaState
  <2>7. Leads(w, Push(w, f))
    BY <2>5, <2>6, PushLeads DEF Leads, Moves
  <2> HIDE DEF t, u, w, f
  <2> QED  BY <2>1, <2>2, <2>3, <2>5, <2>7, LeadsTransitive
<1> QED  BY <1>1, <1>2

LEMMA OnReceiveCertEchoLeads ==
  ASSUME NEW s \in ReplicaState, NEW r \in Replica, NEW idx \in Replica, NEW b \in Block,
         NEW found
  PROVE  Leads(s, OnReceiveCertEcho(s, r, idx, b, found))
<1> DEFINE t == [s EXCEPT !.qc_chunks[b.view] = @ \cup {idx}]
           u == [t EXCEPT !.last_cert_decoded_view = s.view, !.qc_chunks[b.view] = {}]
<1>1. b.view \in View
  BY ViewNat DEF Block
<1>2. Leads(s, t)
  BY <1>1 DEF Leads, Moves, Keeps, Silent, ReplicaState
<1>3. s.view \in View
  BY DEF ReplicaState
<1>4. Leads(t, u)
  <2> HIDE DEF t
  <2> QED  BY <1>1, <1>2, <1>3 DEF Leads, Moves, Keeps, Silent, ReplicaState
<1>5. Leads(u, OnReceiveQC(u, r, b, found))
  BY <1>4, OnReceiveQCLeads DEF Leads, Moves
<1>6. OnReceiveCertEcho(s, r, idx, b, found) \in {s, t, OnReceiveQC(u, r, b, found)}
  BY DEF OnReceiveCertEcho
<1> HIDE DEF t, u
<1> QED  BY <1>2, <1>4, <1>5, <1>6, LeadsReflexive, LeadsTransitive

LEMMA AfterEnterViewLeads ==
  ASSUME NEW s \in ReplicaState, NEW r \in Replica
  PROVE  Leads(s, AfterEnterView(s, r))
<1> DEFINE t == OnReceiveStatus(s, r, r, s.view, s.hqc, TRUE)
           u == [t EXCEPT !.propose_timer = TRUE]
           status == [type |-> "status", from |-> r, to |-> s.pm_proposer,
                      view |-> s.view, qc |-> s.hqc]
<1>1. s.view \in View /\ s.hqc \in Block /\ s.pm_proposer \in Replica
  BY DEF ReplicaState
<1>2. Leads(s, t)
  BY <1>1, OnReceiveStatusLeads
<1>3. {status} \in SUBSET Message /\ VotesIn({status}) = {}
  BY <1>1 DEF Message, Statuses, VotesIn
<1>4. Leads(s, Send(s, {status}))
  BY <1>3, SendLeads
<1>5. AfterEnterView(s, r) \in {t, u, Send(s, {status})}
  BY DEF AfterEnterView
<1> HIDE DEF t
<1>6. Leads(t, u)
  BY <1>2 DEF Leads, Moves, Keeps, Silent, ReplicaState
<1> HIDE DEF u
<1> QED  BY <1>2, <1>4, <1>5, <1>6, LeadsTransitive

LEMMA OnReceiveBeaconLeads ==
  ASSUME NEW s \in ReplicaState, NEW v \in View
  PROVE  Leads(s, OnReceiveBeacon(s, v))
<1> DEFINE t == [s EXCEPT !.last_view_beacon_received = s.view]
<1>1. Leads(s, t)
  <2>1. s.view \in View
    BY DEF ReplicaState
  <2>2. t \in ReplicaState
    BY <2>1 DEF ReplicaState
  <2>3. /\ t.view = s.view /\ t.last_view_beacon_received = s.view
        /\ t.last_view_cert_received = s.last_view_cert_received
    BY DEF ReplicaState
  <2> QED  BY <2>1, <2>2, <2>3, ViewNat DEF Leads, Moves, Keeps, Silent
<1>2. Leads(t, TryEnterView(t))
  BY <1>1, TryEnterViewLeads DEF Leads, Moves
<1>3. OnReceiveBeacon(s, v) \in {s, TryEnterView(t)}
  BY DEF OnReceiveBeacon
<1> HIDE DEF t
<1> QED  BY <1>1, <1>2, <1>3, LeadsReflexive, LeadsTransitive

LEMMA PoppedLeads ==
  ASSUME NEW s \in ReplicaState, s.todo # <<>>
  PROVE  Leads(s, Popped(s)) /\ Head(s.todo) \in Frame
<1>1. s.todo \in Seq(Frame)
  BY DEF ReplicaState
<1>2. Tail(s.todo) \in Seq(Frame) /\ Head(s.todo) \in Frame
  BY <1>1
<1>3. PendingIn(Tail(s.todo)) \subseteq PendingIn(s.todo)
  BY <1>1, PendingTail
<1> QED  BY <1>2, <1>3 DEF Leads, Moves, Keeps, Silent, Popped, ReplicaState

-----------------------------------------------------------------------------
(* What every step does.                                                   *)

LEMMA InitTypeOK == Init => TypeOK
<1> SUFFICES ASSUME Init PROVE TypeOK
  OBVIOUS
<1>1. {0, 1} \subseteq View /\ 0 \in 0 .. MaxView /\ 0 \in Replica
  BY NReplicasAssumption, BoundsAssumption DEF View, Replica
<1>2. /\ InitState.voted \in [Block -> SUBSET Replica]
      /\ InitState.acked \in [Block -> SUBSET Replica]
      /\ InitState.status_received \in [View -> SUBSET Replica]
      /\ InitState.view_shares \in [View -> Seq(Replica)]
      /\ InitState.qc_chunks \in [View -> SUBSET Replica]
      /\ InitState.todo \in Seq(Frame)
  BY DEF InitState
<1>3. InitState \in ReplicaState
  BY <1>1, <1>2, GenesisType DEF InitState, ReplicaState
<1> QED  BY <1>3 DEF Init, TypeOK

\* A step of r leaves it in state t and sends ms.
Outcome(r, t, ms) ==
  /\ st' = [st EXCEPT ![r] = t] /\ msgs' = msgs \cup ms
  /\ ms \in SUBSET Message /\ Moves(st[r], t)
  /\ VotesIn(t.out) \subseteq VotesIn(st[r].out)

\* Votes sent are for blocks that a suspended on_receive_proposal has accepted.
Speaks(r, t, ms) ==
  /\ t.proposals = st[r].proposals
  /\ PendingIn(t.todo) \subseteq PendingIn(st[r].todo)
  /\ \A m \in VotesIn(ms) \ VotesIn(st[r].out) :
       m.from = r /\ m.blk \in PendingIn(st[r].todo)

\* A block is accepted when it is alone in its slot, and its view has come.
Hears(r, t, ms) ==
  /\ VotesIn(ms) \subseteq VotesIn(st[r].out)
  /\ \E b \in Block :
       /\ Proposed(b) /\ b.view <= st[r].view
       /\ t.proposals = st[r].proposals \cup {b}
       /\ \/ PendingIn(t.todo) \subseteq PendingIn(st[r].todo)
          \/ /\ PendingIn(t.todo) \subseteq PendingIn(st[r].todo) \cup {b}
             /\ \A c \in st[r].proposals : c.height = b.height => c = b

StepResult(r) == \E t, ms : Outcome(r, t, ms) /\ (Speaks(r, t, ms) \/ Hears(r, t, ms))

LEMMA BecomeOutcome ==
  ASSUME TypeOK, NEW r \in Replica, NEW s, Moves(st[r], s), Become(r, s)
  PROVE  LET t == [s EXCEPT !.out = {}]
         IN /\ Outcome(r, t, s.out)
            /\ t.proposals = s.proposals /\ t.todo = s.todo
<1> DEFINE t == [s EXCEPT !.out = {}]
<1>1. s \in ReplicaState
  BY DEF Moves
<1>2. s.out \in SUBSET Message /\ Moves(s, t)
  BY <1>1 DEF Moves, Keeps, ReplicaState
<1>3. Moves(st[r], t)
  BY <1>2, MovesTransitive
<1>4. t.proposals = s.proposals /\ t.todo = s.todo /\ VotesIn(t.out) = {}
  BY <1>1 DEF ReplicaState, VotesIn
<1>5. st' = [st EXCEPT ![r] = t] /\ msgs' = msgs \cup s.out
  BY DEF Become
<1> HIDE DEF t
<1>6. Outcome(r, t, s.out)
  BY <1>2, <1>3, <1>4, <1>5 DEF Outcome
<1> QED  BY <1>4, <1>6 DEF t

LEMMA BecomeResult ==
  ASSUME TypeOK, NEW r \in Replica, NEW s, Leads(st[r], s), Become(r, s)
  PROVE  StepResult(r)
<1> DEFINE t == [s EXCEPT !.out = {}]
<1>1. /\ Outcome(r, t, s.out)
      /\ t.proposals = s.proposals /\ t.todo = s.todo
  BY BecomeOutcome DEF Leads
<1> HIDE DEF t
<1>2. Speaks(r, t, s.out)
  BY <1>1 DEF Speaks, Leads, Silent
<1> QED  BY <1>1, <1>2 DEF StepResult

\* Every handler and every resumed function is one of the functions above.
LEMMA StepResults ==
  ASSUME TypeOK, NEW r \in Replica, Step(r)
  PROVE  StepResult(r)
<1>1. /\ st[r] \in ReplicaState
      /\ msgs \subseteq Message
  BY DEF TypeOK
<1>2. CASE ReceiveProposal(r)
  <2>1. PICK m \in Sent("propose") :
          m.blk.view <= st[r].view /\ Become(r, OnReceiveProposal(st[r], r, m))
    BY <1>2 DEF ReceiveProposal, Handles
  <2> DEFINE s == OnReceiveProposal(st[r], r, m)
             t == [s EXCEPT !.out = {}]
  <2>2. s # st[r]
    BY <2>1 DEF Become
  <2>3. /\ Moves(st[r], s)
        /\ s.proposals = st[r].proposals \cup {m.blk}
        /\ VotesIn(s.out) \subseteq VotesIn(st[r].out)
        /\ \/ PendingIn(s.todo) \subseteq PendingIn(st[r].todo)
           \/ /\ PendingIn(s.todo) \subseteq PendingIn(st[r].todo) \cup {m.blk}
              /\ \A b \in st[r].proposals : b.height = m.blk.height => b = m.blk
    BY <1>1, <2>2, OnReceiveProposalMoves
  <2> HIDE DEF s
  <2>4. /\ Outcome(r, t, s.out)
        /\ t.proposals = s.proposals /\ t.todo = s.todo
    BY <2>1, <2>3, BecomeOutcome DEF s
  <2>5. m.blk \in Block /\ Proposed(m.blk)
    BY <1>1, SentTypes DEF Proposals, Proposed
  <2> HIDE DEF t
  <2>6. Hears(r, t, s.out)
    BY <2>1, <2>3, <2>4, <2>5 DEF Hears
  <2> QED  BY <2>4, <2>6 DEF StepResult
<1>3. CASE ReceiveVote(r)
  <2>1. PICK m \in Sent("vote") :
          Become(r, OnReceiveVote(st[r], r, m.blk, m.from, m.view))
    BY <1>3 DEF ReceiveVote
  <2>2. m.blk \in Block /\ m.from \in Replica /\ m.view \in View
    BY <1>1, SentTypes DEF Votes
  <2> QED  BY <1>1, <2>1, <2>2, OnReceiveVoteLeads, BecomeResult
<1>4. CASE ReceiveAck(r)
  <2>1. PICK m \in Sent("ack") :
          Become(r, OnReceiveAck(st[r], r, m.blk, m.from, m.view))
    BY <1>4 DEF ReceiveAck
  <2>2. m.blk \in Block /\ m.from \in Replica /\ m.view \in View
    BY <1>1, SentTypes DEF Acks
  <2> QED  BY <1>1, <2>1, <2>2, OnReceiveAckLeads, BecomeResult
<1>5. CASE ReceiveStatus(r)
  <2>1. PICK m \in Sent("status"), found \in BOOLEAN :
          Become(r, OnReceiveStatus(st[r], r, m.from, m.view, m.qc, found))
    BY <1>5 DEF ReceiveStatus, Delivered
  <2>2. m.qc \in Block /\ m.from \in Replica /\ m.view \in View
    BY <1>1, SentTypes DEF Statuses
  <2> QED  BY <1>1, <2>1, <2>2, OnReceiveStatusLeads, BecomeResult
<1>6. CASE ReceiveQC(r)
  <2>1. PICK m \in Sent("qc") : Become(r, OnReceiveQC(st[r], r, m.blk, TRUE))
    BY <1>6 DEF ReceiveQC
  <2>2. m.blk \in Block
    BY <1>1, SentTypes DEF Certificates
  <2> QED  BY <1>1, <2>1, <2>2, OnReceiveQCLeads, BecomeResult
<1>7. CASE ReceiveCertEcho(r)
  <2>1. PICK m \in Sent("echo2"), found \in BOOLEAN : \E idx \in {r, m.from} :
          Become(r, OnReceiveCertEcho(st[r], r, idx, m.blk, found))
    BY <1>7 DEF ReceiveCertEcho, Delivered
  <2>2. m.blk \in Block /\ m.from \in Replica
    BY <1>1, SentTypes DEF CertEchoes
  <2>3. PICK idx \in {r, m.from} :
          Become(r, OnReceiveCertEcho(st[r], r, idx, m.blk, found))
    BY <2>1
  <2>4. idx \in Replica
    BY <2>2
  <2> QED  BY <1>1, <2>2, <2>3, <2>4, OnReceiveCertEchoLeads, BecomeResult
<1>8. CASE ReceiveShare(r)
  <2>1. PICK m \in Sent("share") :
          Become(r, OnReceiveShare([st[r] EXCEPT !.handled = @ \cup {m}],
                                   r, m.from, m.view))
    BY <1>8 DEF ReceiveShare
  <2> DEFINE s == [st[r] EXCEPT !.handled = @ \cup {m}]
  <2>2. m \in Message /\ m.from \in Replica /\ m.view \in View
    BY <1>1, SentTypes DEF Shares, Sent
  <2>3. Leads(st[r], s)
    BY <1>1, <2>2 DEF Leads, Moves, Keeps, Silent, ReplicaState
  <2>4. Leads(s, OnReceiveShare(s, r, m.from, m.view))
    BY <2>2, <2>3, OnReceiveShareLeads DEF Leads, Moves
  <2>5. Leads(st[r], OnReceiveShare(s, r, m.from, m.view))
    BY <2>3, <2>4, LeadsTransitive
  <2> QED  BY <2>1, <2>5, BecomeResult
<1>9. CASE ReceiveBeacon(r)
  <2>1. PICK m \in Sent("beacon") :
          /\ st' = [st EXCEPT ![r] = OnReceiveBeacon(st[r], m.view)]
          /\ msgs' = msgs
    BY <1>1, <1>9 DEF ReceiveBeacon, TypeOK
  <2>2. m.view \in View
    BY <1>1, SentTypes DEF Beacons
  <2>3. Leads(st[r], OnReceiveBeacon(st[r], m.view))
    BY <1>1, <2>2, OnReceiveBeaconLeads
  <2> DEFINE t == OnReceiveBeacon(st[r], m.view)
  <2> HIDE DEF t
  <2>4. Outcome(r, t, {}) /\ Speaks(r, t, {})
    BY <2>1, <2>3 DEF t, Outcome, Speaks, Leads, Silent, VotesIn
  <2> QED  BY <2>4 DEF StepResult
<1>10. CASE ShareArrivesEarly(r)
  <2>1. PICK m \in Sent("share") :
          Become(r, [st[r] EXCEPT !.past_qc_gate = @ \cup {m}])
    BY <1>10 DEF ShareArrivesEarly
  <2>2. m \in Message
    BY <1>1 DEF Sent
  <2>3. Leads(st[r], [st[r] EXCEPT !.past_qc_gate = @ \cup {m}])
    BY <1>1, <2>2 DEF Leads, Moves, Keeps, Silent, ReplicaState
  <2> QED  BY <2>1, <2>3, BecomeResult
<1>11. CASE ProposeTimeout(r)
  <2> DEFINE s == [st[r] EXCEPT !.propose_timer = FALSE]
  <2>1. Become(r, DoPropose(s, r))
    BY <1>11 DEF ProposeTimeout
  <2>2. Leads(st[r], s)
    BY <1>1 DEF Leads, Moves, Keeps, Silent, ReplicaState
  <2>3. Leads(st[r], DoPropose(s, r))
    BY <1>1, <2>2, DoProposeLeads, LeadsTransitive DEF Leads, Moves
  <2> QED  BY <2>1, <2>3, BecomeResult
<1>12. CASE ClientCommand(r)
  <2> DEFINE s == [st[r] EXCEPT !.commands = @ \cup {st[r].view}]
  <2>1. Become(r, EnterView(s, 1))
    BY <1>12 DEF ClientCommand
  <2>2. 1 \in View
    BY BoundsAssumption DEF View
  <2>3. Leads(st[r], s)
    <3>1. st[r].view \in View
      BY <1>1 DEF ReplicaState
    <3> QED  BY <1>1, <3>1 DEF Leads, Moves, Keeps, Silent, ReplicaState
  <2>4. Leads(st[r], EnterView(s, 1))
    BY <2>2, <2>3, EnterViewLeads, LeadsTransitive DEF Leads, Moves
  <2> QED  BY <2>1, <2>4, BecomeResult
<1>13. CASE ResumeEnterView(r)
  <2>1. st[r].todo # <<>> /\ Become(r, AfterEnterView(Popped(st[r]), r))
    BY <1>13 DEF ResumeEnterView, Resumes
  <2>2. Leads(st[r], Popped(st[r]))
    BY <1>1, <2>1, PoppedLeads
  <2>3. Leads(st[r], AfterEnterView(Popped(st[r]), r))
    BY <1>1, <2>2, AfterEnterViewLeads, LeadsTransitive DEF Leads, Moves
  <2> QED  BY <2>1, <2>3, BecomeResult
<1>14. CASE ResumeProposal(r)
  <2> DEFINE f == Head(st[r].todo)
             popped == Popped(st[r])
             s == Vote(popped, r, f.blk, f.proposer)
  <2>1. /\ st[r].todo # <<>>
        /\ (f.vote /\ Become(r, s)) \/ Become(r, popped)
    BY <1>14 DEF ResumeProposal, Resumes
  <2>2. Leads(st[r], popped) /\ f.blk \in Block /\ f.proposer \in Replica
    BY <1>1, <2>1, PoppedLeads DEF Frame
  <2>3. CASE Become(r, popped)
    BY <2>2, <2>3, BecomeResult
  <2>4. CASE f.vote /\ Become(r, s)
    <3> DEFINE t == [s EXCEPT !.out = {}]
    <3>1. popped \in ReplicaState
      BY <2>2 DEF Leads, Moves
    <3>2. f.blk \in PendingIn(st[r].todo)
      BY <1>1, <2>1, <2>4, PendingHead DEF ReplicaState
    <3> HIDE DEF f, popped
    <3>3. /\ Moves(popped, s)
          /\ s.proposals = popped.proposals
          /\ PendingIn(s.todo) \subseteq PendingIn(popped.todo)
          /\ \A m \in VotesIn(s.out) \ VotesIn(popped.out) :
               m.from = r /\ m.blk = f.blk
      <4>1. s = Vote(popped, r, f.blk, f.proposer)
        OBVIOUS
      <4> HIDE DEF s
      <4> QED  BY <2>2, <3>1, <4>1, VoteMoves
    <3> HIDE DEF s
    <3>4. Moves(st[r], s)
      BY <2>2, <3>3, MovesTransitive DEF Leads
    <3>5. /\ Outcome(r, t, s.out)
          /\ t.proposals = s.proposals /\ t.todo = s.todo
      BY <2>4, <3>4, BecomeOutcome
    <3> HIDE DEF t
    <3>6. Speaks(r, t, s.out)
      BY <2>2, <3>2, <3>3, <3>5 DEF Speaks, Leads, Silent
    <3> QED  BY <3>5, <3>6 DEF StepResult
  <2> QED  BY <2>1, <2>3, <2>4
<1>15. CASE ResumeQC(r)
  <2> DEFINE f == [Head(st[r].todo) EXCEPT !.at = "try_enter_view"]
             popped == Popped(st[r])
             s == Push(popped, f)
             b == Head(st[r].todo).blk
  <2>1. st[r].todo # <<>> /\ Become(r, Ack(s, r, b))
    BY <1>15 DEF ResumeQC, Resumes
  <2>2. Leads(st[r], popped) /\ f \in Frame /\ b \in Block
    BY <1>1, <2>1, PoppedLeads DEF Frame
  <2>3. f.vote => f.blk \in PendingIn(st[r].todo)
    <3>1. Head(st[r].todo) \in Frame
      BY <1>1, <2>1, PoppedLeads
    <3>2. f.vote = Head(st[r].todo).vote /\ f.blk = Head(st[r].todo).blk
      BY <3>1 DEF Frame
    <3> QED  BY <1>1, <2>1, <3>2, PendingHead DEF ReplicaState
  <2> HIDE DEF f, b, popped
  <2>4. Leads(st[r], s)
    <3>1. popped \in ReplicaState
      BY <2>2 DEF Leads, Moves
    <3>2. Moves(popped, s)
      BY <2>2, <3>1, PushMoves
    <3>3. /\ s.proposals = popped.proposals /\ s.out = popped.out
          /\ s.todo = <<f>> \o popped.todo /\ popped.todo \in Seq(Frame)
      BY <3>1 DEF Push, ReplicaState
    <3>4. PendingIn(s.todo) \subseteq PendingIn(st[r].todo)
      BY <2>2, <2>3, <3>3, PendingPush DEF Leads, Silent
    <3>5. Silent(st[r], s)
      BY <2>2, <3>3, <3>4 DEF Leads, Silent
    <3> QED  BY <2>2, <3>2, <3>5, MovesTransitive DEF Leads
  <2> HIDE DEF s
  <2>5. Leads(s, Ack(s, r, b))
    BY <2>2, <2>4, AckLeads DEF Leads, Moves
  <2>6. Leads(st[r], Ack(s, r, b))
    BY <2>4, <2>5, LeadsTransitive
  <2> QED  BY <2>1, <2>6, BecomeResult
<1>16. CASE ResumeTryEnterView(r)
  <2>1. st[r].todo # <<>> /\ Become(r, TryEnterView(Popped(st[r])))
    BY <1>16 DEF ResumeTryEnterView, Resumes
  <2>2. Leads(st[r], Popped(st[r]))
    BY <1>1, <2>1, PoppedLeads
  <2>3. Leads(st[r], TryEnterView(Popped(st[r])))
    BY <2>2, TryEnterViewLeads, LeadsTransitive DEF Leads, Moves
  <2> QED  BY <2>1, <2>3, BecomeResult
<1> QED
  BY <1>2, <1>3, <1>4, <1>5, <1>6, <1>7, <1>8, <1>9, <1>10, <1>11, <1>12,
     <1>13, <1>14, <1>15, <1>16 DEF Step

LEMMA ResultKeeps ==
  ASSUME TypeOK, NEW r \in Replica, StepResult(r)
  PROVE  TypeOK' /\ \A q \in Replica : Keeps(st[q], st'[q])
<1>1. PICK t, ms : Outcome(r, t, ms)
  BY DEF StepResult
<1>2. TypeOK'
  BY <1>1 DEF TypeOK, Outcome, Moves
<1>3. ASSUME NEW q \in Replica PROVE Keeps(st[q], st'[q])
  <2>1. CASE q = r
    BY <1>1, <2>1 DEF TypeOK, Outcome, Moves
  <2>2. CASE q # r
    <3>1. st'[q] = st[q] /\ st[q] \in ReplicaState
      BY <1>1, <2>2 DEF TypeOK, Outcome
    <3> QED  BY <3>1, LeadsReflexive DEF Leads, Moves
  <2> QED  BY <2>1, <2>2
<1> QED  BY <1>2, <1>3

LEMMA NextKeeps ==
  ASSUME TypeOK, [Next]_vars
  PROVE  TypeOK' /\ \A q \in Replica : Keeps(st[q], st'[q])
<1>1. CASE Next
  <2>1. PICK r \in Replica : Step(r)
    BY <1>1 DEF Next
  <2> QED  BY <2>1, StepResults, ResultKeeps
<1>2. CASE UNCHANGED vars
  <2>1. st' = st /\ msgs' = msgs
    BY <1>2 DEF vars
  <2>2. \A q \in Replica : Keeps(st[q], st[q])
    BY LeadsReflexive DEF TypeOK, Leads, Moves
  <2> QED  BY <2>1, <2>2 DEF TypeOK
<1> QED  BY <1>1, <1>2

-----------------------------------------------------------------------------
(* The theorems.                                                           *)

\* Every variable of HotStuffCore and of the handlers stays in its type: no
\* certificate is recorded for a view later than the last one that can have
\* a block, and the pacemaker always names a replica.
THEOREM TypeCorrect == Spec => []TypeOK
<1>1. Init => TypeOK
  BY InitTypeOK
<1>2. TypeOK /\ [Next]_vars => TypeOK'
  BY NextKeeps
<1> QED  BY <1>1, <1>2, PTL DEF Spec

\* A replica that has recorded a certificate of a later view, which qc_handler
\* lets through, never moves again: on_receive_qc and _try_enter_view between
\* them leave it in its view with that certificate.
THEOREM AheadStaysStuck == Spec => StuckOnceAhead
<1>1. TypeOK /\ [Next]_vars =>
        [\A r \in Replica :
           st[r].last_view_cert_received > st[r].view =>
             /\ st'[r].view = st[r].view
             /\ st'[r].last_view_cert_received = st[r].last_view_cert_received]_vars
  BY NextKeeps DEF Keeps
<1> QED  BY <1>1, TypeCorrect, PTL DEF Spec, StuckOnceAhead

\* No beacon is recorded for a view the replica has not reached: that is what
\* makes the guard of on_receive_beacon return every time.
BeaconsReached ==
  \A r \in Replica : st[r].last_view_beacon_received <= st[r].view

LEMMA NothingToRecord ==
  ASSUME TypeOK, BeaconsReached
  PROVE  BeaconsIgnored
<1> SUFFICES ASSUME NEW r \in Replica, NEW m \in Sent("beacon")
             PROVE  OnReceiveBeacon(st[r], m.view) = st[r]
  BY DEF BeaconsIgnored
<1>1. m.view \in Nat /\ st[r].view \in Nat /\ st[r].last_view_beacon_received \in Nat
  BY ViewNat, SentTypes DEF TypeOK, Beacons, ReplicaState
<1>2. m.view < st[r].view \/ st[r].last_view_beacon_received <= m.view
  BY <1>1 DEF BeaconsReached
<1> QED  BY <1>2 DEF OnReceiveBeacon

\* A received beacon never changes a replica's state, so a replica that was
\* sent the beacon still has to gather a majority of the shares itself.
THEOREM BeaconsNeverCount == Spec => []BeaconsIgnored
<1>1. Init => BeaconsReached
  BY DEF Init, InitState, BeaconsReached
<1>2. TypeOK /\ BeaconsReached /\ [Next]_vars => BeaconsReached'
  BY NextKeeps DEF BeaconsReached, Keeps
<1>3. TypeOK /\ BeaconsReached => BeaconsIgnored
  BY NothingToRecord
<1> QED  BY <1>1, <1>2, <1>3, TypeCorrect, PTL DEF Spec

\* The blocks a replica has voted for by message, or is about to.
Opinions(r) == PendingIn(st[r].todo) \cup {m.blk : m \in {n \in Sent("vote") : n.from = r}}

OneOpinion(r) ==
  /\ VotesIn(st[r].out) = {}
  /\ Opinions(r) \subseteq st[r].proposals
  /\ \A b, c \in Opinions(r) : b.height = c.height => b = c

\* Opinions are in their slots, and no slot has two: a vote that is decided on
\* but not sent yet counts as well, as other proposals arrive meanwhile.
OneOpinionEach == \A r \in Replica : OneOpinion(r)

LEMMA OpinionsGrow ==
  ASSUME NEW r \in Replica, NEW t, NEW ms, NEW q \in Replica, OneOpinion(r),
         TypeOK, Outcome(r, t, ms), Speaks(r, t, ms) \/ Hears(r, t, ms)
  PROVE  /\ q # r => Opinions(q)' = Opinions(q)
         /\ Opinions(r)' \subseteq Opinions(r) \cup PendingIn(t.todo)
<1>1. \A m \in VotesIn(ms) : m.from = r /\ m.blk \in PendingIn(st[r].todo)
  BY DEF OneOpinion, Speaks, Hears
<1>2. Sent("vote")' = Sent("vote") \cup VotesIn(ms)
  BY DEF Outcome, Sent, VotesIn
<1>3. ASSUME q # r PROVE Opinions(q)' = Opinions(q)
  <2>1. st'[q] = st[q]
    BY <1>3 DEF Outcome, TypeOK
  <2>2. {n \in Sent("vote")' : n.from = q} = {n \in Sent("vote") : n.from = q}
    BY <1>1, <1>2, <1>3
  <2> QED  BY <2>1, <2>2 DEF Opinions
<1>4. Opinions(r)' \subseteq Opinions(r) \cup PendingIn(t.todo)
  <2>1. st'[r] = t
    BY DEF Outcome, TypeOK
  <2> QED  BY <1>1, <1>2, <2>1 DEF Opinions
<1> QED  BY <1>3, <1>4

LEMMA OneOpinionStep ==
  ASSUME TypeOK, OneOpinionEach, NEW r \in Replica, StepResult(r)
  PROVE  OneOpinionEach'
<1>1. PICK t, ms : Outcome(r, t, ms) /\ (Speaks(r, t, ms) \/ Hears(r, t, ms))
  BY DEF StepResult
<1>2. OneOpinion(r)
  BY DEF OneOpinionEach
<1>3. ASSUME NEW q \in Replica, q # r PROVE OneOpinion(q)'
  <2>1. st'[q] = st[q] /\ Opinions(q)' = Opinions(q)
    BY <1>1, <1>2, <1>3, OpinionsGrow DEF Outcome, TypeOK
  <2> QED  BY <2>1 DEF OneOpinionEach, OneOpinion
<1>4. OneOpinion(r)'
  <2>1. st'[r] = t /\ VotesIn(t.out) = {}
    BY <1>1, <1>2 DEF Outcome, TypeOK, OneOpinion
  <2>2. Opinions(r)' \subseteq Opinions(r) \cup PendingIn(t.todo)
    BY <1>1, <1>2, OpinionsGrow
  <2>3. PendingIn(st[r].todo) \subseteq Opinions(r)
    BY DEF Opinions
  <2>4. CASE /\ \/ t.proposals = st[r].proposals
                \/ \E b \in Block : t.proposals = st[r].proposals \cup {b}
             /\ PendingIn(t.todo) \subseteq PendingIn(st[r].todo)
    <3>1. Opinions(r)' \subseteq Opinions(r)
      BY <2>2, <2>3, <2>4
    <3> QED  BY <1>2, <2>1, <2>4, <3>1 DEF OneOpinion
  <2>5. CASE \E b \in Block :
               /\ t.proposals = st[r].proposals \cup {b}
               /\ PendingIn(t.todo) \subseteq PendingIn(st[r].todo) \cup {b}
               /\ \A c \in st[r].proposals : c.height = b.height => c = b
    <3>1. PICK b \in Block :
            /\ t.proposals = st[r].proposals \cup {b}
            /\ PendingIn(t.todo) \subseteq PendingIn(st[r].todo) \cup {b}
            /\ \A c \in st[r].proposals : c.height = b.height => c = b
      BY <2>5
    <3>2. Opinions(r)' \subseteq Opinions(r) \cup {b}
      BY <2>2, <2>3, <3>1
    <3> QED  BY <1>2, <2>1, <3>1, <3>2 DEF OneOpinion
  <2> QED  BY <1>1, <2>4, <2>5 DEF Speaks, Hears
<1> QED  BY <1>3, <1>4 DEF OneOpinionEach

LEMMA OneOpinionNext ==
  ASSUME TypeOK, OneOpinionEach, [Next]_vars
  PROVE  OneOpinionEach'
<1>1. CASE Next
  <2>1. PICK r \in Replica : Step(r)
    BY <1>1 DEF Next
  <2> QED  BY <2>1, StepResults, OneOpinionStep
<1>2. CASE UNCHANGED vars
  BY <1>2 DEF vars, OneOpinionEach, OneOpinion, Opinions, Sent
<1> QED  BY <1>1, <1>2

LEMMA OneOpinionAlways == Spec => []OneOpinionEach
<1>1. Init => OneOpinionEach
  <2> SUFFICES ASSUME Init, NEW r \in Replica PROVE OneOpinion(r)
    BY DEF OneOpinionEach
  <2>1. st[r] = InitState /\ Sent("vote") = {}
    BY DEF Init, Sent
  <2>2. st[r].todo = <<>> /\ st[r].out = {}
    BY <2>1 DEF InitState
  <2> QED  BY <2>1, <2>2 DEF OneOpinion, Opinions, PendingIn, VotesIn
<1>2. TypeOK /\ OneOpinionEach /\ [Next]_vars => OneOpinionEach'
  BY OneOpinionNext
<1> QED  BY <1>1, <1>2, TypeCorrect, PTL DEF Spec

\* However many replicas there are and whichever of them propose in a view, a
\* replica's vote messages never support two blocks of one height: between the
\* look at the slot and the vote on_receive_proposal lets other handlers run,
\* but none of them takes a block out of its slot.
THEOREM VotesNeverConflict == Spec => []VotesDontConflict
<1>1. TypeOK /\ OneOpinionEach => VotesDontConflict
  <2> SUFFICES ASSUME TypeOK, OneOpinionEach, NEW m \in Sent("vote"), NEW n \in Sent("vote"),
                      m.from = n.from, m.blk.height = n.blk.height
               PROVE  m.blk = n.blk
    BY DEF VotesDontConflict
  <2>1. m.from \in Replica
    BY SentTypes DEF TypeOK, Votes
  <2>2. m.blk \in Opinions(m.from) /\ n.blk \in Opinions(m.from)
    BY DEF Opinions
  <2> QED  BY <2>1, <2>2 DEF OneOpinionEach, OneOpinion
<1> QED  BY <1>1, OneOpinionAlways, TypeCorrect, PTL

-----------------------------------------------------------------------------
(* Certificates: what every function does.                                 *)

CertsIn(ms) == {m \in ms : m.type = "qc"}
EchoesIn(ms) == {m \in ms : m.type = "echo2"}

\* The views a certificate of which has been sent, and that of the genesis block.
Certified == {0} \cup {m.blk.view : m \in Sent("qc")}

\* The views the replica has left and the one it goes by have been certified.
Backed(s) ==
  /\ s.view >= 1 /\ \A v \in 0 .. s.view - 1 : v \in Certified
  /\ s.last_view_cert_received \in Certified
  /\ \A m \in EchoesIn(s.out) : m.blk.view \in Certified

Rotated(s) == CommandsInTime => s.pm_proposer = GetProposer(s.view)

Proceeds(s, t) ==
  /\ t.view >= s.view
  /\ Backed(s) => Backed(t)
  /\ Rotated(s) => Rotated(t)

\* No vote is counted, and no certificate sent.
Follows(s, t) ==
  /\ t \in ReplicaState /\ t.voted = s.voted
  /\ CertsIn(t.out) \subseteq CertsIn(s.out)
  /\ Proceeds(s, t)

\* What r in state t has counted as q's vote for b is one.
Supports(r, q, b, t) ==
  \/ q = r /\ b.view <= t.view
  \/ \E m \in Sent("vote") : m.from = q /\ m.blk = b

\* Votes are counted for what they are, and a certificate is sent when the count
\* reaches the quorum.
Tallies(r, s, t) ==
  /\ t \in ReplicaState /\ Proceeds(s, t)
  /\ \A b \in Block :
       /\ s.voted[b] \subseteq t.voted[b]
       /\ \A q \in t.voted[b] \ s.voted[b] : Supports(r, q, b, t)
       /\ Cardinality(s.voted[b]) >= NResponsive => t.voted[b] = s.voted[b]
  /\ \A m \in CertsIn(t.out) \ CertsIn(s.out) :
       /\ m.from = r /\ m.blk \in Block
       /\ Cardinality(t.voted[m.blk]) >= NResponsive
       /\ Cardinality(s.voted[m.blk]) < NResponsive

LEMMA FollowsTransitive ==
  ASSUME NEW s \in ReplicaState, NEW t, NEW u, Follows(s, t), Follows(t, u)
  PROVE  Follows(s, u)
<1>1. s.view \in Nat /\ t.view \in Nat /\ u.view \in Nat
  BY ViewNat DEF Follows, ReplicaState
<1> QED  BY <1>1 DEF Follows, Proceeds

LEMMA FollowsReflexive ==
  ASSUME NEW s \in ReplicaState PROVE Follows(s, s)
<1>1. s.view \in Nat
  BY ViewNat DEF ReplicaState
<1> QED  BY <1>1 DEF Follows, Proceeds

LEMMA FollowsTallies ==
  ASSUME NEW r \in Replica, NEW s \in ReplicaState, NEW t, Follows(s, t)
  PROVE  Tallies(r, s, t)
BY DEF Follows, Tallies

LEMMA TalliesAfter ==
  ASSUME NEW r \in Replica, NEW s \in ReplicaState, NEW t, NEW u,
         Follows(s, t), Tallies(r, t, u)
  PROVE  Tallies(r, s, u)
<1>1. s.view \in Nat /\ t.view \in Nat /\ u.view \in Nat
  BY ViewNat DEF Follows, Tallies, ReplicaState
<1>2. Proceeds(s, u)
  BY <1>1 DEF Follows, Tallies, Proceeds
<1>3. CertsIn(u.out) \ CertsIn(s.out) \subseteq CertsIn(u.out) \ CertsIn(t.out)
  BY DEF Follows
<1> QED  BY <1>2, <1>3 DEF Follows, Tallies

LEMMA TalliesBefore ==
  ASSUME NEW r \in Replica, NEW s \in ReplicaState, NEW t, NEW u,
         Tallies(r, s, t), Follows(t, u)
  PROVE  Tallies(r, s, u)
<1>1. s.view \in Nat /\ t.view \in Nat /\ u.view \in Nat
  BY ViewNat DEF Follows, Tallies, ReplicaState
<1>2. Proceeds(s, u) /\ u.view >= t.view /\ u.voted = t.voted
  BY <1>1 DEF Follows, Tallies, Proceeds
<1>3. CertsIn(u.out) \ CertsIn(s.out) \subseteq CertsIn(t.out) \ CertsIn(s.out)
  BY DEF Follows
<1>4. ASSUME NEW b \in Block, NEW q \in u.voted[b] \ s.voted[b]
      PROVE  Supports(r, q, b, u)
  <2>1. Supports(r, q, b, t)
    BY <1>2, <1>4 DEF Tallies
  <2>2. b.view \in Nat
    BY ViewNat DEF Block
  <2> QED  BY <1>1, <1>2, <2>1, <2>2 DEF Supports
<1>5. u \in ReplicaState
  BY DEF Follows
<1> QED  BY <1>2, <1>3, <1>4, <1>5 DEF Tallies

-----------------------------------------------------------------------------
(* The functions, s being the state of replica r.                          *)

\* A function that touches nothing of what the relations are about.
LEMMA SameFollows ==
  ASSUME NEW s \in ReplicaState, NEW t \in ReplicaState,
         t.view = s.view, t.pm_proposer = s.pm_proposer, t.voted = s.voted,
         t.last_view_cert_received = s.last_view_cert_received, t.out = s.out
  PROVE  Follows(s, t)
<1>1. s.view \in Nat
  BY ViewNat DEF ReplicaState
<1> QED  BY <1>1 DEF Follows, Proceeds, Backed, Rotated

LEMMA SendFollows ==
  ASSUME NEW s \in ReplicaState, NEW ms \in SUBSET Message, CertsIn(ms) = {},
         \A m \in EchoesIn(ms) : m.blk.view \in Certified
  PROVE  Follows(s, Send(s, ms))
<1> DEFINE t == Send(s, ms)
<1>1. /\ t \in ReplicaState /\ t.view = s.view /\ t.pm_proposer = s.pm_proposer
      /\ t.voted = s.voted /\ t.last_view_cert_received = s.last_view_cert_received
      /\ t.out = s.out \cup ms
  BY DEF Send, ReplicaState
<1>2. s.view \in Nat
  BY ViewNat DEF ReplicaState
<1> HIDE DEF t
<1>3. CertsIn(t.out) \subseteq CertsIn(s.out)
  BY <1>1 DEF CertsIn
<1>4. \A m \in EchoesIn(t.out) : m \in EchoesIn(s.out) \/ m \in EchoesIn(ms)
  BY <1>1 DEF EchoesIn
<1>5. Backed(s) => Backed(t)
  BY <1>1, <1>4 DEF Backed
<1>6. Proceeds(s, t)
  BY <1>1, <1>2, <1>5 DEF Proceeds, Rotated
<1> QED  BY <1>1, <1>3, <1>6 DEF Follows, t

LEMMA PushFollows ==
  ASSUME NEW s \in ReplicaState, NEW f \in Frame
  PROVE  Follows(s, Push(s, f))
<1>1. Push(s, f) \in ReplicaState
  BY PushMoves DEF Moves
<1> QED  BY <1>1, SameFollows DEF Push, ReplicaState

LEMMA ThrowFollows ==
  ASSUME NEW s \in ReplicaState
  PROVE  Follows(s, Throw(s))
<1>1. Throw(s) \in ReplicaState
  BY ThrowLeads DEF Leads, Moves
<1> QED  BY <1>1, SameFollows DEF Throw, ReplicaState

LEMMA UpdateHqcFollows ==
  ASSUME NEW s \in ReplicaState, NEW b \in Block
  PROVE  Follows(s, UpdateHqc(s, b))
<1>1. UpdateHqc(s, b) \in ReplicaState
  BY UpdateHqcLeads DEF Leads, Moves
<1> QED  BY <1>1, SameFollows, ZenonT(40) DEF UpdateHqc, ReplicaState

LEMMA CheckCommitFollows ==
  ASSUME NEW s \in ReplicaState, NEW b \in Block
  PROVE  Follows(s, CheckCommit(s, b))
<1> DEFINE queue == {a \in Ancestors[b] \cap Block : a.height > s.b_exec.height}
           done == [s EXCEPT !.decided = @ \cup queue, !.b_exec = b]
<1>1. queue \in SUBSET Block
  OBVIOUS
<1>2. Follows(s, done)
  <2> HIDE DEF queue
  <2>1. done \in ReplicaState
    BY <1>1 DEF ReplicaState
  <2> QED  BY <2>1, SameFollows DEF ReplicaState
<1>3. CheckCommit(s, b) = Throw(s) \/ CheckCommit(s, b) = done
  BY DEF CheckCommit
<1> QED  BY <1>2, <1>3, ThrowFollows

LEMMA TryEnterViewFollows ==
  ASSUME NEW s \in ReplicaState
  PROVE  Follows(s, TryEnterView(s))
<1> DEFINE p == GetProposer(s.view + 1)
           t == [s EXCEPT !.view = s.view + 1, !.pm_proposer = p]
           f == [at |-> "enter_view", view |-> s.view + 1, blk |-> Genesis,
                 vote |-> FALSE, proposer |-> p]
<1>1. CASE TryEnterView(s) = s
  BY <1>1, FollowsReflexive
<1>2. CASE TryEnterView(s) # s
  <2>1. s.last_view_cert_received = s.view /\ TryEnterView(s) = Push(t, f)
    BY <1>2 DEF TryEnterView, EnterView, ReplicaState
  <2>2. s.view \in Nat /\ s.view + 1 \in View
    <3>1. s.view \in 0 .. MaxView
      BY <2>1 DEF ReplicaState
    <3> HIDE DEF p, t, f
    <3>2. MaxView \in Nat
      BY NReplicasAssumption, BoundsAssumption
    <3> QED  BY <3>1, <3>2 DEF View
  <2>3. p \in Replica
    BY <2>2, ProposerType
  <2> HIDE DEF p
  <2>4. /\ t \in ReplicaState /\ t.view = s.view + 1 /\ t.pm_proposer = p
        /\ t.voted = s.voted /\ t.out = s.out
        /\ t.last_view_cert_received = s.last_view_cert_received
    BY <2>2, <2>3 DEF ReplicaState
  <2>5. f \in Frame
    BY <2>2, <2>3, GenesisType DEF Frame
  <2> HIDE DEF t, f
  <2>6. Backed(s) => Backed(t)
    BY <2>1, <2>2, <2>4 DEF Backed
  <2>7. Follows(s, t)
    BY <2>2, <2>4, <2>6 DEF Follows, Proceeds, Rotated, p
  <2>8. Follows(t, Push(t, f))
    BY <2>4, <2>5, PushFollows
  <2> QED  BY <2>1, <2>7, <2>8, FollowsTransitive
<1> QED  BY <1>1, <1>2

LEMMA OnReceiveShareFollows ==
  ASSUME NEW s \in ReplicaState, NEW r \in Replica, NEW origin \in Replica, NEW v \in View
  PROVE  Follows(s, OnReceiveShare(s, r, origin, v))
<1> DEFINE t == [s EXCEPT !.view_shares[v] = Append(@, origin)]
           beacon == [type |-> "beacon", from |-> r, view |-> t.view]
           sent == Send(t, {beacon})
           u == [sent EXCEPT !.last_view_shares_received = t.view,
                             !.last_view_beacon_received = t.view]
<1>1. t \in ReplicaState /\ Follows(s, t)
  <2>1. Append(s.view_shares[v], origin) \in Seq(Replica)
    BY DEF ReplicaState
  <2>2. t \in ReplicaState
    BY <2>1 DEF ReplicaState
  <2> QED  BY <2>2, SameFollows DEF ReplicaState
<1>2. OnReceiveShare(s, r, origin, v) \in {s, t, Throw(t), TryEnterView(u)}
  BY DEF OnReceiveShare
<1>3. t.view \in View
  BY <1>1 DEF ReplicaState
<1> HIDE DEF t
<1>4. sent \in ReplicaState /\ Follows(t, sent)
  <2>1. {beacon} \in SUBSET Message /\ CertsIn({beacon}) = {} /\ EchoesIn({beacon}) = {}
    BY <1>3 DEF Message, Beacons, CertsIn, EchoesIn
  <2> QED  BY <1>1, <2>1, SendFollows DEF Follows
<1> HIDE DEF sent
<1>5. u \in ReplicaState
  BY <1>3, <1>4 DEF ReplicaState
<1>6. Follows(sent, u)
  BY <1>4, <1>5, SameFollows DEF ReplicaState
<1> HIDE DEF u
<1>7. Follows(u, TryEnterView(u))
  BY <1>5, TryEnterViewFollows
<1>8. Follows(t, Throw(t))
  BY <1>1, ThrowFollows
<1>9. Follows(s, TryEnterView(u))
  BY <1>1, <1>4, <1>5, <1>6, <1>7, FollowsTransitive
<1>10. Follows(s, Throw(t))
  BY <1>1, <1>8, FollowsTransitive
<1> QED  BY <1>1, <1>2, <1>9, <1>10, FollowsReflexive

LEMMA BroadcastShareFollows ==
  ASSUME NEW s \in ReplicaState, NEW r \in Replica, NEW b \in Block
  PROVE  Follows(s, BroadcastShare(s, r, b))
<1> DEFINE t == OnReceiveShare(s, r, r, s.view)
           shares == {[type |-> "share", from |-> r, to |-> q,
                       view |-> s.view, blk |-> b] : q \in Replica \ {r}}
<1>1. s.view \in View
  BY DEF ReplicaState
<1>2. Follows(s, t)
  BY <1>1, OnReceiveShareFollows
<1>3. shares \in SUBSET Message /\ CertsIn(shares) = {} /\ EchoesIn(shares) = {}
  BY <1>1 DEF Message, Shares, CertsIn, EchoesIn
<1>4. BroadcastShare(s, r, b) = t \/ BroadcastShare(s, r, b) = Send(t, shares)
  BY DEF BroadcastShare
<1> HIDE DEF t, shares
<1>5. Follows(t, Send(t, shares))
  BY <1>2, <1>3, SendFollows DEF Follows
<1> QED  BY <1>2, <1>4, <1>5, FollowsTransitive

LEMMA OnReceiveAckFollows ==
  ASSUME NEW s \in ReplicaState, NEW r \in Replica, NEW b \in Block,
         NEW voter \in Replica, NEW v \in View
  PROVE  Follows(s, OnReceiveAck(s, r, b, voter, v))
<1> DEFINE t == [s EXCEPT !.acked[b] = @ \cup {voter}]
           u == CheckCommit(t, b)
<1>1. t \in ReplicaState
  BY DEF ReplicaState
<1>2. Follows(s, t)
  BY <1>1, SameFollows DEF ReplicaState
<1>3. OnReceiveAck(s, r, b, voter, v) \in {s, t, u, BroadcastShare(u, r, b)}
  BY DEF OnReceiveAck
<1> HIDE DEF t
<1>4. Follows(t, u)
  BY <1>1, CheckCommitFollows
<1> HIDE DEF u
<1>5. Follows(u, BroadcastShare(u, r, b))
  BY <1>4, BroadcastShareFollows DEF Follows
<1> QED  BY <1>2, <1>3, <1>4, <1>5, FollowsReflexive, FollowsTransitive

LEMMA AckFollows ==
  ASSUME NEW s \in ReplicaState, NEW r \in Replica, NEW b \in Block
  PROVE  Follows(s, Ack(s, r, b))
<1> DEFINE t == OnReceiveAck(s, r, b, r, s.view)
           ack == [type |-> "ack", from |-> r, blk |-> b, view |-> s.view]
<1>1. s.view \in View
  BY DEF ReplicaState
<1>2. Follows(s, t)
  BY <1>1, OnReceiveAckFollows
<1>3. {ack} \in SUBSET Message /\ CertsIn({ack}) = {} /\ EchoesIn({ack}) = {}
  BY <1>1 DEF Message, Acks, CertsIn, EchoesIn
<1>4. Ack(s, r, b) = t \/ Ack(s, r, b) = Send(t, {ack})
  BY DEF Ack
<1> HIDE DEF t, ack
<1>5. Follows(t, Send(t, {ack}))
  BY <1>2, <1>3, SendFollows DEF Follows
<1> QED  BY <1>2, <1>4, <1>5, FollowsTransitive

\* The one place where votes are counted and certificates made.
LEMMA OnReceiveVoteTallies ==
  ASSUME NEW s \in ReplicaState, NEW r \in Replica, NEW b \in Block,
         NEW voter \in Replica, NEW v \in View, Supports(r, voter, b, s)
  PROVE  Tallies(r, s, OnReceiveVote(s, r, b, voter, v))
<1> DEFINE t == [s EXCEPT !.voted[b] = @ \cup {voter}]
           u == UpdateHqc(t, b)
           qc == [type |-> "qc", from |-> r, blk |-> b]
           w == Send(u, {qc})
<1>1. CASE OnReceiveVote(s, r, b, voter, v) = s
  BY <1>1, FollowsReflexive, FollowsTallies
<1>2. CASE OnReceiveVote(s, r, b, voter, v) # s
  <2>1. /\ ~ Cardinality(s.voted[b]) >= NResponsive /\ voter \notin s.voted[b]
        /\ \/ OnReceiveVote(s, r, b, voter, v) = t
           \/ /\ Cardinality(t.voted[b]) = NResponsive
              /\ OnReceiveVote(s, r, b, voter, v) = Ack(w, r, b)
    BY <1>2 DEF OnReceiveVote
  <2>2. /\ t \in ReplicaState /\ t.view = s.view /\ t.pm_proposer = s.pm_proposer
        /\ t.last_view_cert_received = s.last_view_cert_received /\ t.out = s.out
        /\ t.voted = [s.voted EXCEPT ![b] = @ \cup {voter}]
    BY DEF ReplicaState
  <2>3. s.view \in Nat /\ s.voted \in [Block -> SUBSET Replica]
    BY ViewNat DEF ReplicaState
  <2> HIDE DEF t
  <2>4. Proceeds(s, t)
    BY <2>2, <2>3 DEF Proceeds, Backed, Rotated
  <2>5. ASSUME NEW c \in Block
        PROVE  /\ s.voted[c] \subseteq t.voted[c]
               /\ \A q \in t.voted[c] \ s.voted[c] : Supports(r, q, c, t)
               /\ Cardinality(s.voted[c]) >= NResponsive => t.voted[c] = s.voted[c]
    <3>1. Supports(r, voter, b, t)
      BY <2>2 DEF Supports
    <3>2. CASE c = b
      BY <2>1, <2>2, <2>3, <3>1, <3>2
    <3>3. CASE c # b
      BY <2>2, <2>3, <3>3
    <3> QED  BY <3>2, <3>3
  <2>6. Tallies(r, s, t)
    BY <2>2, <2>4, <2>5 DEF Tallies
  <2>7. CASE OnReceiveVote(s, r, b, voter, v) = t
    BY <2>6, <2>7
  <2>8. CASE /\ Cardinality(t.voted[b]) = NResponsive
             /\ OnReceiveVote(s, r, b, voter, v) = Ack(w, r, b)
    <3>1. Follows(t, u)
      BY <2>2, UpdateHqcFollows
    <3> HIDE DEF u
    <3>2. Tallies(r, s, u)
      BY <2>6, <3>1, TalliesBefore
    <3>3. {qc} \in SUBSET Message /\ EchoesIn({qc}) = {}
      BY DEF Message, Certificates, EchoesIn
    <3>4. /\ w \in ReplicaState /\ w.view = u.view /\ w.pm_proposer = u.pm_proposer
          /\ w.last_view_cert_received = u.last_view_cert_received
          /\ w.voted = u.voted /\ w.out = u.out \cup {qc}
      BY <3>2, <3>3 DEF Send, Tallies, ReplicaState
    <3> HIDE DEF w
    <3>5. EchoesIn(w.out) = EchoesIn(u.out)
      BY <3>3, <3>4 DEF EchoesIn
    <3>6. Proceeds(s, w)
      BY <3>2, <3>4, <3>5 DEF Tallies, Proceeds, Backed, Rotated
    <3>7. \A m \in CertsIn(w.out) \ CertsIn(s.out) :
            m = qc \/ m \in CertsIn(u.out) \ CertsIn(s.out)
      BY <3>4 DEF CertsIn
    <3>8. /\ qc.from = r /\ qc.blk = b /\ b \in Block
          /\ Cardinality(w.voted[b]) = NResponsive
          /\ Cardinality(s.voted[b]) < NResponsive
      <4>1. u.voted = t.voted
        BY <3>1 DEF Follows
      <4>2. NResponsive \in Int
        BY NReplicasAssumption DEF NResponsive
      <4>3. Cardinality(s.voted[b]) \in Nat
        <5>1. IsFiniteSet(Replica)
          BY NReplicasAssumption, FS_Interval DEF Replica
        <5> QED  BY <2>3, <5>1, FS_Subset, FS_CardinalityType
      <4> QED  BY <2>1, <2>8, <3>4, <4>1, <4>2, <4>3
    <3>9. Tallies(r, s, w)
      <4>1. \A c \in Block : \A q \in w.voted[c] \ s.voted[c] : Supports(r, q, c, w)
        BY <3>2, <3>4 DEF Tallies, Supports
      <4>2. \A m \in CertsIn(w.out) \ CertsIn(s.out) :
               /\ m.from = r /\ m.blk \in Block
               /\ Cardinality(w.voted[m.blk]) >= NResponsive
               /\ Cardinality(s.voted[m.blk]) < NResponsive
        <5> SUFFICES ASSUME NEW m \in CertsIn(w.out) \ CertsIn(s.out)
                     PROVE  /\ m.from = r /\ m.blk \in Block
                            /\ Cardinality(w.voted[m.blk]) >= NResponsive
                            /\ Cardinality(s.voted[m.blk]) < NResponsive
          OBVIOUS
        <5>1. CASE m = qc
          <6>1. NResponsive \in Int
            BY NReplicasAssumption DEF NResponsive
          <6> HIDE DEF qc
          <6> QED  BY <3>8, <5>1, <6>1
        <5>2. CASE m # qc
          BY <3>2, <3>4, <3>7, <5>2 DEF Tallies
        <5> QED  BY <5>1, <5>2
      <4> QED  BY <3>2, <3>4, <3>6, <4>1, <4>2 DEF Tallies
    <3>10. Follows(w, Ack(w, r, b))
      BY <3>4, AckFollows
    <3> QED  BY <2>8, <3>9, <3>10, TalliesBefore
  <2> QED  BY <2>1, <2>7, <2>8
<1> QED  BY <1>1, <1>2

LEMMA VoteTallies ==
  ASSUME NEW s \in ReplicaState, NEW r \in Replica, NEW b \in Block,
         NEW proposer \in Replica, b.view <= s.view
  PROVE  Tallies(r, s, Vote(s, r, b, proposer))
<1> DEFINE vote == [type |-> "vote", from |-> r, to |-> proposer, blk |-> b,
                    view |-> s.view]
<1>1. s.view \in View
  BY DEF ReplicaState
<1>2. CASE proposer = r
  <2>1. Supports(r, r, b, s)
    BY DEF Supports
  <2> QED  BY <1>1, <1>2, <2>1, OnReceiveVoteTallies DEF Vote
<1>3. CASE proposer # r
  <2>1. {vote} \in SUBSET Message /\ CertsIn({vote}) = {} /\ EchoesIn({vote}) = {}
    BY <1>1 DEF Message, Votes, CertsIn, EchoesIn
  <2>2. Vote(s, r, b, proposer) = Send(s, {vote})
    BY <1>3 DEF Vote
  <2> HIDE DEF vote
  <2>3. Follows(s, Send(s, {vote}))
    BY <2>1, SendFollows
  <2> QED  BY <2>2, <2>3, FollowsTallies
<1> QED  BY <1>2, <1>3

LEMMA OnProposeTallies ==
  ASSUME NEW s \in ReplicaState, NEW r \in Replica,
         s.view <= MaxView, s.hqc_tail.height < MaxHeight
  PROVE  Tallies(r, s, OnPropose(s, r))
<1> DEFINE b == [view |-> s.view, height |-> s.hqc_tail.height + 1]
           voting == [s EXCEPT !.vheight = b.height,
                               !.finished_propose = @ \cup {b}]
           t == Vote(voting, r, b, r)
           prop == [type |-> "propose", from |-> r, blk |-> b,
                    parent |-> s.hqc_tail, qc_ref |-> s.hqc]
           sent == Send(t, {prop})
           u == [sent EXCEPT !.hqc_tail = b, !.last_proposed_view = s.view,
                             !.last_view_proposal_received = s.view]
           f == [at |-> "view_proposal", view |-> s.view, blk |-> b, vote |-> FALSE,
                 proposer |-> r]
<1>1. s.view \in View /\ s.view \in Nat /\ s.hqc_tail \in Block /\ s.hqc \in Block
  BY ViewNat DEF ReplicaState
<1>2. b \in Block
  <2>1. s.view \in 0 .. MaxView
    BY <1>1, BoundsAssumption DEF View
  <2>2. s.hqc_tail.height + 1 \in 0 .. MaxHeight
    BY <1>1, HeightNat, BoundsAssumption DEF MaxHeight
  <2> QED  BY <2>1, <2>2 DEF Block
<1>3. b.height \in Nat /\ b.view = s.view
  BY <1>2, HeightNat
<1>4. OnPropose(s, r) = Throw(s) \/ OnPropose(s, r) = Push(u, f)
  BY DEF OnPropose
<1> HIDE DEF b
<1>5. voting \in ReplicaState /\ voting.view = s.view
  BY <1>2, <1>3 DEF ReplicaState
<1>6. Follows(s, voting)
  BY <1>5, SameFollows DEF ReplicaState
<1> HIDE DEF voting
<1>7. Tallies(r, voting, t)
  BY <1>1, <1>2, <1>3, <1>5, VoteTallies
<1> HIDE DEF t
<1>8. {prop} \in SUBSET Message /\ CertsIn({prop}) = {} /\ EchoesIn({prop}) = {}
  BY <1>1, <1>2 DEF Message, Proposals, CertsIn, EchoesIn
<1> HIDE DEF prop
<1>9. Follows(t, sent)
  BY <1>7, <1>8, SendFollows DEF Tallies
<1> HIDE DEF sent
<1>10. u \in ReplicaState
  BY <1>1, <1>2, <1>9 DEF Follows, ReplicaState
<1>11. Follows(sent, u)
  BY <1>9, <1>10, SameFollows DEF Follows, ReplicaState
<1>12. f \in Frame
  BY <1>1, <1>2 DEF Frame
<1> HIDE DEF u, f
<1>13. Follows(u, Push(u, f))
  BY <1>10, <1>12, PushFollows
<1>14. Tallies(r, s, t)
  BY <1>6, <1>7, TalliesAfter
<1>15. t \in ReplicaState /\ sent \in ReplicaState
  BY <1>7, <1>9 DEF Tallies, Follows
<1>16. Follows(t, Push(u, f))
  BY <1>9, <1>11, <1>13, <1>15, FollowsTransitive
<1>17. Tallies(r, s, Push(u, f))
  BY <1>14, <1>16, TalliesBefore
<1>18. Tallies(r, s, Throw(s))
  BY ThrowFollows, FollowsTallies
<1> QED  BY <1>4, <1>17, <1>18

LEMMA DoProposeTallies ==
  ASSUME NEW s \in ReplicaState, NEW r \in Replica
  PROVE  Tallies(r, s, DoPropose(s, r))
<1> DEFINE t == [s EXCEPT !.propose_timer = FALSE]
<1>1. t \in ReplicaState /\ t.view = s.view /\ t.hqc_tail = s.hqc_tail
  BY DEF ReplicaState
<1>2. Follows(s, t)
  BY <1>1, SameFollows DEF ReplicaState
<1>3. CASE DoPropose(s, r) = s
  BY <1>3, FollowsReflexive, FollowsTallies
<1>4. CASE DoPropose(s, r) # s
  <2>1. /\ s.view <= MaxView /\ s.hqc_tail.height < MaxHeight
        /\ DoPropose(s, r) = OnPropose(t, r)
    BY <1>4 DEF DoPropose, MayPropose
  <2> HIDE DEF t
  <2>2. Tallies(r, t, OnPropose(t, r))
    BY <1>1, <2>1, OnProposeTallies
  <2> QED  BY <1>2, <2>1, <2>2, TalliesAfter
<1> QED  BY <1>3, <1>4

LEMMA OnReceiveProposalFollows ==
  ASSUME msgs \subseteq Message, NEW s \in ReplicaState, NEW r \in Replica,
         NEW m \in Sent("propose"), OnReceiveProposal(s, r, m) # s
  PROVE  Follows(s, OnReceiveProposal(s, r, m))
<1> DEFINE t == OnReceiveProposal(s, r, m)
           u == UpdateHqc(s, m.qc_ref)
<1>1. t \in ReplicaState
  BY OnReceiveProposalMoves DEF Moves
<1>2. m.qc_ref \in Block
  BY SentTypes DEF Proposals
<1>3. u \in ReplicaState /\ Follows(s, u)
  BY <1>2, UpdateHqcFollows DEF Follows
<1>4. /\ t.view = u.view /\ t.pm_proposer = u.pm_proposer /\ t.voted = u.voted
      /\ t.last_view_cert_received = u.last_view_cert_received /\ t.out = u.out
  <2>1. m.blk \notin s.finished_propose
    BY DEF OnReceiveProposal
  <2> HIDE DEF u
  <2> QED  BY <1>3, <2>1 DEF OnReceiveProposal, Push, ReplicaState, u
<1> HIDE DEF t, u
<1>5. Follows(u, t)
  BY <1>1, <1>3, <1>4, SameFollows
<1> QED  BY <1>3, <1>5, FollowsTransitive DEF t

LEMMA OnReceiveStatusTallies ==
  ASSUME NEW s \in ReplicaState, NEW r \in Replica,
         NEW from \in Replica, NEW v \in View, NEW found,
         NEW qc \in Block
  PROVE  Tallies(r, s, OnReceiveStatus(s, r, from, v, qc, found))
<1> DEFINE t == UpdateHqc(s, qc)
           u == [t EXCEPT !.status_received[v] = @ \cup {from}]
<1>1. t \in ReplicaState /\ Follows(s, t)
  BY UpdateHqcFollows DEF Follows
<1>2. OnReceiveStatus(s, r, from, v, qc, found) \in {s, Throw(s), t, u, DoPropose(u, r)}
  BY DEF OnReceiveStatus
<1> HIDE DEF t
<1>3. u \in ReplicaState
  <2>1. t.status_received \in [View -> SUBSET Replica]
    BY <1>1 DEF ReplicaState
  <2>2. [t.status_received EXCEPT ![v] = @ \cup {from}] \in [View -> SUBSET Replica]
    BY <2>1
  <2> QED  BY <1>1, <2>2 DEF ReplicaState
<1>4. Follows(t, u)
  BY <1>1, <1>3, SameFollows DEF ReplicaState
<1> HIDE DEF u
<1>5. Follows(s, u)
  BY <1>1, <1>4, FollowsTransitive
<1>6. Tallies(r, u, DoPropose(u, r))
  BY <1>3, DoProposeTallies
<1>7. Tallies(r, s, DoPropose(u, r))
  BY <1>5, <1>6, TalliesAfter
<1> QED  BY <1>1, <1>2, <1>5, <1>7, FollowsReflexive, ThrowFollows, FollowsTallies

LEMMA OnReceiveQCFollows ==
  ASSUME NEW s \in ReplicaState, NEW r \in Replica, NEW b \in Block,
         b.view \in Certified, NEW found
  PROVE  Follows(s, OnReceiveQC(s, r, b, found))
<1> DEFINE t == [s EXCEPT !.last_view_cert_received = b.view]
           u == UpdateHqc(t, b)
           echo == [type |-> "echo2", from |-> r, blk |-> b]
           w == Send(u, {echo})
           f == [at |-> "view_qc", view |-> s.view, blk |-> b, vote |-> FALSE,
                 proposer |-> r]
<1>1. OnReceiveQC(s, r, b, found) \in {s, Throw(s), Push(w, f)}
  BY DEF OnReceiveQC
<1>2. /\ t \in ReplicaState /\ t.view = s.view /\ t.pm_proposer = s.pm_proposer
      /\ t.voted = s.voted /\ t.last_view_cert_received = b.view /\ t.out = s.out
  BY ZenonT(40) DEF Block, ReplicaState
<1>3. f \in Frame /\ s.view \in Nat
  BY ViewNat DEF Frame, ReplicaState
<1> HIDE DEF t, f
<1>4. Follows(s, t)
  BY <1>2, <1>3 DEF Follows, Proceeds, Backed, Rotated
<1>5. Follows(t, u)
  BY <1>2, UpdateHqcFollows
<1> HIDE DEF u
<1>6. Follows(u, w)
  <2>1. /\ {echo} \in SUBSET Message /\ CertsIn({echo}) = {}
        /\ \A m \in EchoesIn({echo}) : m.blk.view \in Certified
    BY DEF Message, CertEchoes, CertsIn, EchoesIn
  <2> HIDE DEF echo
  <2> QED  BY <1>5, <2>1, SendFollows DEF Follows
<1> HIDE DEF w
<1>7. Follows(w, Push(w, f))
  BY <1>3, <1>6, PushFollows DEF Follows
<1>8. u \in ReplicaState /\ w \in ReplicaState
  BY <1>5, <1>6 DEF Follows
<1>9. Follows(s, Push(w, f))
  BY <1>2, <1>4, <1>5, <1>6, <1>7, <1>8, FollowsTransitive
<1> QED  BY <1>1, <1>9, FollowsReflexive, ThrowFollows

LEMMA OnReceiveCertEchoFollows ==
  ASSUME NEW s \in ReplicaState, NEW r \in Replica, NEW idx \in Replica, NEW b \in Block,
         b.view \in Certified, NEW found
  PROVE  Follows(s, OnReceiveCertEcho(s, r, idx, b, found))
<1> DEFINE t == [s EXCEPT !.qc_chunks[b.view] = @ \cup {idx}]
           u == [t EXCEPT !.last_cert_decoded_view = s.view, !.qc_chunks[b.view] = {}]
<1>1. b.view \in View /\ s.view \in View
  BY ViewNat DEF Block, ReplicaState
<1>2. OnReceiveCertEcho(s, r, idx, b, found) \in {s, t, OnReceiveQC(u, r, b, found)}
  BY DEF OnReceiveCertEcho
<1>3. t \in ReplicaState
  BY <1>1 DEF ReplicaState
<1>4. Follows(s, t)
  BY <1>3, SameFollows DEF ReplicaState
<1> HIDE DEF t
<1>5. u \in ReplicaState
  BY <1>1, <1>3 DEF ReplicaState
<1>6. Follows(t, u)
  <2>1. /\ u.view = t.view /\ u.pm_proposer = t.pm_proposer /\ u.voted = t.voted
        /\ u.last_view_cert_received = t.last_view_cert_received /\ u.out = t.out
    BY <1>3 DEF ReplicaState
  <2> HIDE DEF u
  <2> QED  BY <1>3, <1>5, <2>1, SameFollows
<1> HIDE DEF u
<1>7. Follows(u, OnReceiveQC(u, r, b, found))
  BY <1>5, OnReceiveQCFollows
<1> QED  BY <1>2, <1>3, <1>4, <1>5, <1>6, <1>7, FollowsReflexive, FollowsTransitive

LEMMA AfterEnterViewTallies ==
  ASSUME NEW s \in ReplicaState, NEW r \in Replica
  PROVE  Tallies(r, s, AfterEnterView(s, r))
<1> DEFINE t == OnReceiveStatus(s, r, r, s.view, s.hqc, TRUE)
           u == [t EXCEPT !.propose_timer = TRUE]
           status == [type |-> "status", from |-> r, to |-> s.pm_proposer,
                      view |-> s.view, qc |-> s.hqc]
<1>1. s.view \in View /\ s.hqc \in Block /\ s.pm_proposer \in Replica
  BY DEF ReplicaState
<1>2. Tallies(r, s, t)
  BY <1>1, OnReceiveStatusTallies
<1>3. {status} \in SUBSET Message /\ CertsIn({status}) = {} /\ EchoesIn({status}) = {}
  BY <1>1 DEF Message, Statuses, CertsIn, EchoesIn
<1>4. AfterEnterView(s, r) \in {t, u, Send(s, {status})}
  BY DEF AfterEnterView
<1> HIDE DEF t, status
<1>5. Follows(s, Send(s, {status}))
  BY <1>3, SendFollows
<1>6. t \in ReplicaState
  BY <1>2 DEF Tallies
<1>7. u \in ReplicaState
  BY <1>6 DEF ReplicaState
<1>8. Follows(t, u)
  BY <1>6, <1>7, SameFollows DEF ReplicaState
<1> HIDE DEF u
<1>9. Tallies(r, s, u)
  BY <1>2, <1>8, TalliesBefore
<1> QED  BY <1>2, <1>4, <1>5, <1>9, FollowsTallies

LEMMA PoppedFollows ==
  ASSUME NEW s \in ReplicaState, s.todo # <<>>
  PROVE  Popped(s) \in ReplicaState /\ Popped(s).view = s.view /\ Follows(s, Popped(s))
<1>1. Popped(s) \in ReplicaState
  BY PoppedLeads DEF Leads, Moves
<1>2. Popped(s).view = s.view
  BY DEF Popped, ReplicaState
<1> QED  BY <1>1, <1>2, SameFollows DEF Popped, ReplicaState

-----------------------------------------------------------------------------
(* The invariant.                                                          *)

\* Between handlers nothing waits to be sent.
Quiet == \A r \in Replica : st[r].out = {}

Backing ==
  /\ \A r \in Replica : Backed(st[r])
  /\ \A m \in Sent("echo2") : m.blk.view \in Certified

\* No replica votes for a block of a view it has not reached.
Timely ==
  /\ \A r \in Replica : \A b \in PendingIn(st[r].todo) : b.view <= st[r].view
  /\ \A m \in Sent("vote") : m.blk.view <= st[m.from].view

\* The genesis block has all votes from the start; other votes have been cast.
Counted ==
  \A r \in Replica, b \in Block :
    IF b = Genesis THEN st[r].voted[b] = Replica
    ELSE \A q \in st[r].voted[b] : Supports(r, q, b, st[r])

Quorate ==
  \A m \in Sent("qc") :
    m.blk # Genesis /\ Cardinality(st[m.from].voted[m.blk]) >= NResponsive

CertInv ==
  /\ Quiet /\ Backing /\ Timely /\ Counted /\ Quorate
  /\ \A r \in Replica : Rotated(st[r])

\* What a step of r leads to before what it sends has left.
Result(r, s) ==
  /\ st' = [st EXCEPT ![r] = [s EXCEPT !.out = {}]]
  /\ msgs' = msgs \cup s.out
  /\ Tallies(r, st[r], s)

\* Every handler and every resumed function is one of the functions above.
LEMMA StepTallies ==
  ASSUME TypeOK, BeaconsIgnored, CertInv, NEW r \in Replica, Step(r)
  PROVE  UNCHANGED vars \/ \E s : Result(r, s)
<1>1. st[r] \in ReplicaState /\ msgs \subseteq Message
  BY DEF TypeOK
<1>2. ASSUME NEW s, Become(r, s), Tallies(r, st[r], s)
      PROVE  \E t : Result(r, t)
  BY <1>2 DEF Become, Result
<1>3. ASSUME NEW s, Become(r, s), Follows(st[r], s)
      PROVE  \E t : Result(r, t)
  BY <1>1, <1>2, <1>3, FollowsTallies
<1>4. CASE ReceiveProposal(r)
  <2>1. PICK m \in Sent("propose") : Become(r, OnReceiveProposal(st[r], r, m))
    BY <1>4 DEF ReceiveProposal
  <2>2. OnReceiveProposal(st[r], r, m) # st[r]
    BY <2>1 DEF Become
  <2> QED  BY <1>1, <1>3, <2>1, <2>2, OnReceiveProposalFollows
<1>5. CASE ReceiveVote(r)
  <2>1. PICK m \in Sent("vote") :
          Become(r, OnReceiveVote(st[r], r, m.blk, m.from, m.view))
    BY <1>5 DEF ReceiveVote
  <2>2. m.blk \in Block /\ m.from \in Replica /\ m.view \in View
    BY <1>1, SentTypes DEF Votes
  <2>3. Supports(r, m.from, m.blk, st[r])
    BY DEF Supports
  <2> QED  BY <1>1, <1>2, <2>1, <2>2, <2>3, OnReceiveVoteTallies
<1>6. CASE ReceiveAck(r)
  <2>1. PICK m \in Sent("ack") :
          Become(r, OnReceiveAck(st[r], r, m.blk, m.from, m.view))
    BY <1>6 DEF ReceiveAck
  <2>2. m.blk \in Block /\ m.from \in Replica /\ m.view \in View
    BY <1>1, SentTypes DEF Acks
  <2> QED  BY <1>1, <1>3, <2>1, <2>2, OnReceiveAckFollows
<1>7. CASE ReceiveStatus(r)
  <2>1. PICK m \in Sent("status"), found \in BOOLEAN :
          Become(r, OnReceiveStatus(st[r], r, m.from, m.view, m.qc, found))
    BY <1>7 DEF ReceiveStatus, Delivered
  <2>2. m.qc \in Block /\ m.from \in Replica /\ m.view \in View
    BY <1>1, SentTypes DEF Statuses
  <2> QED  BY <1>1, <1>2, <2>1, <2>2, OnReceiveStatusTallies
<1>8. CASE ReceiveQC(r)
  <2>1. PICK m \in Sent("qc") : Become(r, OnReceiveQC(st[r], r, m.blk, TRUE))
    BY <1>8 DEF ReceiveQC
  <2>2. m.blk \in Block /\ m.blk.view \in Certified
    BY <1>1, SentTypes DEF Certificates, Certified
  <2> QED  BY <1>1, <1>3, <2>1, <2>2, OnReceiveQCFollows
<1>9. CASE ReceiveCertEcho(r)
  <2>1. PICK m \in Sent("echo2"), found \in BOOLEAN : \E idx \in {r, m.from} :
          Become(r, OnReceiveCertEcho(st[r], r, idx, m.blk, found))
    BY <1>9 DEF ReceiveCertEcho, Delivered
  <2>2. m.blk \in Block /\ m.from \in Replica /\ m.blk.view \in Certified
    BY <1>1, SentTypes DEF CertEchoes, CertInv, Backing
  <2>3. PICK idx \in {r, m.from} :
          Become(r, OnReceiveCertEcho(st[r], r, idx, m.blk, found))
    BY <2>1
  <2>4. idx \in Replica
    BY <2>2
  <2> QED  BY <1>1, <1>3, <2>2, <2>3, <2>4, OnReceiveCertEchoFollows
<1>10. CASE ReceiveShare(r)
  <2>1. PICK m \in Sent("share") :
          Become(r, OnReceiveShare([st[r] EXCEPT !.handled = @ \cup {m}],
                                   r, m.from, m.view))
    BY <1>10 DEF ReceiveShare
  <2> DEFINE s == [st[r] EXCEPT !.handled = @ \cup {m}]
  <2>2. m \in Message /\ m.from \in Replica /\ m.view \in View
    BY <1>1, SentTypes DEF Shares, Sent
  <2>3. s \in ReplicaState
    BY <1>1, <2>2 DEF ReplicaState
  <2>4. Follows(st[r], s)
    BY <1>1, <2>3, SameFollows DEF ReplicaState
  <2> HIDE DEF s
  <2>5. Follows(s, OnReceiveShare(s, r, m.from, m.view))
    BY <2>2, <2>3, OnReceiveShareFollows
  <2>6. Follows(st[r], OnReceiveShare(s, r, m.from, m.view))
    BY <1>1, <2>4, <2>5, FollowsTransitive
  <2> QED  BY <1>3, <2>1, <2>6 DEF s
<1>11. CASE ReceiveBeacon(r)
  <2>1. PICK m \in Sent("beacon") :
          /\ st' = [st EXCEPT ![r] = OnReceiveBeacon(st[r], m.view)]
          /\ msgs' = msgs
    BY <1>1, <1>11 DEF ReceiveBeacon, TypeOK
  <2>2. OnReceiveBeacon(st[r], m.view) = st[r]
    BY DEF BeaconsIgnored
  <2> QED  BY <2>1, <2>2 DEF TypeOK, vars
<1>12. CASE ShareArrivesEarly(r)
  <2>1. PICK m \in Sent("share") :
          Become(r, [st[r] EXCEPT !.past_qc_gate = @ \cup {m}])
    BY <1>12 DEF ShareArrivesEarly
  <2> DEFINE s == [st[r] EXCEPT !.past_qc_gate = @ \cup {m}]
  <2>2. m \in Message
    BY <1>1 DEF Sent
  <2>3. s \in ReplicaState
    BY <1>1, <2>2 DEF ReplicaState
  <2>4. Follows(st[r], s)
    BY <1>1, <2>3, SameFollows DEF ReplicaState
  <2> QED  BY <1>3, <2>1, <2>4
<1>13. CASE ProposeTimeout(r)
  <2> DEFINE s == [st[r] EXCEPT !.propose_timer = FALSE]
  <2>1. Become(r, DoPropose(s, r))
    BY <1>13 DEF ProposeTimeout
  <2>2. s \in ReplicaState
    BY <1>1 DEF ReplicaState
  <2>3. Follows(st[r], s)
    BY <1>1, <2>2, SameFollows DEF ReplicaState
  <2> HIDE DEF s
  <2>4. Tallies(r, st[r], DoPropose(s, r))
    BY <1>1, <2>2, <2>3, DoProposeTallies, TalliesAfter
  <2> QED  BY <1>2, <2>1, <2>4
<1>14. CASE ClientCommand(r)
  <2> DEFINE s == [st[r] EXCEPT !.commands = @ \cup {st[r].view}]
  <2>1. <<r, st[r].view>> \in Commands /\ Become(r, EnterView(s, 1))
    BY <1>14 DEF ClientCommand
  <2>2. s \in ReplicaState /\ 1 \in View /\ 1 \in Nat
    <3>1. st[r].view \in View
      BY <1>1 DEF ReplicaState
    <3>2. s \in ReplicaState
      BY <1>1, <3>1 DEF ReplicaState
    <3> QED  BY <3>2, BoundsAssumption DEF View
  <2> DEFINE p == GetProposer(1)
             t == [s EXCEPT !.pm_proposer = p]
             f == [at |-> "enter_view", view |-> 1, blk |-> Genesis, vote |-> FALSE,
                   proposer |-> p]
  <2>3. EnterView(s, 1) = Push(t, f)
    BY DEF EnterView
  <2>4. p \in Replica
    BY <2>2, ProposerType
  <2>5. f \in Frame
    BY <2>2, <2>4, GenesisType DEF Frame
  <2>6. CommandsInTime => st[r].view = 1
    BY <2>1 DEF CommandsInTime
  <2> HIDE DEF p, f
  <2>7. /\ t \in ReplicaState /\ t.view = st[r].view /\ t.pm_proposer = p
        /\ t.voted = st[r].voted /\ t.out = st[r].out
        /\ t.last_view_cert_received = st[r].last_view_cert_received
    BY <1>1, <2>4 DEF ReplicaState
  <2> HIDE DEF t
  <2>8. st[r].view \in Nat
    BY <1>1, ViewNat DEF ReplicaState
  <2>9. Rotated(t)
    BY <2>6, <2>7 DEF Rotated, p
  <2>10. Backed(st[r]) => Backed(t)
    BY <2>7 DEF Backed
  <2>11. Follows(st[r], t)
    BY <2>7, <2>8, <2>9, <2>10 DEF Follows, Proceeds
  <2>12. Follows(t, Push(t, f))
    BY <2>5, <2>7, PushFollows
  <2>13. Follows(st[r], Push(t, f))
    BY <1>1, <2>11, <2>12, FollowsTransitive
  <2> QED  BY <1>3, <2>1, <2>3, <2>13
<1>15. CASE ResumeEnterView(r)
  <2>1. st[r].todo # <<>> /\ Become(r, AfterEnterView(Popped(st[r]), r))
    BY <1>15 DEF ResumeEnterView, Resumes
  <2>2. Popped(st[r]) \in ReplicaState /\ Follows(st[r], Popped(st[r]))
    BY <1>1, <2>1, PoppedFollows
  <2>3. Tallies(r, st[r], AfterEnterView(Popped(st[r]), r))
    BY <1>1, <2>2, AfterEnterViewTallies, TalliesAfter
  <2> QED  BY <1>2, <2>1, <2>3
<1>16. CASE ResumeProposal(r)
  <2> DEFINE f == Head(st[r].todo)
             popped == Popped(st[r])
  <2>1. /\ st[r].todo # <<>>
        /\ (f.vote /\ Become(r, Vote(popped, r, f.blk, f.proposer))) \/ Become(r, popped)
    BY <1>16 DEF ResumeProposal, Resumes
  <2>2. /\ popped \in ReplicaState /\ popped.view = st[r].view
        /\ Follows(st[r], popped)
    BY <1>1, <2>1, PoppedFollows
  <2>3. f.blk \in Block /\ f.proposer \in Replica
    BY <1>1, <2>1, PoppedLeads DEF Frame
  <2>4. CASE Become(r, popped)
    BY <1>3, <2>2, <2>4
  <2>5. CASE f.vote /\ Become(r, Vote(popped, r, f.blk, f.proposer))
    <3>1. f.blk \in PendingIn(st[r].todo)
      BY <1>1, <2>1, <2>5, PendingHead DEF ReplicaState
    <3>2. f.blk.view <= popped.view
      BY <2>2, <3>1 DEF CertInv, Timely
    <3> HIDE DEF f, popped
    <3>3. Tallies(r, popped, Vote(popped, r, f.blk, f.proposer))
      BY <2>2, <2>3, <3>2, VoteTallies
    <3>4. Tallies(r, st[r], Vote(popped, r, f.blk, f.proposer))
      BY <1>1, <2>2, <3>3, TalliesAfter
    <3> QED  BY <1>2, <2>5, <3>4
  <2> QED  BY <2>1, <2>4, <2>5
<1>17. CASE ResumeQC(r)
  <2> DEFINE f == [Head(st[r].todo) EXCEPT !.at = "try_enter_view"]
             popped == Popped(st[r])
             s == Push(popped, f)
             b == Head(st[r].todo).blk
  <2>1. st[r].todo # <<>> /\ Become(r, Ack(s, r, b))
    BY <1>17 DEF ResumeQC, Resumes
  <2>2. popped \in ReplicaState /\ Follows(st[r], popped)
    BY <1>1, <2>1, PoppedFollows
  <2>3. f \in Frame /\ b \in Block
    BY <1>1, <2>1, PoppedLeads DEF Frame
  <2> HIDE DEF f, popped, b
  <2>4. s \in ReplicaState /\ Follows(popped, s)
    BY <2>2, <2>3, PushFollows DEF Follows
  <2> HIDE DEF s
  <2>5. Follows(s, Ack(s, r, b))
    BY <2>3, <2>4, AckFollows
  <2>6. Follows(st[r], Ack(s, r, b))
    BY <1>1, <2>2, <2>4, <2>5, FollowsTransitive
  <2> QED  BY <1>3, <2>1, <2>6
<1>18. CASE ResumeTryEnterView(r)
  <2>1. st[r].todo # <<>> /\ Become(r, TryEnterView(Popped(st[r])))
    BY <1>18 DEF ResumeTryEnterView, Resumes
  <2>2. Popped(st[r]) \in ReplicaState /\ Follows(st[r], Popped(st[r]))
    BY <1>1, <2>1, PoppedFollows
  <2>3. Follows(st[r], TryEnterView(Popped(st[r])))
    BY <1>1, <2>2, TryEnterViewFollows, FollowsTransitive
  <2> QED  BY <1>3, <2>1, <2>3
<1> QED
  BY <1>4, <1>5, <1>6, <1>7, <1>8, <1>9, <1>10, <1>11, <1>12, <1>13, <1>14,
     <1>15, <1>16, <1>17, <1>18 DEF Step

LEMMA QuorumSizes ==
  /\ NResponsive \in Nat /\ NResponsive <= NReplicas
  /\ NReplicas >= 3 => 2 * NResponsive >= NReplicas + 3
  /\ NReplicas <= 4 => NResponsive = NReplicas
<1> DEFINE k == (3 * NReplicas) \div 4
<1>1. NReplicas \in Nat /\ NReplicas >= 2
  BY NReplicasAssumption
<1>2. k \in Int /\ 4 * k <= 3 * NReplicas /\ 3 * NReplicas < 4 * k + 4
  BY <1>1
<1> HIDE DEF k
<1>3. k + 1 \in Nat /\ k + 1 <= NReplicas
  BY <1>1, <1>2
<1>4. NReplicas >= 3 => 2 * (k + 1) >= NReplicas + 3
  BY <1>1, <1>2
<1>5. NReplicas <= 4 => k + 1 = NReplicas
  BY <1>1, <1>2
<1> QED  BY <1>3, <1>4, <1>5 DEF NResponsive, k

LEMMA ReplicaFinite == IsFiniteSet(Replica) /\ Cardinality(Replica) = NReplicas
<1>1. NReplicas \in Nat /\ NReplicas >= 2
  BY NReplicasAssumption
<1>2. /\ IsFiniteSet(0 .. NReplicas - 1)
      /\ Cardinality(0 .. NReplicas - 1) = NReplicas - 1 - 0 + 1
  BY <1>1, FS_Interval
<1> QED  BY <1>1, <1>2 DEF Replica

LEMMA CertInvInit == Init => CertInv
<1> SUFFICES ASSUME Init PROVE CertInv
  OBVIOUS
<1>1. /\ \A r \in Replica : st[r] = InitState
      /\ \A type : Sent(type) = {}
      /\ Certified = {0}
  BY DEF Init, Sent, Certified
<1>2. /\ InitState.out = {} /\ InitState.view = 1 /\ InitState.todo = <<>>
      /\ InitState.last_view_cert_received = 0 /\ InitState.pm_proposer = 0
      /\ \A b \in Block : InitState.voted[b] = IF b = Genesis THEN Replica ELSE {}
  BY DEF InitState
<1>3. Quiet /\ Quorate
  BY <1>1, <1>2 DEF Quiet, Quorate
<1>4. Backing
  BY <1>1, <1>2 DEF Backing, Backed, EchoesIn
<1>5. Timely
  BY <1>1, <1>2 DEF Timely, PendingIn
<1>6. Counted
  BY <1>1, <1>2 DEF Counted
<1>7. GetProposer(1) = 0
  BY NReplicasAssumption DEF GetProposer
<1> QED  BY <1>1, <1>2, <1>3, <1>4, <1>5, <1>6, <1>7 DEF CertInv, Rotated

\* What has been sent stays sent, and views only grow.
LEMMA SupportGrows ==
  ASSUME NEW r \in Replica, NEW q \in Replica, NEW b \in Block, NEW s, NEW t,
         msgs \subseteq msgs', Supports(r, q, b, s), s.view \in Nat, t.view \in Nat,
         t.view >= s.view
  PROVE  \/ q = r /\ b.view <= t.view
         \/ \E m \in Sent("vote")' : m.from = q /\ m.blk = b
<1>1. b.view \in Nat
  BY ViewNat DEF Block
<1>2. CASE q = r /\ b.view <= s.view
  BY <1>1, <1>2
<1>3. CASE \E m \in Sent("vote") : m.from = q /\ m.blk = b
  BY <1>3 DEF Sent
<1> QED  BY <1>2, <1>3 DEF Supports

LEMMA CertInvStutters == CertInv /\ UNCHANGED vars => CertInv'
<1> SUFFICES ASSUME CertInv, UNCHANGED vars PROVE CertInv'
  OBVIOUS
<1>1. st' = st /\ msgs' = msgs
  BY DEF vars
<1>2. Quiet' /\ Timely' /\ Quorate'
  BY <1>1 DEF CertInv, Quiet, Timely, Quorate, Sent
<1>3. Backing'
  BY <1>1 DEF CertInv, Backing, Backed, Certified, Sent
<1>4. Counted'
  BY <1>1 DEF CertInv, Counted, Supports, Sent
<1> QED  BY <1>1, <1>2, <1>3, <1>4 DEF CertInv, Rotated

LEMMA CertInvStep ==
  ASSUME TypeOK, OneOpinionEach, BeaconsIgnored, CertInv, NEW r \in Replica, Step(r)
  PROVE  CertInv'
<1>1. CASE UNCHANGED vars
  BY <1>1, CertInvStutters
<1>2. ASSUME NEW s, Result(r, s) PROVE CertInv'
  <2> DEFINE t == [s EXCEPT !.out = {}]
  <2>1. st[r] \in ReplicaState /\ s \in ReplicaState /\ Tallies(r, st[r], s)
    BY <1>2 DEF TypeOK, Result, Tallies
  <2>2. /\ t.view = s.view /\ t.voted = s.voted /\ t.out = {}
        /\ t.pm_proposer = s.pm_proposer
        /\ t.last_view_cert_received = s.last_view_cert_received
    BY <2>1 DEF ReplicaState
  <2>3. /\ st'[r] = t /\ \A q \in Replica \ {r} : st'[q] = st[q]
        /\ msgs' = msgs \cup s.out
    BY <1>2 DEF Result, TypeOK
  <2> HIDE DEF t
  <2>4. s.view \in Nat /\ \A q \in Replica : st[q].view \in Nat
    BY <2>1, ViewNat DEF TypeOK, ReplicaState
  <2>5. s.view >= st[r].view /\ (Backed(st[r]) => Backed(s)) /\ (Rotated(st[r]) => Rotated(s))
    BY <2>1 DEF Tallies, Proceeds
  <2>6. \A q \in Replica : st[q].view <= st'[q].view /\ st'[q].view \in Nat
    BY <2>2, <2>3, <2>4, <2>5
  <2>7. Certified \subseteq Certified'
    BY <2>3 DEF Certified, Sent
  <2>8. Quiet'
    BY <2>2, <2>3 DEF CertInv, Quiet
  <2>9. Backing'
    <3>1. Backed(s)
      BY <2>5 DEF CertInv, Backing
    <3>2. ASSUME NEW q \in Replica PROVE Backed(st[q])'
      <4>1. EchoesIn(st'[q].out) = {}
        BY <2>8 DEF Quiet, EchoesIn
      <4>2. /\ st'[q].view >= 1 /\ \A v \in 0 .. st'[q].view - 1 : v \in Certified
            /\ st'[q].last_view_cert_received \in Certified
        <5>1. CASE q = r
          BY <2>2, <2>3, <3>1, <5>1 DEF Backed
        <5>2. CASE q # r
          BY <2>3, <5>2 DEF CertInv, Backing, Backed
        <5> QED  BY <5>1, <5>2
      <4> QED  BY <2>7, <4>1, <4>2 DEF Backed
    <3>3. ASSUME NEW m \in Sent("echo2")' PROVE m.blk.view \in Certified
      <4>1. m \in Sent("echo2") \/ m \in EchoesIn(s.out)
        BY <2>3 DEF Sent, EchoesIn
      <4> QED  BY <3>1, <4>1 DEF Backed, CertInv, Backing
    <3> QED  BY <2>7, <3>2, <3>3 DEF Backing
  <2>10. Timely'
    <3>1. PICK u, ms : Outcome(r, u, ms) /\ (Speaks(r, u, ms) \/ Hears(r, u, ms))
      BY StepResults DEF StepResult
    <3>2. st'[r] = u /\ VotesIn(st[r].out) = {}
      BY <3>1 DEF Outcome, TypeOK, OneOpinionEach, OneOpinion
    <3>3. ASSUME NEW b \in PendingIn(u.todo) PROVE b.view <= u.view
      <4>1. \/ b \in PendingIn(st[r].todo)
            \/ b \in Block /\ b.view <= st[r].view
        BY <3>1 DEF Speaks, Hears
      <4>2. b.view <= st[r].view
        BY <4>1 DEF CertInv, Timely
      <4>3. b \in Block
        <5>1. u.todo \in Seq(Frame)
          BY <3>1 DEF Outcome, Moves, ReplicaState
        <5>2. PICK i \in DOMAIN u.todo : b = u.todo[i].blk
          BY <3>3 DEF PendingIn
        <5>3. u.todo[i] \in Frame
          BY <5>1, <5>2
        <5> QED  BY <5>2, <5>3 DEF Frame
      <4>4. b.view \in Nat
        BY <4>3, ViewNat DEF Block
      <4> QED  BY <2>4, <2>6, <3>2, <4>2, <4>4
    <3>4. ASSUME NEW m \in Sent("vote")' PROVE m.blk.view <= st'[m.from].view
      <4>1. m \in Sent("vote") \/ m \in VotesIn(ms)
        BY <3>1 DEF Outcome, Sent, VotesIn
      <4>2. m.blk.view <= st[m.from].view
        <5>1. CASE m \in Sent("vote")
          BY <5>1 DEF CertInv, Timely
        <5>2. CASE m \in VotesIn(ms)
          <6>1. m.from = r /\ m.blk \in PendingIn(st[r].todo)
            BY <3>1, <3>2, <5>2 DEF Speaks, Hears
          <6> QED  BY <6>1 DEF CertInv, Timely
        <5> QED  BY <4>1, <5>1, <5>2
      <4>3. m \in Votes
        BY <3>1, SentTypes DEF Outcome, TypeOK, Sent, Message, Votes, Proposals,
             Certificates, Acks, CertEchoes, Statuses, Shares, Beacons
      <4>4. m.blk.view \in Nat /\ m.from \in Replica
        BY <4>3, ViewNat DEF Votes, Block
      <4> QED  BY <2>4, <2>6, <4>2, <4>4
    <3> QED  BY <2>3, <3>2, <3>3, <3>4 DEF CertInv, Timely
  <2>11. \A b \in Block : st[r].voted[b] = Replica => s.voted[b] = Replica
    BY <2>1, ReplicaFinite, QuorumSizes DEF Tallies
  <2>12. Counted'
    <3> SUFFICES ASSUME NEW q \in Replica, NEW b \in Block
                 PROVE  IF b = Genesis THEN st'[q].voted[b] = Replica
                        ELSE \A v \in st'[q].voted[b] : Supports(q, v, b, st[q])'
      BY DEF Counted
    <3>1. CASE b = Genesis
      <4>1. st[q].voted[b] = Replica
        BY <3>1 DEF CertInv, Counted
      <4> QED  BY <2>2, <2>3, <2>11, <3>1, <4>1
    <3>2. CASE b # Genesis
      <4> SUFFICES ASSUME NEW v \in st'[q].voted[b] PROVE Supports(q, v, b, st[q])'
        BY <3>2
      <4>1. v \in Replica
        <5>1. s.voted[b] \in SUBSET Replica /\ st[q].voted[b] \in SUBSET Replica
          <6>1. s \in ReplicaState /\ st[q] \in ReplicaState
            BY <2>1 DEF TypeOK
          <6>2. ASSUME NEW u \in ReplicaState PROVE u.voted[b] \in SUBSET Replica
            BY <6>2 DEF ReplicaState
          <6> QED  BY <6>1, <6>2
        <5>2. st'[q].voted[b] = s.voted[b] \/ st'[q].voted[b] = st[q].voted[b]
          BY <2>2, <2>3
        <5> QED  BY <5>1, <5>2
      <4>2. v \in st[q].voted[b] => Supports(q, v, b, st[q])
        BY <3>2 DEF CertInv, Counted
      <4>3. \/ v = q /\ b.view <= st'[q].view
            \/ \E m \in Sent("vote")' : m.from = v /\ m.blk = b
        <5>1. CASE v \in st[q].voted[b]
          BY <2>3, <2>4, <2>6, <4>1, <4>2, <5>1, SupportGrows
        <5>2. CASE v \notin st[q].voted[b]
          <6>1. q = r /\ v \in s.voted[b] \ st[r].voted[b]
            BY <2>2, <2>3, <5>2
          <6>2. Supports(r, v, b, s)
            BY <2>1, <6>1 DEF Tallies
          <6> QED  BY <2>2, <2>3, <2>4, <4>1, <6>1, <6>2, SupportGrows
        <5> QED  BY <5>1, <5>2
      <4> QED  BY <4>3 DEF Supports
    <3> QED  BY <3>1, <3>2
  <2>13. Quorate'
    <3> SUFFICES ASSUME NEW m \in Sent("qc")'
                 PROVE  /\ m.blk # Genesis
                        /\ Cardinality(st'[m.from].voted[m.blk]) >= NResponsive
      BY DEF Quorate
    <3>1. m \in Sent("qc") \/ m \in CertsIn(s.out)
      BY <2>3 DEF Sent, CertsIn
    <3>2. CASE m \in Sent("qc")
      <4>1. /\ m.from \in Replica /\ m.blk \in Block /\ m.blk # Genesis
            /\ Cardinality(st[m.from].voted[m.blk]) >= NResponsive
        BY <3>2, SentTypes DEF TypeOK, Certificates, CertInv, Quorate
      <4>2. CASE m.from = r
        <5>1. s.voted[m.blk] = st[r].voted[m.blk]
          BY <2>1, <4>1, <4>2 DEF Tallies
        <5> QED  BY <2>2, <2>3, <4>1, <4>2, <5>1
      <4>3. CASE m.from # r
        BY <2>3, <4>1, <4>3
      <4> QED  BY <4>2, <4>3
    <3>3. CASE m \in CertsIn(s.out)
      <4>1. CertsIn(st[r].out) = {}
        BY DEF CertInv, Quiet, CertsIn
      <4>2. /\ m.from = r /\ m.blk \in Block
            /\ Cardinality(s.voted[m.blk]) >= NResponsive
            /\ Cardinality(st[r].voted[m.blk]) < NResponsive
        BY <2>1, <3>3, <4>1 DEF Tallies
      <4>3. m.blk # Genesis
        <5>1. ASSUME m.blk = Genesis PROVE FALSE
          <6>1. st[r].voted[m.blk] = Replica
            BY <4>2, <5>1 DEF CertInv, Counted
          <6> QED  BY <4>2, <6>1, ReplicaFinite, QuorumSizes, NReplicasAssumption
        <5> QED  BY <5>1
      <4> QED  BY <2>2, <2>3, <4>2, <4>3
    <3> QED  BY <3>1, <3>2, <3>3
  <2>14. ASSUME NEW q \in Replica PROVE Rotated(st[q])'
    <3>1. CASE q = r
      <4>1. Rotated(s)
        BY <2>5 DEF CertInv
      <4> QED  BY <2>2, <2>3, <3>1, <4>1 DEF Rotated
    <3>2. CASE q # r
      BY <2>3, <3>2 DEF CertInv, Rotated
    <3> QED  BY <3>1, <3>2
  <2> QED  BY <2>8, <2>9, <2>10, <2>12, <2>13, <2>14 DEF CertInv
<1> QED  BY <1>1, <1>2, StepTallies

LEMMA CertInvariance == Spec => []CertInv
<1>1. TypeOK /\ OneOpinionEach /\ BeaconsIgnored /\ CertInv /\ [Next]_vars => CertInv'
  <2> SUFFICES ASSUME TypeOK, OneOpinionEach, BeaconsIgnored, CertInv, [Next]_vars
               PROVE  CertInv'
    OBVIOUS
  <2>1. CASE Next
    <3>1. PICK r \in Replica : Step(r)
      BY <2>1 DEF Next
    <3> QED  BY <3>1, CertInvStep
  <2>2. CASE UNCHANGED vars
    BY <2>2, CertInvStutters
  <2> QED  BY <2>1, <2>2
<1> QED  BY <1>1, CertInvInit, TypeCorrect, OneOpinionAlways, BeaconsNeverCount, PTL DEF Spec

-----------------------------------------------------------------------------
(* The theorems.                                                           *)

\* Two quorums have three replicas in common, one of which is neither of two
\* given ones.
LEMMA QuorumsMeet ==
  ASSUME NReplicas >= 3, NEW S \in SUBSET Replica, NEW T \in SUBSET Replica,
         Cardinality(S) >= NResponsive, Cardinality(T) >= NResponsive,
         NEW p \in Replica, NEW q \in Replica
  PROVE  \E v \in S \cap T : v # p /\ v # q
<1> DEFINE both == S \cap T
<1>1. IsFiniteSet(S) /\ IsFiniteSet(T) /\ IsFiniteSet(S \cup T) /\ IsFiniteSet(both)
  BY ReplicaFinite, FS_Subset
<1>2. Cardinality(S \cup T) <= NReplicas
  BY ReplicaFinite, FS_Subset
<1>3. Cardinality(S \cup T) = Cardinality(S) + Cardinality(T) - Cardinality(both)
  BY <1>1, FS_Union
<1>4. /\ Cardinality(S) \in Nat /\ Cardinality(T) \in Nat /\ Cardinality(both) \in Nat
      /\ Cardinality(S \cup T) \in Nat
  BY <1>1, FS_CardinalityType
<1>5. Cardinality(both) >= 3
  BY <1>2, <1>3, <1>4, QuorumSizes, NReplicasAssumption
<1>6. CASE both \subseteq {p, q}
  <2>1. IsFiniteSet({p, q}) /\ Cardinality({p, q}) <= 2
    <3>1. IsFiniteSet({p}) /\ Cardinality({p}) = 1
      BY FS_Singleton
    <3>2. /\ IsFiniteSet({p} \cup {q})
          /\ \/ Cardinality({p} \cup {q}) = Cardinality({p})
             \/ Cardinality({p} \cup {q}) = Cardinality({p}) + 1
      BY <3>1, FS_AddElement
    <3>3. {p} \cup {q} = {p, q}
      OBVIOUS
    <3> QED  BY <3>1, <3>2, <3>3
  <2>2. Cardinality(both) <= Cardinality({p, q}) /\ Cardinality({p, q}) \in Nat
    BY <1>6, <2>1, FS_Subset, FS_CardinalityType
  <2> QED  BY <1>4, <1>5, <2>1, <2>2
<1> QED  BY <1>6

\* What voters vote for is in their view, or a view they have left.
LEMMA VotersAreThere ==
  ASSUME TypeOK, CertInv, NEW m \in Sent("qc")
  PROVE  /\ m.from \in Replica /\ m.blk \in Block /\ m.blk # Genesis
         /\ st[m.from].voted[m.blk] \in SUBSET Replica
         /\ Cardinality(st[m.from].voted[m.blk]) >= NResponsive
         /\ \A q \in st[m.from].voted[m.blk] : m.blk.view <= st[q].view
<1>1. /\ m.from \in Replica /\ m.blk \in Block /\ m.blk # Genesis
      /\ Cardinality(st[m.from].voted[m.blk]) >= NResponsive
  BY SentTypes DEF TypeOK, Certificates, CertInv, Quorate
<1>2. st[m.from].voted[m.blk] \in SUBSET Replica
  BY <1>1 DEF TypeOK, ReplicaState
<1>3. \A q \in st[m.from].voted[m.blk] : Supports(m.from, q, m.blk, st[m.from])
  BY <1>1 DEF CertInv, Counted
<1>4. \A q \in st[m.from].voted[m.blk] : m.blk.view <= st[q].view
  BY <1>3 DEF Supports, CertInv, Timely
<1> QED  BY <1>1, <1>2, <1>4

\* No two blocks of one height are certified.
OneCertificate ==
  \A m, n \in Sent("qc") : m.blk.height = n.blk.height => m.blk = n.blk

\* From three replicas on, and although client commands may make any number of
\* replicas propose in a view: on_receive_vote gathers a quorum for one block of a
\* height at most.  A proposer's vote for its own block does not look at the slot
\* of the height (on_propose), but two quorums have more than the two proposers in
\* common.
THEOREM CertificatesAgree ==
  ASSUME NReplicas >= 3
  PROVE  Spec => []OneCertificate
<1>1. TypeOK /\ CertInv /\ VotesDontConflict => OneCertificate
  <2> SUFFICES ASSUME TypeOK, CertInv, VotesDontConflict,
                      NEW m \in Sent("qc"), NEW n \in Sent("qc"),
                      m.blk.height = n.blk.height
               PROVE  m.blk = n.blk
    BY DEF OneCertificate
  <2> DEFINE S == st[m.from].voted[m.blk]
             T == st[n.from].voted[n.blk]
  <2>1. /\ m.from \in Replica /\ m.blk \in Block /\ m.blk # Genesis
        /\ n.from \in Replica /\ n.blk \in Block /\ n.blk # Genesis
        /\ S \in SUBSET Replica /\ Cardinality(S) >= NResponsive
        /\ T \in SUBSET Replica /\ Cardinality(T) >= NResponsive
    BY VotersAreThere
  <2>2. PICK v \in S \cap T : v # m.from /\ v # n.from
    <3> HIDE DEF S, T
    <3> QED  BY <2>1, QuorumsMeet
  <2>3. /\ Supports(m.from, v, m.blk, st[m.from])
        /\ Supports(n.from, v, n.blk, st[n.from])
    BY <2>1, <2>2 DEF CertInv, Counted
  <2>4. /\ \E k \in Sent("vote") : k.from = v /\ k.blk = m.blk
        /\ \E k \in Sent("vote") : k.from = v /\ k.blk = n.blk
    BY <2>2, <2>3 DEF Supports
  <2> QED  BY <2>4 DEF VotesDontConflict
<1> QED  BY <1>1, TypeCorrect, CertInvariance, VotesNeverConflict, PTL

\* At least a quorum of the replicas is at most one view behind each replica.
QuorumKeepsUp ==
  \A r \in Replica :
    Cardinality({q \in Replica : st[r].view <= st[q].view + 1}) >= NResponsive

LEMMA KeepsUp ==
  ASSUME TypeOK, CertInv
  PROVE  QuorumKeepsUp
<1> SUFFICES ASSUME NEW r \in Replica
             PROVE  Cardinality({q \in Replica : st[r].view <= st[q].view + 1})
                      >= NResponsive
  BY DEF QuorumKeepsUp
<1> DEFINE near == {q \in Replica : st[r].view <= st[q].view + 1}
<1>1. \A q \in Replica :
        st[q].view \in Nat /\ st[q].view >= 1 /\ st[q].view - 1 \in Certified
  <2> SUFFICES ASSUME NEW q \in Replica
               PROVE  st[q].view \in Nat /\ st[q].view >= 1 /\ st[q].view - 1 \in Certified
    OBVIOUS
  <2>1. st[q].view \in Nat
    BY ViewNat DEF TypeOK, ReplicaState
  <2>2. Backed(st[q])
    BY DEF CertInv, Backing
  <2> QED  BY <2>1, <2>2 DEF Backed
<1>2. CASE st[r].view - 1 = 0
  <2>1. near = Replica
    BY <1>1, <1>2
  <2> QED  BY <2>1, ReplicaFinite, QuorumSizes, NReplicasAssumption
<1>3. CASE st[r].view - 1 # 0
  <2>1. PICK m \in Sent("qc") : m.blk.view = st[r].view - 1
    BY <1>1, <1>3 DEF Certified
  <2> DEFINE S == st[m.from].voted[m.blk]
  <2>2. /\ S \in SUBSET Replica /\ Cardinality(S) >= NResponsive
        /\ \A q \in S : m.blk.view <= st[q].view
    BY VotersAreThere
  <2> HIDE DEF S
  <2>3. S \subseteq near
    BY <1>1, <2>1, <2>2
  <2>4. near \subseteq Replica /\ IsFiniteSet(near)
    BY ReplicaFinite, FS_Subset
  <2>5. Cardinality(S) <= Cardinality(near)
    BY <2>3, <2>4, FS_Subset
  <2>6. Cardinality(S) \in Nat /\ Cardinality(near) \in Nat
    BY <2>3, <2>4, FS_Subset, FS_CardinalityType
  <2> QED  BY <2>2, <2>5, <2>6, QuorumSizes
<1> QED  BY <1>2, <1>3

\* _try_enter_view takes a certificate of the view it leaves, and behind that are
\* the votes of a quorum that has got to the view.
THEOREM NobodyRunsAhead == Spec => []QuorumKeepsUp
<1> QED  BY TypeCorrect, CertInvariance, KeepsUp, PTL

\* Up to four replicas every vote is needed: then nobody is more than one view
\* ahead of anybody.
THEOREM FourGoTogether ==
  ASSUME NReplicas <= 4
  PROVE  Spec => []Lockstep
<1>1. TypeOK /\ QuorumKeepsUp => Lockstep
  <2> SUFFICES ASSUME TypeOK, QuorumKeepsUp, NEW r \in Replica, NEW q \in Replica
               PROVE  st[r].view <= st[q].view + 1
    BY DEF Lockstep
  <2> DEFINE near == {p \in Replica : st[r].view <= st[p].view + 1}
  <2>1. Cardinality(near) >= Cardinality(Replica)
    BY ReplicaFinite, QuorumSizes DEF QuorumKeepsUp
  <2>2. near \subseteq Replica /\ IsFiniteSet(near)
    BY ReplicaFinite, FS_Subset
  <2> HIDE DEF near
  <2>3. near = Replica
    <3>1. Cardinality(near) <= Cardinality(Replica)
          /\ (Cardinality(near) = Cardinality(Replica) => near = Replica)
      BY <2>2, ReplicaFinite, FS_Subset
    <3>2. Cardinality(near) \in Nat /\ Cardinality(Replica) \in Nat
      BY <2>2, ReplicaFinite, FS_CardinalityType
    <3> QED  BY <2>1, <3>1, <3>2
  <2> QED  BY <2>3 DEF near
<1> QED  BY <1>1, TypeCorrect, NobodyRunsAhead, PTL

\* PMRoundRobinProposer follows HotStuffCore::get_proposer as long as commands,
\* the handler of which restarts it at view 1, come in that view only.
THEOREM PacemakerFollows ==
  ASSUME CommandsInTime
  PROVE  Spec => []PacemakerAgrees
<1>1. CertInv => PacemakerAgrees
  BY DEF CertInv, Rotated, PacemakerAgrees
<1> QED  BY <1>1, CertInvariance, PTL

=============================================================================
