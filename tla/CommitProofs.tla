---------------------------- MODULE CommitProofs ----------------------------
(***************************************************************************)
(* For every number of replicas, while client commands come in the first   *)
(* view only: what replicas commit is the chain up to some block, and no   *)
(* handler but on_receive_share throws.                                    *)
(*                                                                         *)
(* There is one chain (ChainProofs), so a block's ancestors are all blocks *)
(* of earlier views (Linear).  A block gets to check_commit by acks or a   *)
(* certificate, behind which are nresponsive replicas in its view (Ready). *)
(* So what has been decided is closed downwards and the last block         *)
(* executed is in it (Settled); when check_commit looks for it, it is      *)
(* there.  A replica handles the proposal of each view before it leaves    *)
(* the view (Placed), because one of the shares that open the next view    *)
(* is another replica's, and that waits for the proposal (Timed); hence    *)
(* vheight and hqc are below what it proposes.                             *)
(*                                                                         *)
(* There is a lemma per function of the code.  It Commits when it neither  *)
(* takes a proposal nor a certificate, Before is what it does before it    *)
(* calls such a one, and Acts covers all.  CommitInv is an invariant if,   *)
(* of two replicas, none counts a share twice: that is in AgreementProofs. *)
(***************************************************************************)
EXTENDS ChainProofs, WellFoundedInduction

-----------------------------------------------------------------------------
(* The chain.                                                              *)

LEMMA NatMin ==
  ASSUME NEW T \in SUBSET Nat, T # {}
  PROVE  \E x \in T : \A y \in T : x <= y
<1> DEFINE R == OpToRel(<, Nat)
<1>1. IsWellFoundedOn(R, Nat)
  BY NatLessThanWellFounded
<1>2. \A x, y \in Nat : x < y => <<x, y>> \in R
  BY DEF OpToRel
<1> HIDE DEF R
<1>3. PICK x \in T : \A y \in T : ~ (<<y, x>> \in R)
  BY <1>1, WFMin
<1>4. \A y \in T : ~ (y < x)
  BY <1>2, <1>3
<1> QED  BY <1>4

\* One block has a height, and a view.
LEMMA BlocksInLine ==
  ASSUME TypeOK, ChainInv
  PROVE  /\ Genesis \in Known /\ Genesis.view = 0
         /\ \A b \in Known : b \in Block /\ b.view \in Nat /\ b.height = b.view
         /\ \A b, c \in Known : b.view = c.view => b = c
         /\ \A m \in Sent("propose") :
              /\ m.blk \in Known /\ m.blk.view >= 1 /\ m.blk \in Block
              /\ m.parent \in Known /\ m.parent.view = m.blk.view - 1
<1>1. Genesis \in Known /\ Genesis \in Block /\ Genesis.view = 0 /\ Genesis.height = 0
  BY GenesisType DEF Genesis, Known
<1>2. ASSUME NEW m \in Sent("propose")
      PROVE  /\ m.blk \in Known /\ m.blk.view >= 1 /\ m.blk \in Block
             /\ m.blk.height = m.blk.view
             /\ m.parent \in Known /\ m.parent.view = m.blk.view - 1
  BY SentTypes DEF TypeOK, Known, ChainInv, Regular, Proposals
<1>3. \A b \in Known : b = Genesis \/ \E m \in Sent("propose") : b = m.blk
  BY DEF Known
<1>4. \A b \in Known : b \in Block /\ b.height = b.view
  BY <1>1, <1>2, <1>3
<1>5. \A b \in Block : b.view \in Nat
  BY ViewNat DEF Block
<1>6. ASSUME NEW b \in Known, NEW c \in Known, b.view = c.view PROVE b = c
  <2>1. CASE b = Genesis \/ c = Genesis
    BY <1>1, <1>2, <1>3, <1>6, <2>1
  <2>2. CASE b # Genesis /\ c # Genesis
    <3>1. PICK m \in Sent("propose") : b = m.blk
      BY <1>3, <2>2
    <3>2. PICK n \in Sent("propose") : c = n.blk
      BY <1>3, <2>2
    <3> QED  BY <1>6, <3>1, <3>2 DEF ChainInv, OneEach
  <2> QED  BY <2>1, <2>2
<1> QED  BY <1>1, <1>2, <1>4, <1>5, <1>6

\* What the chain of a proposed block is: all that has been proposed before it.
Linear == \A b \in Known : Ancestors[b] = {c \in Known : c.view <= b.view}

LEMMA ChainIsLinear ==
  ASSUME TypeOK, ChainInv
  PROVE  Linear
<1> DEFINE Below(b) == {c \in Known : c.view <= b.view}
           Link(b) == CHOOSE m \in Sent("propose") : m.blk = b
           Body(f) == [b \in Block |-> IF Proposed(b) THEN {b} \cup f[Link(b).parent]
                                       ELSE {b}]
           g == [b \in Block |-> IF b \in Known THEN Below(b) ELSE {b}]
<1>1. ASSUME NEW b \in Block, Proposed(b)
      PROVE  /\ Link(b).parent \in Known /\ Link(b).parent \in Block
             /\ Link(b).parent.view = b.view - 1
             /\ b \in Known /\ b.view >= 1
  <2>1. Link(b) \in Sent("propose") /\ Link(b).blk = b
    BY <1>1 DEF Proposed
  <2> HIDE DEF Link
  <2> QED  BY <2>1, BlocksInLine
<1>2. ASSUME NEW b \in Block, Proposed(b)
      PROVE  {b} \cup Below(Link(b).parent) = Below(b)
  <2> DEFINE p == Link(b).parent
  <2>1. /\ p \in Known /\ p.view = b.view - 1 /\ b \in Known
        /\ \A c \in Known : c.view \in Nat /\ (c.view = b.view => c = b)
    BY <1>1, <1>2, BlocksInLine
  <2> HIDE DEF p
  <2>2. \A c \in Known : c.view <= b.view <=> c = b \/ c.view <= p.view
    BY <2>1
  <2> QED  BY <2>1, <2>2 DEF p
<1>3. ASSUME NEW b \in Known, ~ Proposed(b) PROVE Below(b) = {b}
  <2>1. b = Genesis
    BY <1>3 DEF Known, Proposed
  <2>2. \A c \in Known : c.view \in Nat /\ (c.view = b.view => c = b)
    BY BlocksInLine
  <2> QED  BY <2>1, <2>2, BlocksInLine
<1> HIDE DEF Link, Below
<1>4. g = Body(g)
  <2> SUFFICES ASSUME NEW b \in Block PROVE g[b] = Body(g)[b]
    OBVIOUS
  <2>1. CASE Proposed(b)
    BY <1>1, <1>2, <2>1
  <2>2. CASE ~ Proposed(b)
    BY <1>3, <2>2
  <2> QED  BY <2>1, <2>2
<1>5. Ancestors = Body(Ancestors)
  <2>1. Ancestors = CHOOSE f : f = Body(f)
    BY DEF Ancestors, Link
  <2> HIDE DEF g, Body
  <2> QED  BY <1>4, <2>1
<1>6. \A b \in Block : Ancestors[b] = Body(Ancestors)[b]
  BY <1>5
<1>7. \A b \in Block : Ancestors[b] = IF Proposed(b)
                                      THEN {b} \cup Ancestors[Link(b).parent] ELSE {b}
  BY <1>6
<1> DEFINE bad == {b \in Known : Ancestors[b] # Below(b)}
           T == {b.view : b \in bad}
<1>8. bad = {}
  <2> SUFFICES ASSUME bad # {} PROVE FALSE
    OBVIOUS
  <2>1. T \in SUBSET Nat /\ T # {}
    BY BlocksInLine
  <2>2. PICK x \in T : \A y \in T : x <= y
    <3> HIDE DEF T
    <3> QED  BY <2>1, NatMin
  <2>3. PICK b \in bad : b.view = x /\ \A c \in bad : b.view <= c.view
    BY <2>2
  <2>4. b \in Known /\ b \in Block /\ b.view \in Nat /\ Ancestors[b] # Below(b)
    BY <2>3, BlocksInLine
  <2>5. Proposed(b)
    BY <1>3, <1>7, <2>4
  <2>6. Link(b).parent \notin bad
    BY <1>1, <2>3, <2>4, <2>5
  <2>7. Ancestors[Link(b).parent] = Below(Link(b).parent)
    BY <1>1, <2>4, <2>5, <2>6
  <2> QED  BY <1>2, <1>7, <2>4, <2>5, <2>7
<1> QED  BY <1>8 DEF Linear, Below

-----------------------------------------------------------------------------
(* What every function does.                                               *)

\* Enough replicas have reached the block's view to have certified it.
Attended(v) == Cardinality({q \in Replica : st[q].view >= v}) >= NResponsive
Ready == {b \in Known : Attended(b.view)}

\* The blocks that suspended calls of on_receive_qc are going to ack.
Certs(todo) == {todo[i].blk : i \in {j \in DOMAIN todo : todo[j].at = "view_qc"}}

Proper(m) ==
  /\ m.type = "ack" => m.blk \in Ready
  /\ m.type = "status" => m.to = GetProposer(m.view)
  /\ m.type = "vote" => m.blk.view <= m.view

\* What is committed is the chain up to some block, without a gap.
Settled(s) ==
  /\ s.b_exec \in s.decided /\ s.decided \subseteq Ready
  /\ \A b \in s.decided, c \in Known : c.view <= b.view => c \in s.decided
  /\ Certs(s.todo) \subseteq Ready
  /\ \A m \in s.out : Proper(m)

\* The shares of a view are enough, and reconstruct.
Gathered(shares) == Len(shares) >= NMajority /\ Reconstructs(shares)

\* Shares of a view are taken in the view, others' only once its proposal is there.
Timed(r, s) ==
  /\ s.last_view_proposal_received <= s.view
  /\ \A v \in View : v > s.view => s.view_shares[v] = <<>>
  /\ \A i \in DOMAIN s.view_shares[s.view] :
       s.view_shares[s.view][i] # r => s.last_view_proposal_received = s.view
  /\ s.last_view_shares_received <= s.view /\ s.last_view_beacon_received <= s.view
  /\ (s.last_view_shares_received = s.view \/ s.last_view_beacon_received = s.view)
       => Gathered(s.view_shares[s.view])

\* The highest certificate is of the view at most, unless one of a later view
\* has been taken for the view's.
Low(s) == s.last_view_cert_received <= s.view => s.hqc.view <= s.view

Fit(r, s) == Settled(s) /\ Timed(r, s) /\ Low(s) /\ (s.halted => Spoiled(s))

\* The view is left with its certificate and its shares in hand.
Leaves(r, s, t) ==
  t.view # s.view =>
    /\ t.view = s.view + 1 /\ s.last_view_cert_received = s.view
    /\ Gathered(t.view_shares[s.view])
    /\ \A i \in DOMAIN t.view_shares[s.view] :
         t.view_shares[s.view][i] # r => s.last_view_proposal_received = s.view

Frozen(s, t) ==
  \A v \in View : Len(s.view_shares[v]) >= NMajority => t.view_shares[v] = s.view_shares[v]

\* No proposal is taken or made, and no certificate.
Commits(r, s, t) ==
  /\ t \in ReplicaState /\ Fit(r, t) /\ Leaves(r, s, t) /\ Frozen(s, t)
  /\ s.decided \subseteq t.decided
  /\ t.hqc = s.hqc /\ t.last_view_cert_received = s.last_view_cert_received
  /\ t.last_view_proposal_received = s.last_view_proposal_received
  /\ t.finished_propose = s.finished_propose /\ t.vheight = s.vheight
  /\ ProposalsIn(t.out) \subseteq ProposalsIn(s.out)

LEMMA CommitsTransitive ==
  ASSUME NEW r, NEW s \in ReplicaState, NEW t, NEW u, Commits(r, s, t), Commits(r, t, u)
  PROVE  Commits(r, s, u)
<1>1. s.view \in View /\ s.view \in Nat /\ t.view \in Nat /\ u.view \in Nat
  BY ViewNat DEF Commits, ReplicaState
<1>2. Frozen(s, u)
  BY DEF Commits, Frozen
<1>3. Leaves(r, s, u)
  BY <1>1 DEF Commits, Leaves, Gathered, Frozen
<1> QED  BY <1>2, <1>3 DEF Commits

LEMMA CommitsReflexive ==
  ASSUME NEW r, NEW s \in ReplicaState, Fit(r, s)
  PROVE  Commits(r, s, s)
BY DEF Commits, Leaves, Frozen

-----------------------------------------------------------------------------
(* The functions below _ack, s being the state of replica r.               *)

LEMMA SameCommits ==
  ASSUME NEW r, NEW s \in ReplicaState, Fit(r, s), NEW t \in ReplicaState,
         t.view = s.view, t.hqc = s.hqc,
         t.last_view_cert_received = s.last_view_cert_received,
         t.last_view_proposal_received = s.last_view_proposal_received,
         t.last_view_shares_received = s.last_view_shares_received,
         t.last_view_beacon_received = s.last_view_beacon_received,
         t.finished_propose = s.finished_propose, t.vheight = s.vheight,
         t.view_shares = s.view_shares, t.b_exec = s.b_exec, t.decided = s.decided,
         t.halted = s.halted, Certs(t.todo) \subseteq Ready,
         ProposalsIn(t.out) \subseteq ProposalsIn(s.out),
         \A m \in t.out : Proper(m)
  PROVE  Commits(r, s, t)
<1>1. Settled(t)
  BY DEF Fit, Settled
<1>2. Timed(r, t) /\ Low(t) /\ (t.halted => Spoiled(t))
  BY DEF Fit, Timed, Low, Spoiled
<1>3. Leaves(r, s, t) /\ Frozen(s, t)
  BY DEF Leaves, Frozen
<1> QED  BY <1>1, <1>2, <1>3 DEF Commits, Fit

LEMMA SendCommits ==
  ASSUME NEW r, NEW s \in ReplicaState, Fit(r, s), NEW ms \in SUBSET Message,
         ProposalsIn(ms) = {}, \A m \in ms : Proper(m)
  PROVE  Commits(r, s, Send(s, ms))
<1> DEFINE t == Send(s, ms)
<1>1. /\ t \in ReplicaState /\ t.view = s.view /\ t.hqc = s.hqc
      /\ t.last_view_cert_received = s.last_view_cert_received
      /\ t.last_view_proposal_received = s.last_view_proposal_received
      /\ t.last_view_shares_received = s.last_view_shares_received
      /\ t.last_view_beacon_received = s.last_view_beacon_received
      /\ t.finished_propose = s.finished_propose /\ t.vheight = s.vheight
      /\ t.view_shares = s.view_shares /\ t.b_exec = s.b_exec /\ t.decided = s.decided
      /\ t.halted = s.halted /\ t.todo = s.todo
      /\ t.out = s.out \cup ms
  BY DEF Send, ReplicaState
<1> HIDE DEF t
<1>2. ProposalsIn(t.out) \subseteq ProposalsIn(s.out)
  BY <1>1 DEF ProposalsIn
<1>3. Certs(t.todo) \subseteq Ready /\ \A m \in t.out : Proper(m)
  BY <1>1 DEF Fit, Settled
<1> QED  BY <1>1, <1>2, <1>3, SameCommits DEF t

LEMMA CertsPush ==
  ASSUME NEW todo \in Seq(Frame), NEW f \in Frame
  PROVE  Certs(<<f>> \o todo) \subseteq
           Certs(todo) \cup (IF f.at = "view_qc" THEN {f.blk} ELSE {})
<1> DEFINE longer == <<f>> \o todo
<1> SUFFICES ASSUME NEW i \in DOMAIN longer, longer[i].at = "view_qc"
             PROVE  longer[i].blk \in
                      Certs(todo) \cup (IF f.at = "view_qc" THEN {f.blk} ELSE {})
  BY DEF Certs
<1>1. i \in 1 .. Len(todo) + 1 /\ longer[i] = IF i = 1 THEN f ELSE todo[i - 1]
  OBVIOUS
<1>2. CASE i = 1
  BY <1>1, <1>2
<1>3. CASE i # 1
  <2>1. i - 1 \in DOMAIN todo /\ longer[i] = todo[i - 1]
    BY <1>1, <1>3
  <2> HIDE DEF longer
  <2>2. todo[i - 1].at = "view_qc"
    BY <2>1
  <2> QED  BY <2>1, <2>2 DEF Certs
<1> QED  BY <1>2, <1>3

LEMMA CertsTail ==
  ASSUME NEW todo \in Seq(Frame), todo # <<>>
  PROVE  /\ Certs(Tail(todo)) \subseteq Certs(todo)
         /\ Head(todo).at = "view_qc" => Head(todo).blk \in Certs(todo)
<1>1. ASSUME NEW i \in DOMAIN Tail(todo), Tail(todo)[i].at = "view_qc"
      PROVE  Tail(todo)[i].blk \in Certs(todo)
  <2>1. i + 1 \in DOMAIN todo /\ Tail(todo)[i] = todo[i + 1]
    OBVIOUS
  <2>2. todo[i + 1].at = "view_qc"
    BY <1>1, <2>1
  <2> QED  BY <2>1, <2>2 DEF Certs
<1>2. 1 \in DOMAIN todo /\ Head(todo) = todo[1]
  OBVIOUS
<1> QED  BY <1>1, <1>2 DEF Certs

LEMMA PushCommits ==
  ASSUME NEW r, NEW s \in ReplicaState, Fit(r, s), NEW f \in Frame,
         f.at = "view_qc" => f.blk \in Ready
  PROVE  Commits(r, s, Push(s, f))
<1> DEFINE t == Push(s, f)
<1>1. t \in ReplicaState
  BY PushMoves DEF Moves
<1>2. /\ t.view = s.view /\ t.hqc = s.hqc
      /\ t.last_view_cert_received = s.last_view_cert_received
      /\ t.last_view_proposal_received = s.last_view_proposal_received
      /\ t.last_view_shares_received = s.last_view_shares_received
      /\ t.last_view_beacon_received = s.last_view_beacon_received
      /\ t.finished_propose = s.finished_propose /\ t.vheight = s.vheight
      /\ t.view_shares = s.view_shares /\ t.b_exec = s.b_exec /\ t.decided = s.decided
      /\ t.halted = s.halted /\ t.todo = <<f>> \o s.todo /\ t.out = s.out
      /\ s.todo \in Seq(Frame)
  BY DEF Push, ReplicaState
<1> HIDE DEF t
<1>3. Certs(t.todo) \subseteq Ready /\ \A m \in t.out : Proper(m)
  BY <1>2, CertsPush DEF Fit, Settled
<1> QED  BY <1>1, <1>2, <1>3, SameCommits DEF t

LEMMA PoppedCommits ==
  ASSUME NEW r, NEW s \in ReplicaState, Fit(r, s), s.todo # <<>>
  PROVE  Commits(r, s, Popped(s)) /\ Popped(s) \in ReplicaState
<1> DEFINE t == Popped(s)
<1>1. t \in ReplicaState
  BY PoppedFollows DEF Follows
<1>2. /\ t.view = s.view /\ t.hqc = s.hqc
      /\ t.last_view_cert_received = s.last_view_cert_received
      /\ t.last_view_proposal_received = s.last_view_proposal_received
      /\ t.last_view_shares_received = s.last_view_shares_received
      /\ t.last_view_beacon_received = s.last_view_beacon_received
      /\ t.finished_propose = s.finished_propose /\ t.vheight = s.vheight
      /\ t.view_shares = s.view_shares /\ t.b_exec = s.b_exec /\ t.decided = s.decided
      /\ t.halted = s.halted /\ t.todo = Tail(s.todo) /\ t.out = s.out
      /\ s.todo \in Seq(Frame)
  BY DEF Popped, ReplicaState
<1> HIDE DEF t
<1>3. Certs(t.todo) \subseteq Ready /\ \A m \in t.out : Proper(m)
  BY <1>2, CertsTail DEF Fit, Settled
<1> QED  BY <1>1, <1>2, <1>3, SameCommits DEF t

LEMMA ReadyDown ==
  ASSUME TypeOK, ChainInv, NEW b \in Ready, NEW c \in Known, c.view <= b.view
  PROVE  c \in Ready
<1> DEFINE S == {q \in Replica : st[q].view >= b.view}
           T == {q \in Replica : st[q].view >= c.view}
<1>1. b \in Known /\ Cardinality(S) >= NResponsive
  BY DEF Ready, Attended
<1>2. b.view \in Nat /\ c.view \in Nat
  BY <1>1, BlocksInLine
<1>3. \A q \in Replica : st[q].view \in Nat
  BY ViewNat DEF TypeOK, ReplicaState
<1>4. S \subseteq T /\ T \subseteq Replica
  BY <1>2, <1>3
<1>5. IsFiniteSet(T)
  BY <1>4, ReplicaFinite, FS_Subset
<1> HIDE DEF S, T
<1>6. Cardinality(S) <= Cardinality(T) /\ Cardinality(S) \in Nat /\ Cardinality(T) \in Nat
  BY <1>4, <1>5, FS_Subset, FS_CardinalityType
<1>7. Cardinality(T) >= NResponsive
  BY <1>1, <1>6, QuorumSizes
<1> QED  BY <1>7 DEF Ready, Attended, T

\* Every block of queue is committed, and b last.
Committed(s, b, queue) == [s EXCEPT !.decided = @ \cup queue, !.b_exec = b]

\* check_commit finds the block it stopped at on the branch of every ready block:
\* it never throws "safety breached".
LEMMA CheckCommitCommits ==
  ASSUME TypeOK, ChainInv, NEW r, NEW s \in ReplicaState, Fit(r, s), NEW b \in Ready
  PROVE  /\ Commits(r, s, CheckCommit(s, b))
         /\ \E queue \in SUBSET {c \in Known : c.view <= b.view} :
              CheckCommit(s, b) = Committed(s, b, queue)
<1> DEFINE chain == Ancestors[b] \cap Block
           queue == {a \in chain : a.height > s.b_exec.height}
           rest == chain \ queue
           base == CHOOSE a \in rest : \A c \in rest : c.height <= a.height
           t == [s EXCEPT !.decided = @ \cup queue, !.b_exec = b]
<1>1. b \in Known /\ b \in Block /\ s.b_exec \in Known /\ s.b_exec \in s.decided
  BY BlocksInLine DEF Ready, Fit, Settled
<1>2. \A c \in Known : c \in Block /\ c.view \in Nat /\ c.height = c.view
  BY BlocksInLine
<1>3. chain = {c \in Known : c.view <= b.view}
  BY <1>1, <1>2, ChainIsLinear DEF Linear
<1> HIDE DEF chain
<1>4. /\ queue = {c \in Known : c.view <= b.view /\ c.view > s.b_exec.view}
      /\ rest = {c \in Known : c.view <= b.view /\ c.view <= s.b_exec.view}
  BY <1>1, <1>2, <1>3
<1>5. base \in s.decided
  <2>1. \E a \in rest : \A c \in rest : c.height <= a.height
    <3>1. CASE b.view <= s.b_exec.view
      <4>1. b \in rest /\ \A c \in rest : c.height <= b.height
        BY <1>1, <1>2, <1>4, <3>1
      <4> QED  BY <4>1
    <3>2. CASE s.b_exec.view <= b.view
      <4>1. s.b_exec \in rest /\ \A c \in rest : c.height <= s.b_exec.height
        BY <1>1, <1>2, <1>4, <3>2
      <4> QED  BY <4>1
    <3> QED  BY <1>1, <1>2, <3>1, <3>2
  <2> HIDE DEF rest
  <2>2. base \in rest
    BY <2>1
  <2> HIDE DEF base
  <2> QED  BY <1>1, <1>4, <2>2 DEF Fit, Settled
<1>6. CheckCommit(s, b) = t
  BY <1>5 DEF CheckCommit, chain
<1>12. \E S \in SUBSET {c \in Known : c.view <= b.view} :
         CheckCommit(s, b) = Committed(s, b, S)
  <2> HIDE DEF rest, base
  <2>1. queue \in SUBSET {c \in Known : c.view <= b.view}
    BY <1>4
  <2> QED  BY <1>6, <2>1 DEF Committed
<1> HIDE DEF rest, base, queue
<1>7. queue \in SUBSET Block
  BY <1>2, <1>4
<1>8. /\ t \in ReplicaState /\ t.view = s.view /\ t.hqc = s.hqc
      /\ t.last_view_cert_received = s.last_view_cert_received
      /\ t.last_view_proposal_received = s.last_view_proposal_received
      /\ t.last_view_shares_received = s.last_view_shares_received
      /\ t.last_view_beacon_received = s.last_view_beacon_received
      /\ t.finished_propose = s.finished_propose /\ t.vheight = s.vheight
      /\ t.view_shares = s.view_shares /\ t.b_exec = b /\ t.decided = s.decided \cup queue
      /\ t.halted = s.halted /\ t.todo = s.todo /\ t.out = s.out
  BY <1>1, <1>7 DEF ReplicaState
<1> HIDE DEF t
<1>9. Settled(t)
  <2>1. b \in t.decided
    BY <1>1, <1>2, <1>4, <1>8 DEF Fit, Settled
  <2>2. t.decided \subseteq Ready
    BY <1>4, <1>8, ReadyDown DEF Fit, Settled
  <2>3. ASSUME NEW d \in t.decided, NEW c \in Known, c.view <= d.view PROVE c \in t.decided
    <3>1. d \in Known
      BY <2>2 DEF Ready
    <3>2. CASE d \in s.decided
      BY <1>8, <2>3, <3>2 DEF Fit, Settled
    <3>3. CASE d \in queue
      <4>1. c.view \in Nat /\ d.view \in Nat /\ b.view \in Nat /\ s.b_exec.view \in Nat
        BY <1>1, <1>2, <3>1
      <4>2. c \in queue \/ c.view <= s.b_exec.view
        BY <1>4, <2>3, <3>3, <4>1
      <4> QED  BY <1>1, <1>8, <4>2 DEF Fit, Settled
    <3> QED  BY <1>8, <3>2, <3>3
  <2> QED  BY <1>8, <2>1, <2>2, <2>3 DEF Fit, Settled
<1>10. Timed(r, t) /\ Low(t) /\ (t.halted => Spoiled(t))
  BY <1>8 DEF Fit, Timed, Low, Spoiled
<1>11. Leaves(r, s, t) /\ Frozen(s, t)
  BY <1>8 DEF Leaves, Frozen
<1> QED  BY <1>6, <1>8, <1>9, <1>10, <1>11, <1>12 DEF Commits, Fit

LEMMA ThrowCommits ==
  ASSUME NEW r, NEW s \in ReplicaState, Fit(r, s), Spoiled(s)
  PROVE  Commits(r, s, Throw(s))
<1> DEFINE t == Throw(s)
<1>1. t \in ReplicaState
  BY ThrowLeads DEF Leads, Moves
<1>2. /\ t.view = s.view /\ t.hqc = s.hqc
      /\ t.last_view_cert_received = s.last_view_cert_received
      /\ t.last_view_proposal_received = s.last_view_proposal_received
      /\ t.last_view_shares_received = s.last_view_shares_received
      /\ t.last_view_beacon_received = s.last_view_beacon_received
      /\ t.finished_propose = s.finished_propose /\ t.vheight = s.vheight
      /\ t.view_shares = s.view_shares /\ t.b_exec = s.b_exec /\ t.decided = s.decided
      /\ t.todo = <<>> /\ t.out = s.out
  BY DEF Throw, ReplicaState
<1> HIDE DEF t
<1>3. Settled(t)
  <2>1. Certs(t.todo) = {}
    BY <1>2 DEF Certs
  <2> QED  BY <1>2, <2>1 DEF Fit, Settled
<1>4. Timed(r, t) /\ Low(t) /\ Spoiled(t)
  BY <1>2 DEF Fit, Timed, Low, Spoiled
<1>5. Leaves(r, s, t) /\ Frozen(s, t)
  BY <1>2 DEF Leaves, Frozen
<1> QED  BY <1>1, <1>2, <1>3, <1>4, <1>5 DEF Commits, Fit, t

LEMMA TryEnterViewCommits ==
  ASSUME NEW r, NEW s \in ReplicaState, Fit(r, s)
  PROVE  Commits(r, s, TryEnterView(s))
<1> DEFINE p == GetProposer(s.view + 1)
           t == [s EXCEPT !.view = s.view + 1, !.pm_proposer = p]
           f == [at |-> "enter_view", view |-> s.view + 1, blk |-> Genesis,
                 vote |-> FALSE, proposer |-> p]
<1>1. CASE TryEnterView(s) = s
  BY <1>1, CommitsReflexive
<1>2. CASE TryEnterView(s) # s
  <2>1. /\ s.last_view_cert_received = s.view /\ TryEnterView(s) = Push(t, f)
        /\ \/ s.last_view_shares_received = s.view
           \/ s.last_view_beacon_received = s.view
    BY <1>2 DEF TryEnterView, EnterView, ReplicaState
  <2>2. s.view \in Nat /\ s.view \in View /\ s.view + 1 \in View
    <3>1. s.view \in 0 .. MaxView
      BY <2>1 DEF ReplicaState
    <3> HIDE DEF p, t, f
    <3>2. MaxView \in Nat
      BY NReplicasAssumption, BoundsAssumption
    <3> QED  BY <3>1, <3>2 DEF View
  <2>3. p \in Replica
    BY <2>2, ProposerType
  <2> HIDE DEF p
  <2>4. /\ t \in ReplicaState /\ t.view = s.view + 1 /\ t.hqc = s.hqc
        /\ t.last_view_cert_received = s.last_view_cert_received
        /\ t.last_view_proposal_received = s.last_view_proposal_received
        /\ t.last_view_shares_received = s.last_view_shares_received
        /\ t.last_view_beacon_received = s.last_view_beacon_received
        /\ t.finished_propose = s.finished_propose /\ t.vheight = s.vheight
        /\ t.view_shares = s.view_shares /\ t.b_exec = s.b_exec
        /\ t.decided = s.decided /\ t.halted = s.halted /\ t.todo = s.todo
        /\ t.out = s.out
    BY <2>2, <2>3 DEF ReplicaState
  <2>5. f \in Frame /\ f.at = "enter_view"
    BY <2>2, <2>3, GenesisType DEF Frame
  <2> HIDE DEF t, f
  <2>6. Settled(t) /\ (t.halted => Spoiled(t))
    BY <2>4 DEF Fit, Settled, Spoiled
  <2>7. Timed(r, t) /\ Low(t)
    <3>1. /\ s.last_view_proposal_received \in Nat
          /\ s.last_view_shares_received \in Nat /\ s.last_view_beacon_received \in Nat
          /\ s.hqc.view \in Nat /\ \A v \in View : v \in Nat
      BY ViewNat DEF Block, ReplicaState
    <3>2. t.view_shares[t.view] = <<>>
      BY <2>2, <2>4 DEF Fit, Timed
    <3>3. Timed(r, t)
      BY <2>2, <2>4, <3>1, <3>2 DEF Fit, Timed
    <3>4. Low(t)
      BY <2>1, <2>2, <2>4, <3>1 DEF Fit, Low
    <3> QED  BY <3>3, <3>4
  <2>8. Leaves(r, s, t) /\ Frozen(s, t)
    BY <2>1, <2>4 DEF Fit, Timed, Leaves, Frozen
  <2>9. Commits(r, s, t)
    BY <2>4, <2>6, <2>7, <2>8 DEF Commits, Fit
  <2>10. Commits(r, t, Push(t, f))
    BY <2>5, <2>9, PushCommits DEF Commits
  <2> QED  BY <2>1, <2>9, <2>10, CommitsTransitive DEF Commits
<1> QED  BY <1>1, <1>2

LEMMA MajorityNat == NMajority \in Nat /\ NMajority >= 1 /\ NFaulty + 1 <= NMajority
<1>1. NReplicas \in Nat /\ NReplicas >= 2
  BY NReplicasAssumption
<1> QED  BY <1>1 DEF NMajority, NFaulty

\* A share of a view the replica has reached; one of another replica, with the
\* view's proposal.
Due(r, s, origin, v) ==
  /\ origin \in Replica /\ v \in View /\ v <= s.view
  /\ origin # r => s.last_view_proposal_received >= v

LEMMA OnReceiveShareCommits ==
  ASSUME NEW r \in Replica, NEW s \in ReplicaState, Fit(r, s),
         NEW origin, NEW v, Due(r, s, origin, v)
  PROVE  Commits(r, s, OnReceiveShare(s, r, origin, v))
<1> DEFINE t == [s EXCEPT !.view_shares[v] = Append(@, origin)]
           beacon == [type |-> "beacon", from |-> r, view |-> t.view]
           sent == Send(t, {beacon})
           u == [sent EXCEPT !.last_view_shares_received = t.view,
                             !.last_view_beacon_received = t.view]
<1>1. CASE OnReceiveShare(s, r, origin, v) = s
  BY <1>1, CommitsReflexive
<1>2. CASE OnReceiveShare(s, r, origin, v) # s
  <2>1. s.view \in View /\ s.view \in Nat /\ v \in View /\ v \in Nat /\ origin \in Replica
    BY ViewNat DEF ReplicaState, Due
  <2>2. v = s.view /\ Len(s.view_shares[v]) < NMajority
    <3>1. v >= s.view /\ ~ (Len(s.view_shares[v]) >= NMajority)
      BY <1>2, <2>1 DEF OnReceiveShare
    <3>2. Len(s.view_shares[v]) \in Nat
      BY <2>1 DEF ReplicaState
    <3> QED  BY <2>1, <3>1, <3>2, MajorityNat DEF Due
  <2>3. \/ OnReceiveShare(s, r, origin, v) = t
        \/ /\ Len(t.view_shares[v]) = NMajority /\ ~ Reconstructs(t.view_shares[v])
           /\ OnReceiveShare(s, r, origin, v) = Throw(t)
        \/ /\ Len(t.view_shares[v]) = NMajority /\ Reconstructs(t.view_shares[v])
           /\ OnReceiveShare(s, r, origin, v) = TryEnterView(u)
    BY <1>2 DEF OnReceiveShare
  <2>4. /\ t \in ReplicaState /\ t.view = s.view /\ t.hqc = s.hqc
        /\ t.last_view_cert_received = s.last_view_cert_received
        /\ t.last_view_proposal_received = s.last_view_proposal_received
        /\ t.last_view_shares_received = s.last_view_shares_received
        /\ t.last_view_beacon_received = s.last_view_beacon_received
        /\ t.finished_propose = s.finished_propose /\ t.vheight = s.vheight
        /\ t.b_exec = s.b_exec /\ t.decided = s.decided /\ t.halted = s.halted
        /\ t.todo = s.todo /\ t.out = s.out
        /\ t.view_shares[v] = Append(s.view_shares[v], origin)
        /\ s.view_shares[v] \in Seq(Replica)
        /\ \A w \in View : w # v => t.view_shares[w] = s.view_shares[w]
    <3>1. s.view_shares[v] \in Seq(Replica)
      BY <2>1 DEF ReplicaState
    <3>2. Append(s.view_shares[v], origin) \in Seq(Replica)
      BY <2>1, <3>1
    <3>3. [s.view_shares EXCEPT ![v] = Append(@, origin)] \in [View -> Seq(Replica)]
      BY <2>1, <3>2 DEF ReplicaState
    <3>4. t \in ReplicaState
      BY <3>3 DEF ReplicaState
    <3> QED  BY <2>1, <3>1, <3>4 DEF ReplicaState
  <2> HIDE DEF t
  <2>5. Settled(t) /\ Low(t)
    BY <2>4 DEF Fit, Settled, Low
  <2>6. Timed(r, t)
    <3>1. \A i \in DOMAIN t.view_shares[v] :
            t.view_shares[v][i] = origin
              \/ (i \in DOMAIN s.view_shares[v] /\ t.view_shares[v][i] = s.view_shares[v][i])
      BY <2>1, <2>4
    <3>2. s.last_view_proposal_received \in Nat
      BY ViewNat DEF ReplicaState
    <3>3. \A i \in DOMAIN t.view_shares[v] :
            t.view_shares[v][i] # r => s.last_view_proposal_received = s.view
      BY <2>1, <2>2, <3>1, <3>2 DEF Fit, Timed, Due
    <3>4. ~ (s.last_view_shares_received = s.view \/ s.last_view_beacon_received = s.view)
      <4>1. Len(s.view_shares[v]) \in Nat
        BY <2>4
      <4> QED  BY <2>2, <4>1, MajorityNat DEF Fit, Timed, Gathered
    <3>5. \A w \in View : w > t.view => t.view_shares[w] = <<>>
      BY <2>1, <2>2, <2>4 DEF Fit, Timed
    <3> QED  BY <2>2, <2>4, <3>3, <3>4, <3>5 DEF Fit, Timed
  <2>7. t.halted => Spoiled(t)
    <3>1. ASSUME NEW w \in View, Len(s.view_shares[w]) = NMajority
          PROVE  w # v
      BY <2>2, <3>1, MajorityNat
    <3> QED  BY <2>4, <3>1 DEF Fit, Spoiled
  <2>8. Leaves(r, s, t) /\ Frozen(s, t)
    <3>1. ASSUME NEW w \in View, Len(s.view_shares[w]) >= NMajority
          PROVE  w # v
      <4>1. Len(s.view_shares[v]) \in Nat
        BY <2>4
      <4> QED  BY <2>2, <3>1, <4>1, MajorityNat
    <3> QED  BY <2>4, <3>1 DEF Leaves, Frozen
  <2>9. Commits(r, s, t)
    BY <2>4, <2>5, <2>6, <2>7, <2>8 DEF Commits, Fit
  <2>10. CASE OnReceiveShare(s, r, origin, v) = t
    BY <2>9, <2>10
  <2>11. CASE /\ Len(t.view_shares[v]) = NMajority /\ ~ Reconstructs(t.view_shares[v])
              /\ OnReceiveShare(s, r, origin, v) = Throw(t)
    <3>1. Spoiled(t)
      BY <2>1, <2>11 DEF Spoiled
    <3>2. Commits(r, t, Throw(t))
      BY <2>9, <3>1, ThrowCommits DEF Commits
    <3> QED  BY <2>9, <2>11, <3>2, CommitsTransitive
  <2>12. CASE /\ Len(t.view_shares[v]) = NMajority /\ Reconstructs(t.view_shares[v])
              /\ OnReceiveShare(s, r, origin, v) = TryEnterView(u)
    <3>1. Gathered(t.view_shares[t.view])
      BY <2>2, <2>4, <2>12, MajorityNat DEF Gathered
    <3>2. /\ {beacon} \in SUBSET Message /\ ProposalsIn({beacon}) = {}
          /\ \A m \in {beacon} : Proper(m)
      BY <2>1, <2>4 DEF Message, Beacons, ProposalsIn, Proper
    <3> HIDE DEF beacon
    <3>3. Commits(r, t, sent)
      BY <2>9, <3>2, SendCommits DEF Commits
    <3>4. /\ sent.view = t.view /\ sent.view_shares = t.view_shares
      BY DEF Send, ReplicaState
    <3> HIDE DEF sent
    <3>5. sent \in ReplicaState
      BY <3>3 DEF Commits
    <3>6. /\ u \in ReplicaState /\ u.view = sent.view /\ u.hqc = sent.hqc
          /\ u.last_view_cert_received = sent.last_view_cert_received
          /\ u.last_view_proposal_received = sent.last_view_proposal_received
          /\ u.last_view_shares_received = t.view
          /\ u.last_view_beacon_received = t.view
          /\ u.finished_propose = sent.finished_propose /\ u.vheight = sent.vheight
          /\ u.view_shares = sent.view_shares
          /\ u.b_exec = sent.b_exec /\ u.decided = sent.decided
          /\ u.halted = sent.halted /\ u.todo = sent.todo /\ u.out = sent.out
      BY <2>1, <2>4, <3>5 DEF ReplicaState
    <3> HIDE DEF u
    <3>7. Fit(r, u)
      <4>1. Fit(r, sent) /\ t.view \in Nat
        BY <2>1, <2>4, <3>3 DEF Commits
      <4>2. Settled(u) /\ Low(u) /\ (u.halted => Spoiled(u))
        BY <3>6, <4>1 DEF Fit, Settled, Low, Spoiled
      <4>3. Timed(r, u)
        BY <3>1, <3>4, <3>6, <4>1 DEF Fit, Timed
      <4> QED  BY <4>2, <4>3 DEF Fit
    <3>8. Commits(r, sent, u)
      BY <3>6, <3>7 DEF Commits, Leaves, Frozen
    <3>9. Commits(r, u, TryEnterView(u))
      BY <3>6, <3>7, TryEnterViewCommits
    <3> QED
      BY <2>4, <2>9, <2>12, <3>3, <3>5, <3>6, <3>8, <3>9, CommitsTransitive
  <2> QED  BY <2>3, <2>10, <2>11, <2>12
<1> QED  BY <1>1, <1>2

LEMMA BroadcastShareCommits ==
  ASSUME NEW r \in Replica, NEW s \in ReplicaState, Fit(r, s), NEW b \in Block
  PROVE  Commits(r, s, BroadcastShare(s, r, b))
<1> DEFINE t == OnReceiveShare(s, r, r, s.view)
           shares == {[type |-> "share", from |-> r, to |-> q,
                       view |-> s.view, blk |-> b] : q \in Replica \ {r}}
<1>1. s.view \in View /\ s.view \in Nat
  BY ViewNat DEF ReplicaState
<1>2. Commits(r, s, t)
  BY <1>1, OnReceiveShareCommits DEF Due
<1>3. /\ shares \in SUBSET Message /\ ProposalsIn(shares) = {}
      /\ \A m \in shares : Proper(m)
  BY <1>1 DEF Message, Shares, ProposalsIn, Proper
<1>4. BroadcastShare(s, r, b) = t \/ BroadcastShare(s, r, b) = Send(t, shares)
  BY DEF BroadcastShare
<1> HIDE DEF t, shares
<1>5. Commits(r, t, Send(t, shares))
  BY <1>2, <1>3, SendCommits DEF Commits
<1> QED  BY <1>2, <1>4, <1>5, CommitsTransitive

LEMMA OnReceiveAckCommits ==
  ASSUME TypeOK, ChainInv, NEW r \in Replica, NEW s \in ReplicaState, Fit(r, s),
         NEW b \in Ready, NEW voter \in Replica, NEW v \in View
  PROVE  Commits(r, s, OnReceiveAck(s, r, b, voter, v))
<1> DEFINE t == [s EXCEPT !.acked[b] = @ \cup {voter}]
           u == CheckCommit(t, b)
<1>1. b \in Block
  BY BlocksInLine DEF Ready
<1>2. /\ t \in ReplicaState /\ t.view = s.view /\ t.hqc = s.hqc
      /\ t.last_view_cert_received = s.last_view_cert_received
      /\ t.last_view_proposal_received = s.last_view_proposal_received
      /\ t.last_view_shares_received = s.last_view_shares_received
      /\ t.last_view_beacon_received = s.last_view_beacon_received
      /\ t.finished_propose = s.finished_propose /\ t.vheight = s.vheight
      /\ t.view_shares = s.view_shares /\ t.b_exec = s.b_exec /\ t.decided = s.decided
      /\ t.halted = s.halted /\ t.todo = s.todo /\ t.out = s.out
  BY <1>1 DEF ReplicaState
<1>3. OnReceiveAck(s, r, b, voter, v) \in {s, t, u, BroadcastShare(u, r, b)}
  BY DEF OnReceiveAck
<1> HIDE DEF t
<1>4. Commits(r, s, t)
  BY <1>2, SameCommits DEF Fit, Settled
<1>5. Commits(r, t, u)
  BY <1>2, <1>4, CheckCommitCommits DEF Commits
<1> HIDE DEF u
<1>6. Commits(r, u, BroadcastShare(u, r, b))
  BY <1>1, <1>5, BroadcastShareCommits DEF Commits
<1>7. Commits(r, s, u)
  BY <1>4, <1>5, CommitsTransitive
<1>8. Commits(r, s, BroadcastShare(u, r, b))
  BY <1>6, <1>7, CommitsTransitive
<1> QED  BY <1>3, <1>4, <1>7, <1>8, CommitsReflexive

LEMMA AckCommits ==
  ASSUME TypeOK, ChainInv, NEW r \in Replica, NEW s \in ReplicaState, Fit(r, s),
         NEW b \in Ready
  PROVE  Commits(r, s, Ack(s, r, b))
<1> DEFINE t == OnReceiveAck(s, r, b, r, s.view)
           ack == [type |-> "ack", from |-> r, blk |-> b, view |-> s.view]
<1>1. s.view \in View /\ b \in Block
  BY BlocksInLine DEF Ready, ReplicaState
<1>2. Commits(r, s, t)
  BY <1>1, OnReceiveAckCommits
<1>3. /\ {ack} \in SUBSET Message /\ ProposalsIn({ack}) = {}
      /\ \A m \in {ack} : Proper(m)
  BY <1>1 DEF Message, Acks, ProposalsIn, Proper
<1>4. Ack(s, r, b) = t \/ Ack(s, r, b) = Send(t, {ack})
  BY DEF Ack
<1> HIDE DEF t, ack
<1>5. Commits(r, t, Send(t, {ack}))
  BY <1>2, <1>3, SendCommits DEF Commits
<1> QED  BY <1>2, <1>4, <1>5, CommitsTransitive

-----------------------------------------------------------------------------
(* The functions that take, make or certify a proposal.                    *)

\* r has the proposal b of its view now, its own or another's.
Takes(b, s, t) ==
  /\ b \in Known \cup {m.blk : m \in ProposalsIn(t.out)}
  /\ b.view = s.view /\ t.view = s.view
  /\ t.last_view_proposal_received = s.view
  /\ t.finished_propose = s.finished_propose \cup {b}
  /\ t.vheight \in {s.vheight, b.height}

TakesNone(s, t) ==
  /\ t.last_view_proposal_received = s.last_view_proposal_received
  /\ t.finished_propose = s.finished_propose /\ t.vheight = s.vheight

Acts(r, s, t) ==
  /\ t \in ReplicaState /\ Fit(r, t) /\ Leaves(r, s, t)
  /\ t.view # s.view => t.hqc.view <= s.view
  /\ s.decided \subseteq t.decided
  /\ TakesNone(s, t) \/ \E b : Takes(b, s, t)
  /\ ProposalsIn(t.out) # {} => t.view = s.view /\ t.decided = s.decided

\* From s to t nothing of that has happened.
Before(r, s, t) ==
  /\ t \in ReplicaState /\ Fit(r, t) /\ TakesNone(s, t)
  /\ t.view = s.view /\ t.decided = s.decided /\ t.view_shares = s.view_shares
  /\ t.last_view_cert_received = s.last_view_cert_received
  /\ ProposalsIn(t.out) = {}

LEMMA ActsAfter ==
  ASSUME NEW r, NEW s, NEW t, NEW u, Before(r, s, t), Acts(r, t, u)
  PROVE  Acts(r, s, u)
<1>1. Leaves(r, s, u)
  BY DEF Before, TakesNone, Acts, Leaves
<1>2. ASSUME NEW b, Takes(b, t, u) PROVE Takes(b, s, u)
  BY <1>2 DEF Before, TakesNone, Takes
<1>3. TakesNone(t, u) => TakesNone(s, u)
  BY DEF Before, TakesNone
<1> QED  BY <1>1, <1>2, <1>3 DEF Before, Acts

LEMMA CommitsActs ==
  ASSUME NEW r, NEW s \in ReplicaState, NEW t, Fit(r, s), ProposalsIn(s.out) = {},
         Commits(r, s, t)
  PROVE  Acts(r, s, t)
<1>1. s.view \in Nat
  BY ViewNat DEF ReplicaState
<1>2. t.view # s.view => t.hqc.view <= s.view
  BY <1>1 DEF Commits, Leaves, Fit, Low
<1> QED  BY <1>2 DEF Commits, Acts, TakesNone

LEMMA BeforeActs ==
  ASSUME NEW r, NEW s, NEW t, Before(r, s, t)
  PROVE  Acts(r, s, t)
BY DEF Before, Acts, Leaves

LEMMA BeforeReflexive ==
  ASSUME NEW r, NEW s \in ReplicaState, Fit(r, s), ProposalsIn(s.out) = {}
  PROVE  Before(r, s, s)
BY DEF Before, TakesNone

LEMMA BeforeTransitive ==
  ASSUME NEW r, NEW s, NEW t, NEW u, Before(r, s, t), Before(r, t, u)
  PROVE  Before(r, s, u)
BY DEF Before, TakesNone

LEMMA CommitsBefore ==
  ASSUME NEW r, NEW s, NEW t, ProposalsIn(s.out) = {}, Commits(r, s, t),
         t.view = s.view, t.decided = s.decided, t.view_shares = s.view_shares
  PROVE  Before(r, s, t)
BY DEF Commits, Before, TakesNone

LEMMA UpdateHqcBefore ==
  ASSUME NEW r, NEW s \in ReplicaState, Fit(r, s), ProposalsIn(s.out) = {},
         NEW b \in Block, s.last_view_cert_received <= s.view => b.view <= s.view,
         NEW t, t = UpdateHqc(s, b)
  PROVE  /\ Before(r, s, t) /\ t.out = s.out /\ t.todo = s.todo /\ t.voted = s.voted
         /\ t.pm_proposer = s.pm_proposer
         /\ t.last_proposed_view = s.last_proposed_view
<1>1. t \in ReplicaState
  BY UpdateHqcLeads DEF Leads, Moves
<1>2. /\ t.view = s.view /\ t.hqc \in {s.hqc, b}
      /\ t.last_view_cert_received = s.last_view_cert_received
      /\ t.last_view_proposal_received = s.last_view_proposal_received
      /\ t.last_view_shares_received = s.last_view_shares_received
      /\ t.last_view_beacon_received = s.last_view_beacon_received
      /\ t.finished_propose = s.finished_propose /\ t.vheight = s.vheight
      /\ t.view_shares = s.view_shares /\ t.b_exec = s.b_exec
      /\ t.decided = s.decided /\ t.halted = s.halted /\ t.todo = s.todo
      /\ t.out = s.out /\ t.voted = s.voted /\ t.pm_proposer = s.pm_proposer
      /\ t.last_proposed_view = s.last_proposed_view
  BY DEF UpdateHqc, Block, ReplicaState
<1>3. Settled(t) /\ (t.halted => Spoiled(t))
  BY <1>2 DEF Fit, Settled, Spoiled
<1>4. Timed(r, t) /\ Low(t)
  BY <1>2 DEF Fit, Timed, Low
<1> QED  BY <1>1, <1>2, <1>3, <1>4 DEF Before, Fit, TakesNone

LEMMA OnReceiveVoteActs ==
  ASSUME TypeOK, ChainInv, NEW r \in Replica, NEW s \in ReplicaState, Fit(r, s),
         ProposalsIn(s.out) = {}, NEW b \in Known, b.view <= s.view,
         NEW voter \in Replica, NEW v \in View,
         Cardinality(s.voted[b] \cup {voter}) >= NResponsive => b \in Ready
  PROVE  Acts(r, s, OnReceiveVote(s, r, b, voter, v))
<1> DEFINE a == [s EXCEPT !.voted[b] = @ \cup {voter}]
           u == UpdateHqc(a, b)
           qc == [type |-> "qc", from |-> r, blk |-> b]
           w == Send(u, {qc})
           t == OnReceiveVote(s, r, b, voter, v)
<1>1. b \in Block
  BY BlocksInLine
<1>2. \/ t \in {s, a}
      \/ t = Ack(w, r, b) /\ Cardinality(s.voted[b] \cup {voter}) >= NResponsive
  <2>1. a.voted[b] = s.voted[b] \cup {voter}
    BY <1>1 DEF ReplicaState
  <2> QED  BY <2>1, QuorumSizes DEF OnReceiveVote
<1>3. /\ a \in ReplicaState /\ a.view = s.view /\ a.hqc = s.hqc
      /\ a.last_view_cert_received = s.last_view_cert_received
      /\ a.last_view_proposal_received = s.last_view_proposal_received
      /\ a.last_view_shares_received = s.last_view_shares_received
      /\ a.last_view_beacon_received = s.last_view_beacon_received
      /\ a.finished_propose = s.finished_propose /\ a.vheight = s.vheight
      /\ a.view_shares = s.view_shares /\ a.b_exec = s.b_exec /\ a.decided = s.decided
      /\ a.halted = s.halted /\ a.todo = s.todo /\ a.out = s.out
  BY <1>1 DEF ReplicaState
<1> SUFFICES Acts(r, s, t)
  OBVIOUS
<1> HIDE DEF a, t
<1>4. Before(r, s, a)
  <2>1. Commits(r, s, a)
    BY <1>3, SameCommits DEF Fit, Settled
  <2> QED  BY <1>3, <2>1, CommitsBefore
<1>5. Before(r, a, u) /\ u.out = a.out
  BY <1>1, <1>3, <1>4, UpdateHqcBefore DEF Before
<1> HIDE DEF u
<1>6. Before(r, u, w)
  <2>1. /\ {qc} \in SUBSET Message /\ ProposalsIn({qc}) = {}
        /\ \A m \in {qc} : Proper(m)
    BY <1>1 DEF Message, Certificates, ProposalsIn, Proper
  <2> HIDE DEF qc
  <2>2. Commits(r, u, w)
    BY <1>5, <2>1, SendCommits DEF Before
  <2>3. u \in ReplicaState
    BY <1>5 DEF Before
  <2>4. w.view = u.view /\ w.decided = u.decided /\ w.view_shares = u.view_shares
    BY <2>3 DEF Send, ReplicaState
  <2> QED  BY <1>5, <2>2, <2>4, CommitsBefore DEF Before
<1> HIDE DEF w
<1>7. CASE t \in {s, a}
  BY <1>4, <1>7, BeforeActs, BeforeReflexive
<1>8. CASE t = Ack(w, r, b) /\ Cardinality(s.voted[b] \cup {voter}) >= NResponsive
  <2>1. b \in Ready
    BY <1>8
  <2>2. Commits(r, w, Ack(w, r, b))
    BY <1>6, <2>1, AckCommits DEF Before
  <2>3. Acts(r, w, Ack(w, r, b))
    BY <1>6, <2>2, CommitsActs DEF Before
  <2>4. Before(r, s, u)
    BY <1>4, <1>5, BeforeTransitive
  <2>5. Before(r, s, w)
    BY <1>6, <2>4, BeforeTransitive
  <2>6. Acts(r, s, Ack(w, r, b))
    BY <2>3, <2>5, ActsAfter
  <2> QED  BY <1>8, <2>6
<1> QED  BY <1>2, <1>7, <1>8

LEMMA VoteActs ==
  ASSUME TypeOK, ChainInv, NEW r \in Replica, NEW s \in ReplicaState, Fit(r, s),
         ProposalsIn(s.out) = {}, NEW b \in Known, b.view <= s.view,
         NEW proposer \in Replica,
         Cardinality(s.voted[b] \cup {r}) >= NResponsive => b \in Ready
  PROVE  Acts(r, s, Vote(s, r, b, proposer))
<1> DEFINE vote == [type |-> "vote", from |-> r, to |-> proposer, blk |-> b,
                    view |-> s.view]
<1>1. s.view \in View /\ b \in Block
  BY BlocksInLine DEF ReplicaState
<1>2. CASE proposer = r
  <2>1. Vote(s, r, b, proposer) = OnReceiveVote(s, r, b, r, s.view)
    BY <1>2 DEF Vote
  <2> QED  BY <1>1, <2>1, OnReceiveVoteActs
<1>3. CASE proposer # r
  <2>1. /\ {vote} \in SUBSET Message /\ ProposalsIn({vote}) = {}
        /\ \A m \in {vote} : Proper(m)
    BY <1>1 DEF Message, Votes, ProposalsIn, Proper
  <2>2. Vote(s, r, b, proposer) = Send(s, {vote})
    BY <1>3 DEF Vote
  <2> HIDE DEF vote
  <2> QED  BY <2>1, <2>2, SendCommits, CommitsActs
<1> QED  BY <1>2, <1>3

LEMMA OnReceiveProposalActs ==
  ASSUME TypeOK, ChainInv, NEW r \in Replica, NEW s \in ReplicaState, Fit(r, s),
         ProposalsIn(s.out) = {}, NEW m \in Sent("propose"),
         m.blk.view = s.view,
         OnReceiveProposal(s, r, m) # s
  PROVE  Acts(r, s, OnReceiveProposal(s, r, m))
<1> DEFINE t == OnReceiveProposal(s, r, m)
           u == UpdateHqc(s, m.qc_ref)
<1>1. /\ m.blk \in Known /\ m.blk \in Block /\ m.qc_ref \in Block
      /\ m.qc_ref.view = m.blk.view - 1 /\ m.blk.view = s.view /\ s.view \in Nat
  BY BlocksInLine, SentTypes, ViewNat DEF TypeOK, Proposals, ChainInv, Regular, ReplicaState
<1>2. t \in ReplicaState
  BY OnReceiveProposalMoves DEF TypeOK, Moves
<1>3. Before(r, s, u) /\ u.out = s.out /\ u.todo = s.todo /\ u \in ReplicaState
  BY <1>1, UpdateHqcBefore DEF Before
<1> DEFINE f == [at |-> "view_proposal", view |-> s.view, blk |-> m.blk,
                 vote |-> /\ ~ \E b \in s.proposals : b.height = m.blk.height /\ b # m.blk
                          /\ u.hqc \in Ancestors[m.blk],
                 proposer |-> m.from]
<1>4. /\ t.view = u.view /\ t.hqc = u.hqc
      /\ t.last_view_cert_received = u.last_view_cert_received
      /\ t.last_view_proposal_received = s.view
      /\ t.last_view_shares_received = u.last_view_shares_received
      /\ t.last_view_beacon_received = u.last_view_beacon_received
      /\ t.finished_propose = u.finished_propose \cup {m.blk}
      /\ t.vheight \in {u.vheight, m.blk.height}
      /\ t.view_shares = u.view_shares /\ t.b_exec = u.b_exec /\ t.decided = u.decided
      /\ t.halted = u.halted /\ t.todo = <<f>> \o u.todo /\ t.out = u.out
  <2>1. m.blk \notin s.finished_propose
    BY DEF OnReceiveProposal
  <2>2. u.finished_propose = s.finished_propose
    BY <1>3 DEF Before, TakesNone
  <2> HIDE DEF u
  <2> QED  BY <1>3, <2>1, <2>2 DEF OnReceiveProposal, Push, ReplicaState, u
<1>5. f \in Frame /\ f.at = "view_proposal"
  BY <1>1, SentTypes DEF TypeOK, Proposals, Frame, ReplicaState
<1> HIDE DEF f, t, u
<1>6. Fit(r, t)
  <2>1. Fit(r, u) /\ u.view = s.view
    BY <1>3 DEF Before
  <2>2. Certs(t.todo) \subseteq Certs(u.todo)
    BY <1>3, <1>4, <1>5, CertsPush DEF ReplicaState
  <2>3. Settled(t) /\ Low(t) /\ (t.halted => Spoiled(t))
    BY <1>4, <2>1, <2>2 DEF Fit, Settled, Low, Spoiled
  <2>4. Timed(r, t)
    BY <1>1, <1>4, <2>1 DEF Fit, Timed
  <2> QED  BY <2>3, <2>4 DEF Fit
<1>7. Leaves(r, s, t)
  BY <1>3, <1>4 DEF Before, Leaves
<1>8. Takes(m.blk, s, t)
  BY <1>1, <1>3, <1>4 DEF Before, TakesNone, Takes
<1>9. ProposalsIn(t.out) = {} /\ s.decided \subseteq t.decided
  BY <1>3, <1>4 DEF Before
<1>10. t.view = s.view
  BY <1>3, <1>4 DEF Before
<1> QED  BY <1>2, <1>6, <1>7, <1>8, <1>9, <1>10 DEF Acts, t

LEMMA OnReceiveQCActs ==
  ASSUME TypeOK, ChainInv, NEW r \in Replica, NEW s \in ReplicaState, Fit(r, s),
         ProposalsIn(s.out) = {}, NEW b \in Ready
  PROVE  Acts(r, s, OnReceiveQC(s, r, b, TRUE))
<1> DEFINE c == [s EXCEPT !.last_view_cert_received = b.view]
           u == UpdateHqc(c, b)
           echo == [type |-> "echo2", from |-> r, blk |-> b]
           w == Send(u, {echo})
           f == [at |-> "view_qc", view |-> s.view, blk |-> b, vote |-> FALSE,
                 proposer |-> r]
           t == OnReceiveQC(s, r, b, TRUE)
<1> SUFFICES Acts(r, s, t)
  OBVIOUS
<1>1. /\ b \in Block /\ b.view \in 0 .. MaxView /\ b.view \in Nat
      /\ s.view \in View /\ s.view \in Nat /\ s.last_view_cert_received \in Nat
      /\ s.hqc.view \in Nat
  BY BlocksInLine, ViewNat DEF Ready, Block, ReplicaState
<1>2. CASE t = s
  BY <1>2, BeforeReflexive, BeforeActs
<1>3. CASE t # s
  <2>1. t = Push(w, f) /\ b.view >= s.view /\ s.last_view_cert_received < s.view
    BY <1>1, <1>3 DEF OnReceiveQC
  <2>2. f \in Frame /\ f.blk = b
    BY <1>1 DEF Frame
  <2>3. /\ c \in ReplicaState /\ c.view = s.view /\ c.hqc = s.hqc
        /\ c.last_view_cert_received = b.view
        /\ c.last_view_proposal_received = s.last_view_proposal_received
        /\ c.last_view_shares_received = s.last_view_shares_received
        /\ c.last_view_beacon_received = s.last_view_beacon_received
        /\ c.finished_propose = s.finished_propose /\ c.vheight = s.vheight
        /\ c.view_shares = s.view_shares /\ c.b_exec = s.b_exec
        /\ c.decided = s.decided /\ c.halted = s.halted /\ c.todo = s.todo
        /\ c.out = s.out
    BY <1>1, ZenonT(40) DEF ReplicaState
  <2> HIDE DEF c, f, t
  <2>4. Fit(r, c)
    <3>1. Settled(c) /\ Timed(r, c) /\ (c.halted => Spoiled(c))
      BY <2>3 DEF Fit, Settled, Timed, Spoiled
    <3>2. Low(c)
      BY <1>1, <2>1, <2>3 DEF Fit, Low
    <3> QED  BY <3>1, <3>2 DEF Fit
  <2>5. Before(r, c, u)
    BY <1>1, <2>3, <2>4, UpdateHqcBefore
  <2> HIDE DEF u
  <2>6. Commits(r, u, w) /\ w.view = u.view /\ ProposalsIn(w.out) = {}
    <3>1. /\ {echo} \in SUBSET Message /\ ProposalsIn({echo}) = {}
          /\ \A m \in {echo} : Proper(m)
      BY <1>1 DEF Message, CertEchoes, ProposalsIn, Proper
    <3> HIDE DEF echo
    <3>2. u \in ReplicaState /\ Fit(r, u) /\ ProposalsIn(u.out) = {}
      BY <2>5 DEF Before
    <3>3. Commits(r, u, w)
      BY <3>1, <3>2, SendCommits
    <3> QED  BY <3>2, <3>3 DEF Send, Commits, ReplicaState
  <2> HIDE DEF w
  <2>7. Commits(r, w, Push(w, f)) /\ Push(w, f).view = w.view
    <3>1. w \in ReplicaState /\ Fit(r, w)
      BY <2>6 DEF Commits
    <3> QED  BY <2>2, <3>1, PushCommits DEF Push, ReplicaState
  <2>8. /\ t.view = s.view /\ TakesNone(s, t) /\ ProposalsIn(t.out) = {}
        /\ s.decided \subseteq t.decided
    BY <2>1, <2>3, <2>5, <2>6, <2>7 DEF Before, Commits, TakesNone
  <2> QED  BY <2>1, <2>7, <2>8 DEF Acts, Leaves, Commits
<1> QED  BY <1>2, <1>3

LEMMA OnReceiveCertEchoActs ==
  ASSUME TypeOK, ChainInv, NEW r \in Replica, NEW s \in ReplicaState, Fit(r, s),
         ProposalsIn(s.out) = {}, NEW idx \in Replica, NEW b \in Ready
  PROVE  Acts(r, s, OnReceiveCertEcho(s, r, idx, b, TRUE))
<1> DEFINE t == [s EXCEPT !.qc_chunks[b.view] = @ \cup {idx}]
           u == [t EXCEPT !.last_cert_decoded_view = s.view, !.qc_chunks[b.view] = {}]
<1>1. b.view \in View /\ s.view \in View
  BY BlocksInLine, ViewNat DEF Ready, Block, ReplicaState
<1>2. OnReceiveCertEcho(s, r, idx, b, TRUE) \in {s, t, OnReceiveQC(u, r, b, TRUE)}
  BY DEF OnReceiveCertEcho
<1>3. t \in ReplicaState
  BY <1>1 DEF ReplicaState
<1>4. Before(r, s, t)
  <2>1. Commits(r, s, t)
    BY <1>3, SameCommits DEF Fit, Settled, ReplicaState
  <2> QED  BY <2>1, CommitsBefore DEF ReplicaState
<1> HIDE DEF t
<1>5. u \in ReplicaState
  BY <1>1, <1>3 DEF ReplicaState
<1>6. Before(r, t, u)
  <2>1. /\ u.view = t.view /\ u.hqc = t.hqc
        /\ u.last_view_cert_received = t.last_view_cert_received
        /\ u.last_view_proposal_received = t.last_view_proposal_received
        /\ u.last_view_shares_received = t.last_view_shares_received
        /\ u.last_view_beacon_received = t.last_view_beacon_received
        /\ u.finished_propose = t.finished_propose /\ u.vheight = t.vheight
        /\ u.view_shares = t.view_shares /\ u.b_exec = t.b_exec
        /\ u.decided = t.decided /\ u.halted = t.halted /\ u.todo = t.todo
        /\ u.out = t.out
    BY <1>3 DEF ReplicaState
  <2> HIDE DEF u
  <2>2. Commits(r, t, u)
    BY <1>3, <1>4, <1>5, <2>1, SameCommits DEF Before, Fit, Settled
  <2> QED  BY <1>4, <2>1, <2>2, CommitsBefore DEF Before
<1> HIDE DEF u
<1>7. Before(r, s, u)
  BY <1>4, <1>6, BeforeTransitive
<1>8. Acts(r, u, OnReceiveQC(u, r, b, TRUE))
  BY <1>7, OnReceiveQCActs DEF Before
<1>9. Acts(r, s, OnReceiveQC(u, r, b, TRUE))
  BY <1>7, <1>8, ActsAfter
<1> QED  BY <1>2, <1>4, <1>9, BeforeActs, BeforeReflexive

-----------------------------------------------------------------------------
(* The functions that may propose.                                         *)

\* When it is the replica's turn, nobody has proposed in its view or later.
Turn(r, s) ==
  s.pm_proposer = r /\ s.last_proposed_view < s.view
    => \A b \in Known : b.view < s.view

\* The first vote for a block is counted, and no more.
LEMMA FirstVoteCounts ==
  ASSUME NEW r \in Replica, NEW s \in ReplicaState, NEW b \in Block, s.voted[b] = {}
  PROVE  Vote(s, r, b, r) = [s EXCEPT !.voted[b] = @ \cup {r}]
<1> DEFINE a == [s EXCEPT !.voted[b] = @ \cup {r}]
<1>1. a.voted[b] = {r}
  BY DEF ReplicaState
<1>2. NResponsive \in Nat /\ NResponsive >= 2
  BY QuorumSizes, NReplicasAssumption
<1>3. Cardinality({}) = 0 /\ Cardinality({r}) = 1
  BY FS_EmptySet, FS_Singleton
<1>4. ~ (s.view < s.view)
  <2>1. s.view \in Nat
    BY ViewNat DEF ReplicaState
  <2> QED  BY <2>1
<1>5. ~ (Cardinality(s.voted[b]) >= NResponsive) /\ r \notin s.voted[b]
  BY <1>2, <1>3
<1>6. Cardinality(a.voted[b]) # NResponsive
  BY <1>1, <1>2, <1>3
<1> HIDE DEF a
<1>7. OnReceiveVote(s, r, b, r, s.view) =
        IF Cardinality(a.voted[b]) # NResponsive THEN a
        ELSE Ack(Send(UpdateHqc(a, b), {[type |-> "qc", from |-> r, blk |-> b]}), r, b)
  BY <1>4, <1>5 DEF OnReceiveVote, a
<1>8. Vote(s, r, b, r) = a
  BY <1>6, <1>7 DEF Vote
<1> QED  BY <1>8 DEF a

\* on_propose never throws: the new block is above vheight.  Its own vote is one
\* of two or more it takes.
LEMMA OnProposeActs ==
  ASSUME TypeOK, ChainInv, NEW r \in Replica, NEW s \in ReplicaState, Fit(r, s),
         ProposalsIn(s.out) = {}, Sound(Known, s), MayPropose(s, r), Turn(r, s),
         \E c \in Known : c.height = s.vheight
  PROVE  Acts(r, s, OnPropose(s, r))
<1> DEFINE b == [view |-> s.view, height |-> s.hqc_tail.height + 1]
           voting == [s EXCEPT !.vheight = b.height,
                               !.finished_propose = @ \cup {b}]
           t == Vote(voting, r, b, r)
           prop == [type |-> "propose", from |-> r, blk |-> b,
                    parent |-> s.hqc_tail, qc_ref |-> s.hqc]
           sent == Send(t, {prop})
           u == [sent EXCEPT !.hqc_tail = b, !.last_proposed_view = s.view,
                             !.last_view_proposal_received = s.view]
           f == [at |-> "view_proposal", view |-> s.view, blk |-> b, vote |-> FALSE,
                 proposer |-> r]
           w == Push(u, f)
<1>1. /\ s.view \in View /\ s.view \in Nat /\ s.hqc_tail \in Block /\ s.hqc \in Block
  BY ViewNat DEF ReplicaState
<1>2. \A c \in Known : c \in Block /\ c.view \in Nat /\ c.height = c.view /\ c.view < s.view
  BY BlocksInLine DEF MayPropose, Turn
<1>3. s.hqc_tail.height = s.view - 1
  <2>1. /\ s.hqc \in Known /\ s.hqc_tail \in Known
        /\ s.hqc.height <= s.hqc_tail.height /\ s.view - 1 <= s.hqc.view
    BY DEF Sound
  <2> QED  BY <1>1, <1>2, <2>1
<1>4. b.height = s.view /\ b.height \in Nat /\ b.view = s.view /\ b.height > s.vheight
  BY <1>1, <1>2, <1>3
<1>5. b \in Block
  <2>1. s.view \in 0 .. MaxView /\ s.hqc_tail.height < MaxHeight
    BY <1>1, BoundsAssumption DEF View, MayPropose
  <2>2. s.hqc_tail.height + 1 \in 0 .. MaxHeight
    BY <1>1, <2>1, HeightNat, BoundsAssumption DEF MaxHeight
  <2> QED  BY <2>1, <2>2 DEF Block
<1>6. OnPropose(s, r) = w
  <2>1. ~ (b.height <= s.vheight)
    <3>1. s.vheight \in Nat
      BY DEF ReplicaState
    <3> QED  BY <1>4, <3>1
  <2> QED  BY <2>1 DEF OnPropose
<1>7. prop \in Message /\ prop.type = "propose" /\ prop.blk = b
  BY <1>1, <1>5 DEF Proposals, Message
<1>8. f \in Frame /\ f.at = "view_proposal"
  BY <1>1, <1>5 DEF Frame
<1>9. s.voted[b] = {}
  BY <1>2, <1>4, <1>5 DEF Sound
<1> SUFFICES Acts(r, s, w)
  BY <1>6
<1> HIDE DEF b, prop, f
<1>10. /\ voting \in ReplicaState /\ voting.voted[b] = {} /\ voting.view = s.view
       /\ voting.vheight = b.height
       /\ voting.finished_propose = s.finished_propose \cup {b}
  BY <1>4, <1>5, <1>9 DEF ReplicaState
<1>11. t = [voting EXCEPT !.voted[b] = @ \cup {r}]
  BY <1>5, <1>10, FirstVoteCounts
<1>12. /\ t \in ReplicaState /\ t.view = s.view /\ t.hqc = s.hqc
       /\ t.last_view_cert_received = s.last_view_cert_received
       /\ t.last_view_proposal_received = s.last_view_proposal_received
       /\ t.last_view_shares_received = s.last_view_shares_received
       /\ t.last_view_beacon_received = s.last_view_beacon_received
       /\ t.finished_propose = s.finished_propose \cup {b} /\ t.vheight = b.height
       /\ t.view_shares = s.view_shares /\ t.b_exec = s.b_exec
       /\ t.decided = s.decided /\ t.halted = s.halted /\ t.todo = s.todo
       /\ t.out = s.out
  <2> DEFINE a == [voting EXCEPT !.voted[b] = @ \cup {r}]
  <2>1. /\ voting.hqc = s.hqc
        /\ voting.last_view_cert_received = s.last_view_cert_received
        /\ voting.last_view_proposal_received = s.last_view_proposal_received
        /\ voting.last_view_shares_received = s.last_view_shares_received
        /\ voting.last_view_beacon_received = s.last_view_beacon_received
        /\ voting.view_shares = s.view_shares /\ voting.b_exec = s.b_exec
        /\ voting.decided = s.decided /\ voting.halted = s.halted
        /\ voting.todo = s.todo /\ voting.out = s.out
    BY DEF ReplicaState
  <2> HIDE DEF voting, t
  <2>2. /\ a \in ReplicaState /\ a.view = voting.view /\ a.hqc = voting.hqc
        /\ a.last_view_cert_received = voting.last_view_cert_received
        /\ a.last_view_proposal_received = voting.last_view_proposal_received
        /\ a.last_view_shares_received = voting.last_view_shares_received
        /\ a.last_view_beacon_received = voting.last_view_beacon_received
        /\ a.finished_propose = voting.finished_propose /\ a.vheight = voting.vheight
        /\ a.view_shares = voting.view_shares /\ a.b_exec = voting.b_exec
        /\ a.decided = voting.decided /\ a.halted = voting.halted
        /\ a.todo = voting.todo /\ a.out = voting.out
    <3>1. DOMAIN voting = DOMAIN s /\ voting \in ReplicaState
      BY <1>10 DEF ReplicaState
    <3>2. voting.voted \in [Block -> SUBSET Replica] /\ b \in Block
      BY <1>5, <3>1 DEF ReplicaState
    <3>3. [voting.voted EXCEPT ![b] = @ \cup {r}] \in [Block -> SUBSET Replica]
      BY <3>2
    <3>4. a \in ReplicaState
      BY <3>1, <3>3 DEF ReplicaState
    <3> QED  BY <3>1, <3>4 DEF ReplicaState
  <2> HIDE DEF a
  <2> QED  BY <1>10, <1>11, <2>1, <2>2 DEF a
<1> HIDE DEF voting, t
<1>13. /\ w \in ReplicaState /\ w.view = t.view /\ w.hqc = t.hqc
       /\ w.last_view_cert_received = t.last_view_cert_received
       /\ w.last_view_proposal_received = s.view
       /\ w.last_view_shares_received = t.last_view_shares_received
       /\ w.last_view_beacon_received = t.last_view_beacon_received
       /\ w.finished_propose = t.finished_propose /\ w.vheight = t.vheight
       /\ w.view_shares = t.view_shares /\ w.b_exec = t.b_exec
       /\ w.decided = t.decided /\ w.halted = t.halted /\ w.todo = <<f>> \o t.todo
       /\ w.out = t.out \cup {prop}
  <2>1. sent \in ReplicaState
    BY <1>7, <1>12 DEF Send, ReplicaState
  <2>2. u \in ReplicaState
    <3> HIDE DEF sent
    <3> QED  BY <1>1, <1>5, <2>1 DEF ReplicaState
  <2>3. w \in ReplicaState
    <3> HIDE DEF u
    <3> QED  BY <1>8, <2>2, PushMoves DEF Moves
  <2>4. /\ u.view = t.view /\ u.hqc = t.hqc
        /\ u.last_view_cert_received = t.last_view_cert_received
        /\ u.last_view_proposal_received = s.view
        /\ u.last_view_shares_received = t.last_view_shares_received
        /\ u.last_view_beacon_received = t.last_view_beacon_received
        /\ u.finished_propose = t.finished_propose /\ u.vheight = t.vheight
        /\ u.view_shares = t.view_shares /\ u.b_exec = t.b_exec
        /\ u.decided = t.decided /\ u.halted = t.halted /\ u.todo = t.todo
        /\ u.out = t.out \cup {prop}
    BY <1>12 DEF Send, ReplicaState
  <2> HIDE DEF u
  <2> QED  BY <2>2, <2>3, <2>4 DEF Push, ReplicaState
<1> HIDE DEF w
<1>14. Fit(r, w)
  <2>1. Certs(w.todo) \subseteq Certs(s.todo)
    <3>1. s.todo \in Seq(Frame) /\ w.todo = <<f>> \o s.todo
      BY <1>12, <1>13 DEF ReplicaState
    <3>2. Certs(<<f>> \o s.todo) \subseteq Certs(s.todo) \cup {}
      BY <1>8, <3>1, CertsPush
    <3> QED  BY <3>1, <3>2
  <2>2. Proper(prop)
    BY <1>7 DEF Proper
  <2>3. Settled(w) /\ Low(w) /\ (w.halted => Spoiled(w))
    BY <1>12, <1>13, <2>1, <2>2 DEF Fit, Settled, Low, Spoiled
  <2>4. Timed(r, w)
    BY <1>1, <1>12, <1>13 DEF Fit, Timed
  <2> QED  BY <2>3, <2>4 DEF Fit
<1>15. ProposalsIn(w.out) = {prop}
  BY <1>7, <1>12, <1>13 DEF ProposalsIn
<1>16. Takes(b, s, w)
  BY <1>4, <1>7, <1>12, <1>13, <1>15 DEF Takes
<1> QED  BY <1>12, <1>13, <1>14, <1>16 DEF Acts, Leaves

\* When it is its turn, the replica may propose.
Poised(r, s) ==
  /\ s \in ReplicaState /\ Fit(r, s) /\ ProposalsIn(s.out) = {} /\ Sound(Known, s)
  /\ Turn(r, s) /\ \E c \in Known : c.height = s.vheight

LEMMA DoProposeActs ==
  ASSUME TypeOK, ChainInv, NEW r \in Replica, NEW s, Poised(r, s)
  PROVE  Acts(r, s, DoPropose(s, r))
<1> DEFINE t == [s EXCEPT !.propose_timer = FALSE]
<1>1. s \in ReplicaState /\ Fit(r, s) /\ ProposalsIn(s.out) = {} /\ Sound(Known, s)
  BY DEF Poised
<1>2. t \in ReplicaState
  BY <1>1 DEF ReplicaState
<1>3. /\ Apart(s, t) /\ t.view = s.view /\ t.pm_proposer = s.pm_proposer
      /\ t.out = s.out /\ t.last_proposed_view = s.last_proposed_view
      /\ t.vheight = s.vheight
  BY <1>1, <1>2, SameApart DEF ReplicaState
<1>4. Before(r, s, t)
  <2>1. Commits(r, s, t)
    BY <1>1, <1>2, SameCommits DEF Fit, Settled, ReplicaState
  <2> QED  BY <1>1, <2>1, CommitsBefore DEF ReplicaState
<1>5. CASE ~ MayPropose(s, r)
  BY <1>1, <1>5, BeforeReflexive, BeforeActs DEF DoPropose
<1>6. CASE MayPropose(s, r)
  <2>1. MayPropose(t, r)
    BY <1>1, <1>6 DEF MayPropose, ReplicaState
  <2>2. DoPropose(s, r) = OnPropose(t, r)
    BY <1>6 DEF DoPropose
  <2> HIDE DEF t
  <2>3. Sound(Known, t)
    BY <1>1, <1>3, ApartPlain DEF Plain
  <2>4. Turn(r, t) /\ \E c \in Known : c.height = t.vheight
    BY <1>3 DEF Poised, Turn
  <2>5. Acts(r, t, OnPropose(t, r))
    BY <1>4, <2>1, <2>3, <2>4, OnProposeActs DEF Before
  <2> QED  BY <1>4, <2>2, <2>5, ActsAfter
<1> QED  BY <1>5, <1>6

\* A status message of the view reaches the view's proposer, and one that still
\* has to propose: what it certifies is of an earlier view.
LEMMA OnReceiveStatusActs ==
  ASSUME TypeOK, ChainInv, NEW r \in Replica, NEW s, Poised(r, s),
         NEW from \in Replica, NEW v \in View, v <= s.view, NEW qc \in Known,
         v = s.view => s.pm_proposer = r
  PROVE  Acts(r, s, OnReceiveStatus(s, r, from, v, qc, TRUE))
<1> DEFINE t == UpdateHqc(s, qc)
           u == [t EXCEPT !.status_received[v] = @ \cup {from}]
<1>1. /\ s \in ReplicaState /\ Fit(r, s) /\ ProposalsIn(s.out) = {} /\ Sound(Known, s)
      /\ qc \in Block /\ qc.view \in Nat /\ s.view \in Nat /\ v \in Nat
      /\ s.last_proposed_view \in Nat
  BY BlocksInLine, ViewNat DEF Poised, ReplicaState
<1>2. CASE OnReceiveStatus(s, r, from, v, qc, TRUE) = s
  BY <1>1, <1>2, BeforeReflexive, BeforeActs
<1>3. CASE OnReceiveStatus(s, r, from, v, qc, TRUE) # s
  <2>1. v >= s.view /\ s.last_proposed_view < s.view
    BY <1>1, <1>3 DEF OnReceiveStatus
  <2>2. s.pm_proposer = r /\ qc.view < s.view
    BY <1>1, <2>1 DEF Poised, Turn
  <2>3. OnReceiveStatus(s, r, from, v, qc, TRUE) \in {t, u, DoPropose(u, r)}
    BY <1>3 DEF OnReceiveStatus
  <2>4. /\ Before(r, s, t) /\ t.out = s.out /\ t.pm_proposer = s.pm_proposer
        /\ t.last_proposed_view = s.last_proposed_view
    BY <1>1, <2>2, UpdateHqcBefore
  <2>5. Sound(Known, t) /\ t \in ReplicaState
    BY <1>1, <2>4, UpdateHqcPlain DEF Plain, Before
  <2> HIDE DEF t
  <2>6. u \in ReplicaState
    <3>1. t.status_received[v] \cup {from} \in SUBSET Replica
      BY <2>5 DEF ReplicaState
    <3>2. [t.status_received EXCEPT ![v] = @ \cup {from}] \in [View -> SUBSET Replica]
      BY <2>5, <3>1 DEF ReplicaState
    <3> QED  BY <2>5, <3>2 DEF ReplicaState
  <2>7. /\ u.view = t.view /\ u.hqc = t.hqc
        /\ u.last_view_cert_received = t.last_view_cert_received
        /\ u.last_view_proposal_received = t.last_view_proposal_received
        /\ u.last_view_shares_received = t.last_view_shares_received
        /\ u.last_view_beacon_received = t.last_view_beacon_received
        /\ u.finished_propose = t.finished_propose /\ u.vheight = t.vheight
        /\ u.view_shares = t.view_shares /\ u.b_exec = t.b_exec
        /\ u.decided = t.decided /\ u.halted = t.halted /\ u.todo = t.todo
        /\ u.out = t.out /\ u.pm_proposer = t.pm_proposer
        /\ u.last_proposed_view = t.last_proposed_view
        /\ u.hqc_tail = t.hqc_tail /\ u.voted = t.voted
    BY <2>5 DEF ReplicaState
  <2> HIDE DEF u
  <2>8. Before(r, t, u)
    <3>1. Commits(r, t, u)
      BY <2>4, <2>5, <2>6, <2>7, SameCommits DEF Before, Fit, Settled
    <3> QED  BY <2>4, <2>7, <3>1, CommitsBefore DEF Before
  <2>9. Before(r, s, u)
    BY <2>4, <2>8, BeforeTransitive
  <2>10. Acts(r, u, DoPropose(u, r))
    <3>1. Sound(Known, u)
      BY <2>5, <2>7 DEF Sound
    <3>2. Turn(r, u)
      BY <2>4, <2>7 DEF Poised, Turn, Before
    <3>3. u.vheight = s.vheight
      BY <2>9 DEF Before, TakesNone
    <3>4. Poised(r, u)
      BY <2>6, <2>9, <3>1, <3>2, <3>3 DEF Poised, Before
    <3> QED  BY <3>4, DoProposeActs
  <2>11. Acts(r, s, DoPropose(u, r))
    BY <2>9, <2>10, ActsAfter
  <2> QED  BY <2>3, <2>4, <2>9, <2>11, BeforeActs
<1> QED  BY <1>2, <1>3

LEMMA AfterEnterViewActs ==
  ASSUME TypeOK, ChainInv, NEW r \in Replica, NEW s, Poised(r, s),
         s.pm_proposer = GetProposer(s.view)
  PROVE  Acts(r, s, AfterEnterView(s, r))
<1> DEFINE t == OnReceiveStatus(s, r, r, s.view, s.hqc, TRUE)
           u == [t EXCEPT !.propose_timer = TRUE]
           status == [type |-> "status", from |-> r, to |-> s.pm_proposer,
                      view |-> s.view, qc |-> s.hqc]
<1>1. /\ s \in ReplicaState /\ Fit(r, s) /\ ProposalsIn(s.out) = {}
      /\ s.view \in View /\ s.hqc \in Block /\ s.pm_proposer \in Replica /\ s.view \in Nat
      /\ s.hqc \in Known
  BY ViewNat DEF Poised, Sound, ReplicaState
<1>2. CASE s.pm_proposer # r
  <2>1. AfterEnterView(s, r) = Send(s, {status})
    BY <1>2 DEF AfterEnterView
  <2>2. /\ {status} \in SUBSET Message /\ ProposalsIn({status}) = {}
        /\ \A m \in {status} : Proper(m)
    BY <1>1 DEF Message, Statuses, ProposalsIn, Proper
  <2> HIDE DEF status
  <2> QED  BY <1>1, <2>1, <2>2, SendCommits, CommitsActs
<1>3. CASE s.pm_proposer = r
  <2>1. AfterEnterView(s, r) \in {t, u}
    BY <1>3 DEF AfterEnterView
  <2>2. Acts(r, s, t)
    <3>1. s.view <= s.view
      BY <1>1
    <3> HIDE DEF t
    <3> QED  BY <1>1, <1>3, <3>1, OnReceiveStatusActs DEF t
  <2> HIDE DEF t
  <2>3. t \in ReplicaState
    BY <2>2 DEF Acts
  <2>4. /\ u \in ReplicaState /\ u.view = t.view /\ u.hqc = t.hqc
        /\ u.last_view_cert_received = t.last_view_cert_received
        /\ u.last_view_proposal_received = t.last_view_proposal_received
        /\ u.last_view_shares_received = t.last_view_shares_received
        /\ u.last_view_beacon_received = t.last_view_beacon_received
        /\ u.finished_propose = t.finished_propose /\ u.vheight = t.vheight
        /\ u.view_shares = t.view_shares /\ u.b_exec = t.b_exec
        /\ u.decided = t.decided /\ u.halted = t.halted /\ u.todo = t.todo
        /\ u.out = t.out
    BY <2>3 DEF ReplicaState
  <2> HIDE DEF u
  <2>5. Fit(r, u)
    <3>1. Settled(u) /\ Low(u) /\ (u.halted => Spoiled(u))
      BY <2>2, <2>4 DEF Acts, Fit, Settled, Low, Spoiled
    <3>2. Timed(r, u)
      BY <2>2, <2>4 DEF Acts, Fit, Timed
    <3> QED  BY <3>1, <3>2 DEF Fit
  <2>6. Leaves(r, s, u)
    BY <2>2, <2>4 DEF Acts, Leaves
  <2>7. TakesNone(s, u) \/ \E b : Takes(b, s, u)
    BY <2>2, <2>4 DEF Acts, TakesNone, Takes
  <2>8. Acts(r, s, u)
    BY <2>2, <2>4, <2>5, <2>6, <2>7 DEF Acts
  <2> QED  BY <2>1, <2>2, <2>8
<1> QED  BY <1>2, <1>3

-----------------------------------------------------------------------------
(* The invariant.                                                          *)

\* A view the replica has been through, or the one it is in and has the proposal of.
HadProposalOf(r, v) ==
  /\ 1 <= v
  /\ \/ v < st[r].view
     \/ v = st[r].view /\ st[r].last_view_proposal_received = st[r].view

Placed(r) ==
  /\ st[r].last_view_proposal_received = st[r].view => \E b \in Known : b.view = st[r].view
  /\ \A b \in Known : HadProposalOf(r, b.view) => b \in st[r].finished_propose
  /\ \E b \in Known : b.height = st[r].vheight

CommitInv ==
  /\ \A r \in Replica : Fit(r, st[r]) /\ Placed(r)
  /\ \A m \in msgs : Proper(m)

\* What a step of r leads to before what it sends has left.
Does(r, s) ==
  /\ st' = [st EXCEPT ![r] = [s EXCEPT !.out = {}]]
  /\ msgs' = msgs \cup s.out
  /\ Acts(r, st[r], s)

LEMMA QuorumOfTwo == NResponsive \in Nat /\ NResponsive >= 2 /\ NResponsive <= NReplicas
BY QuorumSizes, NReplicasAssumption

\* A quorum of votes comes from replicas that have reached the block's view.
LEMMA QuorumIsReady ==
  ASSUME TypeOK, CertInv, ChainInv, NEW r \in Replica, NEW b \in Known,
         NEW voter \in Replica, Supports(r, voter, b, st[r]),
         Cardinality(st[r].voted[b] \cup {voter}) >= NResponsive
  PROVE  b \in Ready
<1> DEFINE S == st[r].voted[b] \cup {voter}
           T == {q \in Replica : st[q].view >= b.view}
<1>1. b \in Block /\ b.view \in Nat
  BY BlocksInLine
<1>2. S \subseteq Replica
  BY <1>1 DEF TypeOK, ReplicaState
<1>3. S \subseteq T
  <2> SUFFICES ASSUME NEW q \in S PROVE st[q].view >= b.view
    BY <1>2
  <2>1. CASE b = Genesis
    <3>1. st[q].view \in Nat /\ b.view = 0
      BY <1>2, <2>1, ViewNat DEF TypeOK, ReplicaState, Genesis
    <3> QED  BY <3>1
  <2>2. CASE b # Genesis
    <3>1. Supports(r, q, b, st[r])
      BY <1>1, <2>2 DEF CertInv, Counted
    <3>2. st[q].view \in Nat
      BY <1>2, ViewNat DEF TypeOK, ReplicaState
    <3> QED  BY <1>1, <3>1, <3>2 DEF Supports, CertInv, Timely
  <2> QED  BY <2>1, <2>2
<1>4. IsFiniteSet(T)
  BY ReplicaFinite, FS_Subset
<1> HIDE DEF S, T
<1>5. Cardinality(S) <= Cardinality(T) /\ Cardinality(S) \in Nat /\ Cardinality(T) \in Nat
  BY <1>3, <1>4, FS_Subset, FS_CardinalityType
<1>6. Cardinality(T) >= NResponsive
  BY <1>5, QuorumOfTwo DEF S
<1> QED  BY <1>6 DEF Ready, Attended, T

LEMMA GenesisIsReady ==
  ASSUME TypeOK, ChainInv
  PROVE  Genesis \in Ready
<1>1. Genesis \in Known /\ Genesis.view = 0
  BY BlocksInLine
<1>2. \A q \in Replica : st[q].view \in Nat
  BY ViewNat DEF TypeOK, ReplicaState
<1>3. {q \in Replica : st[q].view >= 0} = Replica
  BY <1>2
<1> QED  BY <1>1, <1>3, ReplicaFinite, QuorumOfTwo DEF Ready, Attended

\* There is one block with a certificate of the view, and it is ready.
LEMMA CertifiedIsReady ==
  ASSUME TypeOK, CertInv, ChainInv, NEW v \in Certified
  PROVE  /\ \E b \in Known : b.view = v
         /\ \A b \in Known : b.view = v => b \in Ready
<1>1. \E b \in Ready : b.view = v
  <2>1. CASE v = 0
    BY <2>1, GenesisIsReady, BlocksInLine
  <2>2. CASE v # 0
    <3>1. PICK m \in Sent("qc") : m.blk.view = v
      BY <2>2 DEF Certified
    <3>2. /\ m.from \in Replica /\ m.blk \in Block /\ m.blk # Genesis
          /\ st[m.from].voted[m.blk] \in SUBSET Replica
          /\ Cardinality(st[m.from].voted[m.blk]) >= NResponsive
      BY VotersAreThere
    <3>3. PICK q \in st[m.from].voted[m.blk] : TRUE
      <4>1. st[m.from].voted[m.blk] # {}
        BY <3>2, FS_EmptySet, QuorumOfTwo
      <4> QED  BY <4>1
    <3>4. Supports(m.from, q, m.blk, st[m.from])
      BY <3>2 DEF CertInv, Counted
    <3>5. st[m.from].voted[m.blk] \cup {q} = st[m.from].voted[m.blk]
      OBVIOUS
    <3>6. m.blk \in Known /\ q \in Replica
      BY <3>2, HandledIsKnown
    <3>7. m.blk \in Ready
      BY <3>2, <3>4, <3>5, <3>6, QuorumIsReady
    <3> QED  BY <3>1, <3>7
  <2> QED  BY <2>1, <2>2
<1>2. \A b \in Ready : b \in Known
  BY DEF Ready
<1> QED  BY <1>1, <1>2, BlocksInLine

LEMMA CommitInvInit == Init => CommitInv
<1> SUFFICES ASSUME Init PROVE CommitInv
  OBVIOUS
<1>1. TypeOK /\ ChainInv
  BY InitTypeOK, ChainInvInit
<1>2. /\ \A r \in Replica : st[r] = InitState
      /\ msgs = {} /\ Known = {Genesis}
  BY DEF Init, Sent, Known
<1>3. /\ InitState.view = 1 /\ InitState.hqc = Genesis
      /\ InitState.last_view_cert_received = 0
      /\ InitState.last_view_proposal_received = 0
      /\ InitState.last_view_shares_received = 0
      /\ InitState.last_view_beacon_received = 0
      /\ InitState.vheight = 0 /\ InitState.b_exec = Genesis
      /\ InitState.decided = {Genesis} /\ InitState.halted = FALSE
      /\ InitState.todo = <<>> /\ InitState.out = {}
      /\ \A v \in View : InitState.view_shares[v] = <<>>
  BY DEF InitState
<1>4. 1 \in View /\ Genesis.view = 0 /\ Genesis.height = 0
  BY BoundsAssumption DEF View, Genesis
<1>5. Settled(InitState)
  <2>1. Certs(InitState.todo) = {}
    BY <1>3 DEF Certs
  <2>2. Genesis \in Ready
    BY <1>1, GenesisIsReady
  <2> QED  BY <1>2, <1>3, <2>1, <2>2 DEF Settled
<1>6. ASSUME NEW r \in Replica PROVE Timed(r, InitState)
  BY <1>3, <1>4 DEF Timed
<1>7. Low(InitState)
  BY <1>3, <1>4 DEF Low
<1>8. ASSUME NEW r \in Replica PROVE Placed(r)
  BY <1>2, <1>3, <1>4 DEF Placed, HadProposalOf
<1> QED  BY <1>2, <1>3, <1>5, <1>6, <1>7, <1>8 DEF CommitInv, Fit

LEMMA CommitInvStutters == CommitInv /\ UNCHANGED vars => CommitInv'
<1> SUFFICES ASSUME CommitInv, UNCHANGED vars PROVE CommitInv'
  OBVIOUS
<1>1. st' = st /\ msgs' = msgs
  BY DEF vars
<1>2. Known' = Known
  BY <1>1 DEF Known, Sent
<1>3. Ready' = Ready
  BY <1>1, <1>2 DEF Ready, Attended
<1>4. \A m \in msgs' : Proper(m)'
  BY <1>1, <1>3 DEF CommitInv, Proper
<1>5. ASSUME NEW r \in Replica PROVE Fit(r, st[r])'
  BY <1>1, <1>2, <1>3 DEF CommitInv, Fit, Settled, Timed, Low, Spoiled, Proper
<1>6. ASSUME NEW r \in Replica PROVE Placed(r)'
  BY <1>1, <1>2 DEF CommitInv, Placed, HadProposalOf
<1> QED  BY <1>4, <1>5, <1>6 DEF CommitInv

\* A replica has the blocks of the views whose proposals it has had.
LEMMA HandledIsDelivered ==
  ASSUME TypeOK, ChainInv, CommitInv, NEW r \in Replica, NEW b \in Known,
         b.view >= 1 => HadProposalOf(r, b.view)
  PROVE  Delivered(st[r], b)
<1>1. b.view \in Nat /\ Genesis \in Known /\ Genesis.view = 0
      /\ \A c \in Known : c.view = b.view => c = b
  BY BlocksInLine
<1>2. CASE b.view = 0
  BY <1>1, <1>2 DEF Delivered
<1>3. CASE b.view >= 1
  BY <1>3 DEF CommitInv, Placed, Delivered
<1> QED  BY <1>1, <1>2, <1>3

\* status_handler does not wait for the block to be delivered, nor has it to: the
\* proposer of a view that still has to propose has had all blocks there are.
LEMMA StatusIsFound ==
  ASSUME CommandsInTime, TypeOK, CertInv, ChainInv, CommitInv,
         NEW r \in Replica, ReceiveStatus(r)
  PROVE  \E m \in Sent("status") :
           /\ m.view <= st[r].view /\ m.to = r
           /\ Become(r, OnReceiveStatus(st[r], r, m.from, m.view, m.qc, TRUE))
<1>1. PICK m \in Sent("status") :
        /\ m.view <= st[r].view /\ m.to = r
        /\ \E found \in {Delivered(st[r], m.qc), TRUE} :
             Become(r, OnReceiveStatus(st[r], r, m.from, m.view, m.qc, found))
  BY DEF ReceiveStatus, Handles
<1>2. /\ m.view \in Nat /\ st[r].view \in Nat /\ m.qc \in Known
      /\ st[r].last_proposed_view \in Nat
  BY SentTypes, HandledIsKnown, ViewNat DEF Statuses, TypeOK, ReplicaState
<1>3. CASE m.view < st[r].view \/ st[r].last_proposed_view >= st[r].view
  <2>1. \A found : OnReceiveStatus(st[r], r, m.from, m.view, m.qc, found) = st[r]
    BY <1>3 DEF OnReceiveStatus
  <2> QED  BY <1>1, <2>1
<1>4. CASE m.view = st[r].view /\ st[r].last_proposed_view < st[r].view
  <2>1. st[r].pm_proposer = r
    BY <1>1, <1>4 DEF CommitInv, Proper, Sent, CertInv, Rotated
  <2>2. m.qc.view \in Nat /\ m.qc.view < st[r].view
    BY <1>2, <1>4, <2>1, ProposerIsFirst
  <2>3. Delivered(st[r], m.qc)
    BY <1>2, <2>2, HandledIsDelivered DEF HadProposalOf
  <2> QED  BY <1>1, <2>3 DEF Delivered
<1>5. m.view <= st[r].view
  BY <1>1
<1>6. \/ m.view < st[r].view \/ st[r].last_proposed_view >= st[r].view
      \/ m.view = st[r].view /\ st[r].last_proposed_view < st[r].view
  BY <1>2, <1>5
<1> QED  BY <1>3, <1>4, <1>6

\* echo2_handler waits for a proposal of the view, and there is one.
LEMMA EchoIsFound ==
  ASSUME TypeOK, CertInv, ChainInv, CommitInv, NEW r \in Replica, ReceiveCertEcho(r)
  PROVE  \E m \in Sent("echo2") : \E idx \in {r, m.from} :
           Become(r, OnReceiveCertEcho(st[r], r, idx, m.blk, TRUE))
<1>1. PICK m \in Sent("echo2") : \E idx \in {r, m.from} :
        /\ st[r].last_view_proposal_received >= m.blk.view
        /\ \E found \in {Delivered(st[r], m.blk), TRUE} :
             Become(r, OnReceiveCertEcho(st[r], r, idx, m.blk, found))
  BY DEF ReceiveCertEcho
<1>2. PICK idx \in {r, m.from} :
        /\ st[r].last_view_proposal_received >= m.blk.view
        /\ \E found \in {Delivered(st[r], m.blk), TRUE} :
             Become(r, OnReceiveCertEcho(st[r], r, idx, m.blk, found))
  BY <1>1
<1>3. /\ m.blk \in Known /\ m.blk.view \in Nat /\ st[r].view \in Nat
      /\ st[r].last_view_proposal_received \in Nat
      /\ st[r].last_view_proposal_received <= st[r].view
  BY SentTypes, HandledIsKnown, ViewNat, BlocksInLine
     DEF CertEchoes, TypeOK, ReplicaState, CommitInv, Fit, Timed
<1>4. HadProposalOf(r, m.blk.view) \/ m.blk.view = 0
  BY <1>2, <1>3 DEF HadProposalOf
<1>5. Delivered(st[r], m.blk)
  BY <1>3, <1>4, HandledIsDelivered
<1> QED  BY <1>2, <1>5 DEF Delivered

\* Every handler and every resumed function is one of the functions above.
LEMMA StepActs ==
  ASSUME CommandsInTime, TypeOK, BeaconsIgnored, CertInv, ChainInv, CommitInv,
         NEW r \in Replica, Step(r)
  PROVE  UNCHANGED vars \/ \E s : Does(r, s)
<1>1. /\ st[r] \in ReplicaState /\ msgs \subseteq Message /\ Fit(r, st[r])
      /\ st[r].view \in Nat /\ st[r].view >= 1 /\ st[r].last_view_proposal_received \in Nat
  BY ViewNat DEF TypeOK, CommitInv, ReplicaState, CertInv, Backing, Backed
<1>2. ProposalsIn(st[r].out) = {}
  BY DEF CertInv, Quiet, ProposalsIn
<1>3. Sound(Known, st[r]) /\ Turn(r, st[r]) /\ \E c \in Known : c.height = st[r].vheight
  BY ProposerIsFirst DEF ChainInv, CommitInv, Placed, Turn
<1>4. ASSUME NEW s, Become(r, s), Acts(r, st[r], s)
      PROVE  \E t : Does(r, t)
  BY <1>4 DEF Become, Does
<1>5. ASSUME NEW s, Become(r, s), Commits(r, st[r], s)
      PROVE  \E t : Does(r, t)
  BY <1>1, <1>2, <1>4, <1>5, CommitsActs
<1>6. ASSUME NEW s, Commits(r, st[r], s), s.view = st[r].view, s.decided = st[r].decided,
             s.view_shares = st[r].view_shares
      PROVE  Before(r, st[r], s)
  BY <1>2, <1>6, CommitsBefore
<1>7. ASSUME NEW s, NEW t, Before(r, st[r], s), Become(r, t), Acts(r, s, t)
      PROVE  \E u : Does(r, u)
  BY <1>4, <1>7, ActsAfter
<1>8. CASE ReceiveProposal(r)
  <2>1. PICK m \in Sent("propose") :
          m.blk.view <= st[r].view /\ Become(r, OnReceiveProposal(st[r], r, m))
    BY <1>8 DEF ReceiveProposal, Handles
  <2>2. OnReceiveProposal(st[r], r, m) # st[r]
    BY <2>1 DEF Become
  <2>3. m.blk.view = st[r].view
    <3>1. m.blk \in Known /\ m.blk.view >= 1 /\ m.blk.view \in Nat
      BY BlocksInLine
    <3>2. m.blk \notin st[r].finished_propose
      BY <2>2 DEF OnReceiveProposal
    <3> QED  BY <1>1, <2>1, <3>1, <3>2 DEF CommitInv, Placed, HadProposalOf
  <2> QED  BY <1>1, <1>2, <1>4, <2>1, <2>2, <2>3, OnReceiveProposalActs
<1>9. CASE ReceiveVote(r)
  <2>1. PICK m \in Sent("vote") :
          m.view <= st[r].view /\ Become(r, OnReceiveVote(st[r], r, m.blk, m.from, m.view))
    BY <1>9 DEF ReceiveVote, Handles
  <2>2. m.blk \in Block /\ m.from \in Replica /\ m.view \in View /\ m.blk \in Known
    BY <1>1, SentTypes, HandledIsKnown DEF Votes
  <2>3. m.blk.view <= st[r].view
    <3>1. m.blk.view <= m.view
      BY DEF CommitInv, Proper, Sent
    <3>2. m.blk.view \in Nat /\ m.view \in Nat
      BY <2>2, BlocksInLine, ViewNat
    <3> QED  BY <1>1, <2>1, <3>1, <3>2
  <2>4. Cardinality(st[r].voted[m.blk] \cup {m.from}) >= NResponsive => m.blk \in Ready
    BY <2>2, QuorumIsReady DEF Supports
  <2> QED  BY <1>1, <1>2, <1>4, <2>1, <2>2, <2>3, <2>4, OnReceiveVoteActs
<1>10. CASE ReceiveAck(r)
  <2>1. PICK m \in Sent("ack") :
          Become(r, OnReceiveAck(st[r], r, m.blk, m.from, m.view))
    BY <1>10 DEF ReceiveAck
  <2>2. m.from \in Replica /\ m.view \in View
    BY <1>1, SentTypes DEF Acks
  <2>3. m.blk \in Ready
    BY DEF CommitInv, Proper, Sent
  <2> QED  BY <1>1, <1>5, <2>1, <2>2, <2>3, OnReceiveAckCommits
<1>11. CASE ReceiveStatus(r)
  <2>1. PICK m \in Sent("status") :
          /\ m.view <= st[r].view /\ m.to = r
          /\ Become(r, OnReceiveStatus(st[r], r, m.from, m.view, m.qc, TRUE))
    BY <1>11, StatusIsFound
  <2>2. m.from \in Replica /\ m.view \in View /\ m.qc \in Known
    BY <1>1, SentTypes, HandledIsKnown DEF Statuses
  <2>3. m.view = st[r].view => st[r].pm_proposer = r
    BY <2>1 DEF CommitInv, Proper, Sent, CertInv, Rotated
  <2>4. Poised(r, st[r])
    BY <1>1, <1>2, <1>3 DEF Poised
  <2> QED  BY <1>4, <2>1, <2>2, <2>3, <2>4, OnReceiveStatusActs
<1>12. CASE ReceiveQC(r)
  <2>1. PICK m \in Sent("qc") : Become(r, OnReceiveQC(st[r], r, m.blk, TRUE))
    BY <1>12 DEF ReceiveQC
  <2>2. m.blk \in Ready
    BY HandledIsKnown, CertifiedIsReady DEF Certified
  <2> QED  BY <1>1, <1>2, <1>4, <2>1, <2>2, OnReceiveQCActs
<1>13. CASE ReceiveCertEcho(r)
  <2>1. PICK m \in Sent("echo2") : \E idx \in {r, m.from} :
          Become(r, OnReceiveCertEcho(st[r], r, idx, m.blk, TRUE))
    BY <1>13, EchoIsFound
  <2>2. m.from \in Replica /\ m.blk \in Ready
    <3>1. m.blk.view \in Certified
      BY DEF CertInv, Backing
    <3> QED  BY <1>1, <3>1, SentTypes, HandledIsKnown, CertifiedIsReady DEF CertEchoes
  <2>3. PICK idx \in {r, m.from} :
          Become(r, OnReceiveCertEcho(st[r], r, idx, m.blk, TRUE))
    BY <2>1
  <2>4. idx \in Replica
    BY <2>2
  <2> QED  BY <1>1, <1>2, <1>4, <2>2, <2>3, <2>4, OnReceiveCertEchoActs
<1>14. CASE ReceiveShare(r)
  <2>1. PICK m \in Sent("share") :
          /\ m.view <= st[r].view /\ st[r].last_view_proposal_received >= m.view
          /\ Become(r, OnReceiveShare([st[r] EXCEPT !.handled = @ \cup {m}],
                                      r, m.from, m.view))
    BY <1>14 DEF ReceiveShare, Handles
  <2> DEFINE s == [st[r] EXCEPT !.handled = @ \cup {m}]
  <2>2. m \in Message /\ m.from \in Replica /\ m.view \in View
    BY <1>1, SentTypes DEF Shares, Sent
  <2>3. s \in ReplicaState
    BY <1>1, <2>2 DEF ReplicaState
  <2>4. Commits(r, st[r], s)
    BY <1>1, <2>3, SameCommits DEF Fit, Settled, ReplicaState
  <2>5. s.view = st[r].view
    BY DEF ReplicaState
  <2> HIDE DEF s
  <2>6. Due(r, s, m.from, m.view)
    BY <2>1, <2>2, <2>4, <2>5 DEF Due, Commits
  <2>7. Commits(r, s, OnReceiveShare(s, r, m.from, m.view))
    BY <2>3, <2>4, <2>6, OnReceiveShareCommits DEF Commits
  <2>8. Commits(r, st[r], OnReceiveShare(s, r, m.from, m.view))
    BY <1>1, <2>4, <2>7, CommitsTransitive
  <2> QED  BY <1>5, <2>1, <2>8 DEF s
<1>15. CASE ReceiveBeacon(r)
  <2>1. PICK m \in Sent("beacon") :
          /\ st' = [st EXCEPT ![r] = OnReceiveBeacon(st[r], m.view)]
          /\ msgs' = msgs
    BY <1>1, <1>15 DEF ReceiveBeacon, TypeOK
  <2>2. OnReceiveBeacon(st[r], m.view) = st[r]
    BY DEF BeaconsIgnored
  <2> QED  BY <2>1, <2>2 DEF TypeOK, vars
<1>16. CASE ShareArrivesEarly(r)
  <2>1. PICK m \in Sent("share") :
          Become(r, [st[r] EXCEPT !.past_qc_gate = @ \cup {m}])
    BY <1>16 DEF ShareArrivesEarly
  <2> DEFINE s == [st[r] EXCEPT !.past_qc_gate = @ \cup {m}]
  <2>2. m \in Message
    BY <1>1 DEF Sent
  <2>3. s \in ReplicaState
    BY <1>1, <2>2 DEF ReplicaState
  <2>4. Commits(r, st[r], s)
    BY <1>1, <2>3, SameCommits DEF Fit, Settled, ReplicaState
  <2> QED  BY <1>5, <2>1, <2>4
<1>17. CASE ProposeTimeout(r)
  <2> DEFINE s == [st[r] EXCEPT !.propose_timer = FALSE]
  <2>1. Become(r, DoPropose(s, r))
    BY <1>17 DEF ProposeTimeout
  <2>2. s \in ReplicaState
    BY <1>1 DEF ReplicaState
  <2>3. /\ Apart(st[r], s) /\ s.view = st[r].view /\ s.out = st[r].out
        /\ s.pm_proposer = st[r].pm_proposer /\ s.vheight = st[r].vheight
        /\ s.last_proposed_view = st[r].last_proposed_view
    BY <1>1, <2>2, SameApart DEF ReplicaState
  <2>4. Before(r, st[r], s)
    <3>1. Commits(r, st[r], s)
      BY <1>1, <2>2, SameCommits DEF Fit, Settled, ReplicaState
    <3> QED  BY <1>1, <1>6, <3>1 DEF ReplicaState
  <2> HIDE DEF s
  <2>5. Poised(r, s)
    <3>1. Sound(Known, s)
      BY <1>1, <1>3, <2>3, ApartPlain DEF Plain
    <3> QED  BY <1>3, <2>3, <2>4, <3>1 DEF Poised, Before, Turn
  <2>6. Acts(r, s, DoPropose(s, r))
    BY <2>5, DoProposeActs
  <2> QED  BY <1>7, <2>1, <2>4, <2>6
<1>18. CASE ClientCommand(r)
  <2> DEFINE p == GetProposer(1)
             s == [st[r] EXCEPT !.commands = @ \cup {st[r].view}, !.pm_proposer = p]
             f == [at |-> "enter_view", view |-> 1, blk |-> Genesis, vote |-> FALSE,
                   proposer |-> p]
  <2>1. Become(r, Push(s, f))
    BY <1>18 DEF ClientCommand, EnterView
  <2>2. 1 \in View /\ p \in Replica
    BY BoundsAssumption, ProposerType DEF View
  <2>3. f \in Frame /\ f.at = "enter_view"
    BY <2>2, GenesisType DEF Frame
  <2>4. s \in ReplicaState
    <3>1. st[r].view \in View
      BY <1>1 DEF ReplicaState
    <3> HIDE DEF p
    <3> QED  BY <1>1, <2>2, <3>1 DEF ReplicaState
  <2>5. Commits(r, st[r], s)
    BY <1>1, <2>4, SameCommits DEF Fit, Settled, ReplicaState
  <2> HIDE DEF s, f
  <2>6. Commits(r, s, Push(s, f))
    BY <2>3, <2>4, <2>5, PushCommits DEF Commits
  <2>7. Commits(r, st[r], Push(s, f))
    BY <1>1, <2>5, <2>6, CommitsTransitive
  <2> QED  BY <1>5, <2>1, <2>7
<1>19. ASSUME st[r].todo # <<>>
       PROVE  /\ Popped(st[r]) \in ReplicaState /\ Fit(r, Popped(st[r]))
              /\ Commits(r, st[r], Popped(st[r])) /\ Before(r, st[r], Popped(st[r]))
              /\ Popped(st[r]).view = st[r].view /\ Popped(st[r]).out = st[r].out
              /\ Popped(st[r]).pm_proposer = st[r].pm_proposer
              /\ Popped(st[r]).last_proposed_view = st[r].last_proposed_view
              /\ Popped(st[r]).vheight = st[r].vheight
              /\ Popped(st[r]).voted = st[r].voted
  <2>1. /\ Commits(r, st[r], Popped(st[r])) /\ Popped(st[r]) \in ReplicaState
        /\ Fit(r, Popped(st[r]))
    BY <1>1, <1>19, PoppedCommits DEF Commits
  <2>2. /\ Popped(st[r]).view = st[r].view /\ Popped(st[r]).out = st[r].out
        /\ Popped(st[r]).pm_proposer = st[r].pm_proposer
        /\ Popped(st[r]).last_proposed_view = st[r].last_proposed_view
        /\ Popped(st[r]).vheight = st[r].vheight
        /\ Popped(st[r]).voted = st[r].voted
        /\ Popped(st[r]).decided = st[r].decided
        /\ Popped(st[r]).view_shares = st[r].view_shares
    BY <1>1 DEF Popped, ReplicaState
  <2> QED  BY <1>6, <2>1, <2>2
<1>20. CASE ResumeEnterView(r)
  <2> DEFINE popped == Popped(st[r])
  <2>1. st[r].todo # <<>> /\ Become(r, AfterEnterView(popped, r))
    BY <1>20 DEF ResumeEnterView, Resumes
  <2>2. Poised(r, popped)
    <3>1. Sound(Known, popped)
      BY <1>1, <1>3, <2>1, PoppedApart, ApartPlain DEF Plain
    <3> QED  BY <1>2, <1>3, <1>19, <2>1, <3>1 DEF Poised, Turn
  <2>3. popped.pm_proposer = GetProposer(popped.view)
    BY <1>19, <2>1 DEF CertInv, Rotated
  <2>4. Before(r, st[r], popped)
    BY <1>19, <2>1
  <2> HIDE DEF popped
  <2>5. Acts(r, popped, AfterEnterView(popped, r))
    BY <2>2, <2>3, AfterEnterViewActs
  <2> QED  BY <1>7, <2>1, <2>4, <2>5
<1>21. CASE ResumeProposal(r)
  <2> DEFINE f == Head(st[r].todo)
             popped == Popped(st[r])
  <2>1. /\ st[r].todo # <<>>
        /\ (f.vote /\ Become(r, Vote(popped, r, f.blk, f.proposer))) \/ Become(r, popped)
    BY <1>21 DEF ResumeProposal, Resumes
  <2>2. /\ popped \in ReplicaState /\ Commits(r, st[r], popped) /\ Fit(r, popped)
        /\ Before(r, st[r], popped) /\ popped.view = st[r].view
        /\ popped.voted = st[r].voted
    BY <1>19, <2>1
  <2>3. CASE Become(r, popped)
    BY <1>5, <2>2, <2>3
  <2>4. CASE f.vote /\ Become(r, Vote(popped, r, f.blk, f.proposer))
    <3>1. f.proposer \in Replica
      BY <1>1, <2>1, PoppedLeads DEF Frame
    <3>2. f.blk \in Known /\ f.blk.view <= st[r].view
      <4>1. f.blk \in PendingIn(st[r].todo)
        BY <1>1, <2>1, <2>4, PendingHead DEF ReplicaState
      <4> QED  BY <4>1 DEF ChainInv, Supported, CertInv, Timely
    <3>3. Cardinality(popped.voted[f.blk] \cup {r}) >= NResponsive => f.blk \in Ready
      BY <2>2, <3>2, QuorumIsReady DEF Supports
    <3> HIDE DEF f, popped
    <3>4. Acts(r, popped, Vote(popped, r, f.blk, f.proposer))
      BY <2>2, <3>1, <3>2, <3>3, VoteActs DEF Before
    <3> QED  BY <1>7, <2>2, <2>4, <3>4
  <2> QED  BY <2>1, <2>3, <2>4
<1>22. CASE ResumeQC(r)
  <2> DEFINE f == [Head(st[r].todo) EXCEPT !.at = "try_enter_view"]
             popped == Popped(st[r])
             s == Push(popped, f)
             b == Head(st[r].todo).blk
  <2>1. /\ st[r].todo # <<>> /\ Become(r, Ack(s, r, b))
        /\ Head(st[r].todo).at = "view_qc"
    BY <1>22 DEF ResumeQC, Resumes
  <2>2. popped \in ReplicaState /\ Commits(r, st[r], popped) /\ Fit(r, popped)
    BY <1>19, <2>1
  <2>3. Head(st[r].todo) \in Frame
    BY <1>1, <2>1, PoppedLeads
  <2>4. f \in Frame /\ f.at = "try_enter_view"
    BY <2>3 DEF Frame
  <2>5. b \in Ready
    BY <1>1, <2>1, CertsTail DEF Fit, Settled, ReplicaState
  <2> HIDE DEF f, popped, b
  <2>6. Commits(r, popped, s)
    BY <2>2, <2>4, PushCommits
  <2> HIDE DEF s
  <2>7. Commits(r, s, Ack(s, r, b))
    BY <2>5, <2>6, AckCommits DEF Commits
  <2>8. Commits(r, st[r], s)
    BY <1>1, <2>2, <2>6, CommitsTransitive
  <2>9. Commits(r, st[r], Ack(s, r, b))
    BY <1>1, <2>7, <2>8, CommitsTransitive
  <2> QED  BY <1>5, <2>1, <2>9
<1>23. CASE ResumeTryEnterView(r)
  <2>1. st[r].todo # <<>> /\ Become(r, TryEnterView(Popped(st[r])))
    BY <1>23 DEF ResumeTryEnterView, Resumes
  <2>2. /\ Popped(st[r]) \in ReplicaState /\ Commits(r, st[r], Popped(st[r]))
        /\ Fit(r, Popped(st[r]))
    BY <1>19, <2>1
  <2>3. Commits(r, st[r], TryEnterView(Popped(st[r])))
    BY <1>1, <2>2, TryEnterViewCommits, CommitsTransitive
  <2> QED  BY <1>5, <2>1, <2>3
<1> QED
  BY <1>8, <1>9, <1>10, <1>11, <1>12, <1>13, <1>14, <1>15, <1>16, <1>17, <1>18,
     <1>20, <1>21, <1>22, <1>23 DEF Step

\* A block proposed now is of the view of its proposer, and nobody has one of that
\* view, or a later one.
LEMMA NewBlocksLead ==
  ASSUME CommandsInTime, TypeOK, BeaconsIgnored, CertInv, ChainInv,
         NEW r \in Replica, Step(r), NEW s, Does(r, s)
  PROVE  /\ Known' = Known \cup {m.blk : m \in ProposalsIn(s.out)}
         /\ \A b \in Known' : b \notin Known =>
              /\ ProposalsIn(s.out) # {} /\ b.view = st[r].view /\ b.view \in Nat
              /\ \A c \in Known : c.view < b.view
<1>1. msgs' = msgs \cup s.out
  BY DEF Does
<1>2. Known' = Known \cup {m.blk : m \in ProposalsIn(s.out)}
  BY <1>1 DEF Known, Sent, ProposalsIn
<1>3. ASSUME NEW b \in Known', b \notin Known
      PROVE  /\ ProposalsIn(s.out) # {} /\ b.view = st[r].view
             /\ \A c \in Known : c.view < b.view
  <2>1. PICK m \in ProposalsIn(s.out) : m.blk = b
    BY <1>2, <1>3
  <2>2. m \in msgs' /\ m \notin msgs /\ m.type = "propose"
    BY <1>1, <1>3, <2>1 DEF ProposalsIn, Known, Sent
  <2>3. ~ UNCHANGED vars
    BY <2>2 DEF vars
  <2>4. PICK t : Ends(r, t)
    BY <2>3, StepChains
  <2>5. m \in ProposalsIn(t.out)
    BY <2>2, <2>4 DEF Ends, ProposalsIn
  <2>6. Extends(r, st[r], t, m)
    BY <2>4, <2>5 DEF Ends, Chains
  <2>7. b.view = st[r].view /\ \A c \in Known : c.view < st[r].view
    BY <2>1, <2>6, ProposerIsFirst DEF Extends
  <2> QED  BY <2>1, <2>7
<1>4. st[r].view \in Nat
  BY ViewNat DEF TypeOK, ReplicaState
<1> QED  BY <1>2, <1>3, <1>4

LEMMA ReadyGrows ==
  ASSUME TypeOK, NEW r \in Replica, NEW s, Does(r, s), Known \subseteq Known'
  PROVE  Ready \subseteq Ready'
<1>1. \A q \in Replica : st[q].view \in Nat
  BY ViewNat DEF TypeOK, ReplicaState
<1>2. s.view \in Nat /\ s.view >= st[r].view
  <2>1. s \in ReplicaState /\ (s.view # st[r].view => s.view = st[r].view + 1)
    BY DEF Does, Acts, Leaves
  <2>2. s.view \in Nat
    BY <2>1, ViewNat DEF ReplicaState
  <2> QED  BY <1>1, <2>1, <2>2
<1>3. \A q \in Replica : st'[q].view \in Nat /\ st'[q].view >= st[q].view
  BY <1>1, <1>2 DEF Does, TypeOK
<1>4. ASSUME NEW b \in Ready PROVE b \in Ready'
  <2> DEFINE S == {q \in Replica : st[q].view >= b.view}
             T == {q \in Replica : st'[q].view >= b.view}
  <2>1. b \in Known /\ Cardinality(S) >= NResponsive
    BY DEF Ready, Attended
  <2>2. CASE b.view \in Nat
    <3>1. S \subseteq T
      BY <1>1, <1>3, <2>2
    <3>2. IsFiniteSet(T)
      BY ReplicaFinite, FS_Subset
    <3> HIDE DEF S, T
    <3>3. Cardinality(S) <= Cardinality(T) /\ Cardinality(S) \in Nat /\ Cardinality(T) \in Nat
      BY <3>1, <3>2, FS_Subset, FS_CardinalityType
    <3>4. Cardinality(T) >= NResponsive
      BY <2>1, <3>3, QuorumOfTwo
    <3> QED  BY <2>1, <3>4 DEF Ready, Attended, T
  <2>3. b.view \in Nat
    <3>1. b \in Block
      BY <2>1, SentTypes, GenesisType DEF TypeOK, Known, Proposals
    <3> QED  BY <3>1, ViewNat DEF Block
  <2> QED  BY <2>2, <2>3
<1> QED  BY <1>4

LEMMA FitRemains ==
  ASSUME TypeOK, ChainInv, NEW q \in Replica, NEW s, Fit(q, s),
         st'[q].view = s.view,
         st'[q].last_view_proposal_received = s.last_view_proposal_received,
         st'[q].last_view_shares_received = s.last_view_shares_received,
         st'[q].last_view_beacon_received = s.last_view_beacon_received,
         st'[q].last_view_cert_received = s.last_view_cert_received,
         st'[q].hqc = s.hqc, st'[q].view_shares = s.view_shares,
         st'[q].b_exec = s.b_exec, st'[q].decided = s.decided,
         st'[q].halted = s.halted, st'[q].todo = s.todo, st'[q].out = {},
         Ready \subseteq Ready',
         \A b \in Known' : b \notin Known =>
           b.view \in Nat /\ \A c \in Known : c.view < b.view
  PROVE  Fit(q, st[q])'
<1>1. ASSUME NEW b \in s.decided, NEW c \in Known', c.view <= b.view
      PROVE  c \in s.decided
  <2>1. b \in Known
    BY DEF Fit, Settled, Ready
  <2>2. CASE c \in Known
    BY <1>1, <2>2 DEF Fit, Settled
  <2>3. CASE c \notin Known
    <3>1. b.view < c.view /\ c.view \in Nat
      BY <2>1, <2>3
    <3>2. b.view \in Nat
      BY <2>1, BlocksInLine
    <3>3. FALSE
      BY <1>1, <3>1, <3>2
    <3> QED  BY <3>3
  <2> QED  BY <2>2, <2>3
<1>2. Settled(st[q])'
  BY <1>1 DEF Fit, Settled, Certs
<1>3. Timed(q, st[q])' /\ Low(st[q])' /\ (st[q].halted => Spoiled(st[q]))'
  BY DEF Fit, Timed, Low, Spoiled
<1> QED  BY <1>2, <1>3 DEF Fit

\* A view is left with its proposal: one of the shares that make its beacon is
\* another replica's.
LEMMA LeavesWithProposal ==
  ASSUME TypeOK, NEW r \in Replica, NEW s, Does(r, s), s.view # st[r].view,
         NReplicas >= 3 \/ SharesDistinct'
  PROVE  st[r].last_view_proposal_received = st[r].view
<1> DEFINE shares == s.view_shares[st[r].view]
<1>1. /\ st[r].view \in View /\ s \in ReplicaState /\ Gathered(shares)
      /\ \A i \in DOMAIN shares :
           shares[i] # r => st[r].last_view_proposal_received = st[r].view
  BY DEF TypeOK, ReplicaState, Does, Acts, Leaves
<1>2. shares \in Seq(Replica) /\ Len(shares) \in Nat
  BY <1>1 DEF ReplicaState
<1>3. NMajority >= 2 /\ NMajority \in Nat
  BY NReplicasAssumption DEF NMajority, NFaulty
<1>4. 1 \in DOMAIN shares /\ 2 \in DOMAIN shares
  <2>1. Len(shares) >= 2
    BY <1>1, <1>2, <1>3 DEF Gathered
  <2> QED  BY <1>2, <2>1
<1>5. shares[1] # shares[2]
  <2>1. CASE NReplicas >= 3
    <3>1. NFaulty + 1 >= 2 /\ NFaulty \in Nat
      BY <2>1, NReplicasAssumption DEF NFaulty
    <3>2. 1 \in 1 .. NFaulty + 1 /\ 2 \in 1 .. NFaulty + 1
      BY <3>1
    <3> QED  BY <1>1, <3>2 DEF Gathered, Reconstructs
  <2>2. CASE SharesDistinct'
    <3>1. st'[r].view_shares[st[r].view] = shares
      BY <1>1 DEF Does, TypeOK, ReplicaState
    <3> QED  BY <1>1, <1>4, <2>2, <3>1 DEF SharesDistinct
  <2> QED  BY <2>1, <2>2
<1> QED  BY <1>1, <1>4, <1>5

LEMMA PlacedOthers ==
  ASSUME TypeOK, CertInv, ChainInv, CommitInv, NEW r \in Replica,
         NEW q \in Replica, st'[q] = st[q], Known \subseteq Known',
         \A b \in Known' : b \notin Known =>
           b.view \in Nat /\ \A c \in Known : c.view < b.view
  PROVE  Placed(q)'
<1>1. Placed(q) /\ Fit(q, st[q]) /\ Backed(st[q]) /\ st[q].view \in Nat
  BY ViewNat DEF CommitInv, CertInv, Backing, TypeOK, ReplicaState
<1>2. ASSUME NEW b \in Known', HadProposalOf(q, b.view)'
      PROVE  b \in st[q].finished_propose
  <2>1. HadProposalOf(q, b.view)
    BY <1>2 DEF HadProposalOf
  <2>2. CASE b \in Known
    BY <1>1, <2>1, <2>2 DEF Placed
  <2>3. CASE b \notin Known
    <3>1. \E c \in Known : c.view = b.view
      <4>1. CASE b.view = st[q].view /\ st[q].last_view_proposal_received = st[q].view
        BY <1>1, <4>1 DEF Placed
      <4>2. CASE b.view < st[q].view
        <5>1. b.view \in 0 .. st[q].view - 1
          BY <1>1, <2>3, <4>2 DEF HadProposalOf
        <5>2. b.view \in Certified
          BY <1>1, <5>1 DEF Backed
        <5> QED  BY <5>2, CertifiedIsReady
      <4> QED  BY <2>1, <4>1, <4>2 DEF HadProposalOf
    <3>2. \A c \in Known : c.view < b.view /\ c.view \in Nat
      BY <2>3, BlocksInLine
    <3> QED  BY <3>1, <3>2
  <2> QED  BY <2>2, <2>3
<1> QED  BY <1>1, <1>2 DEF Placed

Lined ==
  \A b, c \in Known : b \in Block /\ b.view \in Nat /\ (b.view = c.view => b = c)

LEMMA BlocksLined == TypeOK /\ ChainInv => Lined
BY BlocksInLine DEF Lined

LEMMA PlacedItself ==
  ASSUME TypeOK, ChainInv, CommitInv, Lined', NEW r \in Replica,
         NEW s, Does(r, s), Known' = Known \cup {m.blk : m \in ProposalsIn(s.out)},
         \A b \in Known' : b \notin Known =>
           /\ ProposalsIn(s.out) # {} /\ b.view = st[r].view
           /\ \A c \in Known : c.view < b.view,
         NReplicas >= 3 \/ SharesDistinct'
  PROVE  Placed(r)'
<1>1. /\ Placed(r) /\ Fit(r, st[r]) /\ st[r].view \in Nat
      /\ st[r].last_view_proposal_received \in Nat
      /\ st[r].last_view_proposal_received <= st[r].view
  BY ViewNat DEF CommitInv, TypeOK, ReplicaState, Fit, Timed
<1>2. /\ s \in ReplicaState /\ Acts(r, st[r], s) /\ s.view \in Nat
      /\ s.view # st[r].view => s.view = st[r].view + 1
  <2>1. s \in ReplicaState /\ Acts(r, st[r], s)
    BY DEF Does, Acts
  <2> QED  BY <2>1, ViewNat DEF ReplicaState, Acts, Leaves
<1>3. /\ st'[r].view = s.view
      /\ st'[r].last_view_proposal_received = s.last_view_proposal_received
      /\ st'[r].finished_propose = s.finished_propose /\ st'[r].vheight = s.vheight
  BY <1>2 DEF Does, TypeOK, ReplicaState
<1>4. \A b, c \in Known' : b.view = c.view => b = c
  BY DEF Lined
<1>5. \A b \in Known' : b.view \in Nat
  BY DEF Lined
<1>6. s.view # st[r].view => st[r].last_view_proposal_received = st[r].view
  BY LeavesWithProposal
<1>7. CASE TakesNone(st[r], s)
  <2>1. /\ s.last_view_proposal_received = st[r].last_view_proposal_received
        /\ s.finished_propose = st[r].finished_propose /\ s.vheight = st[r].vheight
    BY <1>7 DEF TakesNone
  <2>2. s.last_view_proposal_received = s.view => s.view = st[r].view
    BY <1>1, <1>2, <2>1
  <2>3. ASSUME NEW b \in Known', HadProposalOf(r, b.view)'
        PROVE  b \in s.finished_propose
    <3>1. /\ 1 <= b.view
          /\ \/ b.view < s.view
             \/ b.view = s.view /\ s.last_view_proposal_received = s.view
      BY <1>3, <2>3 DEF HadProposalOf
    <3>2. HadProposalOf(r, b.view)
      <4>1. CASE s.view = st[r].view
        BY <2>1, <3>1, <4>1 DEF HadProposalOf
      <4>2. CASE s.view # st[r].view
        <5>1. b.view < st[r].view + 1
          BY <1>2, <2>2, <3>1, <4>2
        <5>2. b.view < st[r].view \/ b.view = st[r].view
          BY <1>1, <1>5, <5>1
        <5> QED  BY <1>6, <3>1, <4>2, <5>2 DEF HadProposalOf
      <4> QED  BY <4>1, <4>2
    <3>3. CASE b \in Known
      BY <1>1, <2>1, <3>2, <3>3 DEF Placed
    <3>4. CASE b \notin Known
      <4>1. /\ b.view = st[r].view /\ s.view = st[r].view
            /\ \A c \in Known : c.view < b.view
        BY <1>2, <3>4 DEF Acts
      <4>2. st[r].last_view_proposal_received = st[r].view
        BY <1>1, <2>1, <3>1, <4>1
      <4>3. PICK c \in Known : c.view = st[r].view
        BY <1>1, <4>2 DEF Placed
      <4>4. c.view \in Nat /\ c.view < b.view
        BY <4>1, BlocksInLine
      <4> QED  BY <4>1, <4>3, <4>4
    <3> QED  BY <3>3, <3>4
  <2> QED  BY <1>1, <1>3, <2>1, <2>2, <2>3 DEF Placed
<1>8. CASE \E b : Takes(b, st[r], s)
  <2>1. PICK c : Takes(c, st[r], s)
    BY <1>8
  <2>2. /\ c \in Known' /\ c.view = st[r].view /\ s.view = st[r].view
        /\ s.last_view_proposal_received = s.view
        /\ s.finished_propose = st[r].finished_propose \cup {c}
        /\ s.vheight = st[r].vheight \/ s.vheight = c.height
    BY <2>1 DEF Takes
  <2>3. ASSUME NEW b \in Known', HadProposalOf(r, b.view)'
        PROVE  b \in s.finished_propose
    <3>1. 1 <= b.view /\ (b.view < s.view \/ b.view = s.view)
      BY <1>3, <2>3 DEF HadProposalOf
    <3>2. CASE b.view = s.view
      BY <1>4, <2>2, <3>2
    <3>3. CASE b.view < s.view
      <4>1. b \in Known
        BY <1>1, <1>5, <2>2, <3>3
      <4>2. HadProposalOf(r, b.view)
        BY <2>2, <3>1, <3>3 DEF HadProposalOf
      <4> QED  BY <1>1, <2>2, <4>1, <4>2 DEF Placed
    <3> QED  BY <3>1, <3>2, <3>3
  <2>4. \E b \in Known' : b.height = s.vheight
    <3>1. \E b \in Known : b.height = st[r].vheight
      BY <1>1 DEF Placed
    <3> QED  BY <2>2, <3>1
  <2> QED  BY <1>3, <2>2, <2>3, <2>4 DEF Placed
<1> QED  BY <1>2, <1>7, <1>8 DEF Acts

LEMMA CommitInvStep ==
  ASSUME CommandsInTime, TypeOK, BeaconsIgnored, CertInv, ChainInv, CommitInv,
         TypeOK', ChainInv', NEW r \in Replica, Step(r),
         NReplicas >= 3 \/ SharesDistinct'
  PROVE  CommitInv'
<1>1. CASE UNCHANGED vars
  BY <1>1, CommitInvStutters
<1>2. CASE \E s : Does(r, s)
  <2>1. PICK s : Does(r, s)
    BY <1>2
  <2>2. /\ Known' = Known \cup {m.blk : m \in ProposalsIn(s.out)}
        /\ \A b \in Known' : b \notin Known =>
             /\ ProposalsIn(s.out) # {} /\ b.view = st[r].view /\ b.view \in Nat
             /\ \A c \in Known : c.view < b.view
    BY <2>1, NewBlocksLead
  <2>3. Known \subseteq Known'
    BY <2>2
  <2>4. Ready \subseteq Ready'
    BY <2>1, <2>3, ReadyGrows
  <2>5. /\ s \in ReplicaState /\ Fit(r, s)
        /\ st' = [st EXCEPT ![r] = [s EXCEPT !.out = {}]]
        /\ msgs' = msgs \cup s.out
    BY <2>1 DEF Does, Acts
  <2>6. ASSUME NEW q \in Replica PROVE Fit(q, st[q])' /\ Placed(q)'
    <3>1. CASE q = r
      <4> Lined'
        BY BlocksLined, PTL
      <4>1. Placed(q)'
        BY <2>1, <2>2, <3>1, PlacedItself
      <4>2. /\ st'[q].view = s.view
            /\ st'[q].last_view_proposal_received = s.last_view_proposal_received
            /\ st'[q].last_view_shares_received = s.last_view_shares_received
            /\ st'[q].last_view_beacon_received = s.last_view_beacon_received
            /\ st'[q].last_view_cert_received = s.last_view_cert_received
            /\ st'[q].hqc = s.hqc /\ st'[q].view_shares = s.view_shares
            /\ st'[q].b_exec = s.b_exec /\ st'[q].decided = s.decided
            /\ st'[q].halted = s.halted /\ st'[q].todo = s.todo /\ st'[q].out = {}
        BY <2>5, <3>1 DEF TypeOK, ReplicaState
      <4>3. Fit(q, st[q])'
        BY <2>2, <2>4, <2>5, <3>1, <4>2, FitRemains
      <4> QED  BY <4>1, <4>3
    <3>2. CASE q # r
      <4>1. st'[q] = st[q]
        BY <2>5, <3>2 DEF TypeOK
      <4>2. st[q].out = {} /\ Fit(q, st[q])
        BY DEF CertInv, Quiet, CommitInv
      <4>3. Fit(q, st[q])'
        BY <2>2, <2>4, <4>1, <4>2, FitRemains
      <4>4. Placed(q)'
        BY <2>2, <2>3, <4>1, PlacedOthers
      <4> QED  BY <4>3, <4>4
    <3> QED  BY <3>1, <3>2
  <2>7. ASSUME NEW m \in msgs' PROVE Proper(m)'
    <3>1. Proper(m)
      BY <2>5 DEF CommitInv, Fit, Settled
    <3> QED  BY <2>4, <3>1 DEF Proper
  <2> QED  BY <2>6, <2>7 DEF CommitInv
<1> QED  BY <1>1, <1>2, StepActs

=============================================================================
