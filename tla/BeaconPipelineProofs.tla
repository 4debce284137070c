------------------------ MODULE BeaconPipelineProofs ------------------------
(***************************************************************************)
(* For every number of replicas from three on: in a view all replicas open *)
(* one aggregate, and only those of the set-up are opened twice.           *)
(*                                                                         *)
(* The invariant says what each table holds.  Kept: of the views a replica *)
(* has been through, it has the aggregate made for that view, which is the *)
(* one proposed.  Queued: the slot of a proposer in agg_queue has the      *)
(* aggregate of that proposer's last view that ended nmajority views ago,  *)
(* or the one of the set-up.  So what is opened in view v is determined by *)
(* v (Source), as nmajority lies between 1 and the number of replicas.     *)
(***************************************************************************)
EXTENDS BeaconPipeline, FiniteSetTheorems, TLAPS

-----------------------------------------------------------------------------
(* Turns: division by the number of replicas.                              *)

LEMMA DivMod ==
  ASSUME NEW n \in Nat, n > 0, NEW a \in Nat
  PROVE  /\ a \div n \in Int /\ a % n \in Int /\ 0 <= a % n /\ a % n < n
         /\ a = n * (a \div n) + (a % n)
PROOF
  <1>1. a \div n \in Int
    OBVIOUS
  <1>2. a % n \in Int
    OBVIOUS
  <1>3. 0 <= a % n
    OBVIOUS
  <1>4. a % n < n
    OBVIOUS
  <1>5. a = n * (a \div n) + (a % n)
    OBVIOUS
  <1> QED
    BY <1>1, <1>2, <1>3, <1>4, <1>5

\* Quotient and remainder are unique.
LEMMA DivModUnique ==
  ASSUME NEW n \in Nat, n > 0, NEW q \in Int, NEW k \in Int,
         NEW x \in 0 .. n - 1, NEW y \in 0 .. n - 1,
         n * q + x = n * k + y
  PROVE  q = k /\ x = y
PROOF
  <1>1. n * (q - k) = y - x
    OBVIOUS
  <1>2. CASE q > k
    <2>1. n * (q - k) >= n
      BY <1>2
    <2> QED
      BY <2>1, <1>1
  <1>3. CASE q < k
    <2>1. n * (k - q) >= n
      BY <1>3
    <2>2. n * (k - q) = x - y
      OBVIOUS
    <2> QED
      BY <2>1, <2>2
  <1>4. CASE q = k
    BY <1>1, <1>4
  <1> QED
    BY <1>2, <1>3, <1>4

LEMMA ModShift ==
  ASSUME NEW n \in Nat, n > 0, NEW a \in Nat
  PROVE  (a + n) % n = a % n
PROOF
  <1> DEFINE q == a \div n
             x == a % n
             k == (a + n) \div n
             y == (a + n) % n
  <1>1. q \in Int /\ x \in 0 .. n - 1 /\ a = n * q + x
    BY DivMod
  <1>2. k \in Int /\ y \in 0 .. n - 1 /\ a + n = n * k + y
    <2>1. a + n \in Nat
      OBVIOUS
    <2> QED
      BY <2>1, DivMod
  <1>3. q + 1 \in Int /\ n * (q + 1) + x = n * k + y
    BY <1>1, <1>2
  <1> HIDE DEF q, x, k, y
  <1>4. x = y
    BY <1>1, <1>2, <1>3, DivModUnique
  <1> QED
    BY <1>4 DEF x, y

LEMMA ModDiffers ==
  ASSUME NEW n \in Nat, n > 0, NEW a \in Nat, NEW b \in Nat, a < b, b < a + n
  PROVE  a % n # b % n
PROOF
  <1> SUFFICES ASSUME a % n = b % n PROVE FALSE
    OBVIOUS
  <1> DEFINE q == a \div n
             k == b \div n
  <1>1. q \in Int /\ k \in Int /\ a = n * q + (a % n) /\ b = n * k + (a % n)
    BY DivMod
  <1>2. b - a = n * k - n * q
    BY <1>1
  <1>3. CASE k > q
    BY <1>1, <1>2, <1>3
  <1>4. CASE k <= q
    BY <1>1, <1>2, <1>4
  <1> QED
    BY <1>1, <1>3, <1>4

LEMMA Sizes ==
  /\ NReplicas \in Nat /\ NReplicas >= 3 /\ MaxView \in Nat
  /\ NMajority \in Nat /\ 2 <= NMajority /\ NMajority <= NReplicas
  /\ NResponsive \in Nat /\ NResponsive - 1 >= NMajority
  /\ NResponsive >= 2
PROOF
  <1>1. NReplicas \in Nat /\ NReplicas >= 3 /\ MaxView \in Nat
    BY NReplicasAssumption, PipelineAssumption
  <1> DEFINE n == NReplicas
             a == (n - 1) \div 2
             b == (3 * n) \div 4
  <1>2. a \in Int /\ b \in Int
    BY <1>1
  <1>3. 2 * a <= n - 1 /\ n - 1 < 2 * a + 2
    BY <1>1
  <1>4. 4 * b <= 3 * n /\ 3 * n < 4 * b + 4
    BY <1>1
  <1>5. n - a >= 2 /\ n - a <= n
    BY <1>1, <1>2, <1>3
  <1>6. b >= n - a
    BY <1>1, <1>2, <1>3, <1>4
  <1> QED
    BY <1>1, <1>2, <1>5, <1>6 DEF NMajority, NFaulty, NResponsive

LEMMA ProposerType ==
  ASSUME NEW v \in Nat, v >= 1
  PROVE  GetProposer(v) \in Replica
PROOF
  <1>1. v - 1 \in Nat /\ NReplicas \in Nat /\ NReplicas > 0
    BY Sizes
  <1> QED
    BY <1>1, DivMod DEF GetProposer, Replica

\* Within n views a replica has one turn.
LEMMA OneTurn ==
  ASSUME NEW s \in Nat, NEW t \in Nat, s >= 1, t >= 1, s # t,
         s < t + NReplicas, t < s + NReplicas
  PROVE  GetProposer(s) # GetProposer(t)
PROOF
  <1>1. s - 1 \in Nat /\ t - 1 \in Nat /\ NReplicas \in Nat /\ NReplicas > 0
    BY Sizes
  <1>2. CASE s < t
    <2>1. s - 1 < t - 1 /\ t - 1 < s - 1 + NReplicas
      BY <1>1, <1>2
    <2> QED
      BY <1>1, <2>1, ModDiffers DEF GetProposer
  <1>3. CASE t < s
    <2>1. t - 1 < s - 1 /\ s - 1 < t - 1 + NReplicas
      BY <1>1, <1>3
    <2> QED
      BY <1>1, <2>1, ModDiffers DEF GetProposer
  <1> QED
    BY <1>2, <1>3

\* n views later it is the same replica's turn again.
LEMMA NextTurn ==
  ASSUME NEW v \in Nat, v > NReplicas
  PROVE  GetProposer(v - NReplicas) = GetProposer(v)
PROOF
  <1>1. v - NReplicas - 1 \in Nat /\ NReplicas \in Nat /\ NReplicas > 0
    BY Sizes
  <1>2. v - NReplicas - 1 + NReplicas = v - 1
    BY <1>1
  <1>3. (v - NReplicas - 1 + NReplicas) % NReplicas = (v - NReplicas - 1) % NReplicas
    BY <1>1, ModShift
  <1> QED
    BY <1>2, <1>3 DEF GetProposer

LEMMA FirstTurn ==
  ASSUME NEW v \in Nat, v >= 1, v <= NReplicas
  PROVE  GetProposer(v) = v - 1
PROOF
  <1>1. v - 1 \in Nat /\ v - 1 < NReplicas /\ NReplicas \in Nat /\ NReplicas > 0
    BY Sizes
  <1>2. (v - 1) % NReplicas = v - 1
    BY <1>1
  <1> QED
    BY <1>2 DEF GetProposer

-----------------------------------------------------------------------------
(* The invariant.                                                          *)

Types ==
  /\ view \in [Replica -> View]
  /\ last_view_proposal_received \in [Replica -> Nat]
  /\ proposed \in Seq(Nat)
  /\ view_agg_transcripts \in [Replica -> [ForViews -> Nat]]
  /\ agg_queue \in [Replica -> [Replica -> Nat]]
  /\ used \in [View -> SUBSET Nat]

\* An aggregate is stored under the view it is made for, and proposed in it.
Made ==
  /\ \A r \in Replica, w \in ForViews : view_agg_transcripts[r][w] \in {Missing, w}
  /\ \A v \in DOMAIN proposed : proposed[v] \in {Missing, v}

\* A replica has the aggregates of the views it has been through.
Kept ==
  \A r \in Replica, t \in View :
    t < view[r] => /\ t \in DOMAIN proposed /\ proposed[t] = t
                   /\ view_agg_transcripts[r][t] = t

\* Of the view it is in, once it has handled the proposal.
Keeping ==
  \A r \in Replica :
    /\ last_view_proposal_received[r] <= view[r]
    /\ last_view_proposal_received[r] = view[r] =>
         /\ view[r] \in DOMAIN proposed
         /\ proposed[view[r]] = view[r] => view_agg_transcripts[r][view[r]] = view[r]
         /\ r # GetProposer(view[r]) => proposed[view[r]] = view[r]

\* What agg_queue has for the last n views that ended nmajority views ago.
Queued ==
  \A r \in Replica :
    /\ \A t \in View :
         t <= view[r] - NMajority /\ t + NReplicas > view[r] - NMajority
           => agg_queue[r][GetProposer(t)] = t
    /\ \A p \in Replica :
         p + 1 > view[r] - NMajority => agg_queue[r][p] = p + 1

\* The view whose aggregate is opened in view v.
Source(v) == IF v <= NReplicas THEN v ELSE v - NReplicas

Opened == \A v \in View : used[v] \subseteq {Source(v)}

PipelineInv == Types /\ Made /\ Kept /\ Keeping /\ Queued /\ Opened

LEMMA ViewType ==
  /\ View \subseteq ForViews
  /\ \A v \in View : v \in Nat /\ v >= 1 /\ v <= MaxView + 1
  /\ \A w \in ForViews : w \in Nat /\ w >= 1 /\ w # Missing
PROOF
  BY Sizes DEF View, ForViews, Missing

LEMMA InitInv == Init => PipelineInv
PROOF
  <1> SUFFICES ASSUME Init PROVE PipelineInv
    OBVIOUS
  <1> USE Sizes, ViewType DEF Init
  <1>1. 1 \in View
    BY DEF View
  <1>2. Types
    <2>1. view_agg_transcripts \in [Replica -> [ForViews -> Nat]]
      BY DEF Missing
    <2>2. agg_queue \in [Replica -> [Replica -> Nat]]
      BY DEF Replica
    <2> QED
      BY <1>1, <2>1, <2>2 DEF Types
  <1>3. Made
    BY DEF Made, Missing
  <1>4. Kept /\ Keeping
    BY DEF Kept, Keeping
  <1>5. Queued
    BY DEF Queued
  <1>6. Opened
    BY DEF Opened
  <1> QED
    BY <1>2, <1>3, <1>4, <1>5, <1>6 DEF PipelineInv

\* The variables the invariant speaks of.
held == <<view, last_view_proposal_received, proposed, view_agg_transcripts,
          agg_queue, used>>

LEMMA HeldKeeps ==
  ASSUME PipelineInv, UNCHANGED held
  PROVE  PipelineInv'
PROOF
  BY DEF held, PipelineInv, Types, Made, Kept, Keeping, Queued, Opened

\* A proposal is the first of its view, and all earlier views have one.
LEMMA ProposesNext ==
  ASSUME PipelineInv, NEW r \in Replica, Propose(r)
  PROVE  /\ proposed' \in Seq(Nat) /\ DOMAIN proposed' = DOMAIN proposed \cup {view[r]}
         /\ \A t \in DOMAIN proposed : proposed'[t] = proposed[t]
         /\ proposed'[view[r]] = view_agg_transcripts[r][view[r]]
PROOF
  <1> DEFINE v == view[r]
             a == view_agg_transcripts[r][v]
  <1> USE DEF PipelineInv
  <1>1. /\ v \in View /\ v \in ForViews /\ v \in Nat /\ v >= 1 /\ v <= MaxView
        /\ v \notin DOMAIN proposed /\ proposed' = Append(proposed, a)
    BY ViewType, Sizes DEF Propose, Types
  <1>2. a \in Nat
    BY <1>1 DEF Types
  <1>3. Len(proposed) = v - 1
    <2>1. proposed \in Seq(Nat) /\ Len(proposed) \in Nat /\ DOMAIN proposed = 1 .. Len(proposed)
      BY DEF Types
    <2>2. Len(proposed) < v
      BY <1>1, <2>1
    <2>3. CASE v = 1
      BY <2>1, <2>2, <2>3
    <2>4. CASE v > 1
      <3>1. v - 1 \in View
        BY <1>1, <2>4, Sizes DEF View
      <3>2. v - 1 < view[r]
        BY <1>1
      <3>3. v - 1 \in DOMAIN proposed
        BY <3>1, <3>2 DEF Kept
      <3> QED
        BY <2>1, <2>2, <3>3, <1>1
    <2> QED
      BY <1>1, <2>3, <2>4
  <1>4. /\ proposed' \in Seq(Nat) /\ DOMAIN proposed' = DOMAIN proposed \cup {v}
        /\ \A t \in DOMAIN proposed : proposed'[t] = proposed[t]
        /\ proposed'[v] = a
    <2>1. proposed \in Seq(Nat)
      BY DEF Types
    <2>2. Len(proposed') = v
      BY <1>1, <1>2, <1>3, <2>1
    <2> QED
      BY <1>1, <1>2, <1>3, <2>1, <2>2, SMTT(30)
  <1> QED
    BY <1>4

LEMMA ProposeKeeps ==
  ASSUME PipelineInv, NEW r \in Replica, Propose(r)
  PROVE  PipelineInv'
PROOF
  <1> DEFINE v == view[r]
             a == view_agg_transcripts[r][v]
  <1> USE DEF PipelineInv
  <1>1. /\ v \in View /\ v \in ForViews /\ v \in Nat /\ v >= 1 /\ v <= MaxView
        /\ r = GetProposer(v) /\ v \notin DOMAIN proposed
        /\ proposed' = Append(proposed, a)
        /\ last_view_proposal_received' = [last_view_proposal_received EXCEPT ![r] = v]
        /\ UNCHANGED <<view, view_agg_transcripts, agg_queue, used>>
    BY ViewType, Sizes DEF Propose, Types
  <1>2. a \in Nat /\ a \in {Missing, v}
    BY <1>1 DEF Types, Made
  <1>3. /\ proposed' \in Seq(Nat) /\ DOMAIN proposed' = DOMAIN proposed \cup {v}
        /\ \A t \in DOMAIN proposed : proposed'[t] = proposed[t]
        /\ proposed'[v] = a
    BY ProposesNext
  <1> HIDE DEF v, a
  <1>4. Types'
    BY <1>1, <1>3 DEF Types
  <1>5. Made'
    BY <1>1, <1>2, <1>3 DEF Made
  <1>6. Kept'
    BY <1>1, <1>3 DEF Kept
  <1>7. Keeping'
    <2> SUFFICES ASSUME NEW q \in Replica
                 PROVE  /\ last_view_proposal_received'[q] <= view[q]
                        /\ last_view_proposal_received'[q] = view[q] =>
                             /\ view[q] \in DOMAIN proposed'
                             /\ proposed'[view[q]] = view[q] =>
                                  view_agg_transcripts[q][view[q]] = view[q]
                             /\ q # GetProposer(view[q]) => proposed'[view[q]] = view[q]
      BY <1>1 DEF Keeping
    <2>1. CASE q = r
      <3>1. last_view_proposal_received'[q] = view[q]
        BY <1>1, <2>1 DEF Types, v
      <3>2. view[q] = v /\ view_agg_transcripts[q][view[q]] = a
        BY <2>1 DEF v, a
      <3>3. view[q] \in Nat
        BY ViewType DEF Types
      <3> QED
        BY <1>1, <1>3, <2>1, <3>1, <3>2, <3>3
    <2>2. CASE q # r
      <3>1. last_view_proposal_received'[q] = last_view_proposal_received[q]
        BY <1>1, <2>2 DEF Types
      <3> QED
        BY <1>3, <3>1 DEF Keeping
    <2> QED
      BY <2>1, <2>2
  <1>8. Queued' /\ Opened'
    BY <1>1 DEF Queued, Opened
  <1> QED
    BY <1>4, <1>5, <1>6, <1>7, <1>8

LEMMA ReceiveProposalKeeps ==
  ASSUME PipelineInv, NEW r \in Replica, ReceiveProposal(r)
  PROVE  PipelineInv'
PROOF
  <1> DEFINE v == view[r]
  <1> USE DEF PipelineInv
  <1>1. /\ v \in View /\ v \in ForViews /\ v \in Nat /\ v \in DOMAIN proposed
        /\ proposed[v] # Missing
        /\ view_agg_transcripts' = [view_agg_transcripts EXCEPT ![r][v] = proposed[v]]
        /\ last_view_proposal_received' = [last_view_proposal_received EXCEPT ![r] = v]
        /\ UNCHANGED <<view, proposed, agg_queue, used>>
    BY ViewType DEF ReceiveProposal, Keep, Types
  <1>2. proposed[v] = v
    BY <1>1 DEF Made
  <1> HIDE DEF v
  <1>3. \A q \in Replica, w \in ForViews :
          view_agg_transcripts'[q][w] =
            IF q = r /\ w = v THEN v ELSE view_agg_transcripts[q][w]
    BY <1>1, <1>2 DEF Types
  <1>4. Types'
    BY <1>1, <1>2 DEF Types
  <1>5. Made'
    BY <1>1, <1>3 DEF Made
  <1>6. Kept'
    BY <1>1, <1>3, ViewType DEF Kept
  <1>7. Keeping'
    <2> SUFFICES ASSUME NEW q \in Replica
                 PROVE  /\ last_view_proposal_received'[q] <= view[q]
                        /\ last_view_proposal_received'[q] = view[q] =>
                             /\ view[q] \in DOMAIN proposed
                             /\ proposed[view[q]] = view[q] =>
                                  view_agg_transcripts'[q][view[q]] = view[q]
                             /\ q # GetProposer(view[q]) => proposed[view[q]] = view[q]
      BY <1>1 DEF Keeping
    <2>0. view[q] \in Nat /\ view[q] \in ForViews
      BY ViewType DEF Types
    <2>1. CASE q = r
      <3>1. last_view_proposal_received'[q] = view[q] /\ view[q] = v
        BY <1>1, <2>1 DEF Types, v
      <3> QED
        BY <1>1, <1>2, <1>3, <2>0, <2>1, <3>1
    <2>2. CASE q # r
      <3>1. last_view_proposal_received'[q] = last_view_proposal_received[q]
        BY <1>1, <2>2 DEF Types
      <3> QED
        BY <1>3, <2>0, <2>2, <3>1 DEF Keeping
    <2> QED
      BY <2>1, <2>2
  <1>8. Queued' /\ Opened'
    BY <1>1 DEF Queued, Opened
  <1> QED
    BY <1>4, <1>5, <1>6, <1>7, <1>8

\* An aggregate that is made late changes nothing that is relied on.
LEMMA TranscriptKeeps ==
  ASSUME PipelineInv, NEW r \in Replica, NEW q \in Replica,
         OnReceivePvssTranscript(r, q)
  PROVE  PipelineInv'
PROOF
  <1> USE DEF PipelineInv
  <1>0. PICK m \in transcripts[q][r] :
          LET w == m.for_view
          IN /\ \/ UNCHANGED view_agg_transcripts
                \/ view_agg_transcripts' = [view_agg_transcripts EXCEPT ![r][w] = w]
             /\ UNCHANGED <<view, last_view_proposal_received, proposed, agg_queue, used>>
    BY DEF OnReceivePvssTranscript
  <1> DEFINE w == m.for_view
  <1>1. /\ \/ UNCHANGED view_agg_transcripts
           \/ view_agg_transcripts' = [view_agg_transcripts EXCEPT ![r][w] = w]
        /\ UNCHANGED <<view, last_view_proposal_received, proposed, agg_queue, used>>
    BY <1>0
  <1> HIDE DEF w
  <1>2. CASE UNCHANGED view_agg_transcripts
    BY <1>1, <1>2, HeldKeeps DEF held
  <1>3. CASE view_agg_transcripts' = [view_agg_transcripts EXCEPT ![r][w] = w]
    <2>1. \A p \in Replica, x \in ForViews :
            view_agg_transcripts'[p][x] \in {view_agg_transcripts[p][x], x}
      BY <1>3 DEF Types
    <2>2. Types'
      <3>1. view_agg_transcripts' \in [Replica -> [ForViews -> Nat]]
        <4>1. view_agg_transcripts[r] \in [ForViews -> Nat]
          BY DEF Types
        <4>2. CASE w \in ForViews
          <5>1. w \in Nat
            BY <4>2, ViewType
          <5> QED
            BY <1>3, <4>1, <4>2, <5>1 DEF Types
        <4>3. CASE w \notin ForViews
          <5>1. [view_agg_transcripts[r] EXCEPT ![w] = w] = view_agg_transcripts[r]
            BY <4>1, <4>3
          <5> QED
            BY <1>3, <5>1 DEF Types
        <4> QED
          BY <4>2, <4>3
      <3> QED
        BY <1>1, <3>1 DEF Types
    <2>3. Made' /\ Kept' /\ Keeping'
      <3>1. Made'
        BY <1>1, <2>1 DEF Made
      <3>2. Kept'
        <4> SUFFICES ASSUME NEW p \in Replica, NEW t \in View, t < view[p]
                     PROVE  /\ t \in DOMAIN proposed /\ proposed[t] = t
                            /\ view_agg_transcripts'[p][t] = t
          BY <1>1 DEF Kept
        <4>1. view_agg_transcripts'[p][t] \in {view_agg_transcripts[p][t], t}
          BY <2>1, ViewType
        <4> QED
          BY <4>1 DEF Kept
      <3>3. Keeping'
        BY <1>1, <2>1, ViewType, ZenonT(40) DEF Keeping, Types
      <3> QED
        BY <3>1, <3>2, <3>3
    <2>4. Queued' /\ Opened'
      BY <1>1 DEF Queued, Opened
    <2> QED
      BY <2>2, <2>3, <2>4
  <1> QED
    BY <1>1, <1>2, <1>3

\* The votes of a certificate are not all the proposer's: the view's proposal
\* has an aggregate.
LEMMA CertifiedAggregate ==
  ASSUME PipelineInv, NEW v \in View,
         Cardinality({q \in Replica : last_view_proposal_received[q] >= v}) >= NResponsive
  PROVE  v \in DOMAIN proposed /\ proposed[v] = v
PROOF
  <1> DEFINE Q == {q \in Replica : last_view_proposal_received[q] >= v}
  <1> USE DEF PipelineInv
  <1>1. PICK q \in Q : q # GetProposer(v)
    <2> SUFFICES ASSUME Q \subseteq {GetProposer(v)} PROVE FALSE
      OBVIOUS
    <2>1. IsFiniteSet({GetProposer(v)}) /\ Cardinality({GetProposer(v)}) = 1
      BY FS_Singleton
    <2>2. Cardinality(Q) <= 1 /\ Cardinality(Q) \in Nat
      BY <2>1, FS_Subset, FS_CardinalityType
    <2> QED
      BY <2>2, Sizes
  <1>2. /\ q \in Replica /\ last_view_proposal_received[q] >= v
        /\ last_view_proposal_received[q] <= view[q]
        /\ last_view_proposal_received[q] \in Nat /\ view[q] \in Nat /\ v \in Nat
    BY ViewType DEF Keeping, Types
  <1>3. CASE v < view[q]
    BY <1>2, <1>3 DEF Kept
  <1>4. CASE v = view[q]
    <2>1. last_view_proposal_received[q] = view[q]
      BY <1>2, <1>4
    <2> QED
      BY <1>1, <1>2, <1>4, <2>1 DEF Keeping
  <1> QED
    BY <1>2, <1>3, <1>4

LEMMA LeaveViewKeeps ==
  ASSUME PipelineInv, NEW r \in Replica, LeaveView(r)
  PROVE  PipelineInv'
PROOF
  <1> DEFINE v == view[r]
             m == v - NMajority
  <1> USE DEF PipelineInv
  <1>1. /\ v \in View /\ v \in Nat /\ v >= 1 /\ v <= MaxView /\ v + 1 \in View
        /\ last_view_proposal_received[r] = v
        /\ used' = [used EXCEPT ![v] = @ \cup {agg_queue[r][GetProposer(v)]}]
        /\ agg_queue' = UpdateAggQueue(r, v)
        /\ view' = [view EXCEPT ![r] = v + 1]
        /\ UNCHANGED <<last_view_proposal_received, proposed, view_agg_transcripts>>
    BY ViewType, Sizes DEF LeaveView, Types, View
  <1>2. v \in DOMAIN proposed /\ proposed[v] = v /\ view_agg_transcripts[r][v] = v
    <2>1. Cardinality({q \in Replica : last_view_proposal_received[q] >= v}) >= NResponsive
      BY DEF LeaveView
    <2>2. v \in DOMAIN proposed /\ proposed[v] = v
      BY <1>1, <2>1, CertifiedAggregate
    <2> QED
      BY <1>1, <2>2 DEF Keeping
  \* What is opened now.
  <1>3. agg_queue[r][GetProposer(v)] = Source(v)
    <2>1. CASE v <= NReplicas
      <3>1. GetProposer(v) = v - 1 /\ GetProposer(v) \in Replica
        BY <1>1, <2>1, FirstTurn, ProposerType
      <3>2. v - 1 + 1 > view[r] - NMajority
        BY <1>1, Sizes
      <3>3. agg_queue[r][v - 1] = v - 1 + 1
        BY <3>1, <3>2 DEF Queued
      <3> QED
        BY <1>1, <2>1, <3>1, <3>3 DEF Source
    <2>2. CASE v > NReplicas
      <3> DEFINE t == v - NReplicas
      <3>1. t \in View
        BY <1>1, <2>2, Sizes DEF View
      <3>2. t <= view[r] - NMajority /\ t + NReplicas > view[r] - NMajority
        BY <1>1, Sizes
      <3>3. agg_queue[r][GetProposer(t)] = t
        BY <3>1, <3>2 DEF Queued
      <3>4. GetProposer(t) = GetProposer(v)
        BY <1>1, <2>2, NextTurn
      <3>5. ~ (v <= NReplicas)
        BY <1>1, <2>2, Sizes
      <3> QED
        BY <3>3, <3>4, <3>5 DEF Source
    <2> QED
      BY <1>1, <2>1, <2>2, Sizes
  <1>4. /\ view'[r] = v + 1
        /\ \A q \in Replica \ {r} : view'[q] = view[q] /\ agg_queue'[q] = agg_queue[q]
    BY <1>1 DEF Types, UpdateAggQueue
  <1>5. agg_queue' \in [Replica -> [Replica -> Nat]]
    <2>1. CASE v < NMajority
      BY <1>1, <2>1 DEF UpdateAggQueue, Types
    <2>2. CASE ~ (v < NMajority)
      <3> DEFINE t == v - NMajority + 1
      <3>1. t \in ForViews /\ view_agg_transcripts[r][t] \in Nat
        <4>1. t \in View
          BY <1>1, <2>2, Sizes DEF View
        <4> QED
          BY <4>1, ViewType DEF Types
      <3>2. agg_queue' = [agg_queue EXCEPT ![r][GetProposer(t)] = view_agg_transcripts[r][t]]
        BY <1>1, <2>2 DEF UpdateAggQueue
      <3> QED
        BY <3>1, <3>2 DEF Types
    <2> QED
      BY <2>1, <2>2
  <1> HIDE DEF v
  <1>6. Types'
    <2>1. used' \in [View -> SUBSET Nat]
      <3>1. Source(v) \in Nat
        BY <1>1, Sizes DEF Source
      <3> QED
        BY <1>1, <1>3, <3>1 DEF Types
    <2> QED
      BY <1>1, <1>5, <2>1 DEF Types
  <1>7. Made'
    BY <1>1 DEF Made
  <1>8. Kept'
    <2> SUFFICES ASSUME NEW q \in Replica, NEW t \in View, t < view'[q]
                 PROVE  /\ t \in DOMAIN proposed /\ proposed[t] = t
                        /\ view_agg_transcripts[q][t] = t
      BY <1>1 DEF Kept
    <2>1. CASE q # r
      BY <1>4, <2>1 DEF Kept
    <2>2. CASE q = r /\ t = v
      BY <1>2, <2>2
    <2>3. CASE q = r /\ t # v
      <3>1. t < view[r]
        BY <1>1, <1>4, <2>3, ViewType DEF v
      <3> QED
        BY <2>3, <3>1 DEF Kept
    <2> QED
      BY <2>1, <2>2, <2>3
  <1>9. Keeping'
    <2> SUFFICES ASSUME NEW q \in Replica
                 PROVE  /\ last_view_proposal_received[q] <= view'[q]
                        /\ last_view_proposal_received[q] = view'[q] =>
                             /\ view'[q] \in DOMAIN proposed
                             /\ proposed[view'[q]] = view'[q] =>
                                  view_agg_transcripts[q][view'[q]] = view'[q]
                             /\ q # GetProposer(view'[q]) => proposed[view'[q]] = view'[q]
      BY <1>1 DEF Keeping
    <2>1. CASE q = r
      BY <1>1, <1>4, <2>1
    <2>2. CASE q # r
      BY <1>4, <2>2 DEF Keeping
    <2> QED
      BY <2>1, <2>2
  <1>10. Queued'
    <2> SUFFICES ASSUME NEW q \in Replica
                 PROVE  /\ \A t \in View :
                             t <= view'[q] - NMajority /\ t + NReplicas > view'[q] - NMajority
                               => agg_queue'[q][GetProposer(t)] = t
                        /\ \A p \in Replica :
                             p + 1 > view'[q] - NMajority => agg_queue'[q][p] = p + 1
      BY DEF Queued
    <2>1. CASE q # r
      BY <1>4, <2>1 DEF Queued
    <2>2. CASE q = r /\ v < NMajority
      <3>1. agg_queue'[r] = agg_queue[r] /\ view[r] = v /\ view'[r] = v + 1
        BY <1>1, <1>4, <2>2 DEF UpdateAggQueue, v
      <3>2. \A t \in View : ~ (t <= v + 1 - NMajority)
        BY <1>1, <2>2, ViewType, Sizes
      <3>3. \A p \in Replica : p + 1 > v - NMajority
        BY <1>1, <2>2, Sizes DEF Replica
      <3>4. view'[q] = v + 1 /\ agg_queue'[q] = agg_queue[r] /\ v \in Nat
        BY <1>1, <2>2, <3>1
      <3>5. \A p \in Replica : agg_queue[r][p] = p + 1
        BY <3>1, <3>3 DEF Queued
      <3> QED
        BY <3>2, <3>4, <3>5, Sizes
    <2>3. CASE q = r /\ ~ (v < NMajority)
      <3> DEFINE s == v - NMajority + 1
      <3>1. s \in View /\ s \in Nat /\ s >= 1 /\ s < v
        BY <1>1, <2>3, Sizes DEF View
      <3>2. view_agg_transcripts[r][s] = s
        BY <3>1 DEF Kept, v
      <3>3. GetProposer(s) \in Replica
        BY <3>1, ProposerType
      <3>4. \A p \in Replica :
              agg_queue'[r][p] = IF p = GetProposer(s) THEN s ELSE agg_queue[r][p]
        BY <1>1, <2>3, <3>2, <3>3 DEF UpdateAggQueue, Types
      <3>5. view[r] = v /\ view'[r] = v + 1 /\ v \in Nat /\ s = v + 1 - NMajority
        BY <1>1, <1>4, Sizes DEF v
      <3> HIDE DEF s
      <3>6. ASSUME NEW t \in View,
                   t <= v + 1 - NMajority, t + NReplicas > v + 1 - NMajority
            PROVE  agg_queue'[r][GetProposer(t)] = t
        <4>1. t \in Nat /\ t >= 1 /\ GetProposer(t) \in Replica
          BY ViewType, ProposerType
        <4>2. CASE t = s
          BY <3>4, <4>1, <4>2
        <4>3. CASE t # s
          <5>1. t <= v - NMajority /\ t + NReplicas > v - NMajority
            BY <3>1, <3>5, <3>6, <4>1, <4>3, Sizes
          <5>2. agg_queue[r][GetProposer(t)] = t
            BY <3>5, <5>1 DEF Queued
          <5>3. s < t + NReplicas /\ t < s + NReplicas
            BY <3>1, <3>5, <3>6, <4>1, <5>1, Sizes
          <5>4. GetProposer(t) # GetProposer(s)
            BY <3>1, <4>1, <4>3, <5>3, OneTurn
          <5> QED
            BY <3>4, <4>1, <5>2, <5>4
        <4> QED
          BY <4>2, <4>3
      <3>7. ASSUME NEW p \in Replica, p + 1 > v + 1 - NMajority
            PROVE  agg_queue'[r][p] = p + 1
        <4>1. p \in Nat /\ p + 1 > s /\ p + 1 <= NReplicas
          BY <3>5, <3>7, Sizes DEF Replica
        <4>2. s <= NReplicas /\ GetProposer(s) = s - 1
          BY <3>1, <4>1, FirstTurn, Sizes
        <4>3. p # GetProposer(s)
          BY <3>1, <4>1, <4>2
        <4>4. p + 1 > view[r] - NMajority
          BY <3>5, <3>7, <4>1, Sizes
        <4> QED
          BY <3>4, <4>3, <4>4 DEF Queued
      <3>8. view'[q] = v + 1 /\ agg_queue'[q] = agg_queue'[r]
        BY <2>3, <3>5
      <3>9. ASSUME NEW t \in View,
                   t <= view'[q] - NMajority, t + NReplicas > view'[q] - NMajority
            PROVE  agg_queue'[q][GetProposer(t)] = t
        <4>1. t <= v + 1 - NMajority /\ t + NReplicas > v + 1 - NMajority
          BY <3>5, <3>8, <3>9, Sizes
        <4> QED
          BY <3>6, <3>8, <4>1
      <3>10. ASSUME NEW p \in Replica, p + 1 > view'[q] - NMajority
             PROVE  agg_queue'[q][p] = p + 1
        <4>1. p + 1 > v + 1 - NMajority
          BY <3>5, <3>8, <3>10, Sizes
        <4> QED
          BY <3>7, <3>8, <4>1
      <3> QED
        BY <3>9, <3>10
    <2> QED
      BY <2>1, <2>2, <2>3
  <1>11. Opened'
    BY <1>1, <1>3 DEF Opened, Types
  <1> QED
    BY <1>6, <1>7, <1>8, <1>9, <1>10, <1>11

LEMMA NextKeeps == PipelineInv /\ [Next]_vars => PipelineInv'
PROOF
  <1> SUFFICES ASSUME PipelineInv, [Next]_vars PROVE PipelineInv'
    OBVIOUS
  <1>1. CASE UNCHANGED vars
    BY <1>1, HeldKeeps DEF vars, held
  <1>2. ASSUME NEW r \in Replica, Propose(r) PROVE PipelineInv'
    BY <1>2, ProposeKeeps
  <1>3. ASSUME NEW r \in Replica, ReceiveProposal(r) PROVE PipelineInv'
    BY <1>3, ReceiveProposalKeeps
  <1>4. ASSUME NEW r \in Replica, LeaveView(r) PROVE PipelineInv'
    BY <1>4, LeaveViewKeeps
  <1>5. ASSUME NEW r \in Replica, Command(r) PROVE PipelineInv'
    BY <1>5, HeldKeeps DEF Command, held
  <1>6. ASSUME NEW r \in Replica, NEW q \in Replica, Hear(r, q) PROVE PipelineInv'
    BY <1>6, HeldKeeps DEF Hear, held
  <1>7. ASSUME NEW r \in Replica, NEW q \in Replica, OnReceivePvssTranscript(r, q)
        PROVE PipelineInv'
    BY <1>7, TranscriptKeeps
  <1> QED
    BY <1>1, <1>2, <1>3, <1>4, <1>5, <1>6, <1>7 DEF Next

LEMMA Invariance == Spec => []PipelineInv
PROOF
  BY InitInv, NextKeeps, PTL DEF Spec

-----------------------------------------------------------------------------
(* The theorems.                                                           *)

\* What a view opens is a set of at most one aggregate.
LEMMA OneSource ==
  ASSUME PipelineInv, NEW v \in View
  PROVE  used[v] = {} \/ used[v] = {Source(v)}
PROOF
  BY DEF PipelineInv, Opened

\* In every view all replicas decrypt and verify with one aggregate, for every
\* number of replicas from three on (_update_agg_queue, on_receive_proposal).
THEOREM AllOpenOne == Spec => []SameAggregate
PROOF
  <1>1. PipelineInv => SameAggregate
    <2> SUFFICES ASSUME PipelineInv, NEW v \in View PROVE Cardinality(used[v]) <= 1
      BY DEF SameAggregate
    <2>1. CASE used[v] = {}
      <3>1. Cardinality(used[v]) = 0
        BY <2>1, FS_EmptySet
      <3> QED
        BY <3>1
    <2>2. CASE used[v] = {Source(v)}
      <3>1. Cardinality(used[v]) = 1
        BY <2>2, FS_Singleton
      <3> QED
        BY <3>1
    <2> QED
      BY <2>1, <2>2, OneSource
  <1> QED
    BY <1>1, Invariance, PTL

\* The set-up's first n aggregates, and no others, are opened twice, n views
\* apart, for every number of replicas from three on (the constructor fills
\* agg_queue and view_agg_transcripts from one file).
THEOREM SetupOpenedTwice == Spec => []RepeatsSetupOnce
PROOF
  <1>1. PipelineInv => RepeatsSetupOnce
    <2> SUFFICES ASSUME PipelineInv, NEW v \in View, NEW w \in View,
                        v < w, used[v] # {}, used[w] # {}
                 PROVE  used[v] \cap used[w] # {} <=>
                          v <= NReplicas /\ w = v + NReplicas
      BY DEF RepeatsSetupOnce
    <2>1. used[v] = {Source(v)} /\ used[w] = {Source(w)}
      BY OneSource
    <2>2. used[v] \cap used[w] # {} <=> Source(v) = Source(w)
      BY <2>1
    <2>3. Source(v) = Source(w) <=> v <= NReplicas /\ w = v + NReplicas
      BY ViewType, Sizes DEF Source
    <2> QED
      BY <2>2, <2>3
  <1> QED
    BY <1>1, Invariance, PTL

=============================================================================
