------------------------ MODULE EchoDispersalProofs ------------------------
(***************************************************************************)
(* For every number of replicas: a certified proposal stays within reach   *)
(* of every running replica, although NFaulty replicas, the proposer among *)
(* them, may stop and take a part of what they sent with them.             *)
(*                                                                         *)
(* The invariant Forwarded says what a replica that has forwarded the      *)
(* proposal gives each other one: the chunk of its own number and that of  *)
(* the receiver's.  Counted says that whoever voted has forwarded.  So the *)
(* voters still running and the receiver itself each account for a chunk,  *)
(* and there are enough of them by the arithmetic of the quorums (Enough). *)
(***************************************************************************)
EXTENDS EchoDispersal, FiniteSetTheorems, TLAPS

-----------------------------------------------------------------------------
(* The quorum sizes.                                                       *)

\* Of NResponsive voters, NFaulty may stop and one is the proposer; with the
\* receiver's own chunk there are still NReconThres.
LEMMA QuorumArithmetic ==
  /\ NFaulty \in Nat /\ NResponsive \in Nat /\ NReconThres \in Nat
  /\ NResponsive >= NFaulty + NReconThres
  /\ NResponsive > NFaulty + 1
PROOF
  <1> DEFINE n == NReplicas
             a == (n - 1) \div 2
             b == (3 * n) \div 4
             c == n \div 4
  <1>1. n \in Nat /\ n >= 2
    BY NReplicasAssumption
  <1>2. a \in Int /\ b \in Int /\ c \in Int
    BY <1>1
  <1>3. 2 * a <= n - 1 /\ n - 1 < 2 * a + 2
    BY <1>1
  <1>4. 4 * b <= 3 * n /\ 3 * n < 4 * b + 4
    BY <1>1
  <1>5. 4 * c <= n /\ n < 4 * c + 4
    BY <1>1
  <1>6. a >= 0 /\ b >= 0 /\ c >= 0
    BY <1>1, <1>2, <1>3, <1>4, <1>5
  <1>7. b >= a + c
    BY <1>1, <1>2, <1>3, <1>4, <1>5
  <1>8. b > a
    BY <1>1, <1>2, <1>3, <1>4
  <1> QED
    BY <1>2, <1>6, <1>7, <1>8 DEF NFaulty, NResponsive, NReconThres

LEMMA ReplicaFinite == IsFiniteSet(Replica)
PROOF
  BY FS_Interval, NReplicasAssumption DEF Replica

\* Whoever of V has forwarded and still runs, when V may have a certificate.
LEMMA Forwarders ==
  ASSUME NEW V \in SUBSET Replica, NEW D \in SUBSET Replica,
         NEW R \in SUBSET Replica, NEW p \in Replica,
         V \subseteq D \cup {p},
         Cardinality(V) >= NResponsive,
         Cardinality(Replica \ R) <= NFaulty
  PROVE  /\ IsFiniteSet(D \cap R)
         /\ Cardinality(D \cap R) \in Nat
         /\ NResponsive <= Cardinality(D \cap R) + NFaulty + 1
PROOF
  <1> DEFINE A == D \cap R
             C == Replica \ R
  <1>1. IsFiniteSet(A) /\ IsFiniteSet(C) /\ IsFiniteSet(V)
    BY ReplicaFinite, FS_Subset
  <1>2. Cardinality(A) \in Nat /\ Cardinality(C) \in Nat /\ Cardinality(V) \in Nat
    BY <1>1, FS_CardinalityType
  <1>3. V \subseteq (A \cup C) \cup {p}
    OBVIOUS
  <1>4. IsFiniteSet(A \cup C) /\ Cardinality(A \cup C) = Cardinality(A) + Cardinality(C)
    <2>1. A \cap C = {}
      OBVIOUS
    <2>2. Cardinality(A \cap C) = 0
      BY <2>1, FS_EmptySet
    <2> HIDE DEF A, C
    <2>3. /\ IsFiniteSet(A \cup C)
          /\ Cardinality(A \cup C) = Cardinality(A) + Cardinality(C) - Cardinality(A \cap C)
      BY <1>1, FS_Union, Zenon
    <2> QED
      BY <1>2, <2>2, <2>3
  <1> HIDE DEF A, C
  <1>5. /\ IsFiniteSet((A \cup C) \cup {p})
        /\ Cardinality((A \cup C) \cup {p}) <= Cardinality(A) + Cardinality(C) + 1
    <2>1. /\ IsFiniteSet((A \cup C) \cup {p})
          /\ Cardinality((A \cup C) \cup {p}) = IF p \in A \cup C THEN Cardinality(A \cup C)
                                               ELSE Cardinality(A \cup C) + 1
      BY <1>4, FS_AddElement, Zenon
    <2> QED
      BY <1>2, <1>4, <2>1
  <1>6. Cardinality(V) <= Cardinality((A \cup C) \cup {p})
    BY <1>3, <1>5, FS_Subset
  <1>7. Cardinality(C) <= NFaulty
    BY DEF C
  <1>8. Cardinality((A \cup C) \cup {p}) \in Nat
    BY <1>5, FS_CardinalityType
  <1>9. IsFiniteSet(A) /\ Cardinality(A) \in Nat /\ NResponsive <= Cardinality(A) + NFaulty + 1
    BY <1>1, <1>2, <1>5, <1>6, <1>7, <1>8, QuorumArithmetic
  <1> QED
    BY <1>9 DEF A

\* With one replica more they are enough to decode from.
LEMMA Enough ==
  ASSUME NEW A, NEW r, NEW X \in SUBSET Replica,
         IsFiniteSet(A), r \notin A, A \cup {r} \subseteq X,
         NResponsive <= Cardinality(A) + NFaulty + 1
  PROVE  Cardinality(X) >= NReconThres
PROOF
  <1>1. IsFiniteSet(X)
    BY ReplicaFinite, FS_Subset
  <1>2. Cardinality(A) \in Nat /\ Cardinality(X) \in Nat
    BY <1>1, FS_CardinalityType
  <1>3. IsFiniteSet(A \cup {r}) /\ Cardinality(A \cup {r}) = Cardinality(A) + 1
    BY FS_AddElement
  <1>4. Cardinality(A \cup {r}) <= Cardinality(X)
    BY <1>1, FS_Subset
  <1> QED
    BY <1>2, <1>3, <1>4, QuorumArithmetic

-----------------------------------------------------------------------------
(* The invariant.                                                          *)

Recorded == delivered \cup decoded \cup left \cup {Proposer} \subseteq finished_propose

Counted ==
  /\ voted \subseteq delivered \cup {Proposer}
  /\ \A m \in net \cap Votes : m.from \in delivered

Forwarded ==
  \A d \in delivered \cap running : \A r \in running \ finished_propose :
    \A i \in {d, r} : i \in prop_chunks[r] \/ Echo(d, r, i) \in net

Few == Cardinality(Replica \ running) <= MaxCrashes

IInv == TypeOK /\ Recorded /\ Counted /\ Forwarded /\ Few /\ DecodesInTime

LEMMA NoChunks == Cardinality({}) < NReconThres
PROOF
  <1>1. NReconThres >= 1
    BY NReplicasAssumption DEF NReconThres
  <1> QED
    BY <1>1, FS_EmptySet, QuorumArithmetic

LEMMA ProposerType == Proposer \in Replica
PROOF
  BY NReplicasAssumption, DispersalAssumption DEF Proposer, GetProposer, Replica

\* What handling a proposal comes to: r has handled it, and if it counts as
\* having forwarded it now, then its chunks are on their way, and only then
\* may its vote be.
Handled(r, n) ==
  /\ finished_propose' = finished_propose \cup {r}
  /\ left' \in {left, left \cup {r}}
  /\ \/ delivered' = delivered /\ net' = n
     \/ /\ delivered' = delivered \cup {r}
        /\ net' \in {n \cup DeliverProposal(r), n \cup {Vote(r)} \cup DeliverProposal(r)}

LEMMA OnReceiveProposalHandled ==
  ASSUME NEW r, NEW n, OnReceiveProposal(r, n)
  PROVE  Handled(r, n)
PROOF
  <1>1. CASE r \in finished_propose
    BY <1>1 DEF OnReceiveProposal, Handled
  <1>2. CASE r \notin finished_propose
    BY <1>2 DEF OnReceiveProposal, Handled
  <1> QED
    BY <1>1, <1>2

LEMMA DeliverProposalChunks ==
  ASSUME NEW r \in Replica
  PROVE  /\ DeliverProposal(r) \subseteq Echoes
         /\ Vote(r) \in Votes
         /\ \A q \in Replica \ {r} : Echo(r, q, q) \in DeliverProposal(r)
                                  /\ Echo(r, q, r) \in DeliverProposal(r)
PROOF
  <1>1. \A q, i \in Replica : Echo(r, q, i) \in Echoes
    BY DEF Echo, Echoes
  <1>2. DeliverProposal(r) \subseteq Echoes
    BY <1>1 DEF DeliverProposal
  <1>3. Vote(r) \in Votes
    BY DEF Vote, Votes
  <1>4. \A q \in Replica \ {r} : Echo(r, q, q) \in DeliverProposal(r)
                              /\ Echo(r, q, r) \in DeliverProposal(r)
    BY DEF DeliverProposal
  <1> QED
    BY <1>2, <1>3, <1>4

LEMMA KindsDiffer ==
  /\ \A m \in Echoes : m \notin Votes /\ m \notin Proposals
  /\ \A m \in Votes : m \notin Proposals
PROOF
  BY DEF Echoes, Votes, Proposals

\* Handling a proposal keeps the invariant, when the message that brought it,
\* and the chunks it was decoded from, are gone.
LEMMA HandledKeeps ==
  ASSUME IInv, NEW r \in running, NEW m \in net,
         m \in Echoes => m.to = r,
         Handled(r, net \ {m}),
         decoded' \in {decoded, decoded \cup {r}},
         prop_chunks' \in {prop_chunks, [prop_chunks EXCEPT ![r] = {}]},
         UNCHANGED <<running, voted>>
  PROVE  IInv'
PROOF
  <1> USE DEF IInv
  <1>1. r \in Replica
    BY DEF TypeOK
  <1>2. net' \subseteq net \cup {Vote(r)} \cup DeliverProposal(r)
    BY DEF Handled
  <1>3. delivered \subseteq delivered' /\ delivered' \subseteq delivered \cup {r}
    BY DEF Handled
  <1>4. TypeOK'
    <2>1. net' \subseteq Message
      BY <1>1, <1>2, DeliverProposalChunks DEF TypeOK, Message
    <2>2. prop_chunks' \in [Replica -> SUBSET Replica]
      BY DEF TypeOK
    <2> QED
      BY <1>1, <1>3, <2>1, <2>2 DEF TypeOK, Handled
  <1>5. Recorded'
    BY <1>3 DEF Recorded, Handled, Proposer
  <1>6. Counted'
    <2>1. voted' \subseteq delivered' \cup {Proposer'}
      BY <1>3 DEF Counted, Proposer
    <2>2. ASSUME NEW v \in net' \cap Votes
          PROVE  v.from \in delivered'
      <3>1. CASE v \in net
        BY <1>3, <2>2, <3>1 DEF Counted
      <3>2. CASE v \notin net
        <4>1. v = Vote(r)
          BY <1>1, <1>2, <2>2, <3>2, DeliverProposalChunks, KindsDiffer
        <4>2. delivered' = delivered \cup {r}
          BY <2>2, <3>2 DEF Handled
        <4> QED
          BY <4>1, <4>2 DEF Vote
      <3> QED
        BY <3>1, <3>2
    <2> QED
      BY <2>1, <2>2 DEF Counted, Votes, Proposer
  <1>7. Forwarded'
    <2> SUFFICES ASSUME NEW d \in delivered' \cap running',
                        NEW q \in running' \ finished_propose',
                        NEW i \in {d, q}
                 PROVE  i \in prop_chunks'[q] \/ Echo(d, q, i) \in net'
      BY DEF Forwarded
    <2>1. q # r /\ q \in running \ finished_propose /\ q \in Replica
      BY DEF Handled, TypeOK
    <2>2. prop_chunks'[q] = prop_chunks[q]
      BY <2>1 DEF TypeOK
    <2>3. CASE d \in delivered
      <3>1. i \in prop_chunks[q] \/ Echo(d, q, i) \in net
        BY <2>1, <2>3 DEF Forwarded
      <3>2. Echo(d, q, i) \in Echoes /\ Echo(d, q, i).to = q
        BY <2>1 DEF TypeOK, Echo, Echoes
      <3>3. Echo(d, q, i) # m
        BY <2>1, <3>2
      <3>4. net \ {m} \subseteq net'
        BY DEF Handled
      <3> QED
        BY <2>2, <3>1, <3>3, <3>4
    <2>4. CASE d \notin delivered
      <3>1. d = r /\ DeliverProposal(r) \subseteq net'
        BY <2>4 DEF Handled
      <3> QED
        BY <1>1, <2>1, <3>1, DeliverProposalChunks
    <2> QED
      BY <2>3, <2>4
  <1>8. Few'
    BY DEF Few
  <1>9. DecodesInTime'
    <2> SUFFICES ASSUME NEW q \in Replica
                 PROVE  Cardinality(prop_chunks'[q]) < NReconThres
      BY DEF DecodesInTime
    <2>1. prop_chunks'[q] = prop_chunks[q] \/ prop_chunks'[q] = {}
      BY DEF TypeOK
    <2> QED
      BY <2>1, NoChunks DEF DecodesInTime
  <1> QED
    BY <1>4, <1>5, <1>6, <1>7, <1>8, <1>9

-----------------------------------------------------------------------------
(* The steps.                                                              *)

LEMMA InitIInv == Init => IInv
PROOF
  <1> SUFFICES ASSUME Init PROVE IInv
    OBVIOUS
  <1> USE DEF Init
  <1>1. TypeOK
    BY ProposerType DEF TypeOK, Message, Proposals
  <1>2. Recorded
    BY DEF Recorded
  <1>3. Counted
    BY DEF Counted, Votes
  <1>4. Forwarded
    BY DEF Forwarded
  <1>5. Few
    <2>1. Cardinality(Replica \ running) = 0
      BY FS_EmptySet
    <2> QED
      BY <2>1, DispersalAssumption DEF Few
  <1>6. DecodesInTime
    BY NoChunks DEF DecodesInTime
  <1> QED
    BY <1>1, <1>2, <1>3, <1>4, <1>5, <1>6 DEF IInv

LEMMA ReceiveProposalKeeps ==
  ASSUME IInv, NEW r \in Replica, ReceiveProposal(r)
  PROVE  IInv'
PROOF
  <1>1. PICK m \in net \cap Proposals :
          /\ Receives(r, m)
          /\ OnReceiveProposal(r, net \ {m})
          /\ UNCHANGED <<running, decoded, prop_chunks, voted>>
    BY DEF ReceiveProposal
  <1> QED
    BY <1>1, OnReceiveProposalHandled, HandledKeeps, KindsDiffer DEF Receives

\* A vote that is counted was sent by a replica that forwarded the proposal.
LEMMA ReceiveVoteKeeps ==
  ASSUME IInv, NEW r \in Replica, ReceiveVote(r)
  PROVE  IInv'
PROOF
  <1> USE DEF IInv
  <1>1. PICK m \in net \cap Votes :
          /\ net' = net \ {m}
          /\ voted' \in {voted, voted \cup {m.from}}
          /\ UNCHANGED <<running, finished_propose, delivered, decoded, prop_chunks, left>>
    BY DEF ReceiveVote
  <1>2. TypeOK'
    BY <1>1 DEF TypeOK, Votes
  <1>3. Recorded'
    BY <1>1 DEF Recorded, Proposer
  <1>4. Counted'
    BY <1>1 DEF Counted, Votes, Proposer
  <1>5. Forwarded'
    <2>1. \A d, q, i : Echo(d, q, i) \in net => Echo(d, q, i) \in net'
      BY <1>1 DEF Echo, Votes
    <2> QED
      BY <1>1, <2>1 DEF Forwarded
  <1>6. Few' /\ DecodesInTime'
    BY <1>1 DEF Few, DecodesInTime
  <1> QED
    BY <1>2, <1>3, <1>4, <1>5, <1>6

LEMMA OneMoreChunk ==
  ASSUME IInv, NEW r \in Replica, NEW i \in Replica,
         Cardinality(prop_chunks[r] \cup {i}) # NReconThres
  PROVE  Cardinality(prop_chunks[r] \cup {i}) < NReconThres
PROOF
  <1> DEFINE S == prop_chunks[r]
  <1>1. S \in SUBSET Replica /\ Cardinality(S) < NReconThres
    BY DEF IInv, TypeOK, DecodesInTime
  <1> HIDE DEF S
  <1>2. IsFiniteSet(S)
    BY <1>1, ReplicaFinite, FS_Subset
  <1>3. Cardinality(S \cup {i}) = IF i \in S THEN Cardinality(S) ELSE Cardinality(S) + 1
    BY <1>2, FS_AddElement, Zenon
  <1>4. Cardinality(S) \in Nat
    BY <1>2, FS_CardinalityType
  <1>5. Cardinality(S \cup {i}) # NReconThres
    BY DEF S
  <1>6. Cardinality(S \cup {i}) < NReconThres
    BY <1>1, <1>3, <1>4, <1>5, QuorumArithmetic
  <1> QED
    BY <1>6 DEF S

LEMMA NoOverflow ==
  ASSUME IInv, NEW r \in Replica
  PROVE  ~ (Cardinality(prop_chunks[r]) > NReconThres)
PROOF
  <1>1. IsFiniteSet(prop_chunks[r])
    BY ReplicaFinite, FS_Subset DEF IInv, TypeOK
  <1>2. Cardinality(prop_chunks[r]) \in Nat
    BY <1>1, FS_CardinalityType
  <1> QED
    BY <1>2, QuorumArithmetic DEF IInv, DecodesInTime

\* A chunk that has been put away, or that its receiver needs no longer.
LEMMA ChunkHandled ==
  ASSUME IInv, NEW r \in running, NEW m \in net \cap Echoes, m.to = r,
         net' = net \ {m},
         UNCHANGED <<running, finished_propose, delivered, decoded, left, voted>>,
         \/ r \in finished_propose /\ prop_chunks' = prop_chunks
         \/ /\ prop_chunks' = [prop_chunks EXCEPT ![r] = @ \cup {m.idx}]
            /\ Cardinality(prop_chunks[r] \cup {m.idx}) < NReconThres
  PROVE  IInv'
PROOF
  <1> USE DEF IInv
  <1>1. r \in Replica /\ m.idx \in Replica
    BY DEF TypeOK, Echoes
  <1>2. TypeOK'
    BY <1>1 DEF TypeOK
  <1>3. Recorded' /\ Counted' /\ Few'
    BY DEF Recorded, Counted, Few, Votes, Proposer
  <1>4. Forwarded'
    <2> SUFFICES ASSUME NEW d \in delivered \cap running,
                        NEW q \in running \ finished_propose,
                        NEW i \in {d, q}
                 PROVE  i \in prop_chunks'[q] \/ Echo(d, q, i) \in net'
      BY DEF Forwarded
    <2>1. q \in Replica
      BY DEF TypeOK
    <2>2. i \in prop_chunks[q] \/ Echo(d, q, i) \in net
      BY DEF Forwarded
    <2>3. prop_chunks[q] \subseteq prop_chunks'[q]
      BY <1>1, <2>1 DEF TypeOK
    <2>4. CASE Echo(d, q, i) # m
      BY <2>2, <2>3, <2>4
    <2>5. CASE Echo(d, q, i) = m
      <3>1. m.to = q /\ m.idx = i
        BY <2>5 DEF Echo
      <3>2. prop_chunks'[q] = prop_chunks[q] \cup {i}
        BY <1>1, <3>1 DEF TypeOK
      <3> QED
        BY <3>2
    <2> QED
      BY <2>4, <2>5
  <1>5. DecodesInTime'
    BY <1>1 DEF DecodesInTime, TypeOK
  <1> QED
    BY <1>2, <1>3, <1>4, <1>5

\* A chunk that arrives is kept, unless the receiver has handled the proposal.
LEMMA ReceiveEchoKeeps ==
  ASSUME IInv, NEW r \in Replica, ReceiveEcho(r)
  PROVE  IInv'
PROOF
  <1> USE DEF IInv
  <1>1. PICK m \in net \cap Echoes :
    LET chunks == prop_chunks[r] \cup {m.idx}
    IN /\ Receives(r, m)
       /\ \/ /\ r \in left \cup decoded \/ Cardinality(prop_chunks[r]) > NReconThres
             /\ net' = net \ {m}
             /\ UNCHANGED <<finished_propose, delivered, decoded, prop_chunks, left>>
          \/ /\ r \notin left \cup decoded /\ Cardinality(chunks) # NReconThres
             /\ Cardinality(prop_chunks[r]) <= NReconThres
             /\ net' = net \ {m}
             /\ prop_chunks' = [prop_chunks EXCEPT ![r] = chunks]
             /\ UNCHANGED <<finished_propose, delivered, decoded, left>>
          \/ /\ r \notin left \cup decoded /\ Cardinality(chunks) = NReconThres
             /\ prop_chunks' = [prop_chunks EXCEPT ![r] = {}]
             /\ decoded' = decoded \cup {r}
             /\ OnReceiveProposal(r, net \ {m})
       /\ UNCHANGED <<running, voted>>
    BY DEF ReceiveEcho
  <1>2. m \in Message /\ m.idx \in Replica /\ m.to = r /\ r \in running
    BY <1>1 DEF Receives, TypeOK, Echoes
  <1>3. CASE /\ r \in left \cup decoded
             /\ net' = net \ {m}
             /\ UNCHANGED <<running, finished_propose, delivered, decoded, prop_chunks, left,
                            voted>>
    <2>1. r \in finished_propose
      BY <1>3 DEF Recorded
    <2> QED
      BY <1>2, <1>3, <2>1, ChunkHandled
  <1>4. CASE /\ Cardinality(prop_chunks[r] \cup {m.idx}) # NReconThres
             /\ net' = net \ {m}
             /\ prop_chunks' = [prop_chunks EXCEPT ![r] = @ \cup {m.idx}]
             /\ UNCHANGED <<running, finished_propose, delivered, decoded, left, voted>>
    <2>1. Cardinality(prop_chunks[r] \cup {m.idx}) < NReconThres
      BY <1>2, <1>4, OneMoreChunk
    <2> QED
      BY <1>2, <1>4, <2>1, ChunkHandled
  <1>5. CASE /\ prop_chunks' = [prop_chunks EXCEPT ![r] = {}]
             /\ decoded' = decoded \cup {r}
             /\ OnReceiveProposal(r, net \ {m})
             /\ UNCHANGED <<running, voted>>
    BY <1>2, <1>5, OnReceiveProposalHandled, HandledKeeps
  <1>6. ~ (Cardinality(prop_chunks[r]) > NReconThres)
    BY NoOverflow
  <1> QED
    BY <1>1, <1>3, <1>4, <1>5, <1>6

LEMMA LeaveViewKeeps ==
  ASSUME IInv, NEW r \in Replica, LeaveView(r)
  PROVE  IInv'
PROOF
  <1> USE DEF IInv, LeaveView
  <1>1. TypeOK' /\ Recorded' /\ Counted' /\ Few' /\ DecodesInTime'
    BY DEF TypeOK, Recorded, Counted, Few, DecodesInTime, Votes, Proposer
  <1>2. Forwarded'
    BY DEF Forwarded
  <1> QED
    BY <1>1, <1>2

\* Only what the stopped replica had sent is lost, and no more than MaxCrashes
\* stop.
LEMMA CrashKeeps ==
  ASSUME IInv, NEW c \in Replica, Crash(c)
  PROVE  IInv'
PROOF
  <1> USE DEF IInv
  <1>1. PICK lost \in SUBSET {m \in net : m.from = c} : net' = net \ lost
    BY DEF Crash
  <1>2. /\ c \in running /\ running' = running \ {c}
        /\ Cardinality(Replica \ running) < MaxCrashes
        /\ UNCHANGED <<finished_propose, delivered, decoded, prop_chunks, left, voted>>
    BY DEF Crash
  <1>3. TypeOK' /\ Recorded' /\ Counted' /\ DecodesInTime'
    BY <1>1, <1>2 DEF TypeOK, Recorded, Counted, DecodesInTime, Votes, Proposer
  <1>4. Few'
    <2> DEFINE S == Replica \ running
    <2>1. Replica \ running' = S \cup {c}
      BY <1>2
    <2>2. IsFiniteSet(S) /\ Cardinality(S) < MaxCrashes
      BY <1>2, ReplicaFinite, FS_Subset
    <2> HIDE DEF S
    <2>3. Cardinality(S) \in Nat
      BY <2>2, FS_CardinalityType
    <2>4. Cardinality(S \cup {c}) = IF c \in S THEN Cardinality(S) ELSE Cardinality(S) + 1
      BY <2>2, FS_AddElement, Zenon
    <2>5. MaxCrashes \in Nat
      BY DispersalAssumption, QuorumArithmetic
    <2>6. Cardinality(S \cup {c}) <= MaxCrashes
      BY <2>2, <2>3, <2>4, <2>5
    <2> QED
      BY <2>1, <2>6 DEF Few
  <1>5. Forwarded'
    <2>1. \A d \in running' : \A r, i : Echo(d, r, i) \in net => Echo(d, r, i) \in net'
      <3> SUFFICES ASSUME NEW d \in running', NEW r, NEW i, Echo(d, r, i) \in net
                   PROVE  Echo(d, r, i) \notin lost
        BY <1>1
      <3>1. Echo(d, r, i).from = d /\ d # c
        BY <1>2 DEF Echo
      <3> QED
        BY <3>1
    <2> QED
      BY <1>2, <2>1 DEF Forwarded
  <1> QED
    BY <1>3, <1>4, <1>5

-----------------------------------------------------------------------------
\* The invariant holds in every reachable state.
THEOREM Invariance == Spec => []IInv
PROOF
  <1>1. IInv /\ [Next]_vars => IInv'
    <2> SUFFICES ASSUME IInv, [Next]_vars PROVE IInv'
      OBVIOUS
    <2>1. ASSUME NEW r \in Replica, ReceiveProposal(r) PROVE IInv'
      BY <2>1, ReceiveProposalKeeps
    <2>2. ASSUME NEW r \in Replica, ReceiveVote(r) PROVE IInv'
      BY <2>2, ReceiveVoteKeeps
    <2>3. ASSUME NEW r \in Replica, ReceiveEcho(r) PROVE IInv'
      BY <2>3, ReceiveEchoKeeps
    <2>4. ASSUME NEW r \in Replica, LeaveView(r) PROVE IInv'
      BY <2>4, LeaveViewKeeps
    <2>5. ASSUME NEW r \in Replica, Crash(r) PROVE IInv'
      BY <2>5, CrashKeeps
    <2>6. CASE UNCHANGED vars
      BY <2>6 DEF vars, IInv, TypeOK, Recorded, Counted, Forwarded, Few, DecodesInTime,
                  Votes, Proposer
    <2> QED
      BY <2>1, <2>2, <2>3, <2>4, <2>5, <2>6 DEF Next, Receive
  <1> QED
    BY <1>1, InitIInv, PTL DEF Spec

\* No replica lets the count of chunks pass the one at which it decodes.
THEOREM CountNeverPasses == Spec => []DecodesInTime
PROOF
  <1>1. IInv => DecodesInTime
    BY DEF IInv
  <1> QED
    BY <1>1, Invariance, PTL

\* A certified proposal can be decoded by every running replica.
THEOREM CertifiedIsRetrievable == Spec => []Retrievable
PROOF
  <1>1. IInv => Retrievable
    <2> SUFFICES ASSUME IInv, Certified, NEW r \in running \ finished_propose
                 PROVE  Cardinality(Obtainable(r)) >= NReconThres
      BY DEF Retrievable
    <2> USE DEF IInv
    <2>1. /\ r \in Replica \ delivered
          /\ voted \in SUBSET Replica /\ delivered \in SUBSET Replica /\ running \in SUBSET Replica
      BY DEF TypeOK, Recorded
    <2>2. Obtainable(r) \in SUBSET Replica
      BY <2>1 DEF TypeOK, Obtainable, Echoes
    <2>3. Cardinality(Replica \ running) <= NFaulty
      <3>1. Cardinality(Replica \ running) \in Nat
        BY ReplicaFinite, FS_Difference, FS_CardinalityType
      <3> QED
        BY <3>1, DispersalAssumption, QuorumArithmetic DEF Few
    <2> DEFINE A == delivered \cap running
    <2>4. IsFiniteSet(A) /\ Cardinality(A) \in Nat /\ NResponsive <= Cardinality(A) + NFaulty + 1
      BY <2>1, <2>3, ProposerType, Forwarders DEF Counted, Certified
    <2>5. A # {}
      <3>1. Cardinality(A) # 0
        BY <2>4, QuorumArithmetic
      <3> QED
        BY <3>1, FS_EmptySet
    <2>6. \A d \in A : {d, r} \subseteq Obtainable(r)
      <3> SUFFICES ASSUME NEW d \in A, NEW i \in {d, r} PROVE i \in Obtainable(r)
        OBVIOUS
      <3>1. i \in prop_chunks[r] \/ Echo(d, r, i) \in net
        BY DEF Forwarded
      <3>2. Echo(d, r, i) \in Echoes /\ Echo(d, r, i).to = r /\ Echo(d, r, i).idx = i
        BY <2>1 DEF Echo, Echoes
      <3> QED
        BY <3>1, <3>2 DEF Obtainable
    <2>7. A \cup {r} \subseteq Obtainable(r) /\ r \notin A
      BY <2>1, <2>5, <2>6
    <2> HIDE DEF A
    <2> QED
      BY <2>2, <2>4, <2>7, Enough
  <1> QED
    BY <1>1, Invariance, PTL

\* Every variable keeps its type: chunks, votes and messages are those of the
\* replicas there are.
THEOREM TypeCorrect == Spec => []TypeOK
PROOF
  <1>1. IInv => TypeOK
    BY DEF IInv
  <1> QED
    BY <1>1, Invariance, PTL

=============================================================================
