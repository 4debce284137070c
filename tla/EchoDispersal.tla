--------------------------- MODULE EchoDispersal ---------------------------
(***************************************************************************)
(* How the proposal of one view gets to every replica when senders stop.   *)
(*                                                                         *)
(* The proposer sends the whole proposal to everybody.  A replica that has *)
(* it for the first time votes, cuts it into NReplicas erasure-coded       *)
(* chunks, any NReconThres of which give it back, sends each other replica *)
(* the chunk of that replica's number and everybody the chunk of its own   *)
(* (HotStuffCore::_deliver_proposal).  A replica decodes at NReconThres    *)
(* chunks (on_receive_proposal_echo).  The proposer itself sends no chunk. *)
(*                                                                         *)
(* All replicas have entered the view; a message waits in net until its    *)
(* receiver, one event loop, handles it.  A connection loses nothing       *)
(* while its sender runs.  There is one proposal in the view.              *)
(***************************************************************************)
EXTENDS Thresholds, FiniteSets

CONSTANTS
  view,              \* the view
  MaxCrashes         \* bound: how many replicas stop

ASSUME DispersalAssumption ==
  view \in Nat \ {0} /\ MaxCrashes \in 0 .. NFaulty

VARIABLES
  running,           \* the replicas that have not stopped
  finished_propose,  \* those that have handled the proposal
  delivered,         \* those whose last_propose_delivered_view is the view
  decoded,           \* those whose last_propose_decoded_view is the view
  prop_chunks,       \* prop_chunks[r]: the numbers of the chunks r keeps
  left,              \* those that have entered a later view
  voted,             \* whose votes the proposer has counted
  net                \* the messages on their way

vars == <<running, finished_propose, delivered, decoded, prop_chunks, left, voted, net>>

Proposer == GetProposer(view)

Proposals == [type : {"propose"}, from : {Proposer}, to : Replica]
Votes == [type : {"vote"}, from : Replica, to : {Proposer}]
Echoes == [type : {"echo"}, from : Replica, to : Replica, idx : Replica]

Message == Proposals \cup Votes \cup Echoes

-----------------------------------------------------------------------------
\* The votes make a certificate.
Certified == Cardinality(voted) >= NResponsive

Vote(r) == [type |-> "vote", from |-> r, to |-> Proposer]

Echo(r, q, idx) == [type |-> "echo", from |-> r, to |-> q, idx |-> idx]

\* Mutant: nobody gets the sender's chunk.
DeliverProposalUnicast(r) == {Echo(r, q, q) : q \in Replica \ {r}}

\* _deliver_proposal: do_echo of chunk q to q, do_broadcast_echo of chunk r.
DeliverProposal(r) ==
  UNION {{Echo(r, q, q), Echo(r, q, r)} : q \in Replica \ {r}}

\* on_receive_proposal in r, the message that brought it having left n.  It
\* votes unless the block conflicts with what it knows.  Before it votes it
\* wakes up what waited for the proposal: when the others have a certificate
\* that may take r to a later view, where its vote counts no more here and
\* _deliver_proposal is left out if that view's proposal was handled inside.
OnReceiveProposal(r, n) ==
  \/ /\ r \in finished_propose
     /\ net' = n
     /\ UNCHANGED <<finished_propose, delivered, left>>
  \/ /\ r \notin finished_propose
     /\ finished_propose' = finished_propose \cup {r}
     /\ \/ /\ delivered' = delivered \cup {r}
           /\ \E votes \in {{}, {Vote(r)}} : net' = n \cup votes \cup DeliverProposal(r)
           /\ UNCHANGED left
        \/ /\ Certified
           /\ left' = left \cup {r}
           /\ \/ /\ delivered' = delivered \cup {r}
                 /\ net' = n \cup DeliverProposal(r)
              \/ /\ net' = n
                 /\ UNCHANGED delivered

Init ==
  /\ running = Replica
  /\ finished_propose = {Proposer}
  /\ delivered = {}
  /\ decoded = {}
  /\ prop_chunks = [r \in Replica |-> {}]
  /\ left = {}
  /\ voted = {Proposer}
  /\ net = {[type |-> "propose", from |-> Proposer, to |-> r] : r \in Replica \ {Proposer}}

Receives(r, m) == r \in running /\ m \in net /\ m.to = r

ReceiveProposal(r) ==
  \E m \in net \cap Proposals :
    /\ Receives(r, m)
    /\ OnReceiveProposal(r, net \ {m})
    /\ UNCHANGED <<running, decoded, prop_chunks, voted>>

ReceiveVote(r) ==
  \E m \in net \cap Votes :
    /\ Receives(r, m)
    /\ net' = net \ {m}
    /\ voted' = IF r \in left \/ Certified THEN voted ELSE voted \cup {m.from}
    /\ UNCHANGED <<running, finished_propose, delivered, decoded, prop_chunks, left>>

\* Mutant: the count is taken before the chunk is put away.
ReceiveEchoShort(r) ==
  \E m \in net \cap Echoes :
    /\ Receives(r, m)
    /\ IF r \in left \cup decoded \/ Cardinality(prop_chunks[r]) # NReconThres
       THEN /\ net' = net \ {m}
            /\ prop_chunks' = [prop_chunks EXCEPT ![r] =
                                 IF r \in left \cup decoded THEN @ ELSE @ \cup {m.idx}]
            /\ UNCHANGED <<finished_propose, delivered, decoded, left>>
       ELSE /\ prop_chunks' = [prop_chunks EXCEPT ![r] = {}]
            /\ decoded' = decoded \cup {r}
            /\ OnReceiveProposal(r, net \ {m})
    /\ UNCHANGED <<running, voted>>

\* on_receive_proposal_echo: dropped in a later view and after decoding, kept,
\* or the last one needed.
ReceiveEcho(r) ==
  \E m \in net \cap Echoes :
    LET chunks == prop_chunks[r] \cup {m.idx}
    IN /\ Receives(r, m)
       /\ \/ /\ r \in left \cup decoded \/ Cardinality(prop_chunks[r]) > NReconThres
             /\ net' = net \ {m}
             /\ UNCHANGED <<finished_propose, delivered, decoded, prop_chunks, left>>
          \/ /\ r \notin left \cup decoded /\ Cardinality(chunks) # NReconThres
             /\ Cardinality(prop_chunks[r]) <= NReconThres
             /\ net' = net \ {m}
             /\ prop_chunks' = [prop_chunks EXCEPT ![r] = chunks]
             /\ UNCHANGED <<finished_propose, delivered, decoded, left>>
          \/ /\ r \notin left \cup decoded /\ Cardinality(chunks) = NReconThres
             /\ prop_chunks' = [prop_chunks EXCEPT ![r] = {}]
             /\ decoded' = decoded \cup {r}
             /\ OnReceiveProposal(r, net \ {m})
       /\ UNCHANGED <<running, voted>>

\* What takes a replica to a later view follows a certificate, and waits for
\* the proposal (share_handler).
LeaveView(r) ==
  /\ r \in running \ left
  /\ Certified /\ r \in finished_propose
  /\ left' = left \cup {r}
  /\ UNCHANGED <<running, finished_propose, delivered, decoded, prop_chunks, voted, net>>

\* A replica stops, and any part of what it has sent is lost: also the rest of
\* a broadcast it was in the middle of.
Crash(r) ==
  /\ r \in running
  /\ Cardinality(Replica \ running) < MaxCrashes
  /\ running' = running \ {r}
  /\ \E lost \in SUBSET {m \in net : m.from = r} : net' = net \ lost
  /\ UNCHANGED <<finished_propose, delivered, decoded, prop_chunks, left, voted>>

Receive(r) == ReceiveProposal(r) \/ ReceiveVote(r) \/ ReceiveEcho(r)

Next == \E r \in Replica : Receive(r) \/ LeaveView(r) \/ Crash(r)

Spec == Init /\ [][Next]_vars

\* A running replica handles what has reached it, each message once.
FairSpec == Spec /\ \A r \in Replica : WF_vars(Receive(r))

-----------------------------------------------------------------------------
(* Properties.                                                             *)

\* The type invariant.
TypeOK ==
  /\ running \subseteq Replica /\ finished_propose \subseteq Replica
  /\ delivered \subseteq Replica /\ decoded \subseteq Replica
  /\ prop_chunks \in [Replica -> SUBSET Replica]
  /\ left \subseteq Replica /\ voted \subseteq Replica
  /\ net \subseteq Message

\* The chunks r keeps or that are on their way to it.
Obtainable(r) == prop_chunks[r] \cup {m.idx : m \in {e \in net \cap Echoes : e.to = r}}

\* The count of chunks does not run past the equality at which the proposal is
\* decoded (on_receive_proposal_echo drops what comes when more are kept).
DecodesInTime == \A r \in Replica : Cardinality(prop_chunks[r]) < NReconThres

\* Once a proposal has a certificate, each running replica that has not handled
\* it yet has or will get enough chunks to decode it (nreconthres), whoever of
\* the proposer and NFaulty replicas in all has stopped with its sends half done.
Retrievable ==
  Certified => \A r \in running \ finished_propose :
                 Cardinality(Obtainable(r)) >= NReconThres

\* While NReconThres - 1 of the replicas that forwarded the proposal run, every
\* running replica handles it in the end, whoever heard of it from the proposer.
Totality ==
  \A r \in Replica :
    Cardinality(delivered \cap running) >= NReconThres - 1
      ~> \/ r \in finished_propose \/ r \notin running
         \/ Cardinality(delivered \cap running) < NReconThres - 1

=============================================================================
