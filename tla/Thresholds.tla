----------------------------- MODULE Thresholds -----------------------------
(***************************************************************************)
(* The quorum sizes every replica derives from the number of replicas when *)
(* it starts (HotStuffBase::start counts its peers, HotStuffCore::on_init  *)
(* fills in ReplicaConfig), and the round-robin proposer rule.             *)
(***************************************************************************)
EXTENDS Integers

CONSTANT
  NReplicas          \* config.nreplicas: replicas are numbered from 0

ASSUME NReplicasAssumption == NReplicas \in Nat /\ NReplicas >= 2

Replica == 0 .. NReplicas - 1

\* peers.size() / 2, where a replica's peers are the other replicas
NFaulty == (NReplicas - 1) \div 2

\* config.nmajority: status messages, beacon shares, PVSS transcripts
NMajority == NReplicas - NFaulty

\* config.nresponsive: floor(3 n / 4.0) + 1 votes, and acks
NResponsive == (3 * NReplicas) \div 4 + 1

\* config.nreconthres: erasure-coded chunks needed to decode
NReconThres == NReplicas \div 4 + 1

\* Mutant: without the modulo.
GetProposerUnwrapped(v) == v - 1

\* HotStuffCore::get_proposer; view 0 is the genesis view and has none
GetProposer(v) == (v - 1) % NReplicas

=============================================================================
