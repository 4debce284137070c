---------------------------- MODULE BeaconChain ----------------------------
(***************************************************************************)
(* What OptRandCore promises, without its messages.  The replicas build    *)
(* one chain, a block a view.  A block is certified when nresponsive       *)
(* replicas have reached its view with the block proposed.  Only certified *)
(* blocks are committed, commits are never taken back, a replica leaves a  *)
(* view only when its block is certified, and a block is added only by a   *)
(* replica in the view after the last block's.                             *)
(***************************************************************************)
EXTENDS Thresholds, FiniteSets

VARIABLES
  height,            \* blocks in the chain, not counting the genesis block
  at,                \* at[r]: the view of replica r
  committed          \* committed[r]: blocks replica r has committed

vars == <<height, at, committed>>

Init ==
  /\ height = 0
  /\ at = [r \in Replica |-> 1]
  /\ committed = [r \in Replica |-> 0]

Certified(h) ==
  h <= height /\ Cardinality({r \in Replica : at[r] >= h}) >= NResponsive

Extend(r) ==
  /\ at[r] = height + 1
  /\ height' = height + 1
  /\ UNCHANGED <<at, committed>>

\* The ack that commits a block may also complete the view's beacon.
CommitAdvance(r) ==
  /\ \E h \in committed[r] .. height :
       /\ h > committed[r] => Certified(h)
       /\ committed' = [committed EXCEPT ![r] = h]
  /\ \/ at' = at
     \/ Certified(at[r]) /\ at' = [at EXCEPT ![r] = @ + 1]
  /\ UNCHANGED height

Next == \E r \in Replica : Extend(r) \/ CommitAdvance(r)

Spec == Init /\ [][Next]_vars

=============================================================================
