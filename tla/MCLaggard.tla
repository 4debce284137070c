----------------------------- MODULE MCLaggard -----------------------------
(***************************************************************************)
(* A replica that hears late from the others: they have been through every *)
(* view without its vote, ack and share, and all they sent it, from all    *)
(* views, arrives in any order, partly, or not at all.  Only the late      *)
(* replica moves.                                                          *)
(***************************************************************************)
EXTENDS MCOptRandCore

\* Bound: whose acks and shares arrive.
FirstThree == {0, 1, 2}

Late == NReplicas - 1
Fast == 0 .. NReplicas - 2

ASSUME LaggardAssumption ==
  Cardinality(Fast) >= NResponsive /\ MaxView \in 3 .. NReplicas - 1

ChainBlock(v) ==
  IF v = 0 THEN Genesis ELSE [view |-> v, height |-> v]

Chain == {ChainBlock(v) : v \in 0 .. MaxView}

ProposalOf(v) ==
  [type |-> "propose", from |-> GetProposer(v), blk |-> ChainBlock(v),
   parent |-> ChainBlock(v - 1), qc_ref |-> ChainBlock(v - 1)]

SentInView(v, ackers) ==
  LET b == ChainBlock(v)
  IN {ProposalOf(v),
      [type |-> "qc", from |-> GetProposer(v), blk |-> b],
      [type |-> "echo2", from |-> GetProposer(v), blk |-> b],
      [type |-> "beacon", from |-> GetProposer(v), view |-> v]}
     \cup {[type |-> "ack", from |-> q, blk |-> b, view |-> v] : q \in ackers}
     \cup {[type |-> "share", from |-> q, to |-> Late, view |-> v, blk |-> b] :
             q \in FirstThree}

\* Where a fast replica is when view MaxView is over.
Done(r) ==
  LET b == ChainBlock(MaxView)
  IN [InitState EXCEPT
        !.view = MaxView + 1, !.pm_proposer = GetProposer(MaxView + 1),
        !.last_proposed_view = IF r < MaxView THEN r + 1 ELSE 0,
        !.last_view_proposal_received = MaxView,
        !.last_view_cert_received = MaxView,
        !.last_view_shares_received = MaxView,
        !.last_view_beacon_received = MaxView,
        !.hqc = b, !.hqc_tail = b, !.vheight = MaxView, !.b_exec = b,
        !.decided = Chain,
        !.proposals = {c \in Chain \ {Genesis} : GetProposer(c.view) # r},
        !.finished_propose = Chain \ {Genesis},
        !.voted = [c \in Block |-> IF c = Genesis THEN Replica
                                   ELSE IF c \in Chain /\ GetProposer(c.view) = r THEN Fast
                                   ELSE {}],
        !.acked = [c \in Block |-> IF c \in Chain \ {Genesis} THEN Fast ELSE {}],
        !.view_shares = [v \in View |-> IF v \in 1 .. MaxView
                                        THEN [i \in 1 .. NMajority |-> i - 1]
                                        ELSE <<>>]]

\* Bound: nothing that was sent in the last view arrives.
InitLaggard ==
  /\ st = [r \in Replica |-> IF r = Late THEN InitState ELSE Done(r)]
  /\ msgs = UNION {SentInView(v, FirstThree) : v \in 1 .. MaxView - 1}

\* A client command that reached replica 0 in view 2 made it propose there, on
\* top of the block of the view's proposer; the others have not heard of it.
\* Bound: no ack arrives, and of the last view only the proposal.
OutOfTurn == [view |-> 2, height |-> 3]

InitOutOfTurn ==
  /\ st = [r \in Replica |->
             IF r = Late THEN InitState
             ELSE IF r = 0
             THEN [Done(r) EXCEPT !.last_proposed_view = 2, !.commands = {2},
                                  !.hqc_tail = OutOfTurn,
                                  !.finished_propose = @ \cup {OutOfTurn},
                                  !.voted[OutOfTurn] = {0}]
             ELSE Done(r)]
  /\ msgs = UNION {SentInView(v, {}) : v \in 1 .. MaxView - 1}
              \cup {ProposalOf(MaxView),
                    [type |-> "propose", from |-> 0, blk |-> OutOfTurn,
                     parent |-> ChainBlock(2), qc_ref |-> ChainBlock(1)]}

LaggardSpec == (InitLaggard \/ InitOutOfTurn) /\ [][Step(Late)]_vars

=============================================================================
