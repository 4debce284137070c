---------------------------- MODULE MCBlockFetch ----------------------------
(***************************************************************************)
(* BlockFetch for TLC: three blocks, the third made out of turn: it stands *)
(* on the second, and its certificate is for the first.                    *)
(***************************************************************************)
EXTENDS BlockFetch

ThreeParents == [b \in 0 .. 3 |-> IF b = 0 THEN 0 ELSE b - 1]
ThreeQcRefs == [b \in 0 .. 3 |-> IF b < 2 THEN 0 ELSE 1]

Propose(b, p) == [blk |-> b, from |-> p, carries |-> TRUE]
Names(b, p) == [blk |-> b, from |-> p, carries |-> FALSE]

CONSTANTS p1, p2

TwoPeers == {p1, p2}

\* Proposals of all three blocks, and acks or certificates that come first.
FewMessages ==
  {Names(1, p1), Propose(1, p2), Propose(2, p2), Propose(3, p1)}

First == {1}

=============================================================================
