-------------------------- MODULE MCBeaconPipeline --------------------------
(***************************************************************************)
(* BeaconPipeline for TLC: where client commands arrive and where a        *)
(* replica is in haste, and a view that forgets in which order the         *)
(* transcripts of an aggregate came.                                       *)
(***************************************************************************)
EXTENDS BeaconPipeline

\* Any of them may come or not: replica 2's first in view 1, in view 2, which
\* is too late for view 2n + 1, or never, and its second in view 2, before the
\* aggregate for that view is made.
FirstAndSecond == {<<0, 1>>, <<1, 1>>, <<2, 1>>, <<2, 2>>}

\* Before replica 1 deals to itself for view 2n + 2.
Once == {<<1, 2>>}

\* Only the length decides what the code does next, and only the dealers of
\* the first nmajority are what a property reads.
Dealers(ids) ==
  [q \in Replica |-> Cardinality({i \in DOMAIN ids : i <= NMajority /\ ids[i] = q})]

Unordered ==
  <<view, last_view_proposal_received, heard, proposed, transcripts,
    [w \in ForViews |-> <<Len(transcript_ids[w]), Dealers(transcript_ids[w])>>],
    view_agg_transcripts, agg_queue, used, commanded>>

=============================================================================
