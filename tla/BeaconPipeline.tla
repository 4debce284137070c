--------------------------- MODULE BeaconPipeline ---------------------------
(***************************************************************************)
(* Where the aggregate that a view's beacon is opened from comes from:     *)
(* every replica deals a PVSS transcript on entering a view to the replica *)
(* that is about to need one (on_enter_view), that replica aggregates the  *)
(* first nmajority it gets (on_receive_pvss_transcript), proposes the      *)
(* aggregate when its turn comes (on_propose), every replica keeps it      *)
(* (on_receive_proposal), queues it nmajority views later                  *)
(* (_update_agg_queue) and opens it when the proposer's turn comes again   *)
(* (_broadcast_share).                                                     *)
(*                                                                         *)
(* A view is kept to what this pipeline depends on: the proposal, and of   *)
(* which other replicas an ack or a share of the view has been handled.    *)
(* OptRandCore has the rest (LeavesCompleteView: no replica leaves a view  *)
(* without its proposal).  Connections are FIFO, and the transcript        *)
(* handler runs at once, so what is heard from a replica comes after the   *)
(* transcripts it sent before.  But on_enter_view first wakes up what has  *)
(* waited for the view, and deals afterwards: an ack or a share sent in    *)
(* there comes before the transcript, and a replica that gets through      *)
(* several views in there deals for the last of them first.  Such an ack   *)
(* or share is not heard here, and the transcripts of a replica may come   *)
(* in any order.  A transcript is known by its dealer, an aggregate by the *)
(* view it is made for.                                                    *)
(***************************************************************************)
EXTENDS Thresholds, Sequences, FiniteSets

CONSTANTS
  MaxView,           \* bound: nobody leaves a later view
  Commands,          \* bound: <<replica, view>> where a client command may arrive
  Hasty              \* bound: <<replica, view>> where a replica may leave a view
                     \* without having heard what HeardEnough asks for

\* Two replicas alone never aggregate: the own transcript completes the count.
\* A command makes its replica take replica 0 for the proposer (enter_view(1)).
\* OptRandCore says what comes of it; here it changes nothing: the proposer is
\* 0 anyway, or the command's replica is neither of the two.
ASSUME PipelineAssumption ==
  /\ NReplicas >= 3 /\ MaxView \in Nat \ {0}
  /\ Commands \subseteq Replica \X (1 .. MaxView)
  /\ \A c \in Commands : GetProposer(c[2]) = 0 \/ c[1] \notin {0, GetProposer(c[2])}
  /\ Hasty \subseteq Replica \X Nat

VARIABLES
  view,
  last_view_proposal_received,
  heard,             \* heard[r]: the others heard from in r's view
  proposed,          \* the aggregate in the proposal of each view so far
  transcripts,       \* transcripts[q][r]: under way from q to r
  transcript_ids,    \* of each view, at the only replica that collects them
  view_agg_transcripts,
  agg_queue,
  used,              \* the aggregates replicas have opened in a view
  commanded          \* the client commands that have arrived

vars == <<view, last_view_proposal_received, heard, proposed, transcripts,
          transcript_ids, view_agg_transcripts, agg_queue, used, commanded>>

View == 1 .. MaxView + 1

\* The views aggregates are made for, the set-up's 2n included.
ForViews == 1 .. MaxView + 3 * NReplicas + 1

\* A default-constructed pvss_aggregate_t; verify_aggregation refuses it.
Missing == 0
Aggregate == ForViews \cup {Missing}

Transcript == [for_view : ForViews, sent_in : View]

-----------------------------------------------------------------------------
(* Who deals to whom.                                                      *)

\* Mutant: the destination does not move from view to view.
DestFixed(r, v) == (r + 1) % NReplicas

Dest(r, v) == (r + v) % NReplicas

\* The turn after the next of the destination.
ForView(r, v) == (2 + (v - 1) \div NReplicas) * NReplicas + Dest(r, v) + 1

\* The tail of on_enter_view(v), the state t being <<transcripts, ids>>: an
\* own transcript is kept without a look at the count.
Deal(t, r, v, now) ==
  IF Dest(r, v) = r
  THEN [t EXCEPT !.ids[ForView(r, v)] = Append(@, r)]
  ELSE [t EXCEPT !.sent[r][Dest(r, v)] =
          @ \cup {[for_view |-> ForView(r, v), sent_in |-> now]}]

\* Mutant: the count is compared before the transcript is added.
CompletesLate(w) == Len(transcript_ids[w]) = NMajority

\* One more transcript of view w makes nmajority of them.
Completes(w) == Len(transcript_ids[w]) + 1 = NMajority

\* Mutant: every transcript is kept.
WantedAlways(w) == TRUE

Wanted(w) == Len(transcript_ids[w]) < NMajority

-----------------------------------------------------------------------------
Init ==
  /\ view = [r \in Replica |-> 1]
  /\ last_view_proposal_received = [r \in Replica |-> 0]
  /\ heard = [r \in Replica |-> {}]
  /\ proposed = <<>>
  /\ transcripts = [q \in Replica |-> [r \in Replica |-> {}]]
  /\ transcript_ids = [w \in ForViews |-> <<>>]
  /\ view_agg_transcripts =
       [r \in Replica |-> [w \in ForViews |->
          IF w <= 2 * NReplicas THEN w ELSE Missing]]
  /\ agg_queue = [r \in Replica |-> [p \in Replica |-> p + 1]]
  /\ used = [v \in View |-> {}]
  /\ commanded = {}

\* Nothing arms the timer of view 1 but a command of replica 0's own, and
\* without it nmajority others have to send it their status.
Started ==
  \/ <<0, 1>> \in commanded
  \/ Cardinality({c \in commanded : c[2] = 1}) >= NMajority

Propose(r) ==
  LET v == view[r]
  IN /\ r = GetProposer(v) /\ v <= MaxView
     /\ v = 1 => Started
     /\ v \notin DOMAIN proposed
     /\ proposed' = Append(proposed, view_agg_transcripts[r][v])
     /\ last_view_proposal_received' = [last_view_proposal_received EXCEPT ![r] = v]
     /\ UNCHANGED <<view, heard, transcripts, transcript_ids,
                    view_agg_transcripts, agg_queue, used, commanded>>

\* Mutant: the proposal's aggregate is verified and not kept.
KeepNothing(r, v) == view_agg_transcripts

Keep(r, v) == [view_agg_transcripts EXCEPT ![r][v] = proposed[v]]

ReceiveProposal(r) ==
  LET v == view[r]
  IN /\ r # GetProposer(v) /\ v \in DOMAIN proposed
     /\ last_view_proposal_received[r] < v
     /\ proposed[v] # Missing
     /\ view_agg_transcripts' = Keep(r, v)
     /\ last_view_proposal_received' = [last_view_proposal_received EXCEPT ![r] = v]
     /\ UNCHANGED <<view, heard, proposed, transcripts, transcript_ids,
                    agg_queue, used, commanded>>

\* An ack or a share of r's view that q sent in that view, once it had dealt.
Hear(r, q) ==
  /\ q \notin heard[r] \cup {r}
  /\ view[q] >= view[r] /\ view[r] \in DOMAIN proposed
  /\ \A t \in transcripts[q][r] : t.sent_in > view[r]
  /\ heard' = [heard EXCEPT ![r] = @ \cup {q}]
  /\ UNCHANGED <<view, last_view_proposal_received, proposed, transcripts,
                 transcript_ids, view_agg_transcripts, agg_queue, used, commanded>>

OnReceivePvssTranscript(r, q) ==
  \E t \in transcripts[q][r] :
    LET w == t.for_view
    IN /\ transcript_ids' = IF Wanted(w)
                            THEN [transcript_ids EXCEPT ![w] = Append(@, q)]
                            ELSE transcript_ids
       /\ view_agg_transcripts' = IF Wanted(w) /\ Completes(w)
                                  THEN [view_agg_transcripts EXCEPT ![r][w] = w]
                                  ELSE view_agg_transcripts
       /\ transcripts' = [transcripts EXCEPT ![q][r] = @ \ {t}]
       /\ UNCHANGED <<view, last_view_proposal_received, heard, proposed, agg_queue,
                      used, commanded>>

\* Mutant: the queue stays as the set-up filled it.
UpdateAggQueueNever(r, v) == agg_queue

UpdateAggQueue(r, v) ==
  LET t == v - NMajority + 1
  IN IF v < NMajority THEN agg_queue
     ELSE [agg_queue EXCEPT ![r][GetProposer(t)] = view_agg_transcripts[r][t]]

\* The beacon has nmajority shares.  All are of others, or the own share is one
\* of them, revealed on nresponsive acks with the own one; or the shares are
\* ones nobody is heard by: the own one revealed on the acks of an older block,
\* or one sent inside on_enter_view.
HeardEnough(r) ==
  \/ Cardinality(heard[r]) >= NMajority
  \/ Cardinality(heard[r]) >= NResponsive - 1
  \/ <<r, view[r]>> \in Hasty

\* _try_enter_view.  The certificate has the votes of nresponsive replicas.
LeaveView(r) ==
  LET v == view[r]
      dealt == Deal([sent |-> transcripts, ids |-> transcript_ids], r, v + 1, v + 1)
  IN /\ v <= MaxView
     /\ last_view_proposal_received[r] = v
     /\ Cardinality({q \in Replica : last_view_proposal_received[q] >= v}) >= NResponsive
     /\ HeardEnough(r)
     /\ used' = [used EXCEPT ![v] = @ \cup {agg_queue[r][GetProposer(v)]}]
     /\ agg_queue' = UpdateAggQueue(r, v)
     /\ view' = [view EXCEPT ![r] = v + 1]
     /\ heard' = [heard EXCEPT ![r] = {}]
     /\ transcripts' = dealt.sent /\ transcript_ids' = dealt.ids
     /\ UNCHANGED <<last_view_proposal_received, proposed, view_agg_transcripts,
                    commanded>>

\* The handler of the command queue runs on_enter_view(1), unless the replica
\* has proposed in its view; the views do not wait for it.  What the replica
\* sent earlier in its view may be before or after the transcript.
\* Bound: one at each place in Commands.
Command(r) ==
  LET dealt == Deal([sent |-> transcripts, ids |-> transcript_ids], r, 1, view[r] + 1)
  IN /\ <<r, view[r]>> \in Commands \ commanded
     /\ ~ (r = GetProposer(view[r]) /\ view[r] \in DOMAIN proposed)
     /\ commanded' = commanded \cup {<<r, view[r]>>}
     /\ transcripts' = dealt.sent /\ transcript_ids' = dealt.ids
     /\ UNCHANGED <<view, last_view_proposal_received, heard, proposed,
                    view_agg_transcripts, agg_queue, used>>

Next ==
  \E r \in Replica :
    \/ Propose(r) \/ ReceiveProposal(r) \/ LeaveView(r) \/ Command(r)
    \/ \E q \in Replica : Hear(r, q) \/ OnReceivePvssTranscript(r, q)

Spec == Init /\ [][Next]_vars

-----------------------------------------------------------------------------
(* Properties.                                                             *)

\* The type invariant.  A collector keeps nmajority transcripts and its own.
TypeOK ==
  /\ view \in [Replica -> View]
  /\ last_view_proposal_received \in [Replica -> 0 .. MaxView]
  /\ heard \in [Replica -> SUBSET Replica]
  /\ proposed \in Seq(Aggregate) /\ Len(proposed) <= MaxView
  /\ transcripts \in [Replica -> [Replica -> SUBSET Transcript]]
  /\ transcript_ids \in [ForViews -> Seq(Replica)]
  /\ \A w \in ForViews : Len(transcript_ids[w]) <= NMajority + 1
  /\ view_agg_transcripts \in [Replica -> [ForViews -> Aggregate]]
  /\ agg_queue \in [Replica -> [Replica -> Aggregate]]
  /\ used \in [View -> SUBSET Aggregate]
  /\ commanded \subseteq Commands

\* The replica that deals to v's proposer in view 1 alone, on its first command,
\* had none before the last view but one of the turn.
StartedLate(v) ==
  \E q \in Replica :
    ForView(q, 1) = v /\ \A c \in commanded : c[1] = q => c[2] > NReplicas - 2

\* v's proposer may have left in haste the view before the one in which it
\* deals to itself for v.
LeftInHaste(v) ==
  \E u \in View : ForView(GetProposer(v), u) = v /\ <<GetProposer(v), u - 1>> \in Hasty

\* A proposer has the aggregate of its view when it proposes: enough of the
\* transcripts that others deal to it in the n views before have arrived
\* before its own one is added, so the count that sets off the aggregation is
\* reached by one it receives (on_receive_pvss_transcript, on_enter_view).
\* Otherwise the proposal has none, which nobody else accepts: it takes a
\* replica whose first command came late, or the proposer's own haste.
AggregateInTime ==
  \A v \in DOMAIN proposed : proposed[v] = Missing => StartedLate(v) \/ LeftInHaste(v)

\* All replicas open one aggregate in a view: all have kept it, and queued it,
\* before the turn of its proposer comes again (_update_agg_queue).
SameAggregate == \A v \in View : Cardinality(used[v]) <= 1

\* An aggregate combines transcripts of different dealers, unless a second
\* command made one of them deal again: transcript_ids is a list, and
\* on_receive_pvss_transcript does not look for the dealer in it.
DistinctDealers ==
  \A w \in ForViews : \A i, j \in 1 .. NMajority :
    i < j /\ j <= Len(transcript_ids[w]) /\ transcript_ids[w][i] = transcript_ids[w][j]
      => \E c, e \in commanded : c # e /\ {c[1], e[1]} = {transcript_ids[w][i]}

\* The aggregates of the set-up are opened twice, view v <= n and view v + n
\* opening the same one, as agg_queue and view_agg_transcripts both start with
\* them; from then on every view opens an aggregate of its own.
RepeatsSetupOnce ==
  \A v, w \in View :
    v < w /\ used[v] # {} /\ used[w] # {} =>
      (used[v] \cap used[w] # {} <=> v <= NReplicas /\ w = v + NReplicas)

=============================================================================
