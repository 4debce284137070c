--------------------------- MODULE MCOptRandCore ---------------------------
(***************************************************************************)
(* OptRandCore for TLC: the client commands of each run, a view that       *)
(* forgets what a replica keeps of past views and never reads again, and a *)
(* reduction for the runs of several views.                                *)
(***************************************************************************)
EXTENDS OptRandCore

\* Where a client command may arrive.
NoCommand == {}
AtProposer == {<<0, 1>>}
AtBoth == {<<0, 1>>, <<1, 1>>}
LateAtZero == {<<0, 1>>, <<0, 2>>}
LateAtNext == {<<0, 1>>, <<1, 2>>}

\* Every handler returns at once for a message of a past view, so the per-view
\* tables of past views are dead.
Live(s) ==
  [s EXCEPT !.last_cert_decoded_view = IF @ < s.view THEN 0 ELSE @,
            !.status_received = [v \in View |-> IF v < s.view THEN {} ELSE @[v]],
            !.view_shares = [v \in View |-> IF v < s.view THEN <<>> ELSE @[v]],
            !.qc_chunks = [v \in View |-> IF v < s.view THEN {} ELSE @[v]],
            !.past_qc_gate = {m \in @ : m.view >= s.view},
            !.handled = {m \in @ : m.view >= s.view}]

LiveView == <<[r \in Replica |-> Live(st[r])], msgs>>

(***************************************************************************)
(* Steps of an idle replica that change only its own counters, send        *)
(* nothing and wake nobody up: a vote or a status that does not complete a *)
(* quorum, a chunk once the view's certificate is known, the timer of a    *)
(* view already proposed in.  With three replicas every vote is needed     *)
(* before a view ends, and a first status alone decides nothing, so these  *)
(* steps commute with all others and can be taken first.  Acks are not     *)
(* among them: an ack may still count after the view has changed.          *)
(***************************************************************************)
QuietVote(r) ==
  \E m \in Sent("vote") :
    /\ m.to = r /\ m.view = st[r].view
    /\ Cardinality(st[r].voted[m.blk]) + 1 < NResponsive
    /\ Become(r, OnReceiveVote(st[r], r, m.blk, m.from, m.view))

QuietStatus(r) ==
  \E m \in Sent("status") :
    /\ m.to = r /\ m.view = st[r].view
    /\ Cardinality(st[r].status_received[m.view]) + 1 < NMajority
    /\ \E found \in {Delivered(st[r], m.qc), TRUE} :
         Become(r, OnReceiveStatus(st[r], r, m.from, m.view, m.qc, found))

QuietChunk(r) ==
  st[r].last_view_cert_received >= st[r].view /\ ReceiveCertEcho(r)

QuietTimer(r) == st[r].last_proposed_view >= st[r].view /\ ProposeTimeout(r)

Quiet(r) ==
  /\ Runnable(r) /\ st[r].todo = <<>>
  /\ QuietVote(r) \/ QuietStatus(r) \/ QuietChunk(r) \/ QuietTimer(r)

CanBeQuiet(r) == ENABLED Quiet(r)

QuietFirst ==
  IF \E r \in Replica : CanBeQuiet(r)
  THEN \E r \in Replica : Quiet(r) /\ \A q \in 0 .. r - 1 : ~ CanBeQuiet(q)
  ELSE Next

QuietFirstSpec == Init /\ [][QuietFirst]_vars

=============================================================================
