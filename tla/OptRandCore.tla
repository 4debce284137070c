----------------------------- MODULE OptRandCore -----------------------------
(***************************************************************************)
(* One view after another of the OptRand replica: HotStuffCore (propose,   *)
(* vote, certificate, ack, commit, beacon share, view entry), the message  *)
(* handlers of HotStuffBase that hold a message back until its gates open, *)
(* and the part of the pacemaker the handlers read.                        *)
(*                                                                         *)
(* A replica is one event loop.  A handler runs to completion, but where   *)
(* it resolves a promise the handlers that were waiting on it run inside   *)
(* it.  Each function of the code is an operator from the replica's state  *)
(* to its state; a function that resolves a promise pushes a frame on      *)
(* todo, waiting messages may then be handled one at a time, and a Resume  *)
(* action runs the rest of the function.  While one replica has frames no  *)
(* other replica moves: what runs inside is what had already arrived.      *)
(*                                                                         *)
(* Messages sent are never removed: a replica may receive one late, never, *)
(* or again.  Only a share is handled at most once per receiver, because   *)
(* on_receive_share does not recognise a repeated one.  Replicas follow    *)
(* the code; signatures, blocks' commands and the PVSS data are abstracted *)
(* (a message carries the block or view it is about).                      *)
(*                                                                         *)
(* Three things the same functions keep are no part of this state, as      *)
(* nothing here reads them: the chunks of a proposal (a proposal that was  *)
(* sent may arrive at any time), the block store (a block is delivered     *)
(* when a message about it is handled), and the PVSS transcripts and       *)
(* aggregates (all replicas have the same aggregate for a view).           *)
(***************************************************************************)
EXTENDS Thresholds, Sequences, FiniteSets

CONSTANTS
  MaxView,           \* bound: nobody proposes in a later view
  Commands           \* bound: <<replica, view>> where a client command may arrive

\* Client commands come in the first view only.
CommandsInTime == \A c \in Commands : c[2] = 1

\* A block holds the aggregate its proposer has for the view.  Up to view 2n
\* all replicas have the one of the set-up file, and later than that one
\* replica proposes in a view unless a command changes who does: either way
\* the view and the height make the block.
ASSUME BoundsAssumption ==
  /\ MaxView \in Nat \ {0} /\ Commands \subseteq Replica \X Nat
  /\ MaxView <= 2 * NReplicas \/ CommandsInTime

VARIABLES
  st,                \* st[r]: the state of replica r
  msgs               \* every message sent so far

vars == <<st, msgs>>

View == 0 .. MaxView + 1

\* Bound: one proposal a view, and one of replica 0 out of its turn after a
\* late client command.
MaxHeight == MaxView + 1

\* A block is known by its contents, whoever proposes it: two replicas that
\* propose in one view on the same parent make the same block.  The view and
\* the height tell apart all blocks of a run.
Block == [view : 0 .. MaxView, height : 0 .. MaxHeight]
Genesis == [view |-> 0, height |-> 0]

Proposals == [type : {"propose"}, from : Replica, blk : Block, parent : Block, qc_ref : Block]
Votes == [type : {"vote"}, from : Replica, to : Replica, blk : Block, view : View]
Certificates == [type : {"qc"}, from : Replica, blk : Block]
Acks == [type : {"ack"}, from : Replica, blk : Block, view : View]
CertEchoes == [type : {"echo2"}, from : Replica, blk : Block]
Statuses == [type : {"status"}, from : Replica, to : Replica, view : View, qc : Block]
Shares == [type : {"share"}, from : Replica, to : Replica, view : View, blk : Block]
Beacons == [type : {"beacon"}, from : Replica, view : View]

Message == Proposals \cup Votes \cup Certificates \cup Acks \cup CertEchoes
             \cup Statuses \cup Shares \cup Beacons

\* Where a function is suspended: it has just resolved this promise.
Frame == [at : {"enter_view", "view_proposal", "view_qc", "try_enter_view"},
          view : View, blk : Block, vote : BOOLEAN, proposer : Replica]

ReplicaState ==
  [view : View,
   pm_proposer : Replica,               \* PMRoundRobinProposer::proposer
   last_proposed_view : View,
   last_view_proposal_received : View,
   last_view_cert_received : 0 .. MaxView,
   last_view_shares_received : View,
   last_view_beacon_received : View,
   last_cert_decoded_view : View,
   hqc : Block,                         \* hqc.first; hqc.second has its view
   hqc_tail : Block,                    \* PMHighTail::hqc_tail
   vheight : Nat,
   b_exec : Block,
   decided : SUBSET Block,              \* blocks whose decision is 1
   proposals : SUBSET Block,            \* its slots are the blocks of a height
   finished_propose : SUBSET Block,
   voted : [Block -> SUBSET Replica],
   acked : [Block -> SUBSET Replica],
   status_received : [View -> SUBSET Replica],
   view_shares : [View -> Seq(Replica)],  \* origins, in order of arrival
   qc_chunks : [View -> SUBSET Replica],
   propose_timer : BOOLEAN,             \* the timer is armed
   commands : SUBSET View,              \* where client commands were handled
   past_qc_gate : SUBSET Message,       \* shares that no longer wait for a QC
   handled : SUBSET Message,            \* shares handled
   halted : BOOLEAN,                    \* an exception left the event loop
   todo : Seq(Frame),                   \* suspended functions, innermost first
   out : SUBSET Message]                \* sent by the running handler

-----------------------------------------------------------------------------
(* Blocks.  The chain is what has been proposed.                           *)

Sent(type) == {m \in msgs : m.type = type}

Proposed(b) == \E m \in Sent("propose") : m.blk = b

\* The block and what its parents[0] links lead to.
Ancestors[b \in Block] ==
  IF Proposed(b)
  THEN {b} \cup Ancestors[(CHOOSE m \in Sent("propose") : m.blk = b).parent]
  ELSE {b}

Send(s, ms) == [s EXCEPT !.out = @ \cup ms]
Push(s, f) == [s EXCEPT !.todo = <<f>> \o @]

\* The exception leaves the event loop: nothing reads the state again, nor what
\* the handler has already assigned.
Throw(s) == [s EXCEPT !.halted = TRUE, !.todo = <<>>]

-----------------------------------------------------------------------------
(* The functions of HotStuffCore, s being the state of replica r.          *)

\* The hook lets PMHighTail move its tail up to the new hqc's block.
UpdateHqc(s, b) ==
  IF b.view > s.hqc.view
  THEN [s EXCEPT !.hqc = b,
                 !.hqc_tail = IF b.height > @.height THEN b ELSE @]
  ELSE s

\* Mutant: b_exec is not moved.
CheckCommitBehind(s, b) ==
  [s EXCEPT !.decided = @ \cup {a \in Ancestors[b] : a.height > s.b_exec.height}]

\* Mutant: the block alone is committed.
CheckCommitAlone(s, b) == [s EXCEPT !.decided = @ \cup {b}, !.b_exec = b]

CheckCommit(s, b) ==
  LET chain == Ancestors[b] \cap Block
      queue == {a \in chain : a.height > s.b_exec.height}
      base == CHOOSE a \in chain \ queue :
                \A c \in chain \ queue : c.height <= a.height
  IN IF base # s.b_exec /\ base \notin s.decided
     THEN Throw(s)
     ELSE [s EXCEPT !.decided = @ \cup queue, !.b_exec = b]

\* Mutant: the pacemaker is not told of the view.
EnterViewUnrotated(s, v) ==
  Push(s, [at |-> "enter_view", view |-> v, blk |-> Genesis, vote |-> FALSE,
           proposer |-> GetProposer(v)])

\* enter_view() points the pacemaker at the new view's proposer; then
\* on_enter_view starts by waking up what waited for the view.
EnterView(s, v) ==
  Push([s EXCEPT !.pm_proposer = GetProposer(v)],
       [at |-> "enter_view", view |-> v, blk |-> Genesis, vote |-> FALSE,
           proposer |-> GetProposer(v)])

\* Mutant: a certificate of a later view will do.
TryEnterViewAnyCert(s) ==
  IF /\ s.last_view_cert_received >= s.view
     /\ \/ s.last_view_shares_received = s.view
        \/ s.last_view_beacon_received = s.view
  THEN EnterView([s EXCEPT !.view = @ + 1], s.view + 1)
  ELSE s

TryEnterView(s) ==
  IF /\ s.last_view_cert_received = s.view
     /\ \/ s.last_view_shares_received = s.view
        \/ s.last_view_beacon_received = s.view
  THEN EnterView([s EXCEPT !.view = @ + 1], s.view + 1)
  ELSE s

\* Interpolation takes the first NFaulty + 1 points; two equal ones spoil it.
Reconstructs(origins) ==
  \A i, j \in 1 .. NFaulty + 1 : i # j => origins[i] # origins[j]

OnReceiveShare(s, r, origin, v) ==
  IF v < s.view \/ Len(s.view_shares[v]) >= NMajority
  THEN s
  ELSE LET t == [s EXCEPT !.view_shares[v] = Append(@, origin)]
       IN IF Len(t.view_shares[v]) # NMajority
          THEN t
          ELSE IF ~ Reconstructs(t.view_shares[v])
          THEN Throw(t)
          ELSE TryEnterView(
                 [Send(t, {[type |-> "beacon", from |-> r, view |-> t.view]})
                    EXCEPT !.last_view_shares_received = t.view,
                           !.last_view_beacon_received = t.view])

\* b, whose acks set the share off, tells apart two shares of one view.
BroadcastShare(s, r, b) ==
  LET t == OnReceiveShare(s, r, r, s.view)
  IN IF t.halted THEN t
     ELSE Send(t, {[type |-> "share", from |-> r, to |-> q,
                    view |-> s.view, blk |-> b] : q \in Replica \ {r}})

\* Mutant: an ack after the quorum, or a repeated one, counts again.
OnReceiveAckRepeats(s, r, b, voter, v) ==
  LET t == [s EXCEPT !.acked[b] = @ \cup {voter}]
  IN IF v < s.view THEN s
     ELSE IF Cardinality(t.acked[b]) < NResponsive THEN t
     ELSE BroadcastShare(CheckCommit(t, b), r, b)

\* Mutant: the commit is left to somebody else.
OnReceiveAckUncommitted(s, r, b, voter, v) ==
  IF v < s.view \/ Cardinality(s.acked[b]) >= NResponsive \/ voter \in s.acked[b]
  THEN s
  ELSE LET t == [s EXCEPT !.acked[b] = @ \cup {voter}]
       IN IF Cardinality(t.acked[b]) = NResponsive THEN BroadcastShare(t, r, b) ELSE t

OnReceiveAck(s, r, b, voter, v) ==
  IF v < s.view \/ Cardinality(s.acked[b]) >= NResponsive \/ voter \in s.acked[b]
  THEN s
  ELSE LET t == [s EXCEPT !.acked[b] = @ \cup {voter}]
           u == CheckCommit(t, b)
       IN IF Cardinality(t.acked[b]) # NResponsive THEN t
          ELSE IF u.halted THEN u
          ELSE BroadcastShare(u, r, b)

Ack(s, r, b) ==
  LET t == OnReceiveAck(s, r, b, r, s.view)
  IN IF t.halted THEN t
     ELSE Send(t, {[type |-> "ack", from |-> r, blk |-> b, view |-> s.view]})

OnReceiveVote(s, r, b, voter, v) ==
  IF v < s.view \/ Cardinality(s.voted[b]) >= NResponsive \/ voter \in s.voted[b]
  THEN s
  ELSE LET t == [s EXCEPT !.voted[b] = @ \cup {voter}]
       IN IF Cardinality(t.voted[b]) # NResponsive THEN t
          ELSE Ack(Send(UpdateHqc(t, b), {[type |-> "qc", from |-> r, blk |-> b]}),
                   r, b)

Vote(s, r, b, proposer) ==
  IF proposer = r
  THEN OnReceiveVote(s, r, b, r, s.view)
  ELSE Send(s, {[type |-> "vote", from |-> r, to |-> proposer, blk |-> b,
                 view |-> s.view]})

OnPropose(s, r) ==
  LET b == [view |-> s.view, height |-> s.hqc_tail.height + 1]
      t == Vote([s EXCEPT !.vheight = b.height,
                          !.finished_propose = @ \cup {b}], r, b, r)
  IN IF b.height <= s.vheight THEN Throw(s)
     ELSE Push([Send(t, {[type |-> "propose", from |-> r, blk |-> b,
                          parent |-> s.hqc_tail, qc_ref |-> s.hqc]})
                  EXCEPT !.hqc_tail = b,
                         !.last_proposed_view = s.view,
                         !.last_view_proposal_received = s.view],
               [at |-> "view_proposal", view |-> s.view, blk |-> b, vote |-> FALSE,
                proposer |-> r])

\* The last two conjuncts are the bounds.
MayPropose(s, r) ==
  /\ s.pm_proposer = r /\ s.last_proposed_view < s.view
  /\ s.view <= MaxView /\ s.hqc_tail.height < MaxHeight

\* Mutant: a proposer proposes again in its view.
DoProposeAgain(s, r) ==
  IF s.pm_proposer = r /\ s.view <= MaxView /\ s.hqc_tail.height < MaxHeight
  THEN OnPropose([s EXCEPT !.propose_timer = FALSE], r)
  ELSE s

DoPropose(s, r) ==
  IF MayPropose(s, r) THEN OnPropose([s EXCEPT !.propose_timer = FALSE], r) ELSE s

\* Mutant: the slot of the height is not looked at.
OnReceiveProposalConflicting(s, r, m) ==
  LET t == UpdateHqc(s, m.qc_ref)
      onBranch == t.hqc \in Ancestors[m.blk]
  IN IF m.blk \in s.finished_propose THEN s
     ELSE Push([t EXCEPT
                  !.proposals = @ \cup {m.blk},
                  !.vheight = IF onBranch THEN m.blk.height ELSE @,
                  !.finished_propose = @ \cup {m.blk},
                  !.hqc_tail = IF onBranch /\ m.blk.height > @.height
                               THEN m.blk ELSE @,
                  !.last_view_proposal_received = s.view],
               [at |-> "view_proposal", view |-> s.view, blk |-> m.blk,
                vote |-> onBranch, proposer |-> m.from])

OnReceiveProposal(s, r, m) ==
  LET t == UpdateHqc(s, m.qc_ref)
      conflicting == \E b \in s.proposals : b.height = m.blk.height /\ b # m.blk
      onBranch == t.hqc \in Ancestors[m.blk]
      opinion == ~ conflicting /\ onBranch
  IN IF m.blk \in s.finished_propose THEN s
     ELSE Push([t EXCEPT
                  !.proposals = @ \cup {m.blk},
                  !.vheight = IF opinion THEN m.blk.height ELSE @,
                  !.finished_propose = @ \cup {m.blk},
                  !.hqc_tail = IF onBranch /\ m.blk.height > @.height
                               THEN m.blk ELSE @,
                  !.last_view_proposal_received = s.view],
               [at |-> "view_proposal", view |-> s.view, blk |-> m.blk,
                vote |-> opinion, proposer |-> m.from])

\* found: whether get_delivered_blk has the block.
OnReceiveStatus(s, r, from, v, qc, found) ==
  IF v < s.view \/ s.last_proposed_view >= s.view
       \/ Cardinality(s.status_received[v]) >= NMajority
  THEN s
  ELSE IF ~ found THEN Throw(s)
  ELSE LET t == UpdateHqc(s, qc)
           u == [t EXCEPT !.status_received[v] = @ \cup {from}]
       IN IF from \in s.status_received[v] THEN t
          ELSE IF /\ Cardinality(u.status_received[v]) = NMajority
                  /\ u.hqc.view + 1 = u.view
          THEN DoPropose(u, r)
          ELSE u

\* Mutant: the highest certificate is not updated.
OnReceiveQCForgotten(s, r, b, found) ==
  IF b.view < s.view \/ s.last_view_cert_received >= s.view
  THEN s
  ELSE Push(Send([s EXCEPT !.last_view_cert_received = b.view],
                 {[type |-> "echo2", from |-> r, blk |-> b]}),
            [at |-> "view_qc", view |-> s.view, blk |-> b, vote |-> FALSE,
             proposer |-> r])

OnReceiveQC(s, r, b, found) ==
  IF b.view < s.view \/ s.last_view_cert_received >= s.view
  THEN s
  ELSE IF ~ found THEN Throw(s)
  ELSE Push(Send(UpdateHqc([s EXCEPT !.last_view_cert_received = b.view], b),
                 {[type |-> "echo2", from |-> r, blk |-> b]}),
            [at |-> "view_qc", view |-> s.view, blk |-> b, vote |-> FALSE,
             proposer |-> r])

OnReceiveCertEcho(s, r, idx, b, found) ==
  IF b.view < s.view \/ s.last_cert_decoded_view >= s.view
       \/ Cardinality(s.qc_chunks[b.view]) > NReconThres
  THEN s
  ELSE LET t == [s EXCEPT !.qc_chunks[b.view] = @ \cup {idx}]
       IN IF Cardinality(t.qc_chunks[b.view]) # NReconThres THEN t
          ELSE OnReceiveQC([t EXCEPT !.last_cert_decoded_view = s.view,
                                     !.qc_chunks[b.view] = {}], r, b, found)

\* Mutant: the second comparison the other way round.
OnReceiveBeaconOnce(s, v) ==
  IF v < s.view \/ s.last_view_beacon_received >= v
  THEN s
  ELSE TryEnterView([s EXCEPT !.last_view_beacon_received = s.view])

\* The guard asks for a beacon older than the last one, and then for one that
\* is not older than the view.
OnReceiveBeacon(s, v) ==
  IF v < s.view \/ s.last_view_beacon_received <= v
  THEN s
  ELSE TryEnterView([s EXCEPT !.last_view_beacon_received = s.view])

\* Mutant: the proposer counts on status messages alone.
AfterEnterViewTimerless(s, r) ==
  IF s.pm_proposer = r
  THEN OnReceiveStatus(s, r, r, s.view, s.hqc, TRUE)
  ELSE Send(s, {[type |-> "status", from |-> r, to |-> s.pm_proposer,
                 view |-> s.view, qc |-> s.hqc]})

\* The rest of on_enter_view: Status to the proposer the pacemaker names, and
\* schedule_propose when that is the replica itself.
AfterEnterView(s, r) ==
  IF s.pm_proposer = r
  THEN LET t == OnReceiveStatus(s, r, r, s.view, s.hqc, TRUE)
       IN IF t.halted THEN t ELSE [t EXCEPT !.propose_timer = TRUE]
  ELSE Send(s, {[type |-> "status", from |-> r, to |-> s.pm_proposer,
                 view |-> s.view, qc |-> s.hqc]})

-----------------------------------------------------------------------------
InitState ==
  [view |-> 1, pm_proposer |-> 0, last_proposed_view |-> 0,
   last_view_proposal_received |-> 0, last_view_cert_received |-> 0,
   last_view_shares_received |-> 0, last_view_beacon_received |-> 0,
   last_cert_decoded_view |-> 0, hqc |-> Genesis, hqc_tail |-> Genesis,
   vheight |-> 0, b_exec |-> Genesis, decided |-> {Genesis},
   proposals |-> {}, finished_propose |-> {},
   voted |-> [b \in Block |-> IF b = Genesis THEN Replica ELSE {}],
   acked |-> [b \in Block |-> {}],
   status_received |-> [v \in View |-> {}], view_shares |-> [v \in View |-> <<>>],
   qc_chunks |-> [v \in View |-> {}],
   propose_timer |-> FALSE, commands |-> {}, past_qc_gate |-> {}, handled |-> {},
   halted |-> FALSE, todo |-> <<>>, out |-> {}]

Init == st = [r \in Replica |-> InitState] /\ msgs = {}

\* What a handler sends leaves the replica with the step.  A message the
\* handler ignores changes nothing, and is no step.
Become(r, s) ==
  /\ s # st[r]
  /\ st' = [st EXCEPT ![r] = [s EXCEPT !.out = {}]]
  /\ msgs' = msgs \cup s.out

\* Whether the block is surely delivered: a message about it, or about a block
\* built on it, has been handled.  Another may be delivered or not: messages
\* that wait, and blocks that were fetched, deliver blocks too.
Delivered(s, b) ==
  \/ b \in {Genesis} \cup s.finished_propose
  \/ \E c \in s.finished_propose \cup {d \in Block : s.voted[d] \cup s.acked[d] # {}} :
       b \in Ancestors[c]

Runnable(r) == ~ st[r].halted /\ \A q \in Replica \ {r} : st[q].todo = <<>>

\* A message of view v is handled by an idle replica, or inside a function
\* that resolves one of the promises the message may have been waiting for.
Handles(r, promises, v) ==
  /\ Runnable(r)
  /\ v <= st[r].view
  /\ \/ st[r].todo = <<>>
     \/ /\ st[r].todo # <<>>
        /\ Head(st[r].todo).at \in promises /\ Head(st[r].todo).view = v

ReceiveProposal(r) ==
  \E m \in Sent("propose") :
    /\ m.from # r
    /\ Handles(r, {"enter_view"}, m.blk.view)
    /\ Become(r, OnReceiveProposal(st[r], r, m))

ReceiveVote(r) ==
  \E m \in Sent("vote") :
    /\ m.to = r
    /\ Handles(r, {"enter_view"}, m.view)
    /\ Become(r, OnReceiveVote(st[r], r, m.blk, m.from, m.view))

ReceiveAck(r) ==
  \E m \in Sent("ack") :
    /\ m.from # r
    /\ Handles(r, {"enter_view"}, m.view)
    /\ Become(r, OnReceiveAck(st[r], r, m.blk, m.from, m.view))

\* Neither status_handler nor echo2_handler waits for the block's delivery.
ReceiveStatus(r) ==
  \E m \in Sent("status") :
    /\ m.to = r
    /\ Handles(r, {"enter_view"}, m.view)
    /\ \E found \in {Delivered(st[r], m.qc), TRUE} :
         Become(r, OnReceiveStatus(st[r], r, m.from, m.view, m.qc, found))

\* qc_handler waits for the block alone, never for the view.
ReceiveQC(r) ==
  \E m \in Sent("qc") :
    /\ m.from # r
    /\ Runnable(r) /\ st[r].todo = <<>>
    /\ Become(r, OnReceiveQC(st[r], r, m.blk, TRUE))

\* Mutant: an echo does not wait for a proposal of its view.
ReceiveCertEchoAtOnce(r) ==
  \E m \in Sent("echo2") : \E idx \in {r, m.from} :
    /\ m.from # r
    /\ Handles(r, {"enter_view", "view_proposal"}, m.blk.view)
    /\ \E found \in {Delivered(st[r], m.blk), TRUE} :
         Become(r, OnReceiveCertEcho(st[r], r, idx, m.blk, found))

\* The sender of an echo unicasts chunk r to r and broadcasts its own chunk.
ReceiveCertEcho(r) ==
  \E m \in Sent("echo2") : \E idx \in {r, m.from} :
    /\ m.from # r
    /\ Handles(r, {"enter_view", "view_proposal"}, m.blk.view)
    /\ st[r].last_view_proposal_received >= m.blk.view
    /\ \E found \in {Delivered(st[r], m.blk), TRUE} :
         Become(r, OnReceiveCertEcho(st[r], r, idx, m.blk, found))

\* async_wait_view_qc compares last_view_cert_received with the current view,
\* not with the share's: a share of a later view that arrives once the current
\* view has its certificate will not wait for the certificate of its own view.
ShareArrivesEarly(r) ==
  \E m \in Sent("share") :
    /\ m.to = r
    /\ Runnable(r) /\ st[r].todo = <<>>
    /\ m.view > st[r].view /\ st[r].last_view_cert_received >= st[r].view
    /\ m \notin st[r].past_qc_gate
    /\ Become(r, [st[r] EXCEPT !.past_qc_gate = @ \cup {m}])

ReceiveShare(r) ==
  \E m \in Sent("share") :
    /\ m.to = r /\ m \notin st[r].handled
    /\ Handles(r, {"enter_view", "view_proposal", "view_qc"}, m.view)
    /\ st[r].last_view_proposal_received >= m.view
    /\ st[r].last_view_cert_received >= st[r].view \/ m \in st[r].past_qc_gate
    /\ Become(r, OnReceiveShare([st[r] EXCEPT !.handled = @ \cup {m}],
                                r, m.from, m.view))

ReceiveBeacon(r) ==
  \E m \in Sent("beacon") :
    /\ m.from # r
    /\ Handles(r, {"enter_view", "view_proposal", "view_qc"}, m.view)
    /\ st[r].last_view_proposal_received >= m.view
    /\ st[r].last_view_cert_received >= st[r].view
    /\ st' = [st EXCEPT ![r] = OnReceiveBeacon(@, m.view)]
    /\ UNCHANGED msgs

ProposeTimeout(r) ==
  /\ Runnable(r) /\ st[r].todo = <<>> /\ st[r].propose_timer
  /\ Become(r, DoPropose([st[r] EXCEPT !.propose_timer = FALSE], r))

\* The handler of the command queue restarts view 1, whatever the view is.
\* Bound: one at each place in Commands.
ClientCommand(r) ==
  /\ <<r, st[r].view>> \in Commands /\ st[r].view \notin st[r].commands
  /\ Runnable(r) /\ st[r].todo = <<>>
  /\ st[r].last_proposed_view < st[r].view
  /\ Become(r, EnterView([st[r] EXCEPT !.commands = @ \cup {st[r].view}], 1))

\* The function suspended last goes on.
Resumes(r, at) == Runnable(r) /\ st[r].todo # <<>> /\ Head(st[r].todo).at = at

Popped(s) == [s EXCEPT !.todo = Tail(@)]

ResumeEnterView(r) ==
  /\ Resumes(r, "enter_view")
  /\ Become(r, AfterEnterView(Popped(st[r]), r))

\* The rest of on_receive_proposal votes; on_propose has nothing left to do.
ResumeProposal(r) ==
  /\ Resumes(r, "view_proposal")
  /\ Become(r, IF Head(st[r].todo).vote
               THEN Vote(Popped(st[r]), r, Head(st[r].todo).blk,
                         Head(st[r].todo).proposer)
               ELSE Popped(st[r]))

\* The rest of on_receive_qc: _ack, and then _try_enter_view.
ResumeQC(r) ==
  /\ Resumes(r, "view_qc")
  /\ Become(r, Ack(Push(Popped(st[r]),
                        [Head(st[r].todo) EXCEPT !.at = "try_enter_view"]),
                   r, Head(st[r].todo).blk))

ResumeTryEnterView(r) ==
  /\ Resumes(r, "try_enter_view")
  /\ Become(r, TryEnterView(Popped(st[r])))

Step(r) ==
  \/ ReceiveProposal(r) \/ ReceiveVote(r) \/ ReceiveAck(r) \/ ReceiveStatus(r)
  \/ ReceiveQC(r) \/ ReceiveCertEcho(r) \/ ReceiveShare(r) \/ ReceiveBeacon(r)
  \/ ShareArrivesEarly(r) \/ ProposeTimeout(r) \/ ClientCommand(r)
  \/ ResumeEnterView(r) \/ ResumeProposal(r) \/ ResumeQC(r)
  \/ ResumeTryEnterView(r)

Next == \E r \in Replica : Step(r)

Spec == Init /\ [][Next]_vars

\* Every handler that can run runs: the event loop does not starve a message,
\* the network delivers it and timers fire.  Each step changes the state of a
\* replica for good, so a replica can be put off only finitely often, and weak
\* fairness of the whole is weak fairness of every handler.
FairSpec == Spec /\ WF_vars(Next)

-----------------------------------------------------------------------------
(* Properties.                                                             *)

\* The type invariant.
TypeOK == st \in [Replica -> ReplicaState] /\ msgs \subseteq Message

\* The chain has one block per view, on top of the block of the view before
\* and certifying it: on_propose and PMHighTail always extend the last view.
OneChain ==
  /\ \A m, n \in Sent("propose") : m.blk.view = n.blk.view => m = n
  /\ \A m \in Sent("propose") :
       /\ m.parent.view = m.blk.view - 1 /\ m.qc_ref = m.parent
       /\ m.blk.height = m.blk.view

\* Of the blocks of one height that others propose, a replica votes for one at
\* most: on_receive_proposal keeps them in one slot of proposals.
VotesDontConflict ==
  \A m, n \in Sent("vote") :
    m.from = n.from /\ m.blk.height = n.blk.height => m.blk = n.blk

\* The same of all votes, those a proposer gives its own block included
\* (consensus.cpp: "opinion = false if equivocating").
OneVotePerHeight ==
  \A m \in Sent("vote") : \A b \in Block :
    m.from \in st[m.from].voted[b] /\ b.height = m.blk.height => b = m.blk

\* All that replicas have committed (check_commit) is on one chain, and each
\* has committed the chain from its root, also when two replicas propose in
\* one view.
Agreement ==
  \A q \in Replica : \A c \in st[q].decided :
    LET chain == Ancestors[c]
    IN /\ chain \subseteq st[q].decided
       /\ \A r \in Replica :
            {b \in st[r].decided : b.height <= c.height} \subseteq chain

\* b_exec is the highest block committed (consensus.h: "last executed block").
LastExecuted ==
  \A r \in Replica : \A b \in st[r].decided : b.height <= st[r].b_exec.height

\* on_receive_share counts shares without their origin: reconstruct() must not
\* be given two of one replica.
SharesDistinct ==
  \A r \in Replica, v \in View :
    \A i, j \in DOMAIN st[r].view_shares[v] :
      i # j => st[r].view_shares[v][i] # st[r].view_shares[v][j]

\* No exception ("safety breached", "new block should be higher than vheight",
\* "Beacon Verification failed.", "block not delivered") leaves a handler.
NoException == \A r \in Replica : ~ st[r].halted

\* Some nmajority shares did not make a beacon.
Spoiled(s) ==
  \E v \in View : Len(s.view_shares[v]) = NMajority /\ ~ Reconstructs(s.view_shares[v])

\* Of the exceptions above only "Beacon Verification failed." can come: the
\* gates of the handlers see to it that a block is delivered before anything
\* looks it up, a proposal is above vheight, and commits do not part.
OnlySharesThrow == \A r \in Replica : st[r].halted => Spoiled(st[r])

\* A replica reveals its share of a view's beacon only after it has committed
\* the view's block (on_receive_ack: check_commit, then _broadcast_share).
ShareAfterCommit ==
  \A m \in Sent("share") : \E b \in st[m.from].decided : b.view = m.view

\* While every vote and every ack is needed (up to four replicas), replicas are
\* never more than one view apart.
Lockstep == \A r, q \in Replica : st[r].view <= st[q].view + 1

\* The pacemaker and HotStuffCore::get_proposer name the same proposer.
PacemakerAgrees ==
  \A r \in Replica : st[r].todo = <<>> => st[r].pm_proposer = GetProposer(st[r].view)

\* The beacon handler does nothing: its guard returns for every beacon.
BeaconsIgnored ==
  \A r \in Replica : \A m \in Sent("beacon") : OnReceiveBeacon(st[r], m.view) = st[r]

\* A replica leaves a view for the next one only, and with a proposal of the
\* view handled and the certificate of the view's block in hand.
LeavesCompleteView ==
  [][\A r \in Replica :
       st'[r].view # st[r].view =>
         /\ st'[r].view = st[r].view + 1
         /\ st[r].last_view_proposal_received = st[r].view
         /\ st'[r].hqc.view = st[r].view
         /\ st'[r].hqc \in st'[r].finished_propose]_vars

\* A replica that has recorded a certificate of a later view stays where it is
\* for ever: _try_enter_view asks for a certificate of the current view and
\* on_receive_qc no longer takes one.
StuckOnceAhead ==
  [][\A r \in Replica :
       st[r].last_view_cert_received > st[r].view =>
         /\ st'[r].view = st[r].view
         /\ st'[r].last_view_cert_received = st[r].last_view_cert_received]_vars

\* What the replicas promise together is in BeaconChain: the length of the chain
\* proposed, the views, and how much of the chain check_commit has decided.
Highest(S) == CHOOSE h \in S : \A k \in S : k <= h

Abstract == INSTANCE BeaconChain WITH
  height <- Highest({0} \cup {m.blk.height : m \in Sent("propose")}),
  at <- [r \in Replica |-> st[r].view],
  committed <- [r \in Replica |-> Highest({b.height : b \in st[r].decided})]

\* Every behaviour is one of BeaconChain: one block a view and on top of the
\* last, and a block committed, or its view left, only once nresponsive replicas
\* are in its view (on_propose, check_commit, _try_enter_view).
ChainSpec == Abstract!Spec

\* Every replica gets through every view.
Progress == \A r \in Replica : <>(st[r].view > MaxView)

=============================================================================
