# OptRand in TLA+

OptRand is a responsive random beacon built on a HotStuff-style chain.  `n`
replicas go through views 1, 2, 3, ...; in each view one replica proposes a
block, the others vote, the certificate is spread, replicas acknowledge it,
commit the block and then reveal their shares of the view's beacon.  A
majority of shares gives the beacon and opens the next view.

This directory models that code, checks the model with TLC and proves part of
it with TLAPS.  Paths below are relative to the repository.


## 1. Inventory

### Parts, state, operations

| Part | Code | State | Operations |
|---|---|---|---|
| Consensus core | `src/consensus.cpp`, `include/hotstuff/consensus.h` (`HotStuffCore`) | `view`, `hqc`, `b_exec`, `vheight`, `proposals`, `finished_propose`, the `last_*` views, per-block `voted` / `acked`, per-view `status_received`, `view_shares`, `qc_chunks`, `prop_chunks` | `on_propose`, `on_receive_*`, `check_commit`, `_ack`, `_broadcast_share`, `_try_enter_view`, `on_enter_view` |
| Handlers and gates | `src/hotstuff.cpp` (`HotStuffBase`) | promises a message waits on: block delivered, view entered, proposal received, certificate received; the propose timer | one handler per message; `do_status`, `schedule_propose`, `do_propose`, the command-queue handler |
| Pacemaker | `include/hotstuff/liveness.h` (`PaceMakerRR`) | `proposer`, `hqc_tail`, `rotating`, `locked`, pending beats | `rotate`, `enter_view`, `beat`, `get_parents` |
| Proposal dispersal | `_deliver_proposal`, `on_receive_proposal_echo`, `src/erasure.cpp` | `prop_chunks`, `last_propose_decoded_view` | encode, forward one's chunk, decode at `nreconthres` |
| Certificate dispersal | `_deliver_cert`, `on_receive_cert_echo` | `qc_chunks`, `last_cert_decoded_view` | as above, for certificates |
| Block fetching | `src/hotstuff.cpp`, `include/hotstuff/entity.h` | `blk_fetch_waiting`, `blk_delivery_waiting`, storage | `async_fetch_blk`, `async_deliver_blk`, `on_deliver_blk`, requests and answers, the timer of `FetchContext` |
| Beacon pipeline | `on_enter_view`, `on_receive_pvss_transcript`, `_update_agg_queue` | `view_transcripts`, `transcript_ids`, `agg_queue`, `view_agg_transcripts` | transcripts of view `v` feed a later proposer's aggregate |
| PVSS | `crypto2/` | keys | share, verify, decrypt, aggregate, reconstruct |
| Promise library | `include/hotstuff/promise.hpp` | callbacks | resolving runs the callbacks in the caller |
| Crypto, verification pool | `src/crypto.cpp`, `include/hotstuff/task.h` | worker threads | verify, answer on the event loop |
| Application, client, tools | `examples/`, `src/client.cpp`, `src/*keygen.cpp`, `scripts/` | sockets, files | start, send commands, write configuration |

The parts meet on one event loop per replica.  A network message becomes a
handler call, the handler waits for promises, and core functions resolve
those promises *in the middle of their own bodies*.  Replicas share nothing
but messages.

### What is hard

1. **Reentrancy.**  `on_receive_qc` resolves the view's certificate promise
   before it acks and before it looks at the view; `on_receive_proposal`
   resolves the proposal's promise before it votes; `on_enter_view` resolves
   the view's promise before it sends its status.  What had been waiting runs
   inside, may complete a quorum and may enter the next view.  The rest of
   the function then runs with another `view`.
2. **Messages of different views overtaking each other.**  All gates but one
   wait for the view; the certificate's does not.
3. **Counting.**  Votes and acks are sets per block, statuses sets per view,
   shares a list per view without origins.
4. **Actors nobody scheduled**: the propose timer racing the status quorum;
   a client command that arrives late and restarts view 1 at the pacemaker.
5. **A pipeline many views long** for the PVSS aggregates: dealt, aggregated,
   proposed, queued and opened in five different views, with nothing in the
   code that says why each is ready when the next one needs it.
6. **Two ways of delivering a block**, one of which knows nothing of the
   promises of the other.

### What makes each part correct

- Core: one chain, one commit order, no vote for two blocks of one height, no
  view left without its block and certificate, no honest exception but that of
  `beacon_throws`, every view gets finished.
- Gates: no message is handled before its time or lost after it.
- Pacemaker: it agrees with `HotStuffCore::get_proposer`; parents extend the
  certified chain.
- Dispersal: a certified proposal gets to every replica that runs.
- Fetching: a promise for a delivered block is resolved, blocks are linked
  parents first, nothing throws.
- Beacon pipeline: a proposer has its aggregate when its turn comes, if the
  replicas were started in time; all replicas use the same one in a view, and
  none is used twice.

`PROJECT.json` lists the parts with their status and the hazards with their
lines.


## 2. The modules

| Module | What it is |
|---|---|
| `Thresholds` | the four thresholds of `HotStuffCore::on_init` and the round-robin rule |
| `OptRandCore` | the core, its handlers with their gates, and what they read of the pacemaker |
| `MCOptRandCore` | for TLC: client commands, a state view, a reduction |
| `MCLaggard` | one late replica against the full history of the others, with or without a proposal made out of turn |
| `EchoDispersal` | the ways one view's proposal takes to each replica, with replicas that stop |
| `MCEchoDispersal` | for TLC: a state view, a reduction |
| `BeaconChain` | what the core promises: one chain, certified, committed and left behind view by view; implemented by `OptRandCore` (`ChainSpec`) |
| `BlockFetch` | how one replica gets hold of the blocks its messages name, from peers that may stop |
| `MCBlockFetch` | for TLC: three blocks, one made out of turn, and the messages about them |
| `BeaconPipeline` | the way of the PVSS transcripts to the aggregate a view opens |
| `MCBeaconPipeline` | for TLC: where commands come and who is in haste, a state view |
| `OptRandCoreProofs` | theorems about `OptRandCore` for every `NReplicas`, `MaxView`, `Commands`: types, guards, votes, certificates, how far apart the replicas are, the pacemaker |
| `ChainProofs` | the same, continued: the chain, while commands come in the first view only |
| `CommitProofs` | the same, continued: the invariant of what is committed, shared and left behind, function by function |
| `AgreementProofs` | the same, continued: agreement, votes, exceptions, how views are left, two replicas, and the refinement of `BeaconChain` |
| `EchoDispersalProofs` | theorems about `EchoDispersal` for every `NReplicas` and `MaxCrashes` |
| `BlockFetchProofs` | theorems about `BlockFetch` for any blocks, peers and messages |
| `BeaconPipelineProofs` | theorems about `BeaconPipeline` for every `NReplicas` from three on: what is opened in a view |
| `AggregateProofs` | the same: the aggregate is there in time, and of different dealers; types |

The modules share `Thresholds`.  They are views of one program that meet at
stated points: `OptRandCore` takes from `BlockFetch` that a named block gets
delivered, from `EchoDispersal` that a proposal sent can arrive, and from
`BeaconPipeline` that the aggregate of a view verifies everywhere; those take
from `OptRandCore` that a view is left only with its proposal and certificate
(`LeavesCompleteView`).

### How OptRandCore corresponds to the code

*State.*  `st[r]` is a record with one field per variable of `HotStuffCore`
that the modelled functions read, plus the proposer and `hqc_tail` of the
pacemaker and the armed propose timer.  Field names are the code's.  The slot
`proposals[height]` is the set of blocks of that height in `proposals`.
`Block.decision`, `voted` and `acked` are fields of the replica, since each
process has its own `Block` objects.

*Blocks.*  A block's hash covers its parent, certificate, commands and
aggregate, and not who proposes it.  Up to view 2n every replica has the
aggregate of a view from the set-up file and `do_propose` passes no commands,
so two replicas that propose in one view on one parent make one and the same
block.  A block is the pair of its view and its height.  In later views the
proposers may have different aggregates, so that `BoundsAssumption` allows them
only when commands come in view 1 alone, and one replica proposes in a view.  Only replica 0 can
propose out of turn (the command handler restarts view 1), once for each
command, and all instances have at most one such proposal: then two blocks of a
view that differ have different heights, as the second proposer builds on the
first one's block or makes the same.  Parent and certificate are in the
proposal that was sent.

*Functions.*  Each function of the core is an operator from a replica's state
to its state (`OnReceiveVote`, `CheckCommit`, ...), with the code's guards in
the code's order.  A handler in `hotstuff.cpp` is an action (`ReceiveVote`)
whose conjuncts are the promises it waits for.

*Reentrancy.*  A function that resolves a promise on which handlers wait pushes
a frame on `todo` (`EnterView`, `OnReceiveProposal`, `OnPropose`,
`OnReceiveQC`).  While a replica has frames only two things happen: a message
of the frame's view that may have been waiting for that promise is handled, or
the function goes on (`ResumeEnterView`, `ResumeProposal`, `ResumeQC`,
`ResumeTryEnterView`).  No other replica moves in between, so what runs inside
the function had arrived before.  A handler that was waiting may just as well
not have arrived, hence the choice.

*Messages.*  `msgs` only grows: any message can be late, lost (never handled),
reordered or handled twice.  A repeated message must be harmless by the code's
own checks; only `on_receive_share` has none, and the network does not repeat
messages, so `handled` lets a share through once.  A delivery that changes
nothing is no step.  What a function sends leaves when its step ends; the code
may send a little later, after the handlers it let run, and that makes no
difference because nobody else moves meanwhile and receivers may be slow
anyway.

*Exceptions.*  `Throw` halts the replica for good: none of the handlers catches
one.  The model has those that depend on what has happened before: the
proposer's own block not above `vheight` (`consensus.cpp:200`), a commit that
does not extend `b_exec` (`:129`), shares that make no beacon (`:482`), and
`get_delivered_blk` (`:81`) for the block of a status message (`:329`) or of a
certificate (`:353`).  `status_handler` and `echo2_handler` do not wait for that
block.  `Delivered` says when it is surely there; otherwise the model takes both
ways, since a block may also have been delivered for a message that still waits.
Of the others, two calls of `get_delivered_blk` (`:289`, `:370`) come after the
delivery of their block in the same handler; `on_deliver_blk` (`:93`, `:100`) is
`NoThrow` of `BlockFetch`; `:413` is in a handler that always returns before
(`BeaconsIgnored`); `:473` compares what is opened in a view (`SameAggregate`);
`:75` and `:170` ask for a delivered block, and for a parent, of a
proposal whose parents the pacemaker has just given; `:57`, `:694` and `:703` are
about the set-up file and the algebra of transcripts.

*Commands* are the replicas-and-views at which a client command may reach a
replica, each once.

### Abstractions

- A block is delivered when a message about it is handled.  `BlockFetch` shows
  when that is so, and the exception (`promise_lost`): a message whose handler
  is forgotten there is one that is never handled here.
- A proposal sent may arrive at any time by any way, directly or in chunks.
  What that takes is the subject of `EchoDispersal`.  Certificates' chunks are
  modelled.
- Signatures verify.  PVSS shares verify, aggregates agree, and reconstruction
  succeeds exactly when the points it interpolates are distinct
  (`crypto2/include/crypto2/pvss/pvss.hpp`, `reconstruct`).  Which aggregate is
  opened is the subject of `BeaconPipeline`.
- All replicas follow the code.  A faulty one is a replica whose messages are
  never handled, or that stops.
- `PMHighTail` scans all tails that follow a new `hqc`; the model takes the
  certified block itself when it is higher than the tail, which is what the
  scan finds as long as there is one chain (`OneChain`).  With two proposals in
  one view the scan may also find the second block when it has been delivered
  and is still being verified; the model has the replica handle it first.
- `PMRoundRobinProposer::beat` resolves at once whenever the command handler
  gets as far as `on_enter_view`: `locked` is cleared and `last_proposed` reset
  on each view entry, and a replica that has proposed in the view does not get
  that far.  `pending_beats` never holds a beat from one event to the next.
- Replicas do not restart: the code keeps its protocol state in memory only
  (`TODO.rst`: "Persistent protocol state").

### How EchoDispersal corresponds to the code

One view, entered by all.  For each replica the model keeps whether it runs,
whether it has handled the proposal (`finished_propose`), whether
`last_propose_delivered_view` and `last_propose_decoded_view` have reached the
view, `prop_chunks` of the view, and whether it has gone on to a later view
(`left`).  `voted` is the proposer's.  `ReceiveProposal` and `ReceiveEcho` are
`propose_handler` and `on_receive_proposal_echo`, and both end in
`OnReceiveProposal`; `DeliverProposal` is what `_deliver_proposal` sends.  The
proposer itself sends whole proposals only (`on_propose` does not call
`_deliver_proposal`).

A message leaves `net` when it is handled, since a connection delivers it once.
`Crash` stops a replica and loses any part of what it has sent: a handler that
is stopped half-way is one that finished and whose last messages were lost.
Nothing is sent again by anybody: the code has no retry here, and a replica that
stops keeps nothing.

Whether a replica votes is left open (it depends on what else it knows), and
so is when the others' certificate and shares take it to the next view, after
the view's certificate and with the proposal handled (the gates of
`share_handler`).  That can happen inside `on_receive_proposal`, in which case
its vote counts no more and the proposal may not be forwarded
(`consensus.cpp:281` compares with the view the replica is then in).

Not in it: a second proposal in the view (by a client command), whose chunks
`prop_chunks` would mix with the first one's.

### How BeaconChain relates to OptRandCore

`BeaconChain` has a chain of numbered blocks, each replica's view and the
number of blocks it has committed.  The mapping in `OptRandCore` takes `height`
to the highest view proposed in, `at` to `view` and `committed` to the highest
block of which the replica's `decision` is set.  `ChainSpec` is stated for all
behaviours of `OptRandCore` and checked in the runs in which nobody proposes
out of turn.  An `on_propose` is an `Extend`; a handler that completes an ack
quorum or the beacon is a `CommitAdvance`, and both may happen in one handler;
everything else stutters.

### How BlockFetch corresponds to the code

One replica; the peers are there only to answer or to stop.  Blocks are
numbers, `Parent` and `QcRef` give what they refer to, and any function will do
that makes blocks refer to lower ones.  `fetched` and `delivered` are the
storage, `fetch_waiting` and `delivery_waiting` the keys of the two maps of
promises, `replica_ids` the peers of a `FetchContext`.  What the lambdas in
`async_deliver_blk` hold is `continuing` (a call that is going on), `source`
(the peer it captured) and `awaits` (the promises it still waits for).

`calls` are the calls of `async_deliver_blk` that the running handler has still
to make.  Resolving a promise runs what waits for it at once, so
`AsyncDeliver` and `OnDeliver` come before any new event (`Idle`); in which
order they run does not matter to what is left in the end, and the model allows
any.  `Decode` is the end of `on_receive_proposal_echo`: it delivers the block
with `HotStuffCore::on_deliver_blk` and touches none of the maps.

### How BeaconPipeline corresponds to the code

A view is kept to what this pipeline depends on.  An aggregate is the number of
the view it is made for, a transcript its dealer; `Missing` is the
default-constructed aggregate that `view_agg_transcripts[view]` gives when none
has been made, which no receiver accepts.  `transcript_ids` is one table, since
only the proposer of a view collects transcripts for it.

`Propose` and `ReceiveProposal` are the parts of `on_propose` and
`on_receive_proposal` that read and write aggregates.  `LeaveView` is
`_try_enter_view` with all it calls: the aggregate opened in the view,
`_update_agg_queue`, and the transcript that `on_enter_view` deals.

*Commands.*  A replica deals its transcript of view 1 when its first client
command comes (`hotstuff.cpp:719-733`), and the views do not wait for that: they
begin as soon as replica 0 has had a command or the statuses of `nmajority`
others (`Started`).  A replica's command may come in any view, never, or more
than once, and each one makes it deal for view 1 again (`Command`).  The rest of
what a command does, `enter_view(1)` at the pacemaker, changes who proposes when
it comes to replica 0 or to the view's proposer in a view of another proposer:
`PipelineAssumption` leaves these commands to `OptRandCore` (and with them the
second proposal of a view, which overwrites `view_agg_transcripts[view]`).

*What has been heard.*  `Hear` stands for an ack or a share of the view coming
in that its sender sent after it had dealt.  A connection is FIFO, so that
whoever has been heard in a view has had its earlier transcripts handled; this is
TCP's promise and the one thing this module assumes and `OptRandCore` does not.
As a rule a replica has heard `nmajority` others when it leaves a view: a beacon
takes `nmajority` shares, and if one of them is the own, that is sent on
`nresponsive` acks of which all but the own are others' (`HeardEnough`).  There
are two exceptions.  The own share may be set off by the late ack quorum of
an older block, as in `beacon_throws`; and an ack or a share may be sent
inside `on_enter_view`, by what had waited for the view, before the transcript of
that view is dealt.  A replica that leaves a view on such shares is in haste
there: `Hasty` says who may be, in which views.

*A missing aggregate.*  Aggregation starts when a *received* transcript makes the
count `nmajority` (`consensus.cpp:700`); a replica's own one is added without a
look at the count (`:912`).  So the own one must come last, and it does when
enough of the others have dealt in time.  Take three replicas, and let the first
command of replica 2 come after replica 0 has entered view 3.  Then
`transcript_ids[7]` is replica 1's and replica 0's own, the transcript that comes
from replica 2 is one too many, no aggregate is made, and replica 0 proposes
`Missing` in view 7, which nobody accepts: the system stops there.  The same
happens to a proposer that was in haste just before it dealt to itself.
`AggregateInTime` says that these are the only ways, and the run reaches them.
The first dealing is the one that matters, because only view 1's transcript
depends on a command; a command in one of the views up to `n - 2` is early enough.
With two replicas no aggregate beyond the set-up's is ever made, since the own
transcript completes the count (`PipelineAssumption` excludes it: then the
proposer of view 5 sends an aggregate that its peer refuses, and the system
stops).

Not in it: replicas that were left behind for good (`StuckOnceAhead`), and
proposals out of turn.

### Bounds

`MaxCrashes` (how many replicas stop, at most `nfaulty`), `MaxView` (nobody
proposes in a later view; in `OptRandCore` at most 2n if commands come in later
views than the first, see *Blocks*),
`MaxHeight` (`MaxView` and one, never reached by a guard in these instances),
`Commands` (see above), `Message` and `Chunked` (which messages about which blocks
arrive, which of the blocks may come in chunks), and in `BeaconPipeline`
`Commands` (in which view of a replica a command may reach it) and `Hasty` (in
which of its views a replica may be in haste).


## 3. What the runs check

| Run | Instance | States | Shows |
|---|---|---|---|
| `two_replicas` | n = 2, 3 views, a command at either replica | 135 000 | every interleaving, no reduction: one chain, `b_exec` right, no share twice or before its commit, the right proposer, `LeavesCompleteView`, and the refinement of `BeaconChain` |
| `three_two_views` | n = 3, 2 views, reduced | 245 000 | one chain, lockstep, beacons ignored, view entry, and the refinement |
| `late_command` | n = 2, 3 views, a command at replica 0 in views 1 and 2 | 260 000 | commits stay on one chain when two replicas propose in one view, the same block or two, and when the next view's block forks from the second |
| `laggard` | n = 5, 3 views, one replica moves | 427 000 | a certificate from the future pins a replica to its view; no two votes for blocks of one height, and no look-up of a block throws, whichever messages come first |
| `live_two` | n = 2, 2 views, fair | 2 300 | every replica gets through every view |
| `dispersal` | n = 5, two stop | 280 000 | a certified proposal can be decoded wherever it has not been handled |
| `dispersal_live` | n = 4, one stops, fair, reduced | 70 000 | what one running replica has forwarded is handled by all |
| `block_fetch` | 3 blocks, 4 messages, 2 peers, one stops, fair | 56 000 | delivery never throws; every handler gets its block, but for the exceptions stated |
| `beacon_pipeline` | n = 3, 13 views, commands early, late or never, one view left in haste | 532 000 | the aggregate is there in time but for the exceptions stated, the same for all, of different dealers, and opened once unless it is of the set-up |
| `beacon_throws` | n = 3, 2 views | - | violated: `NoException` |
| `own_block` | n = 2, 3 views, a command at replica 0 in views 1 and 2 | - | violated: `OneVotePerHeight` |
| `promise_lost` | as `block_fetch` | - | violated: `NoHandlerForgotten` |

*Why these bounds.*  Two replicas are enough for everything between two actors
and small enough for three views, so that a view is preceded and followed by
another.  Three is the smallest number at which a quorum of statuses or shares
(2) differs from one of votes and acks (3), and at which a message from a third
replica can be held back while two go on.  At n = 5 the responsive quorum (4)
no longer needs everybody, which is what it takes to leave a replica behind.
All the interactions between views in the code are between a view and the next
one (`view + 1`), or between a view and any later one (the certificate); two
views show both.

For the dispersal, five is the smallest number of replicas at which a proposal
can be certified without one of them (4 votes) and the proposer and another one
stop (`nfaulty` is 2); four is the smallest at which one chunk does not do
(`nreconthres` is 2).

For the fetching, three blocks are a chain with something between its ends, and
the certificate of the third is not for its parent, so that the two ways of
needing a block differ.  The messages name the first block before its proposal
comes, and bring the second and third with their ancestors missing; the two
peers ask for one fetch with a second source and one that may stop.  With three
replicas the set-up's aggregates are proposed up to view 6 and opened up to view
9; thirteen views go on for two turns of proposing aggregates that the replicas
made, and one of opening them.  Replica 2's first command comes in view 1, in
view 2, which is too late for the aggregate of view 7, or never, and it may have a
second one; replica 1 may be in haste before it deals to itself for view 8.

*The reductions.*  `QuietFirst` takes steps first that change only an idle
replica's own counters, send nothing, wake nobody and cannot be disturbed by
any other step: a vote or a status that does not complete a quorum, a chunk
after the certificate, a timer of a view already proposed in.  Any behaviour
can be reordered into such a one by moving these steps forward; the states it
visits then differ only in counters no invariant of those runs reads.  An ack
is not quiet, because an ack postponed until the view has changed does
something else.  `LiveView` forgets the per-view tables of past views, which every handler
returns before reading.  In `MCEchoDispersal`, `View` forgets the chunks of a
replica that has handled the proposal and the messages that can change nothing
any more; `UselessFirst` has these handled before anything else.
`Unordered`, in `MCBeaconPipeline`, forgets in which order the transcripts of an
aggregate came: only their number decides what happens next, and the properties
read which dealers are among the first `nmajority`.

*Fairness.*  `FairSpec` asks that some step is taken whenever one is possible.
The event loop runs until nothing is left to do, TCP connections deliver what
was sent, and a timer that is armed fires.  Each step of the model changes some
replica for good (messages handled, counters, views), so behaviours are finite
and this weak fairness of the whole gives each handler its turn.  In `EchoDispersal`
every running replica handles what has reached it, for the same reasons; nobody
has to stop or to leave the view.

In `BlockFetch` calls that have begun end, the pool of threads answers, running
peers answer, connections deliver and an armed timer fires again and again,
strong fairness for the timer because other events come between; whether a
message or the chunks arrive is left open.

*Deadlock* is not checked: after the last view the system stops, and a replica
that has thrown stops too.

### The properties

- `OneChain`: one proposal per view, its parent of the view before and
  certified by its own `qc_ref`.  Needs the timer / status race, the late
  proposals and the pacemaker's tail to go right.
- `VotesDontConflict`, `Agreement`: what is left of safety when a client
  command makes two replicas propose in one view.  `late_command` reaches two
  proposals of one block in a view, two blocks in a view, and the block of the
  next view forking from the second of them.
- `LastExecuted`: `b_exec` is the highest committed block.  Holds with two
  replicas, where all acks are needed and come in the view they are for.
- `SharesDistinct`: no two shares of one origin in one view.  Holds with two
  replicas, where a single share makes the beacon.
- `ShareAfterCommit`: the share of a view's beacon only after the view's block
  has been committed there.  Holds with two replicas.
- `NoException`: no exception from honest replicas.  Refuted with three.
- `OnlySharesThrow`: when a replica has thrown, `nmajority` shares did not make a
  beacon: no handler throws for another reason.  Needs the gates of four
  handlers: whoever has a message for its view has handled what the message
  names, although nothing waits for that.
- `Lockstep`: up to four replicas stay within one view of each other.
- `PacemakerAgrees`: two copies of the proposer rule agree between handlers,
  while commands come in view 1 only.
- `BeaconsIgnored`, `StuckOnceAhead`: consequences of two guards (below).
- `LeavesCompleteView`: a view is left for the next one only, with its proposal
  handled and its certified block as `hqc`.
- `Progress`: every replica finishes every view.
- `Retrievable`, `Totality`: a running replica that has not handled a certified
  proposal has, or has on the way, enough chunks to decode it; and while
  `nreconthres - 1` replicas that forwarded it run, it does handle it.
- `ChainSpec`: the core does nothing that `BeaconChain` does not allow.  A block
  is committed, and a view left, only when `nresponsive` replicas have reached
  the view with the block proposed; commits are not taken back; views are
  entered one by one.
- `NoThrow`: whenever `on_deliver_blk` runs, parents are delivered and the
  block of the certificate is in the storage.
- `ForgottenOnlyByDecode`, `GateOpens`: which handlers wait for nothing, and
  that all others get their block, from a second peer if the first has stopped.
- `AggregateInTime`: the equality at which aggregation starts is met by a
  received transcript, and before the proposer's turn, unless the one replica
  that deals for that turn in view 1 had its first command late (`StartedLate`) or
  the proposer was in haste before it dealt to itself (`LeftInHaste`).
- `SameAggregate`: decryption, verification and reconstruction of a view's
  beacon use one aggregate at all replicas.
- `DistinctDealers`: the dealers of an aggregate differ, unless a second command
  made one deal twice (`transcript_ids` is a list and nobody looks).
- `RepeatsSetupOnce`: the first `n` aggregates of the set-up are opened in
  views `v` and `v + n`, the beacon of the second being known by then; all
  others are opened once.
- `DecodesInTime`: the count of chunks meets the equality at which decoding
  starts.

`LastExecuted`, `SharesDistinct` and `ShareAfterCommit` show that the two-replica
system is in order, and nothing of the hazards in what is said under
`beacon_throws`: a quorum that completes after its view does not occur with two
replicas.

Without a certificate, one forwarding replica is enough only while
`nreconthres` is 2, that is up to n = 7: at n = 8 a receiver would have the
forwarder's chunk and its own, and needs three.  `Totality` says so with its
`nreconthres - 1`.

### Disagreements found

1. `beacon_throws`.  A proposer acks its block twice: when its vote quorum is
   complete (`consensus.cpp:317`) and when its own certificate comes back to it
   from another replica's echo (`consensus.cpp:362`).  When shares wait for the
   certificate, the second ack is made after the view has advanced inside
   `on_receive_qc_` and is signed with the next view.  A replica that has
   entered the next view without the proposer's first ack counts it there, its
   old quorum completes, and `_broadcast_share(view)` runs a first time in the
   new view.  The quorum of the new view's block makes it run again.  Two of
   the shares counted are then of one origin, the reconstruction is wrong and
   `on_receive_share` throws.
2. `own_block`.  `on_receive_proposal` votes for one block per height, by the
   slot of the height; `on_propose` votes for its own block without using the
   slot.  Replica 0, made to propose in view 2, and the proposer of view 2 build
   one block on top of the other.  The certificate of the lower one ends the
   view, the next proposer extends that one, and the proposer of view 2 votes
   for a second block of the height of its own.  `Agreement` survives: the view
   ended without the higher block.
3. `promise_lost`.  `HotStuffBase::on_deliver_blk` returns for a block that is
   delivered (`hotstuff.cpp:163`) before it looks who waits for it.  The decoder
   of echoes delivers its block through `HotStuffCore` only
   (`consensus.cpp:626`).  When the block is at that time on its way through
   `async_deliver_blk`, because a vote, an ack or the proposal itself named it
   first, the handlers of those messages are never called, and
   `blk_delivery_waiting` keeps the block's entry for ever.  Blocks above it are
   not held up: their delivery asks for the parent's promise only when the
   parent is not delivered, but one that asked before waits with it.

Related, seen while modelling and not separate runs:
in the situation of 1, `check_commit` of the old block can run after that of
the new one, and ends with `b_exec = blk`, so that with three replicas `b_exec`
goes back to an ancestor (`LastExecuted` is claimed for two only);
the command handler calls `enter_view(1)` in any view, so that after a command
in view 2 the pacemaker names replica 0 (`PacemakerAgrees` is claimed with
commands in view 1 only);
with five replicas 1 happens to a laggard even when each sender's messages
stay in order, because its own `_ack` comes after the nested handlers; with
three replicas the early share of 1 is also a share of a view whose block is not
yet committed (so `ShareAfterCommit` is claimed for two replicas only); a vote
and an ack may be signed with a later view than their block's; two replicas
that propose the same block in a view split its votes, and the view never ends.

Two more, that the models show and no document of the repository speaks of.  A
first command that comes late leaves a proposer without its aggregate (*A missing
aggregate*, section 2).  And where a late command made replica 0 propose out of
turn and the view's proposer built on its block, a replica that has handled the
first block only may decode the certificate of the second and throw in
`get_delivered_blk` (`consensus.cpp:353`); that takes five replicas, since up to
four a certificate needs every vote.  In `OptRandCore` it is a behaviour, and no run
starts from it: `OnlySharesThrow` is checked with a proposal out of turn that is
built on the view's own.

Two guards make parts of the code inert.  `on_receive_beacon` (`:402`) returns
for every beacon (`BeaconsIgnored`): a replica cannot skip gathering shares.
`on_receive_qc` (`:350`) accepts a certificate of a later view, refuses the
current view's afterwards, and `_try_enter_view` asks for equality
(`StuckOnceAhead`): such a replica never moves again.


## 4. What is proved

`OptRandCoreProofs`, from `NReplicasAssumption` (at least two replicas) and
`BoundsAssumption` only:

- `TypeCorrect`: `Spec => []TypeOK`.
- `AheadStaysStuck`: `Spec => StuckOnceAhead`.
- `BeaconsNeverCount`: `Spec => []BeaconsIgnored`.
- `VotesNeverConflict`: `Spec => []VotesDontConflict`.

The argument.  Since each function of the code is an operator, there is one
lemma per function, `...Leads`: from a well-typed state `s` it leads to a
well-typed state `t` with `Keeps(s, t)` (and `Silent(s, t)`, see below).  `Keeps` is transitive and reflexive
and has two parts: a recorded certificate of a later view pins `view` and
itself; and if no beacon is recorded ahead of the view in `s` then neither in
`t`.  `StepResults` has one case per action and cites the lemmas of the functions
it calls.  `TypeOK` is inductive by itself, once the type of
`last_view_cert_received` is `0 .. MaxView` (the views that can have a block):
that is what shows `view + 1` to be a view in `_try_enter_view`.
`StuckOnceAhead` is then the first part of `Keeps`.  `BeaconsIgnored` is not
inductive: it needs `BeaconsReached` (no beacon recorded ahead of the view),
which the second part of `Keeps` preserves.

`VotesDontConflict` needs an invariant that sees a vote between the moment
`on_receive_proposal` decides on it and the moment it is sent, when other
handlers run: `OneOpinion(r)` says that the blocks `r` has voted for or is
suspended before voting for are all in `proposals`, with no two of one height.
Most functions are `Silent`: they leave `proposals` alone, suspend no vote and
send none.  The two that are not have lemmas of their own (`VoteMoves`,
`OnReceiveProposalMoves`), and a step has one of two results: it `Speaks` (votes
only for blocks it was about to vote for) or `Hears` (puts a proposed block of a
view it has reached in its slot and decides for it only if the slot was empty).
Both keep `OneOpinion`.

The second half of `OptRandCoreProofs`, from the same assumptions and the one
named:

- `CertificatesAgree`, from three replicas on: `Spec => []OneCertificate`, no two
  blocks of one height are certified, even when a late command makes two
  replicas propose in a view.
- `NobodyRunsAhead`: `Spec => []QuorumKeepsUp`, each replica has `nresponsive`
  that are in its view, in the one before, or later.
- `FourGoTogether`, up to four replicas: `Spec => []Lockstep`.
- `PacemakerFollows`, with commands in the first view only:
  `Spec => []PacemakerAgrees`.

The invariant `CertInv` says what the counts stand for.  `Counted`: behind each
vote counted is a vote message, or it is the replica's own.  `Quorate`: behind a
certificate sent is a quorum of counted votes.  `Backing`: behind each view left
is a certificate of it, and behind `last_view_cert_received` one of that view;
echoes, which replicas send in a later view than they count them, are of
certified views.  `Timely`: nobody votes in advance.  So the voters of the view
before are near whoever has left it.  Two quorums of `(3n div 4) + 1` replicas
have three in common from n = 3 on, so one that proposed neither of two certified
blocks: its votes for both were messages, and `VotesNeverConflict` applies.  The
proposers themselves do not help, as `own_block` shows, and with two replicas the
theorem is false: after a late command there are behaviours with certificates
for blocks of view 2 and of view 3, both of height 3.

`ChainProofs`, which extends it, with commands in the first view only
(`CommandsInTime`, the normal use: one command to each replica to start it):

- `OneBlockPerView`: `Spec => []OneChain`.

`Sound` says that the certificates, the tail and the votes of a replica are for
proposed blocks, and that its highest certificate is no older than the view
before its own, since `on_receive_qc` raises `hqc` before a view is left.  So what a
proposer of view `v` builds on is not too old.  It is not too new either: whoever
proposes in a view `w > v` has left `v`, hence there is a certificate of view
`v` (`Backing`), hence a proposal, which only the proposer of `v` makes, who has
not yet (`NewProposalIsRegular`).  Blocks of earlier views have their view as
height, so that the tail, which is no lower than the certified block, is that
block.

`CommitProofs` and `AgreementProofs`, which extend that one, under the same
`CommandsInTime`.  For every number of replicas and of views:

- `CommitsAgree`: `Spec => []Agreement`.
- `VotesAreUnique`: `Spec => []OneVotePerHeight`, so that it takes a late
  command to get the behaviour of `own_block`.
- `SharesAloneThrow`: `Spec => []OnlySharesThrow`: of the places that throw in
  the model (*Exceptions*, section 2), `on_propose`, `check_commit`,
  `on_receive_status` and `on_receive_qc` never do, and `on_receive_share` only as in
  `beacon_throws`: it takes two shares of one replica
  (`DifferentSharesReconstruct`).
- `ViewsAreLeftComplete`: `Spec => LeavesCompleteView`.
- `ImplementsBeaconChain`: `Spec => ChainSpec`.

For two replicas:

- `PairSharesDiffer`, `PairExecutesLast`, `PairSharesAfterCommit`,
  `PairNeverThrows`: `SharesDistinct`, `LastExecuted`, `ShareAfterCommit` and
  `NoException` are invariants.  They are false for three replicas (section 3).

*How many views.*  `BoundsAssumption` lets `MaxView` be any positive number when
`CommandsInTime` holds, which all theorems of these two modules and `OneBlockPerView`
and `PacemakerFollows` assume; the others of `OptRandCoreProofs` go up to view 2n
when commands come late.  Beyond 2n the core takes it that proposals carry an
aggregate their receivers accept.  The code's behaviours in which one does not are
among the model's all the same, since a proposal need not be handled; there the
system stops.  With two replicas that is what the code always does in view 5: the
theorems about two say that for every `MaxView` the model keeps these properties,
and of the code that it keeps them as far as it gets.

*Ancestors.*  `Agreement` and the commit loop are about `Ancestors`, a recursive
function over the blocks.  `ChainIsLinear` gives it a closed form: while there is one
chain, the ancestors of a proposed block are the proposed blocks of its view and
below.  The function's equation holds, as there is a function that satisfies it
(built from that closed form), and the closed form follows from the equation by a
least counterexample: a non-empty set of numbers has a least one (`NatMin`), since
the natural numbers are well founded.  This is the one induction over data in the
project, and it needs no induction theorem because it is about one fixed set.

*The invariant.*  `CommitInv` has, for each replica:
`Settled`, what is decided or about to be acked is of a view that `nresponsive`
replicas have reached (`Ready`), decided blocks have all their ancestors decided,
and `b_exec` is one of them; so `check_commit`, which walks down to `b_exec`,
finds it, whether the block is above or below.  `Timed`, shares of a view are taken
in the view and those of others only once its proposal is there, and the view is
not marked as having its beacon without `nmajority` of them.  `Low`, the highest
certificate is of no later view than the replica's, unless it is stuck.  `Placed`, a
replica has handled the proposal of each view it has left, and `vheight` is the
height of a proposed block.  The last follows from `Timed`: one of the `nmajority` shares that open the next
view is another replica's.  With three replicas or more that is because
`reconstruct` fails on two equal shares; with two it interpolates `nfaulty + 1 = 1`
point and would not notice, so the argument needs that no share is counted twice,
which is `PairInv`.

*Delivered blocks.*  A status goes to the proposer of its view, and is read only
before that one has proposed; nobody has proposed in this view or a later one then
(`ProposerIsFirst`), so that the certificate is of an earlier view, which the
receiver has left with the proposal handled (`Placed`; `StatusIsFound`).  A decoded
certificate is of the view whose proposal the gate has waited for, and there is one
(`EchoIsFound`, `OneBlockPerView`).

*Two replicas.*  Each needs the other's vote, ack and share.  `PairInv` says that a
block has its acks exactly when the replica's own share of its view is there
(`Matched`; `on_receive_ack` commits and shares at once), that this is so for all
blocks of the views it has left (`Half`), and that a share counted from the other
replica is a message handled.  Hence a late ack never makes a quorum a second
time.  With three replicas the ack quorum of a view need not be complete when the
view is left, and the late ack is what `beacon_throws` is about.

*The refinement.*  A step that sends a proposal is an `Extend`: what it proposes
is one above the highest block, because that one is of the view before and everybody
else's views are below (`ProposingExtends`).  Every other step, with anything it
commits and the view it leaves, is a `CommitAdvance` or a stutter
(`OthersAdvance`).  The mapping's `Highest` is a `CHOOSE`; it is what it says
because the sets are not empty and bounded.

With commands in later views the theorems that allow them (`VotesNeverConflict`,
`CertificatesAgree`, ...) hold of the model's blocks, which
are told apart by view and height (see *How OptRandCore corresponds to the
code*).

`EchoDispersalProofs`, from `NReplicasAssumption` and `DispersalAssumption`:

- `CertifiedIsRetrievable`: `Spec => []Retrievable`.
- `CountNeverPasses`: `Spec => []DecodesInTime`.
- `TypeCorrect`: `Spec => []TypeOK`.

The inductive invariant `IInv` has `Forwarded` (what a running replica has
forwarded is kept or on its way, chunk by chunk and sender by sender: a chunk
that came from two senders may lose one of them), `Counted` (whoever's vote
counts or is on its way has forwarded, or is the proposer), `Recorded`, `Few`
(at most `MaxCrashes` have stopped) and `DecodesInTime`, without which a chunk
could be dropped.  Then of the `nresponsive` voters at most `nfaulty` have
stopped and one is the proposer; each other one accounts for a chunk of its own
number, the receiver for one of its own, and
`nresponsive - nfaulty >= nreconthres` whatever the number of replicas
(`QuorumArithmetic`).

`BlockFetchProofs`, from `ChainAssumption` and `MessageAssumption`:

- `DeliveryNeverThrows`: `Spec => []NoThrow`.
- `OnlyDecodeForgets`: `Spec => []ForgottenOnlyByDecode`.
- `TypeCorrect`: `Spec => []TypeOK`.

The inductive invariant says of each call of `async_deliver_blk` that is going
on what it does not wait for any more: its block and its `qc_ref` are then
fetched and its parent delivered (`Ready`); and of each handler that waits, that
a call is pending or going on for its block, or the block was decoded
(`Accounted`, with `BehindBack` and `PassedOn` for what has been delivered).

`BeaconPipelineProofs`, from `NReplicasAssumption` and `PipelineAssumption`:

- `AllOpenOne`: `Spec => []SameAggregate`.
- `SetupOpenedTwice`: `Spec => []RepeatsSetupOnce`.

What is opened in view `v` is a function of `v` (`Source`): the aggregate of view
`v - n`, or of view `v` itself while that is one of the first `n`.  `PipelineInv`
says what makes it so.  `Made`: an aggregate is stored under its view.
`Kept`, `Keeping`: of the views it has been through a replica has the
aggregate, and it is the one proposed.  `Queued`: the slot of a proposer in
`agg_queue` has the aggregate of its last view that lies `nmajority` views
back.  Leaving view `v` puts the aggregate of view `v + 1 - nmajority` in its
proposer's slot, and the other slots stay right because within `n` views a
replica has one turn (`OneTurn`, from the uniqueness of quotient and
remainder).  In view `v` the slot of `v`'s proposer then has the aggregate of
view `v - n` because `1 <= nmajority <= n`.

`AggregateProofs`, which extends it, from the same assumptions:

- `AggregateReady`: `Spec => []AggregateInTime`.
- `TypeCorrect`: `Spec => []TypeOK`.

The transcripts for a view of `d` are dealt in one turn of `n` views, and `d`'s
own is dealt last (`OwnLast`, unless the view is `Excused`).  What has been dealt
(`HasDealt`: on entering a view, or on a command for view 1) is counted, not needed
any more, or on its way to `d` (`Dealt`).  A view is left with messages of a
majority of the replicas, and the messages of one sender come in order, so that
when `d` leaves the view before, the transcripts of that majority have been heard
(`Heard`) and those dealt in the views before it are counted (`Counted`): enough
others for the count to be completed by a received transcript, which alone sets
off the aggregation (`consensus.cpp:700`).  One of that majority may be the
replica that deals for this view in view 1.  If its command had not come by view
`n - 2` that is an excuse (`TooLate`), and so is `d`'s own haste (`LeftInHaste`);
an excuse once true stays so (`ExcusedStays`), and `MissingExcused` carries it to
the proposal.  The inductive invariant is `ReadyInv`, that is `PipelineInv`,
`DealInv` and `MissingExcused`.  `TypeCorrect` needs `Few`, that a list has
room for the own transcript until it is dealt, because `on_enter_view` adds it
without asking (`:912`).

The second half of `AggregateProofs`:

- `DealersDiffer`: `Spec => []DistinctDealers`.

A replica deals for different views in different views (`DealsOnce`), and one
without a second command deals in each once (`RegularOnce`).  So when something of
such a replica is counted for a view, it is counted once and nothing more of it
comes for that view (`Single`).  So all properties of the run
`beacon_pipeline` hold for every number of replicas from three on, and for all
`Commands` and `Hasty` that `PipelineAssumption` admits.

Only model-checked.  Liveness (`Progress`, `Totality`, `GateOpens`): tlapm does not prove
it.  `Agreement` when a client command comes late, which the run `late_command`
checks and `CommitsAgree` excludes: `Ancestors` is then a tree, no closed form
describes it, and what is missing is an argument why the second block of a view
is never acked by enough replicas.


## 5. Plan

Modules, in order:

1. *(done)* `Thresholds`, `OptRandCore`.
2. *(done)* `EchoDispersal`.
3. *(done)* `BlockFetch`.
4. *(done)* `BeaconPipeline`.
5. *(done)* `BeaconChain`, with the refinement from `OptRandCore`.

6. *(done)* the proofs of section 4.

Theorems left: `Agreement` with late commands, from three replicas on, where
`CertificatesAgree` says that there is one certified block of a height.


## 6. Not modelled

The pacemaker's beat queue is left out because it never holds anything (see
*Abstractions*).  The execution of commands is left out because there is none:
`do_decide` has no caller, the line in `check_commit` that would call it being
commented out (`consensus.cpp:139`), so that clients hear only of commands they
repeat.  Erasure decoding is sizes and padding around calls into jerasure.
The worker threads of the verification pool delay a message, which every
module allows.

Key generation, configuration scripts, TLS set-up, the client load generator
and statistics (sequential I/O); libff, ate-pairing, secp256k1, jerasure,
salticidae (third party); the algebra of the PVSS scheme; `prune`,
`on_commit_timeout`, `on_viewtrans_timeout`, `Blame`, and the dummy pacemakers
(no caller in this configuration); Byzantine replicas.
